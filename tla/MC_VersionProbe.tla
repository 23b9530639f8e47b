-------------------------- MODULE MC_VersionProbe --------------------------
(* Small instance of VersionProbe: output of up to three characters over  *)
(* a prefix letter, a version letter, a space and a line break.           *)
EXTENDS VersionProbe

CONSTANTS NoneVal

MC_Chars == {"p", "v", " ", "\n"}
MC_WS == {" ", "\n"}
MC_NL == "\n"
MC_Outputs == BoundedSeq(MC_Chars, 3)
(* None, a one-letter prefix and a prefix ending in whitespace.           *)
MC_Prefixes == {NoneVal, <<"p">>, <<"p", " ">>}
(* The same with the empty prefix "" added.                               *)
MC_PrefixesEmpty == MC_Prefixes \cup {<<>>}
MC_ReturnCodes == {0, 1}
=============================================================================
