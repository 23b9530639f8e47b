------------------------------ MODULE MC_Task ------------------------------
(* Small instance of Task for TLC.                                        *)
EXTENDS Task, TLC

CONSTANTS p1, p2, pf, k1, k2, v1, v2, d1, d2, d3, c1, c2, c3, c4, c5, NoneVal

MC_Path == {p1, p2}
MC_Chars == {"a", "b"}
(* None, "", a one-character and a two-character identifier.              *)
MC_Idents == {NoneVal, <<>>, <<"a", "b">>}
MC_PropFiles == {}
MC_FileLists == {<<>>, <<p1>>}
MC_OptKey == {k1}
MC_OptVal == {v1, v2}
MC_DAddr == {d1, d2, d3}
MC_CAddr == {c1, c2, c3, c4}
MC_MaxTasks == 2

Symmetry == Permutations(MC_DAddr) \cup Permutations(MC_CAddr)
=============================================================================
