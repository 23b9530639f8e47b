------------------------------ MODULE MC_ProbeIO ------------------------------
(* Tools writing up to four chunks, pipes of two chunks: a tool can fill  *)
(* one pipe while the other stays empty.                                   *)
EXTENDS ProbeIO, SequencesExt

MC_Programs == BoundedSeq(Streams, 4)
MC_Cap == 2
=============================================================================
