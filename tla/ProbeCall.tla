------------------------------ MODULE ProbeCall ------------------------------
(***************************************************************************)
(* What process.communicate() promises _version_from_tool (template.py,  *)
(* line 124), with no pipes in sight: the tool produces output on each   *)
(* stream until it exits, and the call returns once the tool has exited, *)
(* with everything the tool wrote on each stream.                         *)
(***************************************************************************)
EXTENDS Naturals

CONSTANT Streams   \* stdout and stderr

VARIABLES
  out,       \* out[s]: how much the tool has written to stream s
  done,      \* the tool has exited
  returned,  \* the call has returned
  result     \* result[s]: what the call returned for stream s

vars == <<out, done, returned, result>>

Nothing == [s \in Streams |-> 0]

Init ==
  /\ out = Nothing /\ done = FALSE
  /\ returned = FALSE /\ result = Nothing

(* The tool writes one more piece of output to stream s.                  *)
Emit(s) ==
  /\ ~done
  /\ out' = [out EXCEPT ![s] = @ + 1]
  /\ UNCHANGED <<done, returned, result>>

(* The tool exits.                                                        *)
Finish ==
  /\ ~done
  /\ done' = TRUE
  /\ UNCHANGED <<out, returned, result>>

(* The call returns the tool's whole output, once the tool has exited.   *)
Return ==
  /\ done /\ ~returned
  /\ returned' = TRUE
  /\ result' = out
  /\ UNCHANGED <<out, done>>

Next == (\E s \in Streams : Emit(s)) \/ Finish \/ Return

SafetySpec == Init /\ [][Next]_vars

(* A call whose tool has exited does return.                              *)
Spec == SafetySpec /\ WF_vars(Return)
=============================================================================
