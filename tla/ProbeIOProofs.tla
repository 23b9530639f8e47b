---------------------------- MODULE ProbeIOProofs ----------------------------
(***************************************************************************)
(* Proofs about the I/O of the version probe: type correctness, and that  *)
(* communicate() returns only with every chunk the tool wrote, for every  *)
(* pipe capacity and every tool program.                                   *)
(***************************************************************************)
EXTENDS ProbeIO, TLAPS

USE ProgramsAssumption, CapAssumption

(***************************************************************************)
(* Chunks are conserved: each one written is in its pipe or has been read;*)
(* a tool that has exited has nothing left to write; the call returns     *)
(* only after the tool exited and both pipes are drained.                 *)
(***************************************************************************)
IInv ==
  /\ TypeOK
  /\ \A s \in Streams : written[s] = got[s] + pipe[s]
  /\ exited => prog = <<>>
  /\ returned => exited /\ \A s \in Streams : pipe[s] = 0

LEMMA InitIInv == Init => IInv
<1> SUFFICES ASSUME Init PROVE IInv
  OBVIOUS
<1>1. prog \in Seq(Streams)
  BY ProgramsAssumption DEF Init
<1>2. pipe \in [Streams -> 0..Cap] /\ got \in [Streams -> Nat]
      /\ written \in [Streams -> Nat]
  BY DEF Init
<1>3. \A s \in Streams : written[s] = got[s] + pipe[s]
  BY DEF Init
<1>4. QED
  BY <1>1, <1>2, <1>3 DEF Init, IInv, TypeOK

LEMMA WriteStep ==
  ASSUME IInv, ToolWrite PROVE IInv'
<1> DEFINE s == Head(prog)
<1>1. prog # <<>> /\ prog \in Seq(Streams)
  BY DEF ToolWrite, CanWrite, IInv, TypeOK
<1>2. s \in Streams /\ Tail(prog) \in Seq(Streams)
  BY <1>1
<1>3. ~exited /\ ~returned
  BY <1>1 DEF IInv
<1>4. pipe[s] \in 0..(Cap - 1) /\ written[s] \in Nat
  BY <1>2 DEF ToolWrite, CanWrite, IInv, TypeOK
<1>5. /\ pipe' = [pipe EXCEPT ![s] = pipe[s] + 1]
      /\ written' = [written EXCEPT ![s] = written[s] + 1]
      /\ got' = got
  BY DEF ToolWrite
<1>6. pipe[s] + 1 \in 0..Cap /\ written[s] + 1 \in Nat
  BY <1>4
<1>7. pipe' \in [Streams -> 0..Cap]
  BY <1>2, <1>5, <1>6 DEF IInv, TypeOK
<1>8. written' \in [Streams -> Nat]
  BY <1>2, <1>5, <1>6 DEF IInv, TypeOK
<1>9. \A t \in Streams : written'[t] = got'[t] + pipe'[t]
  BY <1>2, <1>4, <1>5 DEF IInv, TypeOK, Streams
<1>10. QED
  BY <1>2, <1>3, <1>7, <1>8, <1>9 DEF ToolWrite, CanWrite, IInv, TypeOK

LEMMA ExitStep ==
  ASSUME IInv, ToolExit PROVE IInv'
BY DEF ToolExit, CanExit, IInv, TypeOK

LEMMA ReadStep ==
  ASSUME IInv, NEW s \in Streams, Read(s) PROVE IInv'
<1>1. pipe[s] \in 1..Cap /\ got[s] \in Nat
  BY DEF Read, CanRead, IInv, TypeOK
<1>2. pipe' \in [Streams -> 0..Cap] /\ got' \in [Streams -> Nat]
  BY <1>1 DEF Read, CanRead, IInv, TypeOK
<1>3. \A t \in Streams : written'[t] = got'[t] + pipe'[t]
  BY <1>1 DEF Read, CanRead, IInv, TypeOK
<1>4. QED
  BY <1>2, <1>3 DEF Read, CanRead, IInv, TypeOK

LEMMA ReturnStep ==
  ASSUME IInv, Return PROVE IInv'
<1>1. exited /\ \A s \in Streams : pipe[s] = 0
  BY DEF Return, CanReturn, AtEOF, Streams
<1>2. QED
  BY <1>1 DEF Return, IInv, TypeOK

LEMMA NextIInv == IInv /\ [Next]_vars => IInv'
<1> SUFFICES ASSUME IInv, [Next]_vars PROVE IInv'
  OBVIOUS
<1>1. CASE ToolWrite
  BY <1>1, WriteStep
<1>2. CASE ToolExit
  BY <1>2, ExitStep
<1>3. CASE \E s \in Streams : Read(s)
  BY <1>3, ReadStep
<1>4. CASE Return
  BY <1>4, ReturnStep
<1>5. CASE UNCHANGED vars
  BY <1>5 DEF vars, IInv, TypeOK
<1>6. QED
  BY <1>1, <1>2, <1>3, <1>4, <1>5 DEF Next, Tool, Communicate

(* Every reachable state of the probe's I/O is well typed.                *)
THEOREM TypeCorrect == Spec => []TypeOK
<1>1. Spec => []IInv
  BY InitIInv, NextIInv, PTL DEF Spec
<1>2. QED
  BY <1>1, PTL DEF IInv

(***************************************************************************)
(* communicate() never returns with a chunk unread: when the probe parses *)
(* the output it is everything the tool wrote to each stream.             *)
(***************************************************************************)
THEOREM CapturedAllInvariant == Spec => []CapturedAll
<1>1. Spec => []IInv
  BY InitIInv, NextIInv, PTL DEF Spec
<1>2. IInv => CapturedAll
  BY DEF IInv, CapturedAll, TypeOK
<1>3. QED
  BY <1>1, <1>2, PTL

-----------------------------------------------------------------------------
(***************************************************************************)
(* Refinement of ProbeCall: the mapped result stays at Nothing until the *)
(* call returns.                                                          *)
(***************************************************************************)

LEMMA InitAbs == Init => Abs!Init
BY DEF Init, Abs!Init, Abs!Nothing

(* A write is the abstract tool's Emit of the same stream.               *)
LEMMA WriteAbs == ASSUME IInv, ToolWrite PROVE Abs!Emit(Head(prog))
<1>1. ~exited /\ ~returned
  BY DEF ToolWrite, CanWrite, IInv
<1>2. written' = [written EXCEPT ![Head(prog)] = written[Head(prog)] + 1]
  BY DEF ToolWrite
<1>3. returned' = returned /\ got' = got /\ exited' = exited
  BY DEF ToolWrite
<1>4. QED
  BY <1>1, <1>2, <1>3 DEF Abs!Emit

LEMMA ExitAbs == ASSUME ToolExit PROVE Abs!Finish
BY DEF ToolExit, CanExit, Abs!Finish

(* A read changes only the pipes and what has been read so far: before   *)
(* the call returns, neither is visible in the abstract state.           *)
LEMMA ReadAbs ==
  ASSUME NEW s \in Streams, Read(s) PROVE UNCHANGED Abs!vars
<1>1. ~returned /\ ~returned'
  BY DEF Read, CanRead
<1>2. QED
  BY <1>1 DEF Read, Abs!vars

(* Return hands back the whole output: conservation with empty pipes.    *)
LEMMA ReturnAbs == ASSUME IInv, Return PROVE Abs!Return
<1>1. exited /\ ~returned /\ \A s \in Streams : pipe[s] = 0
  BY DEF Return, CanReturn, AtEOF, Streams
<1>2. got = written
  <2>1. \A s \in Streams : written[s] = got[s]
    BY <1>1 DEF IInv, TypeOK, Streams
  <2>2. QED
    BY <2>1 DEF IInv, TypeOK
<1>3. returned' /\ got' = got /\ written' = written /\ exited' = exited
  BY DEF Return
<1>4. QED
  BY <1>1, <1>2, <1>3 DEF Abs!Return

LEMMA StepAbs == IInv /\ [Next]_vars => [Abs!Next]_Abs!vars
<1> SUFFICES ASSUME IInv, [Next]_vars PROVE [Abs!Next]_Abs!vars
  OBVIOUS
<1>1. CASE ToolWrite
  <2>1. Head(prog) \in Streams
    BY <1>1 DEF ToolWrite, CanWrite, IInv, TypeOK
  <2>2. QED
    BY <1>1, <2>1, WriteAbs DEF Abs!Next
<1>2. CASE ToolExit
  BY <1>2, ExitAbs DEF Abs!Next
<1>3. CASE \E s \in Streams : Read(s)
  BY <1>3, ReadAbs
<1>4. CASE Return
  BY <1>4, ReturnAbs DEF Abs!Next
<1>5. CASE UNCHANGED vars
  BY <1>5 DEF vars, Abs!vars
<1>6. QED
  BY <1>1, <1>2, <1>3, <1>4, <1>5 DEF Next, Tool, Communicate

(***************************************************************************)
(* The safety part of AbsSpec: communicate() returns only after the tool *)
(* has exited, and then with exactly what the tool wrote to each stream; *)
(* every other step is a step of the abstract tool or invisible.         *)
(***************************************************************************)
THEOREM RefinesProbeCall == Spec => Abs!SafetySpec
<1>1. Spec => []IInv
  BY InitIInv, NextIInv, PTL DEF Spec
<1>2. QED
  BY <1>1, InitAbs, StepAbs, PTL DEF Spec, Abs!SafetySpec
-----------------------------------------------------------------------------
(***************************************************************************)
(* The safety fact ReturnsUnlessHung rests on.  With it, and weak        *)
(* fairness of the tool and of communicate(), the call returns; that      *)
(* temporal step needs ENABLED and is left to TLC.                        *)
(***************************************************************************)

(***************************************************************************)
(* The tool and the select loop never wait on each other: in every state  *)
(* reached, unless the tool hangs or the call has returned, some action   *)
(* of one of them can be taken.                                           *)
(***************************************************************************)
LEMMA IInvNeverStuck == IInv => NeverStuck
<1> SUFFICES ASSUME IInv, ~hangs, ~returned
             PROVE  CanWrite \/ CanExit \/ (\E s \in Streams : CanRead(s))
                    \/ CanReturn
  BY DEF NeverStuck
<1>1. CASE prog # <<>>
  <2> DEFINE h == Head(prog)
  <2>1. h \in Streams /\ pipe[h] \in 0..Cap
    BY <1>1 DEF IInv, TypeOK
  <2>2. CASE pipe[h] < Cap
    BY <1>1, <2>2 DEF CanWrite
  <2>3. CASE pipe[h] = Cap
    <3>1. CanRead(h)
      BY <2>3, CapAssumption DEF CanRead
    <3>2. QED
      BY <2>1, <3>1
  <2>4. QED
    BY <2>1, <2>2, <2>3
<1>2. CASE prog = <<>> /\ ~exited
  BY <1>2 DEF CanExit
<1>3. CASE exited /\ \E s \in Streams : pipe[s] > 0
  BY <1>3 DEF CanRead
<1>4. CASE exited /\ \A s \in Streams : pipe[s] = 0
  BY <1>4 DEF CanReturn, AtEOF
<1>5. QED
  <2>1. \A s \in Streams : pipe[s] \in Nat
    BY DEF IInv, TypeOK
  <2>2. QED
    BY <1>1, <1>2, <1>3, <1>4, <2>1 DEF IInv

(* The probe and the tool never wait on each other (template.py line 124).*)
THEOREM NeverStuckInvariant == Spec => []NeverStuck
<1>1. Spec => []IInv
  BY InitIInv, NextIInv, PTL DEF Spec
<1>2. QED
  BY <1>1, IInvNeverStuck, PTL
=============================================================================
