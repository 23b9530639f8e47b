----------------------------- MODULE TaskProofs -----------------------------
(***************************************************************************)
(* Proofs about Task: type correctness, the isolation invariant of the    *)
(* defensive copy, and the action property TaskFrozen, for all values of  *)
(* the constants.                                                          *)
(***************************************************************************)
EXTENDS Task, TLAPS

USE IdentsAssumption, FileListsAssumption, NoneAssumption,
    MaxTasksAssumption, NoneNotAddr

(* The arguments the constructor actions of Next are called with.         *)
Args(files, id, prop, opt) ==
  /\ files \in Seq(Path)
  /\ id \in Idents \cup {None}
  /\ prop \in PropFiles \cup {None}
  /\ opt \in callerD \cup {None}

-----------------------------------------------------------------------------
(* Type correctness.                                                      *)

LEMMA InitTypeOK == Init => TypeOK
BY DEF Init, TypeOK

LEMMA CallerTypeOK ==
  ASSUME TypeOK,
         \/ \E v \in OptVal : CallerNewCell(v)
         \/ \E m \in [OptKey -> callerC] : CallerNewDict(m)
         \/ \E d \in callerD, k \in OptKey, c \in callerC : CallerSetKey(d, k, c)
         \/ \E c \in callerC, v \in OptVal : CallerSetCell(c, v)
         \/ \E s \in FileLists : CallerSetFiles(s)
  PROVE  TypeOK'
<1>1. CASE \E v \in OptVal : CallerNewCell(v)
  BY <1>1 DEF TypeOK, CallerNewCell
<1>2. CASE \E m \in [OptKey -> callerC] : CallerNewDict(m)
  <2>1. PICK m \in [OptKey -> callerC], d \in DAddr \ usedD :
               /\ dicts' = [dicts EXCEPT ![d] = m]
               /\ usedD' = usedD \cup {d}
               /\ callerD' = callerD \cup {d}
               /\ UNCHANGED <<cells, usedC, callerC, srcFiles, tasks, raised>>
    BY <1>2 DEF CallerNewDict
  <2>2. \A d2 \in usedD' : Range(dicts'[d2]) \subseteq usedC'
    BY <2>1 DEF TypeOK, Range
  <2>3. QED
    BY <2>1, <2>2 DEF TypeOK
<1>3. CASE \E d \in callerD, k \in OptKey, c \in callerC : CallerSetKey(d, k, c)
  <2>1. PICK d \in callerD, k \in OptKey, c \in callerC : CallerSetKey(d, k, c)
    BY <1>3
  <2>2. \A d2 \in usedD' : Range(dicts'[d2]) \subseteq usedC'
    BY <2>1 DEF TypeOK, CallerSetKey, Range
  <2>3. QED
    BY <2>1, <2>2 DEF TypeOK, CallerSetKey
<1>4. CASE \E c \in callerC, v \in OptVal : CallerSetCell(c, v)
  BY <1>4 DEF TypeOK, CallerSetCell
<1>5. CASE \E s \in FileLists : CallerSetFiles(s)
  BY <1>5 DEF TypeOK, CallerSetFiles, heap
<1>6. QED
  BY <1>1, <1>2, <1>3, <1>4, <1>5

(* The record stored by New is a TaskRec once its options are set.        *)
LEMMA StoreTypeOK ==
  ASSUME TypeOK, NEW files \in Seq(Path), NEW id \in Idents \cup {None},
         NEW prop \in PropFiles \cup {None}, NEW opt \in callerD \cup {None},
         Len(tasks) < MaxTasks,
         DeepCopyAndStore([files |-> files, identifier |-> id,
                           property_file |-> prop, options |-> None], opt),
         UNCHANGED srcFiles,
         raised' = None
  PROVE  TypeOK'
<1> DEFINE rec == [files |-> files, identifier |-> id,
                   property_file |-> prop, options |-> None]
<1>1. CASE opt = None
  <2>1. tasks' = Append(tasks, rec) /\ UNCHANGED heap
    BY <1>1 DEF DeepCopyAndStore
  <2>2. rec \in TaskRec
    BY DEF TaskRec
  <2>3. QED
    BY <2>1, <2>2 DEF TypeOK, heap
<1>2. CASE opt # None
  <2>1. PICK nd \in DAddr \ usedD,
             f \in Injection(Range(dicts[opt]), CAddr \ usedC) :
          /\ dicts' = [dicts EXCEPT ![nd] = [k \in OptKey |-> f[dicts[opt][k]]]]
          /\ cells' = CopiedCells(f)
          /\ usedD' = usedD \cup {nd}
          /\ usedC' = usedC \cup Range(f)
          /\ tasks' = Append(tasks, [rec EXCEPT !.options = nd])
          /\ UNCHANGED <<callerD, callerC>>
    BY <1>2 DEF DeepCopyAndStore
  <2>2. f \in [Range(dicts[opt]) -> CAddr \ usedC]
    BY <2>1 DEF Injection
  <2>3. \A k \in OptKey : f[dicts[opt][k]] \in CAddr
    BY <2>2, <1>2 DEF Range, TypeOK
  <2>4. Range(f) \subseteq CAddr
    BY <2>2 DEF Range
  <2>5. CopiedCells(f) \in [CAddr -> OptVal \cup {None}]
    <3>1. \A c \in Range(f) : (CHOOSE o \in DOMAIN f : f[o] = c) \in CAddr
      <4> SUFFICES ASSUME NEW c \in Range(f)
                   PROVE  (CHOOSE o \in DOMAIN f : f[o] = c) \in CAddr
        OBVIOUS
      <4>1. \E o \in DOMAIN f : f[o] = c
        BY DEF Range
      <4>2. DOMAIN f = Range(dicts[opt])
        BY <2>2
      <4>3. Range(dicts[opt]) \subseteq CAddr
        BY <1>2 DEF TypeOK
      <4>4. QED
        BY <4>1, <4>2, <4>3, Zenon
    <3>2. QED
      BY <3>1 DEF CopiedCells, TypeOK
  <2>6. [rec EXCEPT !.options = nd] \in TaskRec
    BY DEF TaskRec
  <2>7. \A d2 \in usedD' : Range(dicts'[d2]) \subseteq usedC'
    <3>1. Range(dicts'[nd]) \subseteq Range(f)
      <4>1. dicts'[nd] = [k \in OptKey |-> f[dicts[opt][k]]]
        BY <2>1 DEF TypeOK
      <4>2. \A k \in OptKey : dicts[opt][k] \in DOMAIN f
        BY <2>2, <1>2 DEF Range, TypeOK
      <4>3. QED
        BY <4>1, <4>2 DEF Range
    <3>2. \A d2 \in usedD : dicts'[d2] = dicts[d2]
      BY <2>1
    <3>3. QED
      BY <2>1, <3>1, <3>2 DEF TypeOK
  <2>8. QED
    BY <2>1, <2>3, <2>4, <2>5, <2>6, <2>7 DEF TypeOK
<1>3. QED
  BY <1>1, <1>2

LEMMA NewTypeOK ==
  ASSUME TypeOK, NEW files, NEW id, NEW prop, NEW opt,
         Args(files, id, prop, opt), New(files, id, prop, opt)
  PROVE  TypeOK'
<1>1. CASE ~NewAllowed(files, id)
  BY <1>1 DEF New, TypeOK, heap, NewAllowed, AssertionError
<1>2. CASE NewAllowed(files, id)
  BY <1>2, StoreTypeOK DEF New, Args
<1>3. QED
  BY <1>1, <1>2

LEMMA NextTypeOK == TypeOK /\ [Next]_vars => TypeOK'
<1> SUFFICES ASSUME TypeOK, [Next]_vars PROVE TypeOK'
  OBVIOUS
<1>1. CASE \E prop \in PropFiles \cup {None}, opt \in callerD \cup {None} :
             \/ WithFiles(prop, opt)
             \/ \E id \in Idents : WithoutFiles(id, prop, opt)
             \/ \E id \in Idents : New(srcFiles, id, prop, opt)
  <2>1. PICK prop \in PropFiles \cup {None}, opt \in callerD \cup {None} :
             \/ WithFiles(prop, opt)
             \/ \E id \in Idents : WithoutFiles(id, prop, opt)
             \/ \E id \in Idents : New(srcFiles, id, prop, opt)
    BY <1>1
  <2>2. srcFiles \in Seq(Path) /\ <<>> \in Seq(Path)
    BY DEF TypeOK
  <2>3. CASE WithFiles(prop, opt)
    BY <2>2, <2>3, NewTypeOK DEF WithFiles, Args
  <2>4. CASE \E id \in Idents : WithoutFiles(id, prop, opt)
    BY <2>2, <2>4, NewTypeOK DEF WithoutFiles, Args
  <2>5. CASE \E id \in Idents : New(srcFiles, id, prop, opt)
    BY <2>2, <2>5, NewTypeOK DEF Args
  <2>6. QED
    BY <2>1, <2>3, <2>4, <2>5
<1>2. CASE UNCHANGED vars
  BY <1>2 DEF TypeOK, vars
<1>3. QED
  BY <1>1, <1>2, CallerTypeOK DEF Next

(* Every reachable state is well typed.                                   *)
THEOREM TypeCorrect == Spec => []TypeOK
BY InitTypeOK, NextTypeOK, PTL DEF Spec

-----------------------------------------------------------------------------
(* Isolation of the defensive copy, and TaskFrozen.                       *)

IInv == TypeOK /\ Isolated

(* What a step leaves alone of the constructed tasks and their objects.   *)
Frame ==
  /\ Len(tasks') >= Len(tasks)
  /\ \A i \in 1..Len(tasks) : tasks'[i] = tasks[i]
  /\ \A a \in TaskDicts : dicts'[a] = dicts[a]
  /\ \A c \in TaskCells : cells'[c] = cells[c]

(* Appending a task adds its options dict, if any, to TaskDicts.          *)
LEMMA AppendTaskDicts ==
  ASSUME tasks \in Seq(TaskRec), NEW r \in TaskRec,
         tasks' = Append(tasks, r)
  PROVE  TaskDicts' = TaskDicts \cup ({r.options} \ {None})
<1>1. {tasks'[i].options : i \in 1..Len(tasks')}
        = {tasks[i].options : i \in 1..Len(tasks)} \cup {r.options}
  BY DEF TaskRec
<1>2. QED
  BY <1>1 DEF TaskDicts

(* Steps that leave tasks and dicts alone keep TaskDicts and TaskCells.   *)
LEMMA SameTaskObjects ==
  ASSUME UNCHANGED tasks, \A a \in TaskDicts : dicts'[a] = dicts[a]
  PROVE  TaskDicts' = TaskDicts /\ TaskCells' = TaskCells
BY DEF TaskDicts, TaskCells

(* A step that keeps the task objects as they were keeps every task value.*)
LEMMA FrameUnchanged ==
  ASSUME TypeOK, Frame
  PROVE  TaskUnchangedStep
<1> SUFFICES ASSUME NEW i \in 1..Len(tasks)
             PROVE  TaskValueOf(i)' = TaskValueOf(i)
  BY DEF Frame, TaskUnchangedStep
<1>1. tasks'[i] = tasks[i]
  BY DEF Frame
<1>2. tasks[i] \in TaskRec
  BY DEF TypeOK
<1>3. CASE tasks[i].options = None
  BY <1>1, <1>3 DEF TaskValueOf, OptView
<1>4. CASE tasks[i].options # None
  <2> DEFINE a == tasks[i].options
  <2>1. a \in TaskDicts
    BY <1>4 DEF TaskDicts
  <2>2. dicts'[a] = dicts[a]
    BY <2>1 DEF Frame
  <2>3. \A k \in OptKey : dicts[a][k] \in TaskCells
    <3>1. a \in DAddr
      BY <1>2, <1>4 DEF TaskRec
    <3>2. QED
      BY <2>1, <3>1 DEF TaskCells, Range, TypeOK
  <2>4. \A k \in OptKey : cells'[dicts[a][k]] = cells[dicts[a][k]]
    BY <2>3 DEF Frame
  <2>5. QED
    BY <1>1, <1>4, <2>2, <2>4 DEF TaskValueOf, OptView
<1>5. QED
  BY <1>3, <1>4

LEMMA InitIInv == Init => IInv
<1> SUFFICES ASSUME Init PROVE IInv
  OBVIOUS
<1>1. TaskDicts = {}
  BY DEF Init, TaskDicts
<1>2. QED
  BY <1>1, InitTypeOK DEF IInv, Isolated, TaskCells, Init

LEMMA CallerNewCellStep ==
  ASSUME IInv, NEW v \in OptVal, CallerNewCell(v)
  PROVE  Isolated' /\ Frame
<1>1. PICK c \in CAddr \ usedC :
             /\ cells' = [cells EXCEPT ![c] = v]
             /\ usedC' = usedC \cup {c}
             /\ callerC' = callerC \cup {c}
             /\ UNCHANGED <<dicts, usedD, callerD, srcFiles, tasks, raised>>
  BY DEF CallerNewCell
<1>2. TaskDicts' = TaskDicts /\ TaskCells' = TaskCells
  BY <1>1, SameTaskObjects
<1>3. c \notin TaskCells
  BY <1>1 DEF IInv, Isolated
<1>4. Isolated'
  BY <1>1, <1>2 DEF IInv, Isolated, TypeOK
<1>5. Frame
  BY <1>1, <1>3 DEF Frame, IInv, TypeOK
<1>6. QED
  BY <1>4, <1>5

LEMMA CallerNewDictStep ==
  ASSUME IInv, NEW m \in [OptKey -> callerC], CallerNewDict(m)
  PROVE  Isolated' /\ Frame
<1>1. PICK d \in DAddr \ usedD :
             /\ dicts' = [dicts EXCEPT ![d] = m]
             /\ usedD' = usedD \cup {d}
             /\ callerD' = callerD \cup {d}
             /\ UNCHANGED <<cells, usedC, callerC, srcFiles, tasks, raised>>
  BY DEF CallerNewDict
<1>2. d \notin TaskDicts
  BY <1>1 DEF IInv, Isolated
<1>3. \A a \in TaskDicts : dicts'[a] = dicts[a]
  BY <1>1, <1>2
<1>4. TaskDicts' = TaskDicts /\ TaskCells' = TaskCells
  BY <1>1, <1>3, SameTaskObjects
<1>5. Range(dicts'[d]) \subseteq callerC'
  BY <1>1 DEF Range, IInv, TypeOK
<1>6. \A d2 \in callerD : dicts'[d2] = dicts[d2]
  BY <1>1 DEF IInv, TypeOK
<1>7. Isolated'
  BY <1>1, <1>4, <1>5, <1>6 DEF IInv, Isolated, TypeOK
<1>8. Frame
  BY <1>1, <1>3 DEF Frame
<1>9. QED
  BY <1>7, <1>8

LEMMA CallerSetKeyStep ==
  ASSUME IInv, NEW d \in callerD, NEW k \in OptKey, NEW c \in callerC,
         CallerSetKey(d, k, c)
  PROVE  Isolated' /\ Frame
<1>1. d \notin TaskDicts
  BY DEF IInv, Isolated
<1>2. \A a \in TaskDicts : dicts'[a] = dicts[a]
  BY <1>1 DEF CallerSetKey
<1>3. TaskDicts' = TaskDicts /\ TaskCells' = TaskCells
  BY <1>2, SameTaskObjects DEF CallerSetKey
<1>4. Range(dicts'[d]) \subseteq callerC
  BY DEF CallerSetKey, Range, IInv, Isolated, TypeOK
<1>5. Isolated'
  BY <1>3, <1>4 DEF CallerSetKey, IInv, Isolated, TypeOK
<1>6. Frame
  BY <1>2 DEF CallerSetKey, Frame
<1>7. QED
  BY <1>5, <1>6

LEMMA CallerSetCellStep ==
  ASSUME IInv, NEW c \in callerC, NEW v \in OptVal, CallerSetCell(c, v)
  PROVE  Isolated' /\ Frame
<1>1. TaskDicts' = TaskDicts /\ TaskCells' = TaskCells
  BY SameTaskObjects DEF CallerSetCell
<1>2. c \notin TaskCells
  BY DEF IInv, Isolated
<1>3. Isolated'
  BY <1>1 DEF CallerSetCell, IInv, Isolated
<1>4. Frame
  BY <1>2 DEF CallerSetCell, Frame, IInv, TypeOK
<1>5. QED
  BY <1>3, <1>4

LEMMA CallerSetFilesStep ==
  ASSUME IInv, NEW f \in FileLists, CallerSetFiles(f)
  PROVE  Isolated' /\ Frame
<1>1. TaskDicts' = TaskDicts /\ TaskCells' = TaskCells
  BY SameTaskObjects DEF CallerSetFiles, heap
<1>2. QED
  BY <1>1 DEF CallerSetFiles, heap, IInv, Isolated, Frame

LEMMA StoreStep ==
  ASSUME IInv, NEW files \in Seq(Path), NEW id \in Idents \cup {None},
         NEW prop \in PropFiles \cup {None}, NEW opt \in callerD \cup {None},
         DeepCopyAndStore([files |-> files, identifier |-> id,
                           property_file |-> prop, options |-> None], opt)
  PROVE  Isolated' /\ Frame
<1> DEFINE rec == [files |-> files, identifier |-> id,
                   property_file |-> prop, options |-> None]
<1>1. CASE opt = None
  <2>1. tasks' = Append(tasks, rec) /\ UNCHANGED heap
    BY <1>1 DEF DeepCopyAndStore
  <2>2. rec \in TaskRec
    BY DEF TaskRec
  <2>3. TaskDicts' = TaskDicts
    <3>1. TaskDicts' = TaskDicts \cup ({rec.options} \ {None})
      BY <2>1, <2>2, AppendTaskDicts DEF IInv, TypeOK
    <3>2. QED
      BY <3>1
  <2>4. TaskCells' = TaskCells
    BY <2>1, <2>3 DEF TaskCells, heap
  <2>5. QED
    BY <2>1, <2>3, <2>4 DEF IInv, Isolated, Frame, heap, TypeOK
<1>2. CASE opt # None
  <2>1. PICK nd \in DAddr \ usedD,
             f \in Injection(Range(dicts[opt]), CAddr \ usedC) :
          /\ dicts' = [dicts EXCEPT ![nd] = [k \in OptKey |-> f[dicts[opt][k]]]]
          /\ cells' = CopiedCells(f)
          /\ usedD' = usedD \cup {nd}
          /\ usedC' = usedC \cup Range(f)
          /\ tasks' = Append(tasks, [rec EXCEPT !.options = nd])
          /\ UNCHANGED <<callerD, callerC>>
    BY <1>2 DEF DeepCopyAndStore
  <2>2. f \in [Range(dicts[opt]) -> CAddr \ usedC]
    BY <2>1 DEF Injection
  <2>3. Range(f) \cap usedC = {}
    BY <2>2 DEF Range
  <2>4. [rec EXCEPT !.options = nd] \in TaskRec
    BY DEF TaskRec
  <2>5. TaskDicts' = TaskDicts \cup {nd}
    BY <2>1, <2>4, AppendTaskDicts, NoneNotAddr DEF IInv, TypeOK
  <2>6. nd \notin TaskDicts /\ nd \notin callerD
    BY DEF IInv, Isolated, TypeOK
  <2>7. \A a \in TaskDicts \cup callerD : dicts'[a] = dicts[a]
    BY <2>1, <2>6
  <2>8. Range(dicts'[nd]) \subseteq Range(f)
    <3>1. dicts'[nd] = [k \in OptKey |-> f[dicts[opt][k]]]
      BY <2>1 DEF IInv, TypeOK
    <3>2. \A k \in OptKey : dicts[opt][k] \in DOMAIN f
      BY <2>2, <1>2 DEF Range, IInv, TypeOK
    <3>3. QED
      BY <3>1, <3>2 DEF Range
  <2>9. TaskCells' \subseteq TaskCells \cup Range(f)
    BY <2>5, <2>7, <2>8 DEF TaskCells
  <2>10. \A c \in usedC : cells'[c] = cells[c]
    BY <2>1, <2>3 DEF CopiedCells, IInv, TypeOK
  <2>11. TaskCells \subseteq usedC
    BY DEF IInv, Isolated
  <2>12. Isolated'
    BY <2>1, <2>3, <2>5, <2>6, <2>7, <2>9 DEF IInv, Isolated, TypeOK
  <2>13. Frame
    BY <2>1, <2>7, <2>10, <2>11 DEF Frame, IInv, TypeOK
  <2>14. QED
    BY <2>12, <2>13
<1>3. QED
  BY <1>1, <1>2

LEMMA NewStep ==
  ASSUME IInv, NEW files, NEW id, NEW prop, NEW opt,
         Args(files, id, prop, opt), New(files, id, prop, opt)
  PROVE  Isolated' /\ Frame
<1>1. CASE ~NewAllowed(files, id)
  <2>1. UNCHANGED <<heap, tasks>>
    BY <1>1 DEF New, NewAllowed
  <2>2. TaskDicts' = TaskDicts /\ TaskCells' = TaskCells
    BY <2>1, SameTaskObjects DEF heap
  <2>3. QED
    BY <2>1, <2>2 DEF heap, IInv, Isolated, Frame
<1>2. CASE NewAllowed(files, id)
  BY <1>2, StoreStep DEF New, Args
<1>3. QED
  BY <1>1, <1>2

(* Every step of Next, and every stuttering step, keeps Isolated and the  *)
(* task objects.                                                           *)
LEMMA NextStep == IInv /\ [Next]_vars => Isolated' /\ Frame
<1> SUFFICES ASSUME IInv, [Next]_vars PROVE Isolated' /\ Frame
  OBVIOUS
<1>1. CASE \E v \in OptVal : CallerNewCell(v)
  BY <1>1, CallerNewCellStep
<1>2. CASE \E m \in [OptKey -> callerC] : CallerNewDict(m)
  BY <1>2, CallerNewDictStep
<1>3. CASE \E d \in callerD, k \in OptKey, c \in callerC : CallerSetKey(d, k, c)
  BY <1>3, CallerSetKeyStep
<1>4. CASE \E c \in callerC, v \in OptVal : CallerSetCell(c, v)
  BY <1>4, CallerSetCellStep
<1>5. CASE \E f \in FileLists : CallerSetFiles(f)
  BY <1>5, CallerSetFilesStep
<1>6. CASE \E prop \in PropFiles \cup {None}, opt \in callerD \cup {None} :
             \/ WithFiles(prop, opt)
             \/ \E id \in Idents : WithoutFiles(id, prop, opt)
             \/ \E id \in Idents : New(srcFiles, id, prop, opt)
  <2>1. PICK prop \in PropFiles \cup {None}, opt \in callerD \cup {None} :
             \/ WithFiles(prop, opt)
             \/ \E id \in Idents : WithoutFiles(id, prop, opt)
             \/ \E id \in Idents : New(srcFiles, id, prop, opt)
    BY <1>6
  <2>2. srcFiles \in Seq(Path) /\ <<>> \in Seq(Path)
    BY DEF IInv, TypeOK
  <2>3. CASE WithFiles(prop, opt)
    BY <2>2, <2>3, NewStep DEF WithFiles, Args
  <2>4. CASE \E id \in Idents : WithoutFiles(id, prop, opt)
    BY <2>2, <2>4, NewStep DEF WithoutFiles, Args
  <2>5. CASE \E id \in Idents : New(srcFiles, id, prop, opt)
    BY <2>2, <2>5, NewStep DEF Args
  <2>6. QED
    BY <2>1, <2>3, <2>4, <2>5
<1>7. CASE UNCHANGED vars
  <2>1. TaskDicts' = TaskDicts /\ TaskCells' = TaskCells
    BY <1>7, SameTaskObjects DEF vars
  <2>2. QED
    BY <1>7, <2>1 DEF vars, IInv, Isolated, Frame
<1>8. QED
  BY <1>1, <1>2, <1>3, <1>4, <1>5, <1>6, <1>7 DEF Next

LEMMA NextIInv == IInv /\ [Next]_vars => IInv'
BY NextStep, NextTypeOK DEF IInv

(***************************************************************************)
(* The defensive copy isolates every constructed task: in every reachable *)
(* state no dict or cell reachable from a task's options is held by the   *)
(* harness (Task.__new__, copy.deepcopy).                                  *)
(***************************************************************************)
THEOREM IsolatedInvariant == Spec => []Isolated
<1>1. Spec => []IInv
  BY InitIInv, NextIInv, PTL DEF Spec
<1>2. QED
  BY <1>1, PTL DEF IInv

(***************************************************************************)
(* No step of the harness or of the constructor changes a task already    *)
(* constructed, options read as a value included: TaskFrozen for every    *)
(* value of the constants.                                                 *)
(***************************************************************************)
THEOREM TaskFrozenHolds == Spec => TaskFrozen
<1>1. IInv /\ [Next]_vars => [TaskUnchangedStep]_vars
  BY NextStep, FrameUnchanged DEF IInv
<1>2. Spec => []IInv
  BY InitIInv, NextIInv, PTL DEF Spec
<1>3. QED
  BY <1>1, <1>2, PTL DEF Spec, TaskFrozen
=============================================================================
