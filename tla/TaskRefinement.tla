---------------------------- MODULE TaskRefinement ----------------------------
(***************************************************************************)
(* Proof that the heap model of Task implements TaskSpec under the        *)
(* refinement mapping of Task.tla: every task, read through the values    *)
(* its fields denote, is appended once, well formed, and never changes.   *)
(***************************************************************************)
EXTENDS TaskProofs

USE IdentsAssumption, FileListsAssumption, NoneAssumption,
    MaxTasksAssumption, NoneNotAddr

(* Every allocated cell holds an option value (none is left None).       *)
CellsHold == \A c \in usedC : cells[c] \in OptVal

RInv == IInv /\ CellsHold

(***************************************************************************)
(* The harness never passes the empty string as an identifier.  Only     *)
(* then does the assertion's truthiness test (line 321) agree with the    *)
(* rule of spec.md: Task(files, "", ...) with files is constructed, which *)
(* the task_identifier_empty run shows.                                   *)
(***************************************************************************)
NoEmptyIdentifier == <<>> \notin Idents

(* The image of the tasks under the refinement mapping.                  *)
AbsTasks == [i \in 1..Len(tasks) |-> TaskValueOf(i)]

LEMMA InitRInv == Init => RInv
BY InitIInv DEF Init, RInv, CellsHold

(* The deep copy fills every fresh cell from an allocated original.       *)
LEMMA CopyCellsHold ==
  ASSUME TypeOK, CellsHold, NEW opt \in usedD,
         NEW f \in [Range(dicts[opt]) -> CAddr \ usedC]
  PROVE  \A c \in usedC \cup Range(f) : CopiedCells(f)[c] \in OptVal
<1> SUFFICES ASSUME NEW c \in usedC \cup Range(f)
             PROVE  CopiedCells(f)[c] \in OptVal
  OBVIOUS
<1>1. CASE c \in Range(f)
  <2>1. \E o \in DOMAIN f : f[o] = c
    BY <1>1 DEF Range
  <2>2. (CHOOSE o \in DOMAIN f : f[o] = c) \in usedC
    BY <2>1, Zenon DEF TypeOK
  <2>3. QED
    BY <1>1, <2>2 DEF CopiedCells, CellsHold, Range, TypeOK
<1>2. CASE c \notin Range(f)
  BY <1>2 DEF CopiedCells, CellsHold, TypeOK
<1>3. QED
  BY <1>1, <1>2

LEMMA NextCellsHold == RInv /\ [Next]_vars => CellsHold'
<1> SUFFICES ASSUME RInv, [Next]_vars PROVE CellsHold'
  OBVIOUS
<1> USE DEF RInv, IInv
<1>1. CASE \E v \in OptVal : CallerNewCell(v)
  BY <1>1 DEF CallerNewCell, CellsHold, TypeOK
<1>2. CASE \E m \in [OptKey -> callerC] : CallerNewDict(m)
  BY <1>2 DEF CallerNewDict, CellsHold
<1>3. CASE \E d \in callerD, k \in OptKey, c \in callerC : CallerSetKey(d, k, c)
  BY <1>3 DEF CallerSetKey, CellsHold
<1>4. CASE \E c \in callerC, v \in OptVal : CallerSetCell(c, v)
  BY <1>4 DEF CallerSetCell, CellsHold, TypeOK
<1>5. CASE \E s \in FileLists : CallerSetFiles(s)
  BY <1>5 DEF CallerSetFiles, CellsHold, heap
<1>6. ASSUME NEW files, NEW id, NEW prop, NEW opt \in callerD \cup {None},
             New(files, id, prop, opt)
      PROVE  CellsHold'
  <2> DEFINE rec == [files |-> files, identifier |-> id,
                     property_file |-> prop, options |-> None]
  <2>1. CASE ~NewAllowed(files, id) \/ opt = None
    BY <1>6, <2>1 DEF New, DeepCopyAndStore, CellsHold, heap
  <2>2. CASE NewAllowed(files, id) /\ opt # None
    <3>1. DeepCopyAndStore(rec, opt)
      BY <1>6, <2>2 DEF New
    <3>2. PICK nd \in DAddr \ usedD,
               f \in Injection(Range(dicts[opt]), CAddr \ usedC) :
            /\ cells' = CopiedCells(f)
            /\ usedC' = usedC \cup Range(f)
      BY <2>2, <3>1 DEF DeepCopyAndStore
    <3>3. f \in [Range(dicts[opt]) -> CAddr \ usedC]
      BY DEF Injection
    <3>4. opt \in usedD
      BY <2>2 DEF TypeOK
    <3>5. QED
      BY <3>2, <3>3, <3>4, CopyCellsHold DEF CellsHold
  <2>3. QED
    BY <2>1, <2>2
<1>7. CASE UNCHANGED vars
  BY <1>7 DEF vars, CellsHold
<1>8. QED
  BY <1>1, <1>2, <1>3, <1>4, <1>5, <1>6, <1>7 DEF Next, WithFiles, WithoutFiles

LEMMA NextRInv == RInv /\ [Next]_vars => RInv'
BY NextIInv, NextCellsHold DEF RInv

-----------------------------------------------------------------------------
(* The image of a step that keeps the task objects and adds no task.     *)
LEMMA StutterAbs ==
  ASSUME TypeOK, Frame, Len(tasks') = Len(tasks)
  PROVE  AbsTasks' = AbsTasks
<1>1. TaskUnchangedStep
  BY FrameUnchanged
<1>2. QED
  BY <1>1 DEF TaskUnchangedStep, AbsTasks

(* The image of a step that keeps the task objects and adds one task.    *)
LEMMA AppendAbs ==
  ASSUME TypeOK, Frame, Len(tasks') = Len(tasks) + 1
  PROVE  AbsTasks' = Append(AbsTasks, AbsTasks'[Len(tasks) + 1])
<1>1. TaskUnchangedStep
  BY FrameUnchanged
<1>2. Len(tasks) \in Nat
  BY DEF TypeOK
<1>3. AbsTasks' = [i \in 1..Len(tasks) + 1 |-> TaskValueOf(i)']
  BY DEF AbsTasks
<1>6. DOMAIN AbsTasks' = 1..Len(tasks) + 1
  BY <1>3
<1>4. \A i \in 1..Len(tasks) : TaskValueOf(i)' = AbsTasks[i]
  BY <1>1 DEF TaskUnchangedStep, AbsTasks
<1>5. QED
  BY <1>2, <1>3, <1>4, <1>6 DEF AbsTasks

(***************************************************************************)
(* A successful construction appends the value of a task that TaskSpec    *)
(* allows: its files and identifier as passed, its options the copied     *)
(* values (or None).                                                       *)
(***************************************************************************)
LEMMA AppendedValue ==
  ASSUME RInv, NEW files \in FileLists \cup {<<>>}, NEW id \in Idents \cup {None},
         NEW prop \in PropFiles \cup {None}, NEW opt \in callerD \cup {None},
         DeepCopyAndStore([files |-> files, identifier |-> id,
                           property_file |-> prop, options |-> None], opt)
  PROVE  /\ Len(tasks') = Len(tasks) + 1
         /\ AbsTasks'[Len(tasks) + 1] \in Abs!TaskValues
         /\ AbsTasks'[Len(tasks) + 1].files = files
         /\ AbsTasks'[Len(tasks) + 1].identifier = id
<1> DEFINE rec == [files |-> files, identifier |-> id,
                   property_file |-> prop, options |-> None]
           n == Len(tasks) + 1
<1> USE DEF RInv, IInv
<1>0. tasks \in Seq(TaskRec)
  BY DEF TypeOK
<1>1. CASE opt = None
  <2>1. tasks' = Append(tasks, rec)
    BY <1>1 DEF DeepCopyAndStore
  <2>2. tasks'[n] = rec /\ Len(tasks') = n
    BY <1>0, <2>1
  <2>3. AbsTasks'[n] = [files |-> files, identifier |-> id,
                        property_file |-> prop, options |-> None]
    BY <2>2 DEF AbsTasks, TaskValueOf, OptView
  <2>4. QED
    BY <2>2, <2>3 DEF Abs!TaskValues
<1>2. CASE opt # None
  <2>1. PICK nd \in DAddr \ usedD,
             f \in Injection(Range(dicts[opt]), CAddr \ usedC) :
          /\ dicts' = [dicts EXCEPT ![nd] = [k \in OptKey |-> f[dicts[opt][k]]]]
          /\ cells' = CopiedCells(f)
          /\ usedC' = usedC \cup Range(f)
          /\ tasks' = Append(tasks, [rec EXCEPT !.options = nd])
    BY <1>2 DEF DeepCopyAndStore
  <2>2. tasks'[n] = [rec EXCEPT !.options = nd] /\ Len(tasks') = n
    BY <1>0, <2>1
  <2>3. f \in [Range(dicts[opt]) -> CAddr \ usedC]
    BY <2>1 DEF Injection
  <2>4. opt \in usedD /\ opt \in DAddr
    BY <1>2 DEF TypeOK
  <2>5. \A k \in OptKey : dicts'[nd][k] \in Range(f)
    <3>1. \A k \in OptKey : dicts[opt][k] \in DOMAIN f
      BY <2>3, <2>4 DEF Range, TypeOK
    <3>2. QED
      BY <2>1, <2>3, <3>1 DEF Range, TypeOK
  <2>6. \A k \in OptKey : cells'[dicts'[nd][k]] \in OptVal
    BY <2>1, <2>3, <2>4, <2>5, CopyCellsHold
  <2>7. nd # None
    BY NoneNotAddr
  <2>8. [k \in OptKey |-> cells'[dicts'[nd][k]]] \in [OptKey -> OptVal]
    BY <2>6
  <2>9. AbsTasks'[n] = [files |-> files, identifier |-> id, property_file |-> prop,
                        options |-> [k \in OptKey |-> cells'[dicts'[nd][k]]]]
    <3>1. n \in 1..Len(tasks')
      BY <1>0, <2>2
    <3>2. AbsTasks'[n] =
            [files |-> tasks'[n].files, identifier |-> tasks'[n].identifier,
             property_file |-> tasks'[n].property_file,
             options |-> IF tasks'[n].options = None THEN None
                         ELSE [k \in OptKey |-> cells'[dicts'[tasks'[n].options][k]]]]
      BY <3>1 DEF AbsTasks, TaskValueOf, OptView
    <3>3. /\ tasks'[n].files = files /\ tasks'[n].identifier = id
          /\ tasks'[n].property_file = prop /\ tasks'[n].options = nd
      BY <2>2
    <3>4. QED
      BY <3>2, <3>3, <2>7
  <2>10. QED
    BY <2>2, <2>8, <2>9 DEF Abs!TaskValues
<1>3. QED
  BY <1>1, <1>2

(***************************************************************************)
(* A constructor step maps to Construct of TaskSpec when the assertion    *)
(* holds and to a stutter when it fails.                                   *)
(***************************************************************************)
LEMMA NewAbsStep ==
  ASSUME NoEmptyIdentifier, RInv, NEW files \in FileLists \cup {<<>>}, NEW id \in Idents \cup {None},
         NEW prop \in PropFiles \cup {None}, NEW opt \in callerD \cup {None},
         New(files, id, prop, opt)
  PROVE  [Abs!Next]_AbsTasks
<1>0. files \in Seq(Path)
  <2>1. <<>> \in Seq(Path)
    OBVIOUS
  <2>2. QED
    BY <2>1, FileListsAssumption
<1>1. Frame /\ TypeOK
  BY <1>0, NewStep DEF Args, RInv, IInv
<1>2. CASE ~NewAllowed(files, id)
  <2>1. Len(tasks') = Len(tasks)
    BY <1>2 DEF New
  <2>2. QED
    BY <1>1, <2>1, StutterAbs
<1>3. CASE NewAllowed(files, id)
  <2> DEFINE t == AbsTasks'[Len(tasks) + 1]
  <2>1. /\ Len(tasks') = Len(tasks) + 1
        /\ t \in Abs!TaskValues /\ t.files = files /\ t.identifier = id
    BY <1>3, AppendedValue DEF New
  <2>2. AbsTasks' = Append(AbsTasks, t)
    BY <1>1, <2>1, AppendAbs
  <2>3. Len(AbsTasks) < MaxTasks
    BY <1>1 DEF New, AbsTasks, TypeOK
  <2>4. WellFormed(t.files, t.identifier)
    BY <1>3, <2>1 DEF NoEmptyIdentifier, NewAllowed, WellFormed, IdentTruthy
  <2>5. Abs!WellFormed(t.files, t.identifier)
    BY <2>4 DEF WellFormed, Abs!WellFormed, IdentTruthy, Abs!IdentTruthy
  <2>6. Abs!Construct(t)
    BY <2>2, <2>3, <2>5 DEF Abs!Construct, AbsTasks
  <2>7. QED
    BY <2>1, <2>6 DEF Abs!Next
<1>4. QED
  BY <1>2, <1>3

LEMMA AbsStep ==
  ASSUME NoEmptyIdentifier PROVE RInv /\ [Next]_vars => [Abs!Next]_AbsTasks
<1> SUFFICES ASSUME RInv, [Next]_vars PROVE [Abs!Next]_AbsTasks
  OBVIOUS
<1>1. Frame /\ TypeOK
  BY NextStep DEF RInv, IInv
<1>2. CASE UNCHANGED tasks
  BY <1>1, <1>2, StutterAbs
<1>3. CASE \E prop \in PropFiles \cup {None}, opt \in callerD \cup {None} :
             \/ WithFiles(prop, opt)
             \/ \E id \in Idents : WithoutFiles(id, prop, opt)
             \/ \E id \in Idents : New(srcFiles, id, prop, opt)
  <2>1. srcFiles \in FileLists
    BY DEF RInv, IInv, TypeOK
  <2>2. QED
    BY <1>3, <2>1, NewAbsStep DEF WithFiles, WithoutFiles
<1>4. QED
  BY <1>2, <1>3 DEF Next, vars, CallerNewCell, CallerNewDict, CallerSetKey,
                    CallerSetCell, CallerSetFiles

(***************************************************************************)
(* The heap model of Task.__new__, with_files and without_files, driven   *)
(* by a harness that mutates the lists and dicts it passed, implements    *)
(* TaskSpec whenever no identifier is the empty string: read as values,   *)
(* tasks are only ever appended, each with files or a non-null identifier *)
(* but not both, and none changes afterwards.                              *)
(***************************************************************************)
THEOREM Refinement == ASSUME NoEmptyIdentifier PROVE Spec => AbsSpec
<1>1. Spec => []RInv
  BY InitRInv, NextRInv, PTL DEF Spec
<1>2. Init => Abs!Init
  BY DEF Init, Abs!Init
<1>3. RInv /\ [Next]_vars => [Abs!Next]_AbsTasks
  BY AbsStep
<1>4. QED
  BY <1>1, <1>2, <1>3, PTL DEF Spec, AbsSpec, Abs!Spec, AbsTasks
=============================================================================
