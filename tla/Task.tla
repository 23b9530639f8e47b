-------------------------------- MODULE Task --------------------------------
(***************************************************************************)
(* Construction of BaseTool2.Task objects (template.py, Task.__new__,      *)
(* with_files, without_files) against a caller -- the harness -- that     *)
(* keeps references to the mutable objects it passed in and may mutate    *)
(* them afterwards.                                                        *)
(*                                                                         *)
(* The options argument is a mutable dict whose values are themselves     *)
(* mutable objects: the heap holds dicts (DAddr, each mapping every key of *)
(* OptKey to a cell) and cells (CAddr, each holding a value of OptVal).    *)
(* The caller owns the objects it allocated (callerD, callerC) and may    *)
(* rebind a key of its dict (shallow mutation) or change a cell (nested   *)
(* mutation) at any time.  The input_files argument is the caller's list  *)
(* srcFiles; Task.__new__ stores tuple(input_files), a value.             *)
(***************************************************************************)
EXTENDS TaskValue, FiniteSets, Functions

CONSTANTS
  OptKey,      \* keys of the options dict
  OptVal,      \* immutable leaf values held by the nested mutable cells
  DAddr,       \* heap addresses of dicts
  CAddr,       \* heap addresses of nested mutable cells
  MaxTasks     \* bound on the number of constructed tasks

ASSUME MaxTasksAssumption == MaxTasks \in Nat
ASSUME NoneNotAddr == None \notin DAddr \cup CAddr \cup OptVal

VARIABLES
  dicts,     \* dicts[d][k]: the cell the key k of dict d refers to
  cells,     \* cells[c]: the value held by cell c
  usedD,     \* allocated dicts
  usedC,     \* allocated cells
  callerD,   \* dicts the caller holds a reference to
  callerC,   \* cells the caller holds a reference to
  srcFiles,  \* the caller's input_files list
  tasks,     \* the constructed Task tuples, in construction order
  raised     \* exception raised by the last Task construction, or None

heap == <<dicts, cells, usedD, usedC, callerD, callerC>>
vars == <<dicts, cells, usedD, usedC, callerD, callerC, srcFiles, tasks, raised>>

AssertionError == "AssertionError"

TaskRec == [files : Seq(Path), identifier : Idents \cup {None},
            property_file : PropFiles \cup {None}, options : DAddr \cup {None}]

(* The options as a value: what reading task.options yields.              *)
OptView(a) == IF a = None THEN None ELSE [k \in OptKey |-> cells[dicts[a][k]]]

(* The i-th task as the value every later reader of its fields sees.      *)
TaskValueOf(i) ==
  [files |-> tasks[i].files, identifier |-> tasks[i].identifier,
   property_file |-> tasks[i].property_file,
   options |-> OptView(tasks[i].options)]

TypeOK ==
  /\ dicts \in [DAddr -> [OptKey -> CAddr \cup {None}]]
  /\ cells \in [CAddr -> OptVal \cup {None}]
  /\ usedD \subseteq DAddr /\ usedC \subseteq CAddr
  /\ callerD \subseteq usedD /\ callerC \subseteq usedC
  /\ \A d \in usedD : Range(dicts[d]) \subseteq usedC
  /\ srcFiles \in FileLists
  /\ tasks \in Seq(TaskRec) /\ Len(tasks) <= MaxTasks
  /\ \A i \in 1..Len(tasks) : tasks[i].options \in usedD \cup {None}
  /\ raised \in {None, AssertionError}

Init ==
  /\ dicts = [d \in DAddr |-> [k \in OptKey |-> None]]
  /\ cells = [c \in CAddr |-> None]
  /\ usedD = {} /\ usedC = {} /\ callerD = {} /\ callerC = {}
  /\ srcFiles \in FileLists
  /\ tasks = <<>>
  /\ raised = None

-----------------------------------------------------------------------------
(* The caller: the harness code that builds and later mutates arguments.  *)

CallerNewCell(v) ==
  \E c \in CAddr \ usedC :
    /\ cells' = [cells EXCEPT ![c] = v]
    /\ usedC' = usedC \cup {c}
    /\ callerC' = callerC \cup {c}
    /\ UNCHANGED <<dicts, usedD, callerD, srcFiles, tasks, raised>>

CallerNewDict(m) ==
  \E d \in DAddr \ usedD :
    /\ dicts' = [dicts EXCEPT ![d] = m]
    /\ usedD' = usedD \cup {d}
    /\ callerD' = callerD \cup {d}
    /\ UNCHANGED <<cells, usedC, callerC, srcFiles, tasks, raised>>

(* options[k] = other: a shallow mutation of the caller's dict.           *)
CallerSetKey(d, k, c) ==
  /\ dicts' = [dicts EXCEPT ![d][k] = c]
  /\ UNCHANGED <<cells, usedD, usedC, callerD, callerC, srcFiles, tasks, raised>>

(* options[k].append(...): a nested mutation through the caller's cell.   *)
CallerSetCell(c, v) ==
  /\ cells' = [cells EXCEPT ![c] = v]
  /\ UNCHANGED <<dicts, usedD, usedC, callerD, callerC, srcFiles, tasks, raised>>

CallerSetFiles(s) ==
  /\ srcFiles' = s
  /\ UNCHANGED <<heap, tasks, raised>>

-----------------------------------------------------------------------------
(* The code: Task.__new__ and the two factory class methods.              *)

(* The cells of the copy: cell f[o] receives the value of original cell o.*)
CopiedCells(f) ==
  [c \in CAddr |-> IF c \in Range(f)
                   THEN cells[CHOOSE o \in DOMAIN f : f[o] = c]
                   ELSE cells[c]]

(* Mutant: copy.copy(options), a shallow copy sharing the nested values. *)
ShallowCopyAndStore(rec, opt) ==
  \/ /\ opt = None
     /\ tasks' = Append(tasks, [rec EXCEPT !.options = None])
     /\ UNCHANGED heap
  \/ /\ opt # None
     /\ \E nd \in DAddr \ usedD :
          /\ dicts' = [dicts EXCEPT ![nd] = dicts[opt]]
          /\ usedD' = usedD \cup {nd}
          /\ tasks' = Append(tasks, [rec EXCEPT !.options = nd])
          /\ UNCHANGED <<cells, usedC, callerD, callerC>>

(* Mutant: the defensive copy left out, the caller's dict stored.         *)
NoCopyAndStore(rec, opt) ==
  /\ tasks' = Append(tasks, [rec EXCEPT !.options = opt])
  /\ UNCHANGED heap

(***************************************************************************)
(* copy.deepcopy(options) followed by storing the task: a fresh dict nd    *)
(* whose keys refer to fresh cells; the memo of deepcopy maps each         *)
(* distinct original cell to one fresh cell (f injective).  deepcopy(None) *)
(* is None.                                                                *)
(***************************************************************************)
DeepCopyAndStore(rec, opt) ==
  \/ /\ opt = None
     /\ tasks' = Append(tasks, [rec EXCEPT !.options = None])
     /\ UNCHANGED heap
  \/ /\ opt # None
     /\ \E nd \in DAddr \ usedD,
           f \in Injection(Range(dicts[opt]), CAddr \ usedC) :
          /\ dicts' = [dicts EXCEPT ![nd] = [k \in OptKey |-> f[dicts[opt][k]]]]
          /\ cells' = CopiedCells(f)
          /\ usedD' = usedD \cup {nd}
          /\ usedC' = usedC \cup Range(f)
          /\ tasks' = Append(tasks, [rec EXCEPT !.options = nd])
          /\ UNCHANGED <<callerD, callerC>>

(* Mutant: the assertion left out (as under python -O).                  *)
NewNoAssert(files, id, prop, opt) ==
  /\ Len(tasks) < MaxTasks
  /\ DeepCopyAndStore([files |-> files, identifier |-> id,
                       property_file |-> prop, options |-> None], opt)
  /\ raised' = None
  /\ UNCHANGED srcFiles

(* Mutant: tuple fields passed to namedtuple.__new__ in the wrong order.  *)
NewSwapped(files, id, prop, opt) ==
  /\ Len(tasks) < MaxTasks
  /\ \/ /\ ~NewAllowed(files, id)
        /\ raised' = AssertionError
        /\ UNCHANGED <<heap, tasks>>
     \/ /\ NewAllowed(files, id)
        /\ DeepCopyAndStore([files |-> id, identifier |-> files,
                             property_file |-> prop, options |-> None], opt)
        /\ raised' = None
  /\ UNCHANGED srcFiles

(***************************************************************************)
(* Task.__new__(cls, input_files, identifier, property_file, options):     *)
(* tuple(input_files), the files-xor-identifier assertion, the defensive  *)
(* deep copy of options, the tuple.                                        *)
(***************************************************************************)
New(files, id, prop, opt) ==
  /\ Len(tasks) < MaxTasks
  /\ \/ /\ ~NewAllowed(files, id)
        /\ raised' = AssertionError
        /\ UNCHANGED <<heap, tasks>>
     \/ /\ NewAllowed(files, id)
        /\ DeepCopyAndStore([files |-> files, identifier |-> id,
                             property_file |-> prop, options |-> None], opt)
        /\ raised' = None
  /\ UNCHANGED srcFiles

WithFiles(prop, opt) == New(srcFiles, None, prop, opt)

WithoutFiles(id, prop, opt) == New(<<>>, id, prop, opt)

Next ==
  \/ \E v \in OptVal : CallerNewCell(v)
  \/ \E m \in [OptKey -> callerC] : CallerNewDict(m)
  \/ \E d \in callerD, k \in OptKey, c \in callerC : CallerSetKey(d, k, c)
  \/ \E c \in callerC, v \in OptVal : CallerSetCell(c, v)
  \/ \E s \in FileLists : CallerSetFiles(s)
  \/ \E prop \in PropFiles \cup {None}, opt \in callerD \cup {None} :
        \/ WithFiles(prop, opt)
        \/ \E id \in Idents : WithoutFiles(id, prop, opt)
        \/ \E id \in Idents : New(srcFiles, id, prop, opt)

Spec == Init /\ [][Next]_vars

-----------------------------------------------------------------------------
(* Dicts and cells reachable from the options of the constructed tasks.   *)
TaskDicts == {tasks[i].options : i \in 1..Len(tasks)} \ {None}
TaskCells == UNION {Range(dicts[d]) : d \in TaskDicts}

(***************************************************************************)
(* Isolation of the defensive copy: the caller's dicts refer only to the  *)
(* caller's cells, and no object reachable from a task's options is one   *)
(* the caller holds.  It is what makes later mutations by the harness     *)
(* (options[k] = ..., options[k].append(...)) invisible to the tool-info  *)
(* module, and it fails if Task.__new__ shares the dict or, with a        *)
(* shallow copy, its nested values.                                        *)
(***************************************************************************)
Isolated ==
  /\ \A d \in callerD : Range(dicts[d]) \subseteq callerC
  /\ TaskDicts \subseteq usedD \ callerD
  /\ TaskCells \subseteq usedC \ callerC

(* A step that keeps every earlier task, read as a value, as it was.     *)
TaskUnchangedStep ==
  /\ Len(tasks') >= Len(tasks)
  /\ \A i \in 1..Len(tasks) : TaskValueOf(i)' = TaskValueOf(i)

(***************************************************************************)
(* A constructed Task never changes: whatever the harness does with the   *)
(* list and the options it passed to Task.__new__, every field of every    *)
(* earlier task, options read as a value included, stays the same         *)
(* (spec.md section 3: "immutable thereafter").                            *)
(***************************************************************************)
TaskFrozen == [][TaskUnchangedStep]_vars

(***************************************************************************)
(* Refinement: read through the values its fields denote, the list of     *)
(* constructed Task objects behaves as TaskSpec says: each task well      *)
(* formed as spec.md sections 3 and 8 define it (identifier non-null      *)
(* exactly when there are no input files), checked by the assertion of    *)
(* Task.__new__ (line 321), and unchanged afterwards whatever the harness *)
(* mutates (the defensive copies).                                        *)
(***************************************************************************)
Abs == INSTANCE TaskSpec WITH tasks <- [i \in 1..Len(tasks) |-> TaskValueOf(i)]

AbsSpec == Abs!Spec
=============================================================================
