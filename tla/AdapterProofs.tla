---------------------------- MODULE AdapterProofs ----------------------------
(***************************************************************************)
(* Proofs about the adapter protocol: every state reachable by the        *)
(* harness driving one instance through interleaved runs is well typed,  *)
(* the command lines of both default cmdline()s included, for every set   *)
(* of runs, option lists, tasks and limits.                               *)
(***************************************************************************)
EXTENDS Adapter, SequenceTheorems, TLAPS

USE IdentsAssumption, FileListsAssumption, NoneAssumption, ExeAssumption,
    LimitArgsAssumption, OptionListsAssumption

(* The shape of one run's record, field by field, None before it is set. *)
RunRecs ==
  [phase : Phases, options : OptionLists \cup {None},
   task : RunTasks \cup {None}, rlimits : LimitArgs \cup {None},
   cmd : Seq(CmdArgs) \cup {None}, exit : ExitCodes \cup {None},
   isTimeout : BOOLEAN \cup {None}, label : {RESULT_DONE, None}]

(* TypeOK, with every run a record of RunRecs: EXCEPT on its fields then  *)
(* leaves the other runs and fields alone.                                *)
IInv == TypeOK /\ run \in [Runs -> RunRecs]

(***************************************************************************)
(* A started run keeps the options it was started with and the command   *)
(* line cmdline() built from them and its task, whatever the other runs  *)
(* do in between.                                                         *)
(***************************************************************************)
CmdRecorded ==
  \A r \in Runs :
    run[r].phase # "idle" =>
      /\ run[r].options \in OptionLists
      /\ run[r].cmd = Cmdline(gen, run[r].options, run[r].task)

(* Every identifier task a BaseTool2 run was started with has an          *)
(* identifier of exactly one character.                                   *)
IdentifierRunsOneChar ==
  \A r \in Runs :
    run[r].phase # "idle" /\ gen = "BaseTool2" /\ run[r].task.files = <<>> =>
      Len(run[r].task.identifier) = 1

(* ResourceLimits(a) stores the keyword arguments as they are.           *)
LEMMA LimitsStored ==
  ASSUME NEW la \in LimitArgs PROVE ResourceLimits(la) = la
BY DEF ResourceLimits

(* Both default cmdline()s build a sequence of command-line arguments.    *)
LEMMA CmdlineType ==
  ASSUME NEW g \in Generations, NEW opts \in OptionLists, NEW t \in RunTasks
  PROVE  Cmdline(g, opts, t) \in Seq(CmdArgs)
<1>1. <<Exe>> \in Seq(CmdArgs)
  BY DEF CmdArgs
<1>2. opts \in Seq(CmdArgs)
  <2>1. opts \in Seq(OptionValues)
    OBVIOUS
  <2>2. OptionValues \subseteq CmdArgs
    BY DEF CmdArgs
  <2>3. QED
    BY <2>1, <2>2, SeqMonotonic
<1>3. t.files \in Seq(CmdArgs) /\ NewAllowed(t.files, t.identifier)
  <2>1. t.files \in Seq(Path) /\ NewAllowed(t.files, t.identifier)
    BY DEF RunTasks
  <2>2. Path \subseteq CmdArgs
    BY DEF CmdArgs
  <2>3. QED
    BY <2>1, <2>2, SeqMonotonic
<1>4. InputFilesOrIdentifier(t.files, t.identifier) \in Seq(CmdArgs)
  <2>1. CASE t.files # <<>>
    BY <1>3, <2>1 DEF InputFilesOrIdentifier
  <2>2. CASE t.files = <<>>
    <3>1. t.identifier \in Seq(Chars)
      BY <1>3, <2>2 DEF RunTasks, NewAllowed, IdentTruthy
    <3>2. \A i \in 1..Len(t.identifier) : <<t.identifier[i]>> \in Seq(Chars)
      BY <3>1
    <3>3. TupleOfString(t.identifier) \in Seq(CmdArgs)
      BY <3>1, <3>2 DEF TupleOfString, CmdArgs
    <3>4. QED
      BY <2>2, <3>3 DEF InputFilesOrIdentifier
  <2>3. QED
    BY <2>1, <2>2
<1>5. QED
  BY <1>1, <1>2, <1>3, <1>4, ConcatProperties
     DEF Cmdline, CmdlineBaseTool2, CmdlineBaseTool

-----------------------------------------------------------------------------
LEMMA InitIInv == Init => IInv
<1> SUFFICES ASSUME Init PROVE IInv
  OBVIOUS
<1>1. run \in [Runs -> RunRecs]
  BY DEF Init, RunRecs, Phases
<1>2. QED
  BY <1>1 DEF Init, IInv, TypeOK, Generations, AbstractMethods, Phases

LEMMA InstantiateStep == ASSUME IInv, Instantiate PROVE IInv'
BY DEF Instantiate, IInv, TypeOK, TypeError

LEMMA NameStep == ASSUME IInv, Name PROVE IInv'
BY DEF Name, IInv, TypeOK

(* A run starts: its record is filled in, the others stay as they are.   *)
LEMMA StartRunStep ==
  ASSUME IInv, NEW r \in Runs, NEW opts \in OptionLists, NEW t \in RunTasks,
         NEW la \in LimitArgs, StartRun(r, opts, t, la)
  PROVE  IInv'
<1> DEFINE c == Cmdline(gen, opts, t)
<1>1. c \in Seq(CmdArgs)
  BY CmdlineType DEF IInv, TypeOK
<1>2. ResourceLimits(la) = la
  BY LimitsStored
<1>3. run[r] \in RunRecs
  BY DEF IInv
<1>4. run' = [run EXCEPT ![r] = [run[r] EXCEPT !.phase = "cmd", !.options = opts,
                                  !.task = t, !.rlimits = la, !.cmd = c]]
  BY <1>2 DEF StartRun
<1>5. run'[r] \in RunRecs /\ run'[r].phase = "cmd"
  <2>1. run'[r] = [phase |-> "cmd", options |-> opts, task |-> t, rlimits |-> la,
                   cmd |-> c, exit |-> run[r].exit,
                   isTimeout |-> run[r].isTimeout, label |-> run[r].label]
    BY <1>3, <1>4 DEF RunRecs, IInv
  <2>2. QED
    BY <1>1, <1>3, <2>1 DEF RunRecs, Phases
<1>6. run' \in [Runs -> RunRecs]
  BY <1>4, <1>5 DEF IInv
<1>7. \A q \in Runs : q # r => run'[q] = run[q]
  BY <1>4 DEF IInv
<1>8. /\ run'[r].task \in RunTasks /\ run'[r].rlimits \in LimitArgs
      /\ run'[r].cmd \in Seq(CmdArgs)
  BY <1>1, <1>3, <1>4 DEF RunRecs, IInv
<1>9. QED
  BY <1>5, <1>6, <1>7, <1>8 DEF StartRun, IInv, TypeOK, Phases

(* The command ran: exit status and timeout flag are recorded.            *)
LEMMA ExecuteStep ==
  ASSUME IInv, NEW r \in Runs, NEW e \in ExitCodes, NEW b \in BOOLEAN,
         Execute(r, e, b)
  PROVE  IInv'
<1>1. run[r] \in RunRecs /\ run[r].phase = "cmd"
  BY DEF IInv, Execute
<1>2. run' = [run EXCEPT ![r] = [run[r] EXCEPT !.phase = "ran", !.exit = e,
                                                !.isTimeout = b]]
  BY DEF Execute
<1>3. run'[r] = [phase |-> "ran", options |-> run[r].options,
                 task |-> run[r].task, rlimits |-> run[r].rlimits,
                 cmd |-> run[r].cmd, exit |-> e, isTimeout |-> b,
                 label |-> run[r].label]
  BY <1>1, <1>2 DEF RunRecs, IInv
<1>4. run' \in [Runs -> RunRecs]
  BY <1>1, <1>2, <1>3 DEF IInv, RunRecs, Phases
<1>5. \A q \in Runs : q # r => run'[q] = run[q]
  BY <1>2 DEF IInv
<1>6. /\ run'[r].task = run[r].task /\ run'[r].rlimits = run[r].rlimits
      /\ run'[r].cmd = run[r].cmd /\ run'[r].phase = "ran"
  BY <1>1, <1>2 DEF RunRecs, IInv
<1>7. QED
  BY <1>1, <1>4, <1>5, <1>6 DEF Execute, IInv, TypeOK, Phases

(* determine_result() labels the run RESULT_DONE.                         *)
LEMMA DetermineResultStep ==
  ASSUME IInv, NEW r \in Runs, DetermineResult(r)
  PROVE  IInv'
<1>1. run[r] \in RunRecs /\ run[r].phase = "ran"
  BY DEF IInv, DetermineResult
<1>2. run' = [run EXCEPT ![r] = [run[r] EXCEPT !.phase = "done",
                                                !.label = RESULT_DONE]]
  BY DEF DetermineResult
<1>3. run'[r] = [phase |-> "done", options |-> run[r].options,
                 task |-> run[r].task, rlimits |-> run[r].rlimits,
                 cmd |-> run[r].cmd, exit |-> run[r].exit,
                 isTimeout |-> run[r].isTimeout, label |-> RESULT_DONE]
  BY <1>1, <1>2 DEF RunRecs, IInv
<1>4. run' \in [Runs -> RunRecs]
  BY <1>1, <1>2, <1>3 DEF IInv, RunRecs, Phases
<1>5. \A q \in Runs : q # r => run'[q] = run[q]
  BY <1>2 DEF IInv
<1>6. /\ run'[r].task = run[r].task /\ run'[r].rlimits = run[r].rlimits
      /\ run'[r].cmd = run[r].cmd /\ run'[r].phase = "done"
      /\ run'[r].label = RESULT_DONE
  BY <1>1, <1>2 DEF RunRecs, IInv
<1>7. QED
  BY <1>1, <1>4, <1>5, <1>6 DEF DetermineResult, IInv, TypeOK, Phases

LEMMA NextIInv == IInv /\ [Next]_vars => IInv'
<1> SUFFICES ASSUME IInv, [Next]_vars PROVE IInv'
  OBVIOUS
<1>1. CASE Instantiate
  BY <1>1, InstantiateStep
<1>2. CASE Name
  BY <1>2, NameStep
<1>3. ASSUME NEW r \in Runs, NEW opts \in OptionLists, NEW t \in RunTasks,
             NEW la \in LimitArgs, StartRun(r, opts, t, la)
      PROVE  IInv'
  BY <1>3, StartRunStep
<1>4. ASSUME NEW r \in Runs, NEW e \in ExitCodes, NEW b \in BOOLEAN,
             Execute(r, e, b)
      PROVE  IInv'
  BY <1>4, ExecuteStep
<1>5. ASSUME NEW r \in Runs, DetermineResult(r) PROVE IInv'
  BY <1>5, DetermineResultStep
<1>6. CASE UNCHANGED vars
  BY <1>6 DEF vars, IInv, TypeOK
<1>7. QED
  BY <1>1, <1>2, <1>3, <1>4, <1>5, <1>6 DEF Next

(***************************************************************************)
(* Every state of a sweep is well typed: whatever the interleaving of the *)
(* runs, each started run holds a constructible task, the limits it was   *)
(* given and a command line built from the executable, its options and    *)
(* its files or identifier, and each finished run is labelled RESULT_DONE.*)
(***************************************************************************)
THEOREM TypeCorrect == Spec => []TypeOK
<1>1. Spec => []IInv
  BY InitIInv, NextIInv, PTL DEF Spec
<1>2. QED
  BY <1>1, PTL DEF IInv

-----------------------------------------------------------------------------
(* A common prefix cancels: a \o x = a \o y exactly when x = y.          *)
LEMMA ConcatCancel ==
  ASSUME NEW S, NEW a \in Seq(S), NEW x \in Seq(S), NEW y \in Seq(S)
  PROVE  a \o x = a \o y <=> x = y
<1>1. ASSUME a \o x = a \o y PROVE x = y
  <2>1. Len(x) = Len(y)
    BY <1>1, ConcatProperties
  <2>2. \A i \in 1..Len(x) : x[i] = (a \o x)[Len(a) + i] /\ y[i] = (a \o y)[Len(a) + i]
    BY <2>1, ConcatProperties
  <2>3. QED
    BY <1>1, <2>1, <2>2, SeqEqual
<1>2. QED
  BY <1>1

(***************************************************************************)
(* tuple() of a non-empty identifier string is the one-element tuple     *)
(* holding the identifier exactly when the identifier has one character. *)
(***************************************************************************)
LEMMA TupleOfStringIsSingleton ==
  ASSUME NEW id \in Seq(Chars), id # <<>>
  PROVE  TupleOfString(id) = <<id>> <=> Len(id) = 1
<1>1. Len(TupleOfString(id)) = Len(id)
  BY DEF TupleOfString
<1>2. ASSUME Len(id) = 1 PROVE TupleOfString(id) = <<id>>
  <2>1. id = <<id[1]>>
    BY <1>2
  <2>2. QED
    BY <1>2, <2>1 DEF TupleOfString
<1>3. QED
  BY <1>1, <1>2

(***************************************************************************)
(* BaseTool2's default cmdline() is the one spec.md describes exactly     *)
(* when the task has input files or an identifier of one character.       *)
(***************************************************************************)
LEMMA CmdlineAsSpecifiedIff ==
  ASSUME NEW opts \in OptionLists, NEW t \in RunTasks
  PROVE  CmdlineBaseTool2(opts, t) =
           <<Exe>> \o opts \o SpecFilesOrIdentifier(t.files, t.identifier)
         <=> (t.files = <<>> => Len(t.identifier) = 1)
<1> DEFINE Elem == CmdArgs \cup Seq(Chars)
<1> DEFINE pre == <<Exe>> \o opts
<1>1. pre \in Seq(Elem)
  <2>1. <<Exe>> \in Seq(Elem) /\ opts \in Seq(Elem)
    <3>1. opts \in Seq(OptionValues) /\ OptionValues \subseteq Elem
      BY DEF CmdArgs
    <3>2. QED
      BY <3>1, SeqMonotonic DEF CmdArgs
  <2>2. QED
    BY <2>1, ConcatProperties
<1> HIDE DEF pre, Elem
<1>2. CASE t.files # <<>>
  BY <1>2 DEF pre, CmdlineBaseTool2, InputFilesOrIdentifier, SpecFilesOrIdentifier
<1>3. CASE t.files = <<>>
  <2>1. t.identifier \in Seq(Chars) /\ t.identifier # <<>>
    BY <1>3 DEF RunTasks, NewAllowed, IdentTruthy
  <2>2. TupleOfString(t.identifier) \in Seq(Elem) /\ <<t.identifier>> \in Seq(Elem)
    BY <2>1 DEF TupleOfString, CmdArgs, Elem
  <2>3. CmdlineBaseTool2(opts, t) = pre \o TupleOfString(t.identifier)
    BY <1>3 DEF pre, CmdlineBaseTool2, InputFilesOrIdentifier
  <2>4. <<Exe>> \o opts \o SpecFilesOrIdentifier(t.files, t.identifier)
          = pre \o <<t.identifier>>
    BY <1>3 DEF pre, SpecFilesOrIdentifier
  <2>5. pre \o TupleOfString(t.identifier) = pre \o <<t.identifier>>
          <=> TupleOfString(t.identifier) = <<t.identifier>>
    BY <1>1, <2>2, ConcatCancel
  <2>6. QED
    BY <1>3, <2>1, <2>3, <2>4, <2>5, TupleOfStringIsSingleton
<1>4. QED
  BY <1>2, <1>3

-----------------------------------------------------------------------------
(* IInv with the record of each started run's command line.              *)
CInv == IInv /\ CmdRecorded

LEMMA InitCInv == Init => CInv
BY InitIInv DEF Init, CInv, CmdRecorded

(* Each kind of step keeps every started run's options and command line. *)
LEMMA NextCmdRecorded == CInv /\ [Next]_vars => CmdRecorded'
<1> SUFFICES ASSUME CInv, [Next]_vars PROVE CmdRecorded'
  OBVIOUS
<1>1. CASE Instantiate \/ Name
  BY <1>1 DEF Instantiate, Name, CInv, CmdRecorded
<1>2. ASSUME NEW r \in Runs, NEW opts \in OptionLists, NEW t \in RunTasks,
             NEW la \in LimitArgs, StartRun(r, opts, t, la)
      PROVE  CmdRecorded'
  <2>1. run[r] \in RunRecs
    BY DEF CInv, IInv
  <2>2. run'[r].options = opts /\ run'[r].task = t
        /\ run'[r].cmd = Cmdline(gen, opts, t)
    BY <1>2, <2>1 DEF StartRun, CInv, IInv, RunRecs
  <2>3. \A q \in Runs : q # r => run'[q] = run[q]
    BY <1>2 DEF StartRun, CInv, IInv
  <2>4. QED
    BY <1>2, <2>2, <2>3 DEF StartRun, CInv, CmdRecorded
<1>3. ASSUME NEW r \in Runs, NEW e \in ExitCodes, NEW b \in BOOLEAN,
             Execute(r, e, b)
      PROVE  CmdRecorded'
  <2>1. run[r] \in RunRecs /\ run[r].phase = "cmd"
    BY <1>3 DEF Execute, CInv, IInv
  <2>2. run'[r].options = run[r].options /\ run'[r].task = run[r].task
        /\ run'[r].cmd = run[r].cmd /\ run'[r].phase = "ran"
    BY <1>3, <2>1 DEF Execute, CInv, IInv, RunRecs
  <2>3. \A q \in Runs : q # r => run'[q] = run[q]
    BY <1>3 DEF Execute, CInv, IInv
  <2>4. QED
    BY <1>3, <2>1, <2>2, <2>3 DEF Execute, CInv, CmdRecorded
<1>4. ASSUME NEW r \in Runs, DetermineResult(r) PROVE CmdRecorded'
  <2>1. run[r] \in RunRecs /\ run[r].phase = "ran"
    BY <1>4 DEF DetermineResult, CInv, IInv
  <2>2. run'[r].options = run[r].options /\ run'[r].task = run[r].task
        /\ run'[r].cmd = run[r].cmd /\ run'[r].phase = "done"
    BY <1>4, <2>1 DEF DetermineResult, CInv, IInv, RunRecs
  <2>3. \A q \in Runs : q # r => run'[q] = run[q]
    BY <1>4 DEF DetermineResult, CInv, IInv
  <2>4. QED
    BY <1>4, <2>1, <2>2, <2>3 DEF DetermineResult, CInv, CmdRecorded
<1>5. CASE UNCHANGED vars
  BY <1>5 DEF vars, CInv, CmdRecorded
<1>6. QED
  BY <1>1, <1>2, <1>3, <1>4, <1>5 DEF Next

LEMMA NextCInv == CInv /\ [Next]_vars => CInv'
BY NextIInv, NextCmdRecorded DEF CInv

(* In a state of CInv, the spec's command line and the one-character      *)
(* condition agree for every run.                                         *)
LEMMA CInvCmdlineIff == CInv => (CmdlineAsSpecified <=> IdentifierRunsOneChar)
<1> SUFFICES ASSUME CInv PROVE CmdlineAsSpecified <=> IdentifierRunsOneChar
  OBVIOUS
<1>1. ASSUME NEW r \in Runs, run[r].phase # "idle", gen = "BaseTool2"
      PROVE  run[r].cmd = <<Exe>> \o run[r].options \o
                 SpecFilesOrIdentifier(run[r].task.files, run[r].task.identifier)
             <=> (run[r].task.files = <<>> => Len(run[r].task.identifier) = 1)
  <2>1. run[r].options \in OptionLists /\ run[r].task \in RunTasks
    BY <1>1 DEF CInv, CmdRecorded, IInv, TypeOK
  <2>2. run[r].cmd = CmdlineBaseTool2(run[r].options, run[r].task)
    BY <1>1 DEF CInv, CmdRecorded, Cmdline
  <2>3. QED
    BY <2>1, <2>2, CmdlineAsSpecifiedIff
<1>2. QED
  BY <1>1 DEF CmdlineAsSpecified, IdentifierRunsOneChar

(***************************************************************************)
(* The command-line finding, for every sweep and every value of the      *)
(* constants: BaseTool2's default cmdline() gives the command line       *)
(* spec.md describes in every reachable state exactly when every         *)
(* identifier task it was started with has a one-character identifier;  *)
(* any longer identifier is split into its characters (template.py line *)
(* 359), whatever the interleaving of the runs.                          *)
(***************************************************************************)
THEOREM CmdlineAsSpecifiedExactly ==
  Spec => [](CmdlineAsSpecified <=> IdentifierRunsOneChar)
<1>1. Spec => []CInv
  BY InitCInv, NextCInv, PTL DEF Spec
<1>2. QED
  BY <1>1, CInvCmdlineIff, PTL
=============================================================================
