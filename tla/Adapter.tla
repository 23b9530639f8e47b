------------------------------- MODULE Adapter -------------------------------
(***************************************************************************)
(* The adapter protocol of template.py: the harness instantiates the      *)
(* tool-info class (BaseTool2 or the legacy BaseTool) once, asks it for    *)
(* its name, and drives the one instance through every run of a sweep:    *)
(* it builds the run's Task and ResourceLimits, asks cmdline() for the    *)
(* command line, has the command executed (outside template.py) and hands *)
(* the exit status and timeout flag to determine_result().  Runs of the   *)
(* sweep interleave freely.                                                *)
(*                                                                         *)
(* The adapter's methods are the defaults of template.py; which of the    *)
(* abstract methods name() and executable() the subclass overrides is     *)
(* chosen at instantiation.  Options, paths and the executable are model  *)
(* values; the identifier is a string (sequence of Chars).                *)
(***************************************************************************)
EXTENDS TaskValue

CONSTANTS
  Exe,          \* the path executable() returns
  ToolName,     \* the string an overriding name() returns
  Runs,         \* the runs of the sweep
  OptionLists,  \* user option lists, in the order of the benchmark file
  LimitArgs,    \* keyword arguments the harness passes to ResourceLimits
  ExitCodes,    \* exit descriptions the execution may report
  RESULT_DONE   \* benchexec.result.RESULT_DONE

ASSUME ExeAssumption == Exe \notin Path /\ Exe # None
ASSUME LimitArgsAssumption ==
  LimitArgs \subseteq [cputime : Nat \cup {None}, cputime_hard : Nat \cup {None},
                       walltime : Nat \cup {None}, memory : Nat \cup {None},
                       cpu_cores : Nat \cup {None}]

(* The options that occur in the option lists; each list is a sequence.  *)
OptionValues == UNION {{o[i] : i \in DOMAIN o} : o \in OptionLists}
ASSUME OptionListsAssumption == OptionLists \subseteq Seq(OptionValues)

Generations == {"BaseTool2", "BaseTool"}
AbstractMethods == {"name", "executable"}
TypeError == "TypeError"
Phases == {"idle", "cmd", "ran", "done"}

(* The tasks the harness can construct: Task.__new__ asserts the rest away.*)
RunTasks == {t \in [files : FileLists, identifier : Idents] :
               NewAllowed(t.files, t.identifier)}

VARIABLES
  gen,        \* the class the tool-info module's Tool inherits from
  overrides,  \* which of name() and executable() the Tool class defines
  tool,       \* "none" before instantiation, then "ready" or TypeError
  toolName,   \* what name() returned, None before the call
  run         \* run[r]: the state of run r of the sweep

vars == <<gen, overrides, tool, toolName, run>>

Init ==
  /\ gen \in Generations
  /\ overrides \in SUBSET AbstractMethods
  /\ tool = "none"
  /\ toolName = None
  /\ run = [r \in Runs |-> [phase |-> "idle", options |-> None, task |-> None,
                             rlimits |-> None, cmd |-> None, exit |-> None,
                             isTimeout |-> None, label |-> None]]

-----------------------------------------------------------------------------
(***************************************************************************)
(* Tool(): ABCMeta refuses to instantiate a subclass of BaseTool2 that    *)
(* leaves an abstractmethod undefined; BaseTool is a plain class with      *)
(* defaults for both.                                                      *)
(***************************************************************************)
Instantiate ==
  /\ tool = "none"
  /\ tool' = IF gen = "BaseTool2" /\ ~(AbstractMethods \subseteq overrides)
             THEN TypeError ELSE "ready"
  /\ UNCHANGED <<gen, overrides, toolName, run>>

(* name(): the subclass's string, else the legacy default "UNKOWN".       *)
Name ==
  /\ tool = "ready" /\ toolName = None
  /\ toolName' = IF "name" \in overrides THEN ToolName ELSE "UNKOWN"
  /\ UNCHANGED <<gen, overrides, tool, run>>

(* ResourceLimits.__new__: the keyword arguments, defaulting to None,     *)
(* stored as they are.                                                     *)
ResourceLimits(a) ==
  [cputime |-> a.cputime, cputime_hard |-> a.cputime_hard,
   walltime |-> a.walltime, memory |-> a.memory, cpu_cores |-> a.cpu_cores]

(* BaseTool2.cmdline: [executable, *options, *task.input_files_or_identifier]*)
CmdlineBaseTool2(opts, t) ==
  <<Exe>> \o opts \o InputFilesOrIdentifier(t.files, t.identifier)

(* BaseTool.cmdline: [executable] + options + tasks, the task's files as   *)
(* the list of tasks.                                                      *)
CmdlineBaseTool(opts, t) == <<Exe>> \o opts \o t.files

Cmdline(g, opts, t) ==
  IF g = "BaseTool2" THEN CmdlineBaseTool2(opts, t) ELSE CmdlineBaseTool(opts, t)

(* A run starts: its Task and ResourceLimits are built, cmdline() called. *)
StartRun(r, opts, t, la) ==
  /\ tool = "ready" /\ toolName # None
  /\ run[r].phase = "idle"
  /\ run' = [run EXCEPT ![r].phase = "cmd", ![r].options = opts, ![r].task = t,
                         ![r].rlimits = ResourceLimits(la),
                         ![r].cmd = Cmdline(gen, opts, t)]
  /\ UNCHANGED <<gen, overrides, tool, toolName>>

(* The command is executed outside template.py; it reports an exit        *)
(* description and whether the run hit its time limit.                    *)
Execute(r, exit, timeout) ==
  /\ run[r].phase = "cmd"
  /\ run' = [run EXCEPT ![r].phase = "ran", ![r].exit = exit,
                         ![r].isTimeout = timeout]
  /\ UNCHANGED <<gen, overrides, tool, toolName>>

(* Mutant: the default body without its return statement.                *)
DetermineResultNoReturn(r) ==
  /\ run[r].phase = "ran"
  /\ run' = [run EXCEPT ![r].phase = "done", ![r].label = None]
  /\ UNCHANGED <<gen, overrides, tool, toolName>>

(* determine_result(...) of either generation: RESULT_DONE, whatever the  *)
(* exit status, output and timeout flag.                                   *)
DetermineResult(r) ==
  /\ run[r].phase = "ran"
  /\ run' = [run EXCEPT ![r].phase = "done", ![r].label = RESULT_DONE]
  /\ UNCHANGED <<gen, overrides, tool, toolName>>

Next ==
  \/ Instantiate
  \/ Name
  \/ \E r \in Runs :
       \/ run[r].phase = "idle" /\ \E opts \in OptionLists, t \in RunTasks,
                                      la \in LimitArgs : StartRun(r, opts, t, la)
       \/ run[r].phase = "cmd" /\ \E e \in ExitCodes, b \in BOOLEAN : Execute(r, e, b)
       \/ DetermineResult(r)

Spec == Init /\ [][Next]_vars

-----------------------------------------------------------------------------
(* cmdline() returns "a list of strings" (docstring, line 260): each     *)
(* argument is the executable, a path, an option or a string.            *)
CmdArgs == {Exe} \cup Path \cup OptionValues \cup Seq(Chars)

TypeOK ==
  /\ gen \in Generations /\ overrides \subseteq AbstractMethods
  /\ tool \in {"none", "ready", TypeError}
  /\ toolName \in {None, ToolName, "UNKOWN"}
  /\ \A r \in Runs :
       /\ run[r].phase \in Phases
       /\ run[r].phase # "idle" =>
            /\ run[r].task \in RunTasks /\ run[r].rlimits \in LimitArgs
            /\ run[r].cmd \in Seq(CmdArgs)
       /\ run[r].phase = "done" => run[r].label \in {RESULT_DONE}

(***************************************************************************)
(* spec.md sections 3 and 8: the default cmdline of BaseTool2 is          *)
(* [exe] + options + files-or-identifier, where files-or-identifier is    *)
(* the input files, else the one-element sequence of the identifier       *)
(* (without_files("id").input_files_or_identifier == ("id",)).            *)
(***************************************************************************)
CmdlineAsSpecified ==
  \A r \in Runs :
    run[r].phase # "idle" /\ gen = "BaseTool2" =>
      run[r].cmd = <<Exe>> \o run[r].options \o
                   SpecFilesOrIdentifier(run[r].task.files, run[r].task.identifier)

(***************************************************************************)
(* spec.md section 3 and the ResourceLimits docstring: every run's limits *)
(* have cputime and cputime_hard both set or both None, and cputime_hard  *)
(* >= cputime when set.                                                    *)
(***************************************************************************)
LimitsPaired ==
  \A r \in Runs :
    run[r].phase # "idle" =>
      LET l == run[r].rlimits
      IN  \/ l.cputime = None /\ l.cputime_hard = None
          \/ l.cputime # None /\ l.cputime_hard # None /\ l.cputime_hard >= l.cputime

(***************************************************************************)
(* spec.md section 7: an adapter that omits name() or executable() cannot *)
(* be instantiated; every adapter the harness drives defines both.        *)
(***************************************************************************)
OverridesEnforced == tool = "ready" => AbstractMethods \subseteq overrides
=============================================================================
