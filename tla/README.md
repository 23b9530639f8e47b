# TLA+ verification of the BenchExec tool-info template

This directory holds TLA+ models of `src/benchexec/tools/template.py`, the
contract between the BenchExec harness and its tool-info modules (adapters).
It also holds the TLC configurations that model-check the models and the
TLAPS proofs about the Task value object, its refinement of the abstract
Task specification, and the I/O of the version probe.

## The system

`template.py` defines the following parts:

- **Task** (`BaseTool2.Task`, lines 296-369): an immutable namedtuple.
  - Fields: input files, identifier, property file and options.
  - `__new__` turns the files into a tuple and asserts that exactly one of
    files and identifier is truthy. It deep-copies the options.
  - `with_files` and `without_files` are the factories.
  - Accessors: `input_files` (which raises `UnsupportedFeatureException`
    when there are no files), `input_files_or_identifier` and
    `require_input_files`.
- **ResourceLimits** (lines 371-405): a namedtuple of five limits whose
  constructor stores its keyword arguments as given.
- **Version probe** `_version_from_tool` (lines 103-155, duplicated as
  lines 489-541 for the legacy class):
  - it runs `[executable, arg]`;
  - it rejects a launch failure, unexpected stderr output and a non-zero
    exit code;
  - it strips the chosen stream and optionally searches for a line prefix.
- **BaseTool2** (lines 38-369): an ABC whose abstract methods are `name`
  and `executable`. The other methods have defaults: `cmdline`,
  `determine_result`, `version`, `environment`, `program_files`,
  `working_directory` and `get_value_from_output`.
- **BaseTool** (lines 408-650): the legacy generation. It is a plain class
  with a default for every method. Its `cmdline` takes a list of files and
  a dict of limits. Its `determine_result` takes the return code and the
  signal separately.

How the parts interact: the harness instantiates the adapter once and asks
for its name. Then, for every run of a sweep (runs may interleave), it does
the following:

1. builds a Task and a ResourceLimits;
2. calls `cmdline`;
3. has runexec execute the command line;
4. passes the exit status and the timeout flag to `determine_result`.

The harness keeps its own references to the options and the file list it
passed to Task. It may mutate them later.

## Modules

| Module | Models | State and actions |
|---|---|---|
| `TaskValue` | value-level Task code: the assertion (`NewAllowed`, `IdentTruthy`), `input_files_or_identifier` (`InputFilesOrIdentifier`, `TupleOfString`), `input_files`/`require_input_files` (`InputFiles`) | constants only; strings are sequences over `Chars`, paths are model values |
| `Task` | `Task.__new__`, `with_files` and `without_files` against a harness that mutates what it passed | see the list below |
| `TaskSpec` | the abstract Task promise of spec.md sections 3 and 8 | one variable, `tasks`, a growing sequence of task values, each with input files or a non-null identifier but not both (`WellFormed`) |
| `TaskProofs` | TLAPS proofs about `Task` | none |
| `TaskRefinement` | TLAPS proof that `Task` implements `TaskSpec` when no identifier is `""` | none |
| `ProbeIO` | the I/O of the probe's `Popen` and `communicate()` (lines 121-124) | `prog` is what the tool still has to write, one stream per chunk; `pipe[s]` counts unread chunks in a pipe of capacity `Cap`; `written`, `got`, `exited`, `hangs`, `returned`. Actions: `ToolWrite` (blocks on a full pipe) and `ToolExit` for the external tool; `Read(s)` (the select loop reads whichever pipe has data) and `Return` (both pipes at end of file) for `communicate()` |
| `ProbeCall` | what `communicate()` promises the probe, without pipes | `out`, `done`, `returned`, `result`. Actions: `Emit(s)`, `Finish` and `Return` (the whole output, once the tool has exited); weak fairness on `Return` |
| `ProbeIOProofs` | TLAPS proofs about `ProbeIO`, its refinement of `ProbeCall` included | none |
| `AdapterProofs` | TLAPS proofs about `Adapter`: `TypeOK`, and exactly when the default command line is the one spec.md describes | none |
| `VersionProbe` | `_version_from_tool` | `last` holds the last probe: the tool behaviour, the parameters and the result. `Probe` is one call and `Consume` is the harness using the result |
| `Adapter` | instantiation (ABCMeta versus the legacy class), `name`, `ResourceLimits.__new__`, both default `cmdline`s, default `determine_result` | variables `gen`, `overrides`, `tool`, `toolName` and `run[r]` (phase, options, task, limits, command line, exit, timeout, label). Actions: `Instantiate`, `Name`, `StartRun`, `Execute`, `DetermineResult` |

Details of `Task`:

- **Heap.** `dicts` and `cells` form a heap. The options dict maps keys to
  nested mutable cells. The allocation sets are `usedD` and `usedC`. The
  harness's references are `callerD` and `callerC`, and its file list is
  `srcFiles`.
- **Harness actions.** The `Caller*` actions are the harness:
  - allocating a dict or a cell;
  - `options[k] = ...`;
  - mutating a nested value in place;
  - replacing the file list.
- **Constructor.** `New` is `__new__`. It fails the assertion with
  `raised' = AssertionError`, or it deep-copies and appends. Deepcopy is an
  injective memo `f` from the original cells to fresh cells, which is what
  `copy.deepcopy` does with shared nested values.

`VersionProbe` takes the tool's output as given; `ProbeIO` models how that
output gets to the probe, and whether it gets there at all.

`MC_Task`, `MC_VersionProbe`, `MC_ProbeIO` and `MC_Adapter` give the constants their small
values for TLC.

## Runs

| Run | Config | Expect | What it shows |
|---|---|---|---|
| task_isolation | `MC_Task.cfg` | pass | `TypeOK`, `Isolated` and `TaskFrozen`: no later mutation by the harness reaches a task's options |
| task_identifier_empty | `MC_Task_AbsSpec.cfg` | violation | refinement of `TaskSpec` (`AbsSpec`): `Task((p1,), "", ...)` is constructed although spec.md forbids files together with a non-null identifier (line 321) |
| version_probe | `MC_VersionProbe.cfg` | pass | `VersionAsSpecified`: the probe returns what spec.md 4.1 says for every tool behaviour over outputs of up to 3 characters, for prefixes None, "p" and "p " |
| probe_io | `MC_ProbeIO.cfg` | pass | `TypeOK`; `CapturedAll`: on return every chunk written to each stream was read; `NeverStuck`: unless the tool hangs or the call returned, the tool can write or exit, a pipe has data, or both are at end of file; `ReturnsUnlessHung`: a tool that does not hang lets `communicate()` return, also when it fills one pipe while the other stays empty; `AbsSpec`: `ProbeIO` implements `ProbeCall` under the mapping `out <- written`, `done <- exited`, `result <- got` once returned, with the fairness of `ProbeCall` included |
| version_empty_prefix | `MC_VersionProbe_empty_prefix.cfg` | violation | `line_prefix=""` returns the whole output (line 148) |
| adapter_protocol | `MC_Adapter.cfg` | pass | `TypeOK`: every command line is a list of strings and paths (executable, options, files or identifier strings), every label `RESULT_DONE`; which list is the right one is `CmdlineAsSpecified`'s question |
| cmdline_identifier | `MC_Adapter_CmdlineAsSpecified.cfg` | violation | `without_files("ab")` produces the command line `[exe, "a", "b"]` (line 359) |
| rlimits_unpaired | `MC_Adapter_LimitsPaired.cfg` | violation | a soft CPU limit without a hard one is accepted (line 403) |
| legacy_abstract | `MC_Adapter_OverridesEnforced.cfg` | violation | a legacy adapter with neither `name` nor `executable` is instantiated (line 543) |

Bounds and why they are enough:

- **task_isolation.**
  - 1 option key, 2 values, 3 dict addresses and 4 cell addresses.
  - At most 2 tasks.
  - Identifiers None, "" and "ab", and file lists `<<>>` and `<<p1>>`.
  - Symmetry is taken over the addresses.

  This is enough for the harness to build a dict, construct a task from it,
  and then mutate both the key and the nested cell. It also allows two tasks
  that share the caller's dict.
- **task_identifier_empty.** The same instance. The identifier `""` with the
  file list `<<p1>>` is the smallest input on which truthiness and
  non-nullness differ; TLC reaches it in one step.
- **version_probe.**
  - Every output string of length at most 3 over `p`, `v`, space and newline.
  - Both return codes, launched or not, and every combination of the flags.

  This covers leading and trailing whitespace, several lines, non-matching
  lines and a prefix that contains a space.
- **adapter_protocol.**
  - Two runs under symmetry.
  - Option lists `<<>>` and `<<o1,o2>>`, so order matters.
  - Identifiers of length 1 and 2.
  - All nine pairs of CPU limits from None, 1 and 2.
  - Three exit descriptions.
  - Both generations and every subset of overridden abstract methods.

  `CHECK_DEADLOCK FALSE` is set there because the sweep really does end: every
  run done, or instantiation refused.
- **probe_io.**
  - Every tool program of up to 4 chunks over the two streams, hanging or not.
  - Pipes of capacity 2.

  Four chunks to one stream overfill its pipe, so the tool blocks on a full
  stderr pipe while stdout is empty: the case where reading stdout to end of
  file first would deadlock (mutants `ReadSequential` and, for `NeverStuck`,
  `CanReadSequential`). `CHECK_DEADLOCK FALSE`
  is set because a tool that hangs really does stop the system.

## Fairness and liveness

Only `ProbeIO` states fairness: `WF_vars(Tool) /\ WF_vars(Communicate)`.
The operating system keeps scheduling a runnable tool process, and
`communicate()` is a loop that reads as long as a pipe has data and returns
once both are at end of file; neither stops while it can go on. Nothing
makes a hanging tool exit, so `hangs` is a free initial choice and the
liveness property `ReturnsUnlessHung` is conditional on it. The unconditional
form is false: `communicate()` has no timeout (line 124). spec.md states
this as the contract ("a hang in the queried tool's `--version` handling
stalls the entire call"), so no property is written against it.

## Proofs

### TaskProofs

All of these are proved by tlapm for every value of the constants, under the
assumptions named in `TaskValue` and `Task`:

- `TypeCorrect`: `Spec => []TypeOK`. It rests on one typing lemma per group
  of actions.
- `IsolatedInvariant`: `Spec => []Isolated`. `Isolated` alone is not
  inductive: the deep copy's `CHOOSE` over the memo needs every allocated
  dict to refer only to allocated cells. The inductive invariant is
  `IInv == TypeOK /\ Isolated`, where that fact is the last conjunct of
  `TypeOK`.
- `TaskFrozenHolds`: `Spec => [][TaskUnchangedStep]_vars`. It rests on the
  lemma `NextStep`, which says every step from `IInv` satisfies `Frame`: the
  tasks are extended, and the dicts and cells reachable from them are
  untouched. `FrameUnchanged` turns `Frame` into the property.

The argument is this. The caller's actions only write objects in `callerD`
and `callerC`, and `Isolated` keeps these disjoint from the task objects. The
deep copy allocates only fresh objects, so these are outside the caller's
sets.

### TaskRefinement

`Refinement`: `ASSUME NoEmptyIdentifier PROVE Spec => AbsSpec`, where
`NoEmptyIdentifier == <<>> \notin Idents`. The hypothesis is needed: the
assertion of `Task.__new__` tests truthiness, and `bool("")` is false, so a
task with files and identifier `""` is constructed, while spec.md's rule
(`WellFormed`: files non-empty exactly when the identifier is None) forbids
it. The `task_identifier_empty` run finds that task. For every other
identifier, truthiness and non-nullness agree, and the proof goes through.
`AbsSpec` is `AbsSpec` is `TaskSpec!Spec` under the
mapping `AbsTasks`, which reads each task record as a value (its options
dict read through the heap). The proof follows the usual three steps:
`Spec => []RInv`, `Init => Abs!Init`, and every `Next` step from `RInv` maps
to `Abs!Construct` (a `New` that succeeds) or to a stutter (every caller
action, and a `New` that fails the assertion). `RInv` strengthens `IInv` by
`CellsHold`: every allocated cell holds a value of `OptVal`, which the
mapped options need to be option values. The stutter case is `Frame` again:
the heap reachable from existing tasks is untouched.

### ProbeIOProofs

- `TypeCorrect`: `Spec => []TypeOK`.
- `CapturedAllInvariant`: `Spec => []CapturedAll`.

`CapturedAll` is not inductive: it says nothing about states before the
return. The inductive invariant `IInv` adds conservation
(`written[s] = got[s] + pipe[s]` for each stream), that an exited tool has
nothing left to write, and that a returned call saw the tool exit with both
pipes empty. Each action preserves it by one lemma.

- `RefinesProbeCall`: `Spec => Abs!SafetySpec`, the safety part of
  `AbsSpec`. It uses the same `IInv`. `ToolWrite` maps to `Emit` of the
  stream it writes, because the tool writes only before it exits. `ToolExit`
  maps to `Finish`. A `Read` is a stutter: before the return the mapped
  result stays `Nothing`. `Return` maps to `ProbeCall`'s `Return`:
  conservation with both pipes empty gives `got = written`.

The safety half of `ReturnsUnlessHung` is proved too:

- `NeverStuckInvariant`: `Spec => []NeverStuck`. The tool and the select
  loop never wait on each other. Each action's guard is an operator of its
  own (`CanWrite`, `CanExit`, `CanRead(s)`, `CanReturn`), so `NeverStuck`
  speaks of exactly the conditions under which the actions can be taken.
  It follows from `IInv` by cases (lemma `IInvNeverStuck`):
  - if the tool has chunks left, its pipe either has room, or is full and
    so, since `Cap > 0`, has data to read;
  - if it has none and has not exited, it can exit;
  - if it has exited, either some pipe has data or both are at end of file.

From it, `ReturnsUnlessHung` is a temporal argument. Weak fairness of `Tool`
and `Communicate`, together with `NeverStuck`, gives a step whenever the
call has not returned. Every step moves a chunk, the exit or the return
forward, and a tool program is finite, so there are finitely many steps.
That argument reasons about `ENABLED` and stays with TLC.

### AdapterProofs

`TypeCorrect`: `Spec => []TypeOK` for `Adapter`, under the assumptions of
`TaskValue` and `Adapter` (`OptionListsAssumption` says that each option list
is a sequence). `TypeOK` constrains only the fields a run has set, so the
inductive invariant adds `run \in [Runs -> RunRecs]`: every run is a record
of the eight fields, each `None` or of its type. With it, the `EXCEPT` of
one run's fields leaves the other runs alone. The lemma `CmdlineType`
shows that both default `cmdline()`s build a sequence of arguments. In the
identifier case it uses that `Task.__new__`'s assertion makes the identifier
a non-empty string, so that `TupleOfString` applies to it. `LimitsStored`
shows that `ResourceLimits` stores its arguments unchanged.

`CmdlineAsSpecifiedExactly` covers the line-359 finding for every sweep and
every value of the constants. It proves
`Spec => [](CmdlineAsSpecified <=> IdentifierRunsOneChar)`. The spec's
command line is built in every reachable state exactly when every identifier
task of a BaseTool2 run has a one-character identifier. The `cmdline_identifier`
run finds the violation for `"ab"`; the theorem shows it for every longer
identifier, and that no other task is affected. The inductive invariant is
`CInv == IInv /\ CmdRecorded`. `CmdRecorded` says that a started run keeps
its options and the command line `cmdline()` built from them, whatever the
other runs do. The argument rests on three lemmas:

- `ConcatCancel`: a common prefix cancels.
- `TupleOfStringIsSingleton`: `tuple(id) = (id,)` exactly when `len(id) = 1`.
- `CmdlineAsSpecifiedIff`: the two facts above, applied to one run's
  command line.

Only model-checked:

- `ReturnsUnlessHung`, and the fairness part of `AbsSpec` (liveness). Their
  safety ingredient is proved (`NeverStuckInvariant`); the step from it to
  `<>returned` needs `ENABLED`, which tlapm 1.4.5 cannot expand.
- All of `VersionProbe`. It reaches RECURSIVE operators through
  `SequencesExt`. Beyond that, `VersionAsSpecified` says that the code's
  first match, `next()` over a filtered generator (`SelectSeq`), is the
  line of least index that starts with the prefix. That is induction over
  the lines, which no installed prover can do.

TLAPS cannot reach liveness and `ENABLED`, induction over data through
operator parameters, or modules that reach a RECURSIVE definition.

## Findings

- **Code bug** (line 359): `tuple(self.identifier)` splits the identifier
  into its characters. The property's own docstring and spec.md promise
  `("id",)`.
- **Spec-code divergence** (line 403): `ResourceLimits` does not check that
  the CPU limits are paired or that hard ≥ soft.
- **Spec-code divergence** (line 543): legacy adapters are not forced to
  define `name`/`executable`. The default name is `"UNKOWN"`.
- **Spec-code divergence** (line 321): the assertion
  `bool(input_files) != bool(identifier)` tests truthiness. So
  `Task((p1,), "", ...)` is constructed, and `Task((), "", ...)` is refused.
  spec.md sections 3 and 8, and the docstring (lines 312-313: identifier
  "None otherwise"), say that the identifier is non-null exactly when there
  are no files. Found by `task_identifier_empty`.
- **Spec gap** (line 148): a line prefix of `""` is treated as absent.

## Not modelled

- `program_files` and `_program_files_from_executable`: glob expansion by
  `util` is not in this repository.
- `environment`, `working_directory`, `version`, `get_value_from_output` and
  legacy `executable`: they return constants or delegate to `util`.
- The harness itself and runexec: only their calls into `template.py` are
  modelled, from spec.md (marked `spec_modelled` in PROJECT.json).
- The legacy harness hands a task's file list to `BaseTool.cmdline`. What it
  passes for identifier tasks is outside `src/`, and the model passes the
  empty file list.

- Processes the tool forks: `ProbeIO` takes end of file on a pipe to mean
  that the tool exited. A child that inherits the pipes would keep
  `communicate()` waiting after the tool exits.

## Plan for later work

1. Prove `VersionProbe`'s `TypeOK` in a restatement without recursion: own
   `Min`/`Max` and `StartsWith`, and line breaks ranked without
   `SetToSortSeq`. `VersionAsSpecified` would still need induction over
   `SelectSeq`.
2. Model `program_files` against a spec-modelled glob expander, and the
   application of the `environment` structure by the harness.
3. Add passing Adapter properties about the harness's reclassification of
   timeouts once that code is modelled.
