------------------------------ MODULE TaskSpec ------------------------------
(***************************************************************************)
(* What the Task value object promises (spec.md section 3), with no heap:  *)
(* the harness constructs tasks, each either files-based or a bare         *)
(* identifier, never both and never neither, and a constructed task is an  *)
(* immutable value: the sequence of tasks only grows.                      *)
(***************************************************************************)
EXTENDS TaskValue

CONSTANTS OptKey, OptVal, MaxTasks

VARIABLE tasks

TaskValues ==
  [files : FileLists \cup {<<>>}, identifier : Idents \cup {None},
   property_file : PropFiles \cup {None},
   options : [OptKey -> OptVal] \cup {None}]

Init == tasks = <<>>

Construct(t) ==
  /\ Len(tasks) < MaxTasks
  /\ WellFormed(t.files, t.identifier)
  /\ tasks' = Append(tasks, t)

Next == \E t \in TaskValues : Construct(t)

Spec == Init /\ [][Next]_tasks
=============================================================================
