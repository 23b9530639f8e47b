----------------------------- MODULE TaskValue -----------------------------
(***************************************************************************)
(* The value-level part of BaseTool2.Task (src/benchexec/tools/template.py)*)
(* : the constructor's assertion, the accessors input_files,               *)
(* input_files_or_identifier and require_input_files, and the set of task  *)
(* values the specification allows.  No variables: the modules of the      *)
(* object heap (Task) and of the adapter protocol (Adapter) extend it.     *)
(*                                                                         *)
(* Strings that the code treats as strings (the identifier, whose          *)
(* characters tuple() enumerates) are sequences over the constant set      *)
(* Chars; paths and property files are model values.                       *)
(***************************************************************************)
EXTENDS Naturals, Sequences

CONSTANTS
  Path,        \* input-file paths (model values)
  Chars,       \* characters of identifier strings
  Idents,      \* identifier arguments: finite set of strings (Seq(Chars)) and None
  PropFiles,   \* property-file paths (model values)
  FileLists,   \* input_files arguments: finite set of sequences of paths
  None         \* Python's None

ASSUME IdentsAssumption == Idents \subseteq Seq(Chars) \cup {None}
ASSUME FileListsAssumption == FileLists \subseteq Seq(Path)
ASSUME NoneAssumption == None \notin Seq(Chars) \cup Path \cup PropFiles

(* Python truth value of the identifier argument: None and "" are false.  *)
IdentTruthy(id) == id \notin {None, <<>>}

(***************************************************************************)
(* Task.__new__'s assertion, bool(input_files) != bool(identifier):        *)
(* construction succeeds iff exactly one of the two is truthy.             *)
(***************************************************************************)
NewAllowed(files, id) == (files # <<>>) # IdentTruthy(id)

(***************************************************************************)
(* tuple(s) of a string s: the tuple of its characters, each a string of  *)
(* length one.                                                             *)
(***************************************************************************)
TupleOfString(s) == [i \in 1..Len(s) |-> <<s[i]>>]

(***************************************************************************)
(* Task.input_files_or_identifier: input_files_or_empty or                 *)
(* tuple(self.identifier).  Python's `or` yields the file tuple when it is *)
(* non-empty, else tuple() of the identifier string.                      *)
(***************************************************************************)
InputFilesOrIdentifier(files, id) ==
  IF files # <<>> THEN files ELSE TupleOfString(id)

(* Outcome of Task.input_files: require_input_files() raises               *)
(* UnsupportedFeatureException on a task without input files.             *)
Unsupported == "UnsupportedFeatureException"

InputFiles(files) == IF files = <<>> THEN Unsupported ELSE files

(***************************************************************************)
(* What spec.md section 3 promises of input_files_or_identifier: the      *)
(* input files, else a one-element sequence wrapping the identifier.      *)
(***************************************************************************)
SpecFilesOrIdentifier(files, id) ==
  IF files # <<>> THEN files ELSE <<id>>

(***************************************************************************)
(* spec.md section 3: "identifier (string, present iff input_files is     *)
(* empty)", and section 8: "exactly one of (input_files non-empty,        *)
(* identifier non-null) holds"; the Task docstring (lines 312-313): the   *)
(* identifier is None unless the list of input files is empty.            *)
(***************************************************************************)
WellFormed(files, id) == (files # <<>>) # (id # None)
=============================================================================
