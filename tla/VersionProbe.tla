---------------------------- MODULE VersionProbe ----------------------------
(***************************************************************************)
(* The version probe _version_from_tool of BaseTool2 and BaseTool          *)
(* (template.py): run [executable, arg], capture stdout and stderr, reject *)
(* launch failures, unexpected error output and non-zero exit codes, then  *)
(* strip the selected stream and, with a line_prefix, return the stripped  *)
(* rest of the first line that starts with it.                             *)
(*                                                                         *)
(* The tool is a record of what running it produces: whether it launches   *)
(* (Popen raises OSError otherwise), its stdout and stderr bytes and its   *)
(* exit code.  Output is a sequence over the constant alphabet Chars; the  *)
(* alphabet is ASCII, so decode_to_string maps each byte to the same      *)
(* character.  arg only reaches the tool and is folded into its behaviour.*)
(* The harness calls the probe again and again (once per tool and         *)
(* benchmark); `last` records the last call and what it returned.         *)
(***************************************************************************)
EXTENDS Integers, Sequences, SequencesExt

CONSTANTS
  Chars,        \* the characters of tool output
  WS,           \* the whitespace characters among them (str.strip)
  NL,           \* the line-break character (str.splitlines)
  Outputs,      \* byte strings a tool may write to stdout or stderr
  LinePrefixes, \* line_prefix arguments: None or strings
  ReturnCodes,  \* exit codes (negative: killed by a signal)
  None

ASSUME AlphabetAssumption == WS \subseteq Chars /\ NL \in WS
ASSUME OutputsAssumption == Outputs \subseteq Seq(Chars)
ASSUME LinePrefixesAssumption == LinePrefixes \subseteq Seq(Chars) \cup {None}
ASSUME ReturnCodesAssumption == 0 \in ReturnCodes /\ ReturnCodes \subseteq Int

Tools == [launches : BOOLEAN, stdout : Outputs, stderr : Outputs,
          returncode : ReturnCodes]
Params == [use_stderr : BOOLEAN, ignore_stderr : BOOLEAN,
           line_prefix : LinePrefixes]

VARIABLE last

-----------------------------------------------------------------------------
(* String operations of Python's str, over sequences of Chars.            *)

(* s.strip(): drop leading and trailing whitespace.                       *)
Strip(s) ==
  LET keep == {i \in 1..Len(s) : s[i] \notin WS}
  IN  IF keep = {} THEN <<>> ELSE SubSeq(s, Min(keep), Max(keep))

(***************************************************************************)
(* s.splitlines(): the pieces between line breaks; a final line break     *)
(* does not start another (empty) line, and "" has no lines.              *)
(***************************************************************************)
SplitLines(s) ==
  LET breaks == SetToSortSeq({i \in 1..Len(s) : s[i] = NL}, <)
      n      == IF s # <<>> /\ s[Len(s)] # NL THEN Len(breaks) + 1
                ELSE Len(breaks)
      from(j) == IF j = 1 THEN 1 ELSE breaks[j - 1] + 1
      to(j)   == IF j <= Len(breaks) THEN breaks[j] - 1 ELSE Len(s)
  IN  [j \in 1..n |-> SubSeq(s, from(j), to(j))]

(* line[len(line_prefix):] *)
AfterPrefix(line, p) == SubSeq(line, Len(p) + 1, Len(line))

-----------------------------------------------------------------------------
(***************************************************************************)
(* _version_from_tool(executable, arg, use_stderr, ignore_stderr,          *)
(* line_prefix), as the code computes it.  The three early returns are    *)
(* the OSError handler, the error-output check and the exit-code check;   *)
(* `if line_prefix:` is false for None and for "".                       *)
(***************************************************************************)
(* Mutant: error output rejected even when it is the selected stream.    *)
RejectedAnyStderr(tool, par) ==
  \/ ~tool.launches
  \/ tool.stderr # <<>> /\ ~par.ignore_stderr
  \/ tool.returncode # 0

Rejected(tool, par) ==
  \/ ~tool.launches
  \/ tool.stderr # <<>> /\ ~par.use_stderr /\ ~par.ignore_stderr
  \/ tool.returncode # 0

(* Mutant: next(matches, None), no version becomes None instead of "".   *)
FirstMatchOrNone(lines, p) ==
  LET matches == SelectSeq(lines, LAMBDA l : IsPrefix(p, l))
  IN  IF matches = <<>> THEN None ELSE Strip(AfterPrefix(Head(matches), p))

FirstMatch(lines, p) ==
  LET matches == SelectSeq(lines, LAMBDA l : IsPrefix(p, l))
  IN  IF matches = <<>> THEN <<>> ELSE Strip(AfterPrefix(Head(matches), p))

VersionFromTool(tool, par) ==
  LET output == Strip(IF par.use_stderr THEN tool.stderr ELSE tool.stdout)
  IN  CASE Rejected(tool, par)            -> <<>>
        [] par.line_prefix \in {None, <<>>} -> output
        [] OTHER -> FirstMatch(SplitLines(output), par.line_prefix)

(* The harness calls version(), which calls the probe; last is the call.  *)
Probe(tool, par) ==
  /\ last = None
  /\ last' = [tool |-> tool, par |-> par, result |-> VersionFromTool(tool, par)]

(* The harness has used the version string and may probe again.          *)
Consume ==
  /\ last # None
  /\ last' = None

Init == last = None

Next ==
  \/ last = None /\ \E tool \in Tools, par \in Params : Probe(tool, par)
  \/ Consume

Spec == Init /\ [][Next]_last

-----------------------------------------------------------------------------
(***************************************************************************)
(* The version probe as spec.md section 4.1 describes it, stated without  *)
(* the code's generator: launch failure, unexpected stderr output or a     *)
(* non-zero exit code give ""; otherwise the selected stream, stripped;   *)
(* if a line_prefix is given, the stripped remainder of the first line    *)
(* starting with it, "" if no line does.                                   *)
(***************************************************************************)
SpecVersion(tool, par) ==
  LET out   == Strip(IF par.use_stderr THEN tool.stderr ELSE tool.stdout)
      lines == SplitLines(out)
      p     == par.line_prefix
      hits  == {i \in 1..Len(lines) : IsPrefix(p, lines[i])}
      fails == \/ ~tool.launches
               \/ tool.returncode # 0
               \/ tool.stderr # <<>> /\ ~(par.use_stderr \/ par.ignore_stderr)
  IN  IF fails THEN <<>>
      ELSE IF p = None THEN out
      ELSE IF hits = {} THEN <<>>
      ELSE Strip(AfterPrefix(lines[Min(hits)], p))

TypeOK ==
  last = None \/ last \in [tool : Tools, par : Params, result : Seq(Chars)]

(***************************************************************************)
(* Every version string the probe returned is the one spec.md section 4.1 *)
(* describes for that tool behaviour and those arguments.                 *)
(***************************************************************************)
VersionAsSpecified ==
  last # None => last.result = SpecVersion(last.tool, last.par)
=============================================================================
