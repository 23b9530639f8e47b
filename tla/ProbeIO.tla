------------------------------- MODULE ProbeIO -------------------------------
(***************************************************************************)
(* The I/O of one version probe (template.py, _version_from_tool, lines   *)
(* 121-124): Popen([executable, arg], stdout=PIPE, stderr=PIPE) and        *)
(* process.communicate().  The tool writes its output chunk by chunk into *)
(* two pipes of bounded capacity and blocks while the pipe it writes to   *)
(* is full; then it exits, or it hangs.  communicate() reads whichever    *)
(* pipe has data, until both are at end of file, and then reaps the       *)
(* process; it has no timeout.                                             *)
(***************************************************************************)
EXTENDS Naturals, Sequences

CONSTANTS
  Programs,  \* what the tool writes: sequences over Streams, one per chunk
  Cap        \* capacity of a pipe, in chunks

Streams == {"out", "err"}

ASSUME ProgramsAssumption == Programs \subseteq Seq(Streams)
ASSUME CapAssumption == Cap \in Nat \ {0}

VARIABLES
  prog,      \* the chunks the tool has still to write
  hangs,     \* the tool never exits once it has written its output
  exited,    \* the tool has exited, closing its ends of both pipes
  pipe,      \* pipe[s]: chunks written to stream s and not yet read
  written,   \* written[s]: chunks the tool wrote to stream s
  got,       \* got[s]: chunks communicate() read from stream s
  returned   \* communicate() has returned (stdout, stderr)

vars == <<prog, hangs, exited, pipe, written, got, returned>>

Init ==
  /\ prog \in Programs
  /\ hangs \in BOOLEAN
  /\ exited = FALSE
  /\ pipe = [s \in Streams |-> 0]
  /\ written = [s \in Streams |-> 0]
  /\ got = [s \in Streams |-> 0]
  /\ returned = FALSE

-----------------------------------------------------------------------------
(* The tool, an external process.                                         *)

(* write(): blocks while the pipe is full.                                *)
CanWrite == prog # <<>> /\ pipe[Head(prog)] < Cap

ToolWrite ==
  LET s == Head(prog) IN
  /\ CanWrite
  /\ pipe' = [pipe EXCEPT ![s] = @ + 1]
  /\ written' = [written EXCEPT ![s] = @ + 1]
  /\ prog' = Tail(prog)
  /\ UNCHANGED <<hangs, exited, got, returned>>

CanExit == prog = <<>> /\ ~hangs /\ ~exited

ToolExit ==
  /\ CanExit
  /\ exited' = TRUE
  /\ UNCHANGED <<prog, hangs, pipe, written, got, returned>>

-----------------------------------------------------------------------------
(* process.communicate(), as the probe calls it: no input, no timeout.    *)

(* End of file on stream s: the writer has exited and the pipe is empty.  *)
AtEOF(s) == exited /\ pipe[s] = 0

(* Mutant: stdout read to end of file before stderr is read.             *)
ReadSequential(s) ==
  /\ ~returned /\ pipe[s] > 0
  /\ s = "err" => AtEOF("out")
  /\ pipe' = [pipe EXCEPT ![s] = @ - 1]
  /\ got' = [got EXCEPT ![s] = @ + 1]
  /\ UNCHANGED <<prog, hangs, exited, written, returned>>

(* Mutant: a read that does not wait for data.                           *)
ReadUnguarded(s) ==
  /\ ~returned
  /\ pipe' = [pipe EXCEPT ![s] = @ - 1]
  /\ got' = [got EXCEPT ![s] = @ + 1]
  /\ UNCHANGED <<prog, hangs, exited, written, returned>>

(* Mutant: the reader waits for end of file on stdout before stderr.     *)
CanReadSequential(s) ==
  ~returned /\ pipe[s] > 0 /\ (s = "err" => AtEOF("out"))

(* The select loop wakes up for a pipe that has data.                     *)
CanRead(s) == ~returned /\ pipe[s] > 0

(* One read of whichever pipe has data (communicate's select loop).       *)
Read(s) ==
  /\ CanRead(s)
  /\ pipe' = [pipe EXCEPT ![s] = @ - 1]
  /\ got' = [got EXCEPT ![s] = @ + 1]
  /\ UNCHANGED <<prog, hangs, exited, written, returned>>

(* Mutant: return once the process has exited, unread data left behind.  *)
ReturnOnExit ==
  /\ ~returned /\ exited
  /\ returned' = TRUE
  /\ UNCHANGED <<prog, hangs, exited, pipe, written, got>>

CanReturn == ~returned /\ \A s \in Streams : AtEOF(s)

(* Both streams at end of file: wait() reaps the tool and the call returns.*)
Return ==
  /\ CanReturn
  /\ returned' = TRUE
  /\ UNCHANGED <<prog, hangs, exited, pipe, written, got>>

Tool == ToolWrite \/ ToolExit

Communicate == (\E s \in Streams : Read(s)) \/ Return

Next == Tool \/ Communicate

(***************************************************************************)
(* The operating system runs the tool, and communicate() keeps reading    *)
(* while data is available: both are weakly fair.  Nothing makes a tool   *)
(* that hangs exit.                                                        *)
(***************************************************************************)
Spec == Init /\ [][Next]_vars /\ WF_vars(Tool) /\ WF_vars(Communicate)

-----------------------------------------------------------------------------
TypeOK ==
  /\ prog \in Seq(Streams) /\ hangs \in BOOLEAN /\ exited \in BOOLEAN
  /\ pipe \in [Streams -> 0..Cap]
  /\ written \in [Streams -> Nat] /\ got \in [Streams -> Nat]
  /\ returned \in BOOLEAN

(***************************************************************************)
(* When communicate() returns, it has captured every chunk the tool wrote *)
(* to each stream, so the version is parsed from the tool's whole output. *)
(***************************************************************************)
CapturedAll == returned => got = written

(***************************************************************************)
(* The probe returns unless the tool hangs: reading both pipes together   *)
(* means a tool that fills one pipe while the other is empty cannot       *)
(* deadlock with the probe (template.py line 124).                         *)
(***************************************************************************)
ReturnsUnlessHung == ~hangs => <>returned

(***************************************************************************)
(* The probe and the tool never wait on each other: unless the tool hangs *)
(* or the call has returned, the tool can write or exit, or the select    *)
(* loop has a pipe to read, or both pipes are at end of file.  A reader   *)
(* that drained stdout before stderr would be stuck while the tool blocks *)
(* on a full stderr pipe (template.py line 124).                          *)
(***************************************************************************)
NeverStuck ==
  ~hangs /\ ~returned =>
    CanWrite \/ CanExit \/ (\E s \in Streams : CanRead(s)) \/ CanReturn

-----------------------------------------------------------------------------
(***************************************************************************)
(* The pipes implement the call of ProbeCall: the chunks written are its *)
(* output, the tool's exit is its exit, and what communicate() has read  *)
(* becomes its result when the call returns.  Reads are internal steps.  *)
(***************************************************************************)
Abs == INSTANCE ProbeCall WITH out <- written, done <- exited,
         result <- IF returned THEN got ELSE [s \in Streams |-> 0]

(***************************************************************************)
(* communicate() behaves as ProbeCall specifies: it returns only after    *)
(* the tool exited, with exactly what the tool wrote to each stream, and  *)
(* once the tool has exited it does return (template.py line 124).        *)
(***************************************************************************)
AbsSpec == Abs!Spec
=============================================================================
