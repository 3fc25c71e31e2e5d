------------------------------- MODULE EditorHook -------------------------------
(****************************************************************************)
(* The hooks that an editor runs before a prompt is submitted               *)
(* (deploy/cursor/hooks): one process per turn.  The turns of one window    *)
(* follow each other, those of two windows with one project open overlap.   *)
(* A hook asks the MCP server for an improvement, leaves it in two files of *)
(* the project, tells the server that it was taken, and lets the prompt go  *)
(* on, improved or not.                                                     *)
(*                                                                          *)
(* Left out: texts (a turn has one prompt and at most one improvement,      *)
(* which is valid whenever it differs: validate.py never changes a text it  *)
(* rejects), transcripts, modes, sessions and workspaces, which are passed  *)
(* on, a parent named by the editor, which it does not, and prompts so long *)
(* that a file is written in pieces.  Improver has what the server does     *)
(* meanwhile; here it writes rows.                                          *)
(****************************************************************************)
EXTENDS Naturals, Sequences, FiniteSets

CONSTANTS
    None,
    MaxTurns,       \* bound: prompts submitted
    Recording,      \* turns whose hook records edits (ylang-session-start.py)
    MaxRows         \* bound: usage rows

ASSUME HookAssumption ==
    /\ MaxTurns \in Nat /\ MaxRows \in Nat /\ Recording \subseteq 1..MaxTurns
    /\ None \notin Nat

VARIABLES
    hook,           \* the hook process of each turn, or what is left of it
    files,          \* the two files of the project
    abandoned,      \* turns whose hook sent an acceptance and did not wait for it
    serving,        \* the turn whose prompt the server improves, if any
    rows,           \* the usage table, oldest first; a row is named by its trace
    feedback        \* feedback_events

serverVars == <<abandoned, serving, rows, feedback>>
hookVars == <<hook, files, serverVars>>

-------------------------------------------------------------------------------
(* Turns and files *)

Turns == 1..MaxTurns

\* A verdict says what becomes of the prompt.  A turn is clean as long as it has
\* not overlapped with another one and has lost no file.
NewTurn == [pc |-> "new", kind |-> "none", parent |-> None, verdict |-> "same",
            trace |-> None, clean |-> TRUE]

At(n, pc) == hook[n].pc = pc
Running(n) == hook[n].pc \notin {"new", "over"}
Goto(n, pc) == hook' = [hook EXCEPT ![n].pc = pc]

\* The prompt goes on to the model, as the verdict says or as it was.
Over(h) == IF h.clean THEN [h EXCEPT !.pc = "over"]
           ELSE [h EXCEPT !.pc = "over", !.parent = None, !.trace = None]
FailOpen(h) == [NewTurn EXCEPT !.pc = "over", !.kind = "failed", !.clean = FALSE]

\* What is in a file that a process has opened for writing and not written yet,
\* or in which a shorter text has been written over a longer one: the file of
\* the trace is JSON and cannot be read then.
Emptied == 0

\* (mutant) the file passes on the parent
ParentTexts(h, f) == {h.parent}

\* _write_improved_file, _write_last_trace: the trace, for the one that reads it.
Texts(h, f) == {h.trace} \cup (IF f = "lastTrace" /\ files[f] # Emptied THEN {Emptied} ELSE {})

\* _read_prior_trace_id
TraceIn(f) == IF files[f] = Emptied THEN None ELSE files[f]

ServerUnchanged == UNCHANGED serverVars

-------------------------------------------------------------------------------
(* Starting *)

\* A prompt with ylang-off, an empty or a skipped one go on at once; a bare
\* reference and a task look for the trace of the turn before.
Submit(n) ==
    /\ At(n, "new") /\ \A m \in 1..(n - 1) : ~At(m, "new")
    /\ \E kind \in {"bypass", "reference", "task"} :
          LET h == [NewTurn EXCEPT !.kind = kind, !.pc = "look",
                                   !.clean = \A m \in Turns : ~Running(m)]
          IN  hook' = [m \in Turns |->
                 IF m # n THEN [hook[m] EXCEPT !.clean = @ /\ ~Running(m)]
                 ELSE IF kind = "bypass" THEN Over(h) ELSE h]
    /\ UNCHANGED files /\ ServerUnchanged

AfterLook(h) == IF h.kind = "reference" THEN "sidecar" ELSE "ask"

ReadLastTrace(n) ==
    LET trace == TraceIn("lastTrace")
    IN  /\ At(n, "look")
        /\ hook' = [hook EXCEPT
                       ![n].parent = trace,
                       ![n].pc = IF trace = None THEN "lookAside" ELSE AfterLook(hook[n])]
        /\ UNCHANGED files /\ ServerUnchanged

ReadSidecar(n) ==
    /\ At(n, "lookAside")
    /\ hook' = [hook EXCEPT ![n].parent = TraceIn("sidecar"), ![n].pc = AfterLook(hook[n])]
    /\ UNCHANGED files /\ ServerUnchanged

-------------------------------------------------------------------------------
(* What comes after what *)

AfterAccept(n) == IF n \in Recording THEN "record" ELSE "release"

\* (mutant) an unchanged prompt counts as taken, too
AfterTraceAlways(n) == IF hook[n].kind = "reference" THEN "release" ELSE "accept"

\* An improvement that changes the text counts as taken, reviewed or not.
AfterTrace(n) ==
    CASE hook[n].kind = "reference" -> "release"
      [] hook[n].kind # "reference" /\ hook[n].verdict # "same" -> "accept"
      [] OTHER -> AfterAccept(n)

AfterFile(n, f) ==
    IF f = "sidecar" /\ hook[n].trace # None THEN "lastTrace" ELSE AfterTrace(n)

-------------------------------------------------------------------------------
(* The files *)

OpenAt == [sidecar |-> "sidecarOpen", lastTrace |-> "lastTraceOpen"]

\* write_text empties the file, ...
OpenFile(n) ==
    \E f \in DOMAIN OpenAt :
        /\ At(n, f)
        /\ files' = [files EXCEPT ![f] = Emptied]
        /\ Goto(n, OpenAt[f])
        /\ ServerUnchanged

\* ... then writes.
WriteFile(n) ==
    \E f \in DOMAIN OpenAt :
        /\ At(n, OpenAt[f])
        /\ \E text \in Texts(hook[n], f) : files' = [files EXCEPT ![f] = text]
        /\ Goto(n, AfterFile(n, f))
        /\ ServerUnchanged

\* An OSError at either is logged.
FileError(n) ==
    \E f \in DOMAIN OpenAt :
        /\ At(n, f) \/ At(n, OpenAt[f])
        /\ hook' = [hook EXCEPT ![n].clean = FALSE, ![n].pc = AfterFile(n, f)]
        /\ UNCHANGED files /\ ServerUnchanged

\* updated_input for a verdict "apply", user_message for "review"
Release(n) ==
    /\ At(n, "release")
    /\ hook' = [hook EXCEPT ![n] = Over(@)]
    /\ UNCHANGED files /\ ServerUnchanged

-------------------------------------------------------------------------------
(* Calls that last too long *)

\* The text submitted, as the hook reports it, is the improved one.
KeptAsIs(n) == hook[n].verdict # "review"

\* FeedbackStore.record_edit
Record(n) == feedback' = feedback \cup {[turn |-> n, kept |-> KeptAsIs(n)]}

\* A hook that does not wait any more may have sent its call, which the server
\* serves nevertheless.  When matters for an acceptance only; an improvement
\* that nobody waits for is one of the others that write rows.
LeaveCall(n) ==
    /\ serving' = IF serving = n THEN None ELSE serving
    /\ \/ UNCHANGED <<abandoned, feedback>>
       \/ At(n, "accept") /\ abandoned' = abandoned \cup {n} /\ UNCHANGED feedback
       \/ At(n, "record") /\ Record(n) /\ UNCHANGED abandoned
    /\ UNCHANGED rows

\* The calls are improve_prompt, the same with record_acceptance_only, and
\* record_prompt_edit.
Calling == {"ask", "accept", "record"}

\* (mutant) only the improvement has a timeout
MayFailAsking(n) == At(n, "ask")

\* A call fails or has lasted too long (_run_timed).
MayFail(n) == hook[n].pc \in Calling

GiveUp(n) ==
    /\ MayFail(n) /\ LeaveCall(n)
    /\ hook' = [hook EXCEPT ![n] =
                   CASE @.pc = "ask" -> FailOpen(@)
                     [] @.pc = "accept" -> [@ EXCEPT !.pc = AfterAccept(n)]
                     [] @.pc = "record" -> [@ EXCEPT !.pc = "release"]]
    /\ UNCHANGED files

\* The editor's own timeout (deploy/cursor/hooks.json) comes before the three
\* of the hook together: the process is killed while it waits, and the prompt
\* goes on as it was.
Kill(n) ==
    /\ hook[n].pc \in Calling /\ LeaveCall(n)
    /\ hook' = [hook EXCEPT ![n] = FailOpen(@)]
    /\ UNCHANGED files

-------------------------------------------------------------------------------
(* The MCP server, which runs one tool at a time *)

AppendRow(owner) == rows' = Append(rows, [owner |-> owner, accepted |-> None])
RowsOf(owner) == {u \in DOMAIN rows : rows[u].owner = owner}

StartImproving(n) ==
    /\ At(n, "ask") /\ serving = None
    /\ serving' = n
    /\ UNCHANGED <<hook, files, abandoned, rows, feedback>>

\* improve_prompt writes the row of a completion and that of a critique, or none
\* if the improvement was cached.
WriteRow(n) ==
    /\ serving = n /\ Len(rows) < MaxRows
    /\ Cardinality(RowsOf(n)) < 2
    /\ AppendRow(n)
    /\ UNCHANGED <<hook, files, abandoned, serving, feedback>>

\* The answer names the trace of the latest row, if that is of the last hour.
LatestTraces(n) ==
    CASE rows = <<>> -> {None}
      [] rows # <<>> /\ rows[Len(rows)].owner = n -> {Len(rows)}
      [] OTHER -> {Len(rows), None}

Answer(n) ==
    /\ serving = n
    /\ \E trace \in LatestTraces(n), verdict \in {"same", "apply", "review"} :
          hook' = [hook EXCEPT ![n].trace = trace, ![n].verdict = verdict, ![n].pc = "sidecar"]
    /\ serving' = None
    /\ UNCHANGED <<files, abandoned, rows, feedback>>

\* update_last_improver_accepted
MarkAccepted(n) ==
    /\ serving = None
    /\ rows' = IF rows = <<>> THEN rows ELSE [rows EXCEPT ![Len(rows)].accepted = n]
    /\ \/ At(n, "accept") /\ Goto(n, AfterAccept(n)) /\ UNCHANGED abandoned
       \/ n \in abandoned /\ abandoned' = abandoned \ {n} /\ UNCHANGED hook
    /\ UNCHANGED <<files, serving, feedback>>

RecordEdit(n) ==
    /\ serving = None
    /\ At(n, "record") /\ Record(n)
    /\ Goto(n, "release")
    /\ UNCHANGED <<files, abandoned, serving, rows>>

\* A chat at the gateway, a worker whose improvement timed out, or the call of a
\* hook that has given up.
OthersWrite ==
    /\ Len(rows) < MaxRows
    /\ AppendRow(None)
    /\ UNCHANGED <<hook, files, abandoned, serving, feedback>>

-------------------------------------------------------------------------------
HookInit ==
    /\ hook = [n \in Turns |-> NewTurn]
    /\ files = [sidecar |-> None, lastTrace |-> None]
    /\ abandoned = {} /\ serving = None /\ rows = <<>> /\ feedback = {}

\* What a hook does next; its timeouts are among it.
HookGoesOn(n) ==
    \/ ReadLastTrace(n) \/ ReadSidecar(n) \/ GiveUp(n)
    \/ OpenFile(n) \/ WriteFile(n) \/ FileError(n) \/ Release(n)

Server(n) ==
    \/ StartImproving(n) \/ WriteRow(n) \/ Answer(n)
    \/ MarkAccepted(n) \/ RecordEdit(n)

HookNext ==
    \/ \E n \in Turns : Submit(n) \/ HookGoesOn(n) \/ Kill(n) \/ Server(n)
    \/ OthersWrite

\* A hook goes on.  Nothing is assumed of the server, nor that the editor kills.
HookSpec == HookInit /\ [][HookNext]_hookVars /\ \A n \in Turns : WF_hookVars(HookGoesOn(n))

-------------------------------------------------------------------------------
(* Correctness *)

(* Every prompt goes on in the end, whatever the server does or does not do
   and whichever files cannot be written: the hook fails open (main).       *)
EveryPromptGoesOn == \A n \in Turns : Running(n) ~> At(n, "over")

(* A turn names the trace of the turn before as its parent, unless one of the
   two overlapped with another turn or lost a file, or the first got no trace
   (_read_prior_trace_id, _write_last_trace).                               *)
TurnsAreLinked ==
    \A n \in Turns \ {MaxTurns} :
        LET h == hook[n]
            next == hook[n + 1]
        IN  /\ At(n, "over") /\ h.clean /\ h.trace # None
            /\ next.clean /\ next.kind # "bypass" /\ next.pc \notin {"new", "look", "lookAside"}
            => next.parent = h.trace

(* What the hook tells the server of its prompt: only an improvement that
   changes it counts as taken, and on a row of its own turn, if there is one,
   or on a row that somebody else has written since; and it is reported as
   kept unless it was put back for review.  Only a hook that was killed may
   have told what did not happen (_run_main, update_last_improver_accepted). *)
SignalsAreTrue ==
    /\ \A n \in Turns, u \in DOMAIN rows :
          rows[u].accepted = n /\ hook[n].kind # "failed" =>
              /\ hook[n].verdict # "same"
              /\ rows[u].owner = n \/ \A o \in RowsOf(n) : o < u
    /\ \A e \in feedback :
          hook[e.turn].kind # "failed" => (e.kept <=> hook[e.turn].verdict # "review")

================================================================================
