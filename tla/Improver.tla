-------------------------------- MODULE Improver --------------------------------
(****************************************************************************)
(* Improver.improve (src/ylang/improver/improver.py) in the processes that  *)
(* share a database.  A process serves one call at a time; the completion   *)
(* runs in a pool of worker threads, so it may outlive the call that asked  *)
(* for it; one that waits for a thread is like one that is slow.  Workers   *)
(* and calls write usage rows, and a call records its outcome on whatever   *)
(* row is the latest (src/ylang/usage/store.py).                            *)
(*                                                                          *)
(* Left out: the texts (Validation has what becomes of an answer), context  *)
(* templates, which are written like the outcome, the setting that disables *)
(* the timeout, and the contents of rows other than what they record and    *)
(* whose outcome they tell.  The rows of chats at the gateway disturb a     *)
(* call as those of another process do.                                     *)
(****************************************************************************)
EXTENDS ImproverCache, Validation, Sequences, FiniteSets

CONSTANTS
    MaxCalls        \* bound: how many calls the processes serve together

ASSUME ImproverAssumption ==
    /\ MaxCalls \in Nat /\ IsFiniteSet(Processes)
    /\ Null \notin Processes \cup (Processes \X (1..MaxCalls))

VARIABLES
    call,           \* the call that each process serves
    jobs,           \* completions submitted to the pools, by call
    rows            \* the usage table, oldest first

improverVars == <<cacheVars, call, jobs, rows>>

-------------------------------------------------------------------------------
(* Calls, jobs and rows *)

\* Calls are identified by their process and number.
Calls == Processes \X (1..MaxCalls)
Started == {c \in Calls : c[2] <= call[c[1]].n}

CallOf(p) == <<p, call[p].n>>

NoCall == [n |-> 0, pc |-> "idle", key |-> Null, accepted |-> FALSE, kind |-> "none",
           stub |-> Null, alone |-> TRUE, age |-> 0, faithful |-> TRUE]

NewJob == [state |-> "running", cancelled |-> FALSE, answered |-> FALSE, scrub |-> Null]

\* Kinds of rows.  Only a "completion" counts as a successful improver fire;
\* "orphan" is one that has been neutralised.  The outcome columns are empty
\* until a call updates them.
Row(owner, kind) == [owner |-> owner, kind |-> kind, outcome |-> Null]

At(p, pc) == call[p].pc = pc
Goto(p, pc) == call' = [call EXCEPT ![p].pc = pc]

\* What is left of a call that has returned.
Over(c) == [NoCall EXCEPT !.n = c.n, !.alone = c.alone, !.faithful = c.faithful]

\* Append a row.  The calls of other processes, and the running call of the
\* process if the row is not its own, are not alone with the rows any more.
AppendRow(row, moved) ==
    /\ rows' = Append(rows, row)
    /\ call' = [p \in Processes |->
                   [moved[p] EXCEPT !.alone = @ /\ row.owner = <<p, moved[p].n>>]]

CacheUnchanged == UNCHANGED cacheVars

-------------------------------------------------------------------------------
(* improve: before the model is asked *)

\* Hand the completion to the pool.
Submit(p, c) ==
    /\ call' = [call EXCEPT ![p] = [c EXCEPT !.pc = "waiting"]]
    /\ jobs' = [jobs EXCEPT ![<<p, c.n>>] = NewJob]

\* The caller may say that it takes the improvement; then there is no cache.
Begin(p) ==
    /\ At(p, "idle") /\ Cardinality(Started) < MaxCalls
    /\ \E k \in Keys, accepted \in BOOLEAN :
          LET c == [NoCall EXCEPT !.n = call[p].n + 1, !.key = k, !.accepted = accepted]
          IN  IF accepted THEN Submit(p, c)
              ELSE call' = [call EXCEPT ![p] = [c EXCEPT !.pc = "lookup"]] /\ UNCHANGED jobs
    /\ CacheUnchanged /\ UNCHANGED rows

\* A prompt that only points at a file passes through, with an outcome but
\* without a completion.
PassThrough(p) ==
    /\ At(p, "idle") /\ Cardinality(Started) < MaxCalls
    /\ call' = [call EXCEPT ![p] = [NoCall EXCEPT !.n = call[p].n + 1, !.kind = "reference",
                                        !.alone = FALSE, !.pc = "outcome"]]
    /\ CacheUnchanged /\ UNCHANGED <<jobs, rows>>

\* (mutant) a cached improvement is accounted like a fresh one
AccountHit(p, entry) ==
    call' = [call EXCEPT ![p].kind = "cached", ![p].age = entry.age, ![p].pc = "outcome",
                        ![p].faithful = entry.faithful]

\* A cached improvement is returned as it is.
ReturnHit(p, entry) ==
    call' = [call EXCEPT ![p] = [Over(@) EXCEPT !.age = entry.age, !.faithful = entry.faithful]]

Lookup(p) ==
    LET k == call[p].key
    IN  /\ At(p, "lookup")
        /\ \/ MemoryHit(p, k) /\ ReturnHit(p, memory[p][k]) /\ UNCHANGED jobs
           \/ DiskHit(p, k) /\ ReturnHit(p, disk[k]) /\ UNCHANGED jobs
           \/ Miss(p, k) /\ Submit(p, call[p])
        /\ UNCHANGED rows

-------------------------------------------------------------------------------
(* The worker: Engine.complete *)

JobsOf(p) == {<<p, n>> : n \in 1..call[p].n}

\* Finished: future.result returns.
Finished(j) == jobs[j].state = "finished"

\* usage_cancelled suppresses the row, except that of a paid completion.
Accounts(j, paid) == ~jobs[j].cancelled \/ paid

\* The provider answers or fails; the worker looks at usage_cancelled.
Answer(j) ==
    /\ jobs[j].state = "running"
    /\ \E ok \in BOOLEAN, paid \in BOOLEAN :
          jobs' = [jobs EXCEPT ![j].answered = ok,
                               ![j].state = IF Accounts(j, paid) THEN "writing" ELSE "finished"]
    /\ CacheUnchanged /\ UNCHANGED <<call, rows>>

WriteRow(j) ==
    /\ jobs[j].state = "writing"
    /\ AppendRow(Row(j, IF jobs[j].answered THEN "completion" ELSE "failure"), call)
    /\ jobs' = [jobs EXCEPT ![j].state = "finished"]
    /\ CacheUnchanged

\* mark_late_improver_orphans
Orphaned(after) ==
    [u \in DOMAIN rows |-> IF u > after /\ rows[u].kind = "completion"
                           THEN [rows[u] EXCEPT !.kind = "orphan"] ELSE rows[u]]

\* The callback of a job that has finished after its call gave up.
Scrub(j) ==
    /\ Finished(j) /\ jobs[j].scrub # Null
    /\ rows' = Orphaned(jobs[j].scrub)
    /\ jobs' = [jobs EXCEPT ![j] = Null]
    /\ call' = [p \in Processes |-> [call[p] EXCEPT !.alone = @ /\ rows' = rows]]
    /\ CacheUnchanged

-------------------------------------------------------------------------------
(* _run_improve_completion: waiting for the worker *)

Collect(p) ==
    LET j == CallOf(p)
    IN  /\ At(p, "waiting") \/ At(p, "grace")
        /\ Finished(j)
        /\ \E o \in IF jobs[j].answered THEN Outcomes ELSE {Outcome("failed", TRUE)} :
              call' = [call EXCEPT ![p].kind = o.kind, ![p].faithful = o.faithful,
                           ![p].pc = IF o.kind = "improved" /\ ~call[p].accepted
                                     THEN "accept" ELSE "outcome"]
        /\ jobs' = [jobs EXCEPT ![j] = Null]
        /\ CacheUnchanged /\ UNCHANGED rows

TimeOut(p) ==
    /\ At(p, "waiting") /\ ~Finished(CallOf(p))
    /\ jobs' = [jobs EXCEPT ![CallOf(p)].cancelled = TRUE]
    /\ call' = [call EXCEPT ![p].pc = "grace", ![p].alone = FALSE]
    /\ CacheUnchanged /\ UNCHANGED <<rows>>

\* (mutant) after the timeout the call waits for its worker
GraceHasNoEnd(p) == At(p, "grace") /\ jobs[CallOf(p)].state = "writing"

GraceIsOver(p) == At(p, "grace") /\ ~Finished(CallOf(p))

GiveUp(p) ==
    /\ GraceIsOver(p)
    /\ Goto(p, "stub")
    /\ CacheUnchanged /\ UNCHANGED <<jobs, rows>>

\* _timeout_result: a row that says so, ...
WriteStub(p) ==
    /\ At(p, "stub")
    /\ AppendRow(Row(CallOf(p), "stub"), [call EXCEPT ![p].pc = "mark"])
    /\ CacheUnchanged /\ UNCHANGED <<jobs>>

\* ... its id, as far as the latest row is that one, ...
ReadStubId(p) ==
    /\ At(p, "mark")
    /\ call' = [call EXCEPT ![p].stub = Len(rows), ![p].pc = "callback"]
    /\ CacheUnchanged /\ UNCHANGED <<jobs, rows>>

\* ... the callback, which runs at once if the worker has finished meanwhile,
\* and a skeleton or the text as it was.
AddCallback(p) ==
    LET j == CallOf(p)
    IN  /\ At(p, "callback")
        /\ \/ Finished(j) /\ rows' = Orphaned(call[p].stub) /\ jobs' = [jobs EXCEPT ![j] = Null]
           \/ ~Finished(j) /\ jobs' = [jobs EXCEPT ![j].scrub = call[p].stub] /\ UNCHANGED rows
        /\ call' = [q \in Processes |->
                       IF q = p THEN [call[p] EXCEPT !.kind = "timeout", !.pc = "outcome"]
                       ELSE [call[q] EXCEPT !.alone = @ /\ rows' = rows]]
        /\ CacheUnchanged

-------------------------------------------------------------------------------
(* _process_improve_completion *)

\* An update of the latest row on behalf of the call.
OnLatestRow(p) ==
    rows' = IF rows = <<>> THEN rows
            ELSE [rows EXCEPT ![Len(rows)].outcome = CallOf(p)]

\* update_last_improver_accepted
MarkAccepted(p) ==
    /\ At(p, "accept")
    /\ OnLatestRow(p)
    /\ Goto(p, "outcome")
    /\ CacheUnchanged /\ UNCHANGED <<jobs>>

\* _finalize; only what the model said, unsalvaged, goes on to the cache.
RecordOutcome(p) ==
    /\ At(p, "outcome")
    /\ OnLatestRow(p)
    /\ call' = [call EXCEPT ![p] =
                   CASE @.kind = "improved" -> [@ EXCEPT !.pc = "critique"]
                     [] @.kind = "kept" -> [@ EXCEPT !.pc = "store"]
                     [] OTHER -> Over(@)]
    /\ CacheUnchanged /\ UNCHANGED <<jobs>>

\* _maybe_critique: switched off, too late, or a completion of its own, whose
\* text replaces the first if it is valid.
Critique(p) ==
    /\ At(p, "critique")
    /\ \/ Goto(p, "store") /\ UNCHANGED rows
       \/ \E faithful \in {call[p].faithful} \cup {o.faithful : o \in Outcomes} :
             AppendRow(Row(CallOf(p), "critique"),
                       [call EXCEPT ![p].pc = "store", ![p].faithful = faithful])
    /\ CacheUnchanged /\ UNCHANGED <<jobs>>

Store(p) ==
    /\ At(p, "store")
    /\ IF call[p].accepted THEN CacheUnchanged ELSE Fill(p, call[p].key, call[p].faithful)
    /\ call' = [call EXCEPT ![p] = Over(@)]
    /\ UNCHANGED <<jobs, rows>>

-------------------------------------------------------------------------------
TimePasses == Pass /\ UNCHANGED <<call, jobs, rows>>

-------------------------------------------------------------------------------
ImproverInit ==
    /\ CacheInit
    /\ call = [p \in Processes |-> NoCall]
    /\ jobs = [j \in Calls |-> Null]
    /\ rows = <<>>

\* What a call does next.  Timeouts are among it: its timers run down.
Serve(p) ==
    \/ Lookup(p) \/ Collect(p) \/ TimeOut(p) \/ GiveUp(p)
    \/ WriteStub(p) \/ ReadStubId(p) \/ AddCallback(p)
    \/ MarkAccepted(p) \/ RecordOutcome(p) \/ Critique(p) \/ Store(p)

Work(p) ==
    \E j \in JobsOf(p) :
        /\ jobs[j] # Null
        /\ Answer(j) \/ WriteRow(j) \/ Scrub(j)

ImproverNext ==
    \/ \E p \in Processes : Begin(p) \/ PassThrough(p) \/ Serve(p) \/ Work(p)
    \/ TimePasses

\* Calls go on; nothing is assumed of the workers, which may hang for ever in
\* a provider.  The critique, which runs on the thread of the call, does not:
\* its provider has a timeout of its own.
ImproverSpec ==
    ImproverInit /\ [][ImproverNext]_improverVars
        /\ \A p \in Processes : WF_improverVars(Serve(p))

-------------------------------------------------------------------------------
(* Correctness *)

(* A served improvement is never older than two lifetimes of an entry, the
   table's and then the dictionary's, whichever process made it and however
   often it was found (_get_cached_improvement).                            *)
CachedIsRecent == \A p \in Processes : call[p].age <= 2 * TTL

(* A text that a call returns, fresh, salvaged, criticised or from a cache,
   keeps the numbers and the quotations of the original, and its modal verbs
   unless it has become a specification (validate.py, salvage.py).          *)
ServedTextIsFaithful == \A p \in Processes : call[p].faithful

(* What the latest row is told is about the call that owns it, as long as
   the call runs a completion in time and nobody else writes rows meanwhile:
   the acceptance and the outcome come before the critique's row, and an
   answer from the cache is not recorded on anybody's row (_finalize).      *)
OutcomeIsOwn ==
    \A p \in Processes : call[p].alone =>
        \A u \in DOMAIN rows : rows[u].outcome = CallOf(p) =>
            rows[u].owner = CallOf(p) /\ rows[u].kind # "critique"

(* Every call returns, although its worker, and those of earlier calls that
   fill the pool, may hang for ever (_run_improve_completion).              *)
EveryCallReturns == \A p \in Processes : ~At(p, "idle") ~> At(p, "idle")

================================================================================
