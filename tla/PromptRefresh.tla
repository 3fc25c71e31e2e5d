----------------------------- MODULE PromptRefresh -----------------------------
(***************************************************************************)
(* Refreshing one catalogued source into prompt_source_items.  Upstream is *)
(* a git repository that only moves forward: revision n lists              *)
(* Upstream[n].  A refresher is a process (a timer's command line, the     *)
(* console) that takes the source's lease, asks for the head revision,     *)
(* fetches the files pinned to it, ingests them and then records the       *)
(* revision; each of these is a transaction or a network call of its own.  *)
(* It may fail, releasing the lease, or die and leave it to expire.        *)
(*                                                                         *)
(* The ETag is saved in the statement that saves the revision, so "not     *)
(* modified" is the revision compared.  Here a refresh may start at any    *)
(* time; SourceCatalogue has who starts it, and under what conditions.     *)
(***************************************************************************)
EXTENDS PromptCandidates

CONSTANTS
    Upstream,     \* the listings of the successive revisions
    MaxOverruns   \* bound on the refreshes that outlast their lease of 600 s

ASSUME UpstreamAssumption ==
    /\ MaxOverruns \in Nat
    /\ Null \notin [owner : Workers, expired : BOOLEAN]
    /\ Upstream \in Seq(Listings)
    /\ \A n \in DOMAIN Upstream : Upstream[n].full /\ DOMAIN Upstream[n].texts # {}

VARIABLES
    head,      \* the revision upstream is at
    revision,  \* last_revision of the source, 0 before the first success
    lease,     \* its row in prompt_refresh_leases: [owner, expired], or Null
    refresh,   \* what each refresher is doing: [at, known, sha]
    late,      \* the refreshers whose 600 s are over
    overruns   \* how many there have been

timeVars == <<late, overruns>>

refreshVars == <<head, revision, lease, refresh, timeVars>>

Resting == [at |-> "resting", known |-> 0, sha |-> 0]

-------------------------------------------------------------------------------
(* Upstream and time *)

Publish ==
    /\ head < Len(Upstream)
    /\ head' = head + 1
    /\ UNCHANGED <<vars, revision, lease, refresh, timeVars>>

\* expires_at passes, and who took the lease has died.
Expire ==
    /\ lease # Null /\ ~lease.expired /\ refresh[lease.owner].at = "resting"
    /\ lease' = [lease EXCEPT !.expired = TRUE]
    /\ UNCHANGED <<vars, head, revision, refresh, timeVars>>

\* It passes while its owner is at work, who does not look at it again.
Outlast(r) ==
    /\ refresh[r].at # "resting" /\ r \notin late /\ overruns < MaxOverruns
    /\ late' = late \cup {r} /\ overruns' = overruns + 1
    /\ lease' = IF lease # Null /\ lease.owner = r
                THEN [lease EXCEPT !.expired = TRUE] ELSE lease
    /\ UNCHANGED <<vars, head, revision, refresh>>

-------------------------------------------------------------------------------
(* A refresh *)

GoTo(r, step) == refresh' = [refresh EXCEPT ![r].at = step]

LeaseIsFree == lease # Null => lease.expired

\* try_acquire_refresh_lease: an expired lease is deleted, a live one left.
Acquire(r) ==
    /\ refresh[r].at = "resting" /\ LeaseIsFree
    /\ lease' = [owner |-> r, expired |-> FALSE]
    /\ GoTo(r, "leased")
    /\ UNCHANGED <<vars, head, revision, timeVars>>

\* mark_attempt, and the source read again after it.
ReadSource(r) ==
    /\ refresh[r].at = "leased"
    /\ refresh' = [refresh EXCEPT ![r].at = "asking", ![r].known = revision]
    /\ UNCHANGED <<vars, head, revision, lease, timeVars>>

\* _fetch_revision: nothing more to fetch if the source is known to be there.
FetchRevision(r) ==
    /\ refresh[r].at = "asking"
    /\ refresh' = [refresh EXCEPT
           ![r].at  = IF head = refresh[r].known THEN "unchanged" ELSE "fetching",
           ![r].sha = head]
    /\ UNCHANGED <<vars, head, revision, lease, timeVars>>

\* Licence, tree and every file of the pinned revision, then the read that precedes
\* the transaction of the ingest.
FetchFiles(r) ==
    /\ refresh[r].at = "fetching"
    /\ BeginIngest(r, Upstream[refresh[r].sha])
    /\ GoTo(r, "ingesting")
    /\ UNCHANGED <<head, revision, lease, timeVars>>

IngestFiles(r) ==
    /\ refresh[r].at = "ingesting"
    /\ CommitIngest(r)
    /\ GoTo(r, "ingested")
    /\ UNCHANGED <<head, revision, lease, timeVars>>

\* (mutant) the revision upstream is at by now
HeadRevision(r) == head

\* The revision that was fetched, not the one upstream is at by now.
FetchedRevision(r) == refresh[r].sha

\* mark_success, after an ingest or for an unchanged source.
MarkSuccess(r) ==
    /\ refresh[r].at \in {"unchanged", "ingested"}
    /\ revision' = FetchedRevision(r)
    /\ GoTo(r, "closing")
    /\ UNCHANGED <<vars, head, lease, timeVars>>

\* mark_error leaves last_revision as it was.
RevisionAfterError(r) == revision

DropWork(r) == work' = [work EXCEPT ![r] = Idle]

\* The network, the policy or a statement refuses; an open transaction rolls back.
Fail(r) ==
    /\ refresh[r].at \notin {"resting", "closing"}
    /\ revision' = RevisionAfterError(r)
    /\ DropWork(r) /\ GoTo(r, "closing")
    /\ UNCHANGED <<items, arrivals, templates, provenance, head, lease, timeVars>>

\* (mutant) the lease of the source, whoever has it by now
ReleasedAnyones(r) == Null

\* release_refresh_lease, if the lease is still this owner's.
Released(r) == IF lease # Null /\ lease.owner = r THEN Null ELSE lease

Rest(r) ==
    /\ refresh' = [refresh EXCEPT ![r] = Resting]
    /\ late' = late \ {r}

Release(r) ==
    /\ refresh[r].at = "closing"
    /\ lease' = Released(r)
    /\ Rest(r)
    /\ UNCHANGED <<vars, head, revision, overruns>>

\* The process is killed.
Die(r) ==
    /\ refresh[r].at # "resting"
    /\ DropWork(r) /\ Rest(r)
    /\ UNCHANGED <<items, arrivals, templates, provenance, head, revision, lease, overruns>>

RefreshInit ==
    /\ Init
    /\ head = 1 /\ revision = 0 /\ lease = Null
    /\ refresh = [r \in Workers |-> Resting]
    /\ late = {} /\ overruns = 0

RefreshStep(r) ==
    \/ Acquire(r) \/ ReadSource(r) \/ FetchRevision(r) \/ FetchFiles(r)
    \/ IngestFiles(r) \/ MarkSuccess(r) \/ Release(r)

RefreshNext ==
    \/ Publish \/ Expire
    \/ \E r \in Workers : RefreshStep(r) \/ Outlast(r) \/ Fail(r) \/ Die(r)

RefreshSpec == RefreshInit /\ [][RefreshNext]_<<vars, refreshVars>>

-------------------------------------------------------------------------------
(* Properties *)

\* Of the refreshes that are within the 600 s of their lease, one runs at a time, whatever
\* others have outlasted, left behind or released late (try_acquire_refresh_lease,
\* release_refresh_lease).  docs/deployment.md:372 says it of all refreshes; a lease is not
\* renewed, and one that has outlasted its own may still be at work beside the next.
OneRefreshInTime ==
    Cardinality({r \in Workers \ late : refresh[r].at # "resting"}) <= 1

===============================================================================
