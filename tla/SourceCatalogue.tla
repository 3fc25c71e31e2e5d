---------------------------- MODULE SourceCatalogue ----------------------------
(***************************************************************************)
(* The row of one scheduled source in prompt_sources and everything that   *)
(* moves it: timers that refresh what is enabled and due, refreshes by     *)
(* name, an operator who switches the source on and off, and imports of a  *)
(* local CSV under the source's name, which take no lease.  PromptRefresh  *)
(* has the steps of a refresh; here are the conditions they are taken      *)
(* under, and what a refresh tells the catalogue.                          *)
(*                                                                         *)
(* A revision of upstream has a licence text and a layout beside its       *)
(* texts.  A layout without prompt files, or a truncated tree, makes the   *)
(* source incompatible and switches it off; a missing or different licence *)
(* only fails the refresh.  Time is the interval of the source: it has     *)
(* elapsed or it has not.                                                  *)
(***************************************************************************)
EXTENDS PromptRefresh

CONSTANTS
    Licensed,      \* revisions whose licence text has the markers of the source's SPDX id
    WellLaidOut,   \* revisions whose tree is complete and has prompt files
    LocalImports,  \* what a local CSV may bring: listings that are not full
    Process,       \* the process of each worker
    Timers,        \* the workers that a timer starts
    MaxImports     \* bound on local imports

ASSUME CatalogueAssumption ==
    /\ Licensed \subseteq DOMAIN Upstream /\ WellLaidOut \subseteq DOMAIN Upstream
    /\ LocalImports \subseteq Listings /\ \A l \in LocalImports : ~l.full
    /\ DOMAIN Process = Workers /\ Timers \subseteq Workers /\ MaxImports \in Nat

VARIABLES
    enabled,     \* the flag of the row
    compat,      \* compatibility_status
    due,         \* whether refresh_interval_hours have passed since last_success_at
    locked,      \* the workers that hold the lock of the source in their process
    misfit,      \* the workers that have found a layout to report
    enabling,    \* whether an operator has checked the row and is about to enable it
    local,       \* the items whose source_revision is that of a local import
    imports      \* local imports begun

flagVars == <<enabled, compat, due, enabling>>
importVars == <<local, imports>>
catalogueVars == <<flagVars, locked, misfit, importVars>>

allVars == <<vars, refreshVars, catalogueVars>>

-------------------------------------------------------------------------------
(* The operator *)

\* set_enabled(True) reads the row, ...
CheckCompatible ==
    /\ ~enabling /\ compat # "incompatible"
    /\ enabling' = TRUE
    /\ UNCHANGED <<vars, refreshVars, enabled, compat, due, locked, misfit, importVars>>

\* ... then writes the flag, whatever a refresh has found since.
Enable ==
    /\ enabling
    /\ enabled' = TRUE /\ enabling' = FALSE
    /\ UNCHANGED <<vars, refreshVars, compat, due, locked, misfit, importVars>>

Disable ==
    /\ enabled
    /\ enabled' = FALSE
    /\ UNCHANGED <<vars, refreshVars, compat, due, enabling, locked, misfit, importVars>>

\* refresh_interval_remaining becomes None.
Elapse ==
    /\ ~due
    /\ due' = TRUE
    /\ UNCHANGED <<vars, refreshVars, enabled, compat, enabling, locked, misfit, importVars>>

-------------------------------------------------------------------------------
(* Starting a refresh *)

\* The lock of the source in this process is free.
LockIsFree(r) == \A q \in locked : Process[q] # Process[r]

Start(r) ==
    /\ LockIsFree(r) /\ work[r] = Idle
    /\ locked' = locked \cup {r}
    /\ UNCHANGED <<vars, refreshVars, flagVars, misfit, importVars>>

\* refresh_all_enabled, and the conditions of refresh_source with require_enabled.
TimerStarts(r) ==
    /\ r \in Timers /\ enabled /\ due /\ compat # "incompatible"
    /\ Start(r)

\* refresh_source by name: no condition, on an incompatible source neither.
NameStarts(r) == Start(r)

\* Status "blocked": the lease is another's.
TurnedAway(r) ==
    /\ r \in locked /\ refresh[r].at = "resting" /\ ~LeaseIsFree
    /\ locked' = locked \ {r}
    /\ UNCHANGED <<vars, refreshVars, flagVars, misfit, importVars>>

-------------------------------------------------------------------------------
(* The steps of a refresh *)

Same == UNCHANGED catalogueVars

ClaimLease(r) == r \in locked /\ Acquire(r) /\ Same

\* (mutant) the licence at the head of main
LicenceOfHead(r) == head \in Licensed

LicenceMatches(r) == refresh[r].sha \in Licensed

LayoutMatches(r) == refresh[r].sha \in WellLaidOut

\* SourcePolicyError "license": the catalogue learns the error only.
RefuseLicence(r) ==
    /\ refresh[r].at = "fetching" /\ ~LicenceMatches(r)
    /\ Fail(r) /\ Same

\* SourcePolicyError "layout" or "truncated".
RefuseLayout(r) ==
    /\ refresh[r].at = "fetching" /\ LicenceMatches(r) /\ ~LayoutMatches(r)
    /\ Fail(r)
    /\ misfit' = misfit \cup {r}
    /\ UNCHANGED <<flagVars, locked, importVars>>

Refuse(r) == RefuseLicence(r) \/ RefuseLayout(r)

\* set_compatibility with disable, after the error has been recorded.
MarkIncompatible(r) ==
    /\ r \in misfit
    /\ misfit' = misfit \ {r}
    /\ compat' = "incompatible" /\ enabled' = FALSE
    /\ UNCHANGED <<vars, refreshVars, due, enabling, locked, importVars>>

\* (mutant) an incomplete download is ingested as if it were the whole listing
AcceptIncomplete(r) ==
    /\ refresh[r].at = "fetching" /\ LicenceMatches(r) /\ LayoutMatches(r)
    /\ \E i \in DOMAIN Upstream[refresh[r].sha].texts :
          BeginIngest(r, [Upstream[refresh[r].sha] EXCEPT
                             !.texts = [j \in DOMAIN @ \ {i} |-> @[j]]])
    /\ GoTo(r, "ingesting")
    /\ compat' = "eligible"
    /\ UNCHANGED <<head, revision, lease, timeVars, enabled, due, enabling, locked, misfit,
                   importVars>>

\* Every file of the revision has come; the source is eligible from here on.
AcceptFiles(r) ==
    /\ LicenceMatches(r) /\ LayoutMatches(r)
    /\ FetchFiles(r)
    /\ compat' = "eligible"
    /\ UNCHANGED <<enabled, due, enabling, locked, misfit, importVars>>

\* The rows written carry the revision.
IngestRevision(r) ==
    /\ IngestFiles(r)
    /\ local' = local \ {i \in DOMAIN work[r].listing.texts :
                            work[r].listing.texts[i] # Blank}
    /\ UNCHANGED <<flagVars, locked, misfit, imports>>

\* last_success_at starts a new interval.
RecordSuccess(r) ==
    /\ MarkSuccess(r)
    /\ due' = FALSE
    /\ UNCHANGED <<enabled, compat, enabling, locked, misfit, importVars>>

\* The network, an oversized answer, a statement of SQLite.
RefreshFails(r) == Fail(r) /\ Same

Unlock(r) ==
    /\ r \notin misfit /\ Release(r)
    /\ locked' = locked \ {r}
    /\ UNCHANGED <<flagVars, misfit, importVars>>

ProcessDies(r) ==
    /\ r \in locked /\ Die(r)
    /\ locked' = locked \ {r} /\ misfit' = misfit \ {r}
    /\ UNCHANGED <<flagVars, importVars>>

-------------------------------------------------------------------------------
(* A local CSV under the name of the source: no lease, no licence, no revision *)

BeginImport(w, listing) ==
    /\ w \notin locked /\ imports < MaxImports
    /\ BeginIngest(w, listing)
    /\ imports' = imports + 1
    /\ UNCHANGED <<refreshVars, flagVars, locked, misfit, local>>

CommitImport(w) ==
    /\ w \notin locked
    /\ CommitIngest(w)
    /\ local' = local \cup {i \in DOMAIN work[w].listing.texts :
                               work[w].listing.texts[i] # Blank}
    /\ UNCHANGED <<refreshVars, flagVars, locked, misfit, imports>>

ImportFails(w) ==
    /\ w \notin locked /\ work[w] # Idle
    /\ DropWork(w)
    /\ UNCHANGED <<items, arrivals, templates, provenance, refreshVars, catalogueVars>>

-------------------------------------------------------------------------------

CatalogueInit ==
    /\ RefreshInit
    /\ enabled = FALSE /\ compat = "unverified" /\ due = TRUE
    /\ locked = {} /\ misfit = {}
    /\ enabling = FALSE /\ local = {} /\ imports = 0

Answer(r) == ReadSource(r) /\ Same

AskHead(r) == FetchRevision(r) /\ Same

Catalogued(r) ==
    \/ TimerStarts(r) \/ NameStarts(r) \/ TurnedAway(r) \/ ClaimLease(r)
    \/ Answer(r) \/ AskHead(r)
    \/ Refuse(r) \/ MarkIncompatible(r)
    \/ AcceptFiles(r) \/ IngestRevision(r) \/ RecordSuccess(r)
    \/ RefreshFails(r) \/ Unlock(r) \/ ProcessDies(r)

Operator == CheckCompatible \/ Enable \/ Disable

CatalogueNext ==
    \/ (Publish \/ Expire) /\ Same
    \/ Elapse
    \/ Operator
    \/ \E r \in Workers : Catalogued(r) \/ (Outlast(r) /\ Same)
    \/ \E w \in Workers : \/ \E l \in LocalImports : BeginImport(w, l)
                          \/ CommitImport(w) \/ ImportFails(w)

CatalogueSpec == CatalogueInit /\ [][CatalogueNext]_allVars

\* What a worker began comes to an end, in its lease or by its death; intervals and
\* leases run out; timers come again and again, not always while another refreshes, and
\* none of the steps of theirs fails every time it is tried.
CatalogueFairness ==
    /\ WF_allVars(Expire /\ Same) /\ WF_allVars(Elapse)
    /\ \A w \in Workers :
          WF_allVars(Unlock(w) \/ ProcessDies(w) \/ TurnedAway(w)
                     \/ CommitImport(w) \/ ImportFails(w))
    /\ \A r \in Timers :
          /\ SF_allVars(LeaseIsFree /\ TimerStarts(r)) /\ SF_allVars(ClaimLease(r))
          /\ SF_allVars(Answer(r)) /\ SF_allVars(AskHead(r))
          /\ SF_allVars(AcceptFiles(r)) /\ SF_allVars(IngestRevision(r))
          /\ SF_allVars(RecordSuccess(r)) /\ SF_allVars(MarkIncompatible(r))

FairCatalogueSpec == CatalogueSpec /\ CatalogueFairness

-------------------------------------------------------------------------------
(* Properties *)

\* The rows that upstream has written tell what revision n lists, and no more.
Mirrors(n) ==
    LET texts == Upstream[n].texts
    IN  /\ \A i \in DOMAIN texts \ local : texts[i] # Blank =>
              /\ i \in DOMAIN items /\ items[i].body = texts[i]
              /\ items[i].state # "removed_upstream"
        /\ (\A i \in DOMAIN texts : texts[i] # Blank) =>
              \A i \in DOMAIN items \ (DOMAIN texts \cup local) :
                  Source[i] = Upstream[n].source => items[i].state = "removed_upstream"

\* Whatever failed or died before, a refresh that finds the source unchanged is right
\* to skip it: the rows that no local import has written since are those of the head
\* revision, with what has left marked as removed (_fetch_revision, mark_error).  A
\* refresh that has outlasted its lease may have put older rows in their place.
UnchangedMeansCurrent ==
    overruns = 0 =>
        \A r \in Workers : refresh[r].at = "unchanged" => Mirrors(refresh[r].sha)

\* docs/prompt-intelligence.md:112: only text of a revision whose licence matches and
\* whose tree holds prompts gets into the table, whatever is published meanwhile.
OnlyFitTexts ==
    \A i \in DOMAIN items \ local :
        \E n \in Licensed \cap WellLaidOut :
            i \in DOMAIN Upstream[n].texts /\ Upstream[n].texts[i] = items[i].body

\* An upstream that ends fit to be imported is mirrored for good in the end, by timers
\* alone, unless its source is off or was found incompatible, or a refresh has outlasted
\* its lease; whatever leases the dead have left, and whatever was refused on the way.
FeedIsMirrored ==
    <>[](/\ overruns = 0 /\ enabled /\ compat # "incompatible"
         /\ head \in Licensed \cap WellLaidOut)
        => <>[](revision = head /\ Mirrors(head))

===============================================================================
