--------------------------- MODULE PromptCandidates ---------------------------
(***************************************************************************)
(* Imported prompts under curation: the prompt_source_items table, the     *)
(* template versions that promotion writes, and the processes (console,    *)
(* command line, MCP server) that work on them through connections of      *)
(* their own.                                                              *)
(*                                                                         *)
(* An ingest is one transaction, but it reads the rejected hashes before   *)
(* it begins; a review reads a row and then writes it; a promotion reads a *)
(* row, appends a template version and links the two, each in a            *)
(* transaction of its own.  A worker does one of these at a time, and may  *)
(* die or fail between two transactions.                                   *)
(*                                                                         *)
(* A text is what its content hash tells apart; a fingerprint or a title   *)
(* is a class of lookalikes.  SQLite refuses the write of a transaction    *)
(* that read before another one committed, so an ingest is atomic or is    *)
(* abandoned.  Templates are those that promotion names by itself.         *)
(***************************************************************************)
EXTENDS Naturals, Sequences, FiniteSets, TLC, SequencesExt

CONSTANTS
    ItemCount,    \* how many upstream items there are
    Source,       \* the source of each item
    Title,        \* the normalised title of each item
    Bodies,       \* the texts an item may have
    Blank,        \* a text that is empty once stripped
    Risky,        \* the texts that the static scan calls high-risk
    Fingerprint,  \* the placeholder fingerprint of each text
    Listings,     \* what an ingest may bring: [source, texts, full], full if the source
                  \* lists nothing else
    Workers,      \* processes at work on the table
    Acks,         \* whether a curator may acknowledge a risk
    MaxVersions,  \* bound on the versions of all templates together
    Null

\* Items are numbered in the order their source lists them.
Items == 1..ItemCount

ASSUME CandidateAssumption ==
    /\ ItemCount \in Nat
    /\ Blank \notin Bodies /\ Risky \subseteq Bodies
    /\ Acks \subseteq BOOLEAN
    /\ DOMAIN Source = Items /\ DOMAIN Title = Items /\ DOMAIN Fingerprint = Bodies
    /\ \A l \in Listings :
          /\ DOMAIN l.texts \subseteq {i \in Items : Source[i] = l.source}
          /\ \A i \in DOMAIN l.texts : l.texts[i] \in Bodies \cup {Blank}

VARIABLES
    items,       \* rows by item: [body, state, link], link a <<template, version>>
    arrivals,    \* the items in the order of their first insertion
    templates,   \* by template id, the versions: [body, acknowledged]
    provenance,  \* rows [template, version, item, body]
    work         \* what each worker is in the middle of

vars == <<items, arrivals, templates, provenance, work>>

-------------------------------------------------------------------------------
(* The table *)

Decided == {"promoted", "rejected", "reviewed"}

RejectedHashes == {items[i].body : i \in {j \in DOMAIN items : items[j].state = "rejected"}}

NoRow == [state |-> "unknown"]

\* The row of i in a table, if it has one.
RowIn(table, i) == IF i \in DOMAIN table THEN table[i] ELSE NoRow

\* The other items that look like i with this body, oldest first.
Lookalikes(s, i, body) ==
    SelectSeq(s.arrivals,
              LAMBDA j : /\ j # i
                         /\ \/ Fingerprint[s.items[j].body] = Fingerprint[body]
                            \/ Title[j] = Title[i])

\* (mutant) only the hashes of rejected rows are looked up among lookalikes
SuppressedByTwin(s, i, body, remembered) ==
    LET twins == Lookalikes(s, i, body)
    IN  twins # << >> /\ s.items[Head(twins)].state = "rejected"

\* The text was rejected, or the oldest lookalike was.
Suppressed(s, i, body, remembered) ==
    LET twins == Lookalikes(s, i, body)
    IN  \/ body \in remembered
        \/ twins # << >> /\ s.items[Head(twins)].state = "rejected"

\* (mutant) an edit keeps the decision that was made on the text before it
NextStateKeeping(row, body, suppressed) ==
    CASE row = NoRow -> IF suppressed THEN "rejected"
                       ELSE IF body \in Risky THEN "quarantined" ELSE "candidate_new"
      [] row # NoRow /\ row.state \in Decided -> row.state
      [] OTHER -> IF body \in Risky THEN "quarantined" ELSE "candidate_changed"

\* The state of an ingested row; row is the one it replaces, if any.
NextState(row, body, suppressed) ==
    LET unchanged == row # NoRow /\ row.body = body
    IN  IF suppressed /\ (row = NoRow \/ unchanged) THEN "rejected"
        ELSE IF body \in Risky
        THEN IF unchanged /\ row.state \in Decided THEN row.state ELSE "quarantined"
        ELSE CASE row = NoRow -> "candidate_new"
               [] unchanged /\ row.state # "removed_upstream" -> row.state
               [] unchanged /\ row.state = "removed_upstream" ->
                      IF row.link = Null THEN "candidate_new" ELSE "promoted"
               [] OTHER ->
                      IF row.state = "rejected" THEN "candidate_new" ELSE "candidate_changed"

\* upsert_item: an item gets a row, or its row is overwritten.
Stored(s, i, row) ==
    [items    |-> [j \in DOMAIN s.items \cup {i} |-> IF j = i THEN row ELSE s.items[j]],
     arrivals |-> IF RowIn(s.items, i) = NoRow THEN Append(s.arrivals, i) ELSE s.arrivals]

\* One listed item upserted into s == [items, arrivals]; a blank one is an error.
Upsert(s, i, body, remembered) ==
    LET row == RowIn(s.items, i)
        new == [body  |-> body,
                state |-> NextState(row, body, Suppressed(s, i, body, remembered)),
                link  |-> IF row = NoRow THEN Null ELSE row.link]
    IN  IF body = Blank THEN s ELSE Stored(s, i, new)

\* The rows of the source that a full listing lacks; one error, and there are none.
Vanished(table, listing) ==
    IF ~listing.full \/ \E i \in DOMAIN listing.texts : listing.texts[i] = Blank THEN {}
    ELSE {i \in DOMAIN table : Source[i] = listing.source /\ i \notin DOMAIN listing.texts}

\* The table and the arrivals after the items of a listing up to the n-th of all.
Listed(listing, remembered) ==
    LET after[n \in 0..ItemCount] ==
            IF n = 0 THEN [items |-> items, arrivals |-> arrivals]
            ELSE IF n \in DOMAIN listing.texts
                 THEN Upsert(after[n - 1], n, listing.texts[n], remembered)
                 ELSE after[n - 1]
    IN  after

\* The table after a whole listing, in the order of the source.
Ingested(listing, remembered) ==
    LET listed == Listed(listing, remembered)[ItemCount]
        gone   == Vanished(listed.items, listing)
    IN  [items    |-> [i \in DOMAIN listed.items |->
                          IF i \in gone
                          THEN [listed.items[i] EXCEPT !.state = "removed_upstream"]
                          ELSE listed.items[i]],
         arrivals |-> listed.arrivals]

-------------------------------------------------------------------------------
(* Workers *)

Idle == [op |-> "idle"]

Versions == UNION {{<<t, v>> : v \in 1..Len(templates[t])} : t \in DOMAIN templates}

\* ingest_parsed_items: the rejected hashes are read before BEGIN.
BeginIngest(w, listing) ==
    /\ work[w] = Idle
    /\ work' = [work EXCEPT ![w] = [op |-> "ingest", listing |-> listing,
                                    remembered |-> RejectedHashes]]
    /\ UNCHANGED <<items, arrivals, templates, provenance>>

\* Everything from BEGIN to COMMIT.
CommitIngest(w) ==
    /\ work[w].op = "ingest"
    /\ LET after == Ingested(work[w].listing, work[w].remembered)
       IN  items' = after.items /\ arrivals' = after.arrivals
    /\ work' = [work EXCEPT ![w] = Idle]
    /\ UNCHANGED <<templates, provenance>>

\* reject_candidate: whatever state the row is in.
Reject(w, i) ==
    /\ work[w] = Idle /\ i \in DOMAIN items
    /\ items' = [items EXCEPT ![i].state = "rejected"]
    /\ UNCHANGED <<arrivals, templates, provenance, work>>

\* review_candidate: the check on the row that was read, ...
BeginReview(w, i) ==
    /\ work[w] = Idle /\ i \in DOMAIN items
    /\ items[i].state \notin {"promoted", "rejected"}
    /\ work' = [work EXCEPT ![w] = [op |-> "review", item |-> i]]
    /\ UNCHANGED <<items, arrivals, templates, provenance>>

\* ... then set_state on the row as it is now.
FinishReview(w) ==
    /\ work[w].op = "review"
    /\ items' = [items EXCEPT ![work[w].item].state = "reviewed"]
    /\ work' = [work EXCEPT ![w] = Idle]
    /\ UNCHANGED <<arrivals, templates, provenance>>

\* (mutant) the id that the title gives, taken or not
TargetByTitle(i) ==
    IF items[i].link # Null THEN items[i].link[1] ELSE <<Title[i], 1>>

\* The linked template, else the first id that its title gives and none has.
PromotionTarget(i) ==
    LET taken == {t[2] : t \in {u \in DOMAIN templates : u[1] = Title[i]}}
    IN  IF items[i].link # Null THEN items[i].link[1]
        ELSE <<Title[i], CHOOSE k \in 1..(Cardinality(taken) + 1) :
                            k \notin taken /\ 1..(k - 1) \subseteq taken>>

Promotable(row, ack) ==
    /\ row.state # "rejected"
    /\ row.body \in Risky => ack

\* promote_candidate up to library.save: the checks on the row that was read.
BeginPromote(w, i, ack) ==
    /\ work[w] = Idle /\ i \in DOMAIN items
    /\ Promotable(items[i], ack)
    /\ Cardinality(Versions) < MaxVersions
    /\ work' = [work EXCEPT ![w] = [op |-> "save", item |-> i, body |-> items[i].body,
                                    ack |-> ack, template |-> PromotionTarget(i)]]
    /\ UNCHANGED <<items, arrivals, templates, provenance>>

\* (mutant) the body is read again when it is saved
BodyToSaveFresh(job) == items[job.item].body

BodyToSave(job) == job.body

\* (mutant) the latest version's number instead of the next
LatestVersion(old) == IF old = << >> THEN 1 ELSE Len(old)

NextVersion(old) == Len(old) + 1

\* Library.save appends a version.
SaveTemplate(w) ==
    /\ work[w].op = "save"
    /\ Cardinality(Versions) < MaxVersions
    /\ LET job   == work[w]
           old   == IF job.template \in DOMAIN templates THEN templates[job.template] ELSE << >>
           new   == [body |-> BodyToSave(job), acknowledged |-> job.ack]
       IN  /\ templates' = [t \in DOMAIN templates \cup {job.template} |->
                               IF t = job.template THEN Append(old, new) ELSE templates[t]]
           /\ work' = [work EXCEPT ![w] = [op |-> "link", item |-> job.item,
                                           template |-> job.template, version |-> NextVersion(old)]]
    /\ UNCHANGED <<items, arrivals, provenance>>

\* link_promotion reads the row again, for the provenance.
LinkPromotion(w) ==
    /\ work[w].op = "link"
    /\ LET job == work[w]
       IN  /\ items' = [items EXCEPT ![job.item].state = "promoted",
                                     ![job.item].link  = <<job.template, job.version>>]
           /\ provenance' = provenance \cup
                  {[template |-> job.template, version |-> job.version,
                    item |-> job.item, body |-> items[job.item].body]}
    /\ work' = [work EXCEPT ![w] = Idle]
    /\ UNCHANGED <<arrivals, templates>>

\* The process dies, or a statement fails: what it had not committed is gone.
Abandon(w) ==
    /\ work[w] # Idle
    /\ work' = [work EXCEPT ![w] = Idle]
    /\ UNCHANGED <<items, arrivals, templates, provenance>>

Init ==
    /\ items = << >> /\ arrivals = << >> /\ templates = << >>
    /\ provenance = {}
    /\ work = [w \in Workers |-> Idle]

Curate(w) ==
    \/ \E i \in DOMAIN items : \/ Reject(w, i)
                               \/ BeginReview(w, i)
                               \/ \E ack \in Acks : BeginPromote(w, i, ack)
    \/ FinishReview(w)
    \/ SaveTemplate(w)
    \/ LinkPromotion(w)

Ingest(w) ==
    \/ \E listing \in Listings : BeginIngest(w, listing)
    \/ CommitIngest(w)

Next == \E w \in Workers : Curate(w) \/ Ingest(w) \/ Abandon(w)

Spec == Init /\ [][Next]_vars

-------------------------------------------------------------------------------
(* Properties *)

\* Whatever runs beside it, no version of a template holds a high-risk text that its
\* promoter did not acknowledge (promote_candidate, `--acknowledge-risk').
RiskIsAcknowledged ==
    \A x \in Versions :
        templates[x[1]][x[2]].body \in Risky => templates[x[1]][x[2]].acknowledged

\* No decision passes to another text: a row whose text changes is shown to the curator
\* again, whoever changes it.  And an ingest that finds a promoted or reviewed text as
\* it was leaves the decision alone, unless a like text was rejected or the item is gone
\* upstream (_next_state).
DecisionsFollowTexts ==
    [][/\ \A i \in DOMAIN items : items'[i].body # items[i].body =>
             items'[i].state \in {"candidate_new", "candidate_changed", "quarantined"}
       /\ \A w \in Workers : CommitIngest(w) =>
             \A i \in DOMAIN items :
                items[i].state \in Decided /\ items'[i].body = items[i].body =>
                    items'[i].state \in {items[i].state, "rejected", "removed_upstream"}]_vars

===============================================================================
