----------------------------- MODULE SchemaUpgrade -----------------------------
(****************************************************************************)
(* Opening the database: the migration runner (src/ylang/core/migrations.py)*)
(* and the schema checks of the stores, run by every process that starts,   *)
(* beside processes of the release before that still serve, and by the      *)
(* server again after a database was restored from the console.             *)
(*                                                                          *)
(* Transactions are those of Python's sqlite3 module: a statement that      *)
(* changes the schema commits by itself, unless an INSERT has begun a       *)
(* transaction; executescript commits what is open and then each of its     *)
(* statements.  What an open transaction has written is its owner's draft.  *)
(*                                                                          *)
(* A schema is the set of the things in it: tables, and groups of columns   *)
(* that are added in one place; they come in one step, for the statements   *)
(* that bring them say IF NOT EXISTS or look first, and may be repeated     *)
(* after a death in between.  Left out: rows other than the heads of        *)
(* templates, indexes, seeds, and the catalogue that migrations 14 and 16   *)
(* write (SourceCatalogue has it).                                          *)
(****************************************************************************)
EXTENDS Naturals, Sequences

CONSTANTS
    Null,
    Processes,      \* the server, timers and commands
    Templates,      \* templates that users may save
    Releases,       \* databases as earlier releases have left them
    MaxFaults       \* bound: deaths and restores

\* No release has left a copy of the templates, or templates without their table.
ASSUME UpgradeAssumption ==
    /\ Null \notin Processes
    /\ \A heads \in SUBSET Templates : heads # Null
    /\ \A old \in Releases :
          /\ old = [version |-> old.version, has |-> old.has, heads |-> old.heads, copy |-> Null]
          /\ old.heads \subseteq Templates
          /\ "templates" \notin old.has => old.heads = {}

VARIABLES
    db,             \* what is committed
    draft,          \* what the owner of the write lock has not committed yet
    lock,           \* the owner of SQLite's write lock, or Null
    proc,           \* how far each process is
    saved,          \* the templates that were saved, as far as not restored away
    late,           \* those of them saved after a rebuild had copied the others
    faults

upgradeVars == <<db, draft, lock, proc, saved, late, faults>>

-------------------------------------------------------------------------------
(* The migrations *)

\* What a migration adds if the table it needs is there, creates if it is not there,
\* and creates in a script.
Migration(needs, columns, creates, script) ==
    [needs |-> needs, columns |-> columns, creates |-> creates, script |-> script]
Alters(table, columns) == Migration({table}, {columns}, {}, {})
Creates(table) == Migration({}, {}, {table}, {})
Runs(script) == Migration({}, {}, {}, {script})

\* 1 to 9
EarlyMigrations == <<
    Alters("facts", "facts.workspace"),
    Alters("usage", "usage.context_templates"),
    Creates("templates_fts"),
    Alters("usage", "usage.outcome"),
    Creates("feedback_events"), Creates("prompt_experiments"),
    Creates("runtime_settings"), Creates("improver_cache"), Creates("apply_audit_log")>>

\* 11 to 13
TraceMigrations == <<
    Alters("usage", "usage.trace"), Alters("usage", "usage.evaluation"),
    Alters("usage", "usage.phase_b")>>

\* 14 and 15
SourceMigrations == <<Runs("prompt_sources"), Runs("prompt_evaluation")>>

\* 16
LeaseMigration ==
    Migration({"prompt_sources"}, {"prompt_sources.compatibility"}, {}, {"prompt_refresh_leases"})

\* 17
BudgetMigration == Runs("budget")

\* 10: the rebuild below
RebuildMigration == Migration({}, {}, {}, {})
RebuildVersion == 10

Migrations == EarlyMigrations \o <<RebuildMigration>> \o TraceMigrations
                \o SourceMigrations \o <<LeaseMigration, BudgetMigration>>

Latest == Len(Migrations)

\* Earlier releases ran these migrations: what one has recorded it has done.  The
\* columns of usage are the exception, for its store may have created it since.
ASSUME ReleaseAssumption ==
    \A old \in Releases :
        /\ old.version \in 0..Latest
        /\ \A v \in 1..old.version :
              /\ Migrations[v].creates \cup Migrations[v].script \subseteq old.has
              /\ Migrations[v].needs \subseteq old.has \ {"usage"} =>
                    Migrations[v].columns \subseteq old.has

\* What the first n migrations bring.
Brought(n) ==
    UNION {Migrations[v].columns \cup Migrations[v].creates \cup Migrations[v].script : v \in 1..n}

UsageColumns == {"usage.sample", "usage.context_templates", "usage.outcome",
                 "usage.trace", "usage.evaluation", "usage.phase_b"}
HeadColumns == {"templates.visibility", "templates.archived", "templates.tags"}

\* What the code of this release reads and writes.
Everything ==
    {"usage", "usage.guards", "templates", "facts"} \cup UsageColumns \cup HeadColumns
        \cup Brought(Latest)

\* protect_budget_usage: the triggers need both tables.
Guarded(has) == has \cup (IF {"usage", "budget"} \subseteq has THEN {"usage.guards"} ELSE {})

-------------------------------------------------------------------------------
(* Processes and transactions *)

\* next: the migration it is at.  todo: the columns it found missing, if it has looked.
\* full: the stores check their schemas after the migrations; a reconnect does not.
Process(pc, next, full) == [pc |-> pc, next |-> next, todo |-> Null, full |-> full]

At(p, pc) == proc[p].pc = pc
Goto(p, pc) == proc' = [proc EXCEPT ![p] = Process(pc, proc[p].next, proc[p].full)]

\* A process of this or the last release that serves.
Serves(p) == proc[p].pc \in {"up", "old"}

Seen(p) == IF lock = p THEN draft ELSE db

\* A statement outside of transactions commits at once.
Put(p, new) ==
    /\ lock \in {p, Null}
    /\ IF lock = p THEN draft' = new /\ UNCHANGED db ELSE db' = new /\ UNCHANGED draft
    /\ UNCHANGED lock

Add(p, things) == Put(p, [Seen(p) EXCEPT !.has = @ \cup things])

\* A reader sees what is committed and waits for nobody.
NothingWritten == UNCHANGED <<db, draft, lock>>

Rollback(p) ==
    /\ UNCHANGED db
    /\ IF lock = p THEN lock' = Null /\ draft' = Null ELSE UNCHANGED <<lock, draft>>

\* An error ends a process that starts, and it is started again; a server that
\* reconnects goes on without a database.
Refused(p) == Goto(p, IF proc[p].full THEN "closed" ELSE "astray") /\ Rollback(p)

-------------------------------------------------------------------------------
(* run_migrations *)

\* Start behind the migrations that this database has had.
Migrating(version, full) ==
    Process(IF version < Latest THEN "apply"
            ELSE IF full THEN "usage" ELSE "up", version + 1, full)

\* The connection tries the write lock before all else.
Open(p) ==
    /\ At(p, "closed") /\ lock = Null
    /\ proc' = [proc EXCEPT ![p] = Migrating(db.version, TRUE)]
    /\ NothingWritten

\* The columns that belong here.  A migration passes by a table that is not there:
\* its store will create it with all it needs.
Wanted(p) ==
    LET v == proc[p].next has == Seen(p).has
    IN  CASE At(p, "apply") -> IF Migrations[v].needs \subseteq has THEN Migrations[v].columns
                               ELSE {}
          [] At(p, "usageColumns") -> UsageColumns
          [] At(p, "libraryColumns") -> HeadColumns \ (IF "templates.visibility" \in has
                                                       THEN {"templates.archived"} ELSE {})

\* (mutant) columns are added without looking whether they are there
All(p) == Wanted(p)

Missing(p) == Wanted(p) \ Seen(p).has

Look(p) ==
    /\ proc[p].pc \in {"apply", "usageColumns", "libraryColumns"} /\ proc[p].todo = Null
    /\ proc' = [proc EXCEPT ![p].todo = Missing(p)]
    /\ NothingWritten

\* It has looked; a column that has come since is a duplicate.
MayAdd(p, pc) ==
    At(p, pc) /\ proc[p].todo # Null /\ proc[p].todo \cap Seen(p).has = {}

Duplicate(p) ==
    /\ proc[p].todo # Null /\ proc[p].todo \cap Seen(p).has # {}
    /\ Refused(p)

NeedsRebuild(has) == "templates" \in has /\ "templates.archived" \notin has

Apply(p) ==
    LET v == proc[p].next
    IN  /\ MayAdd(p, "apply")
        /\ Add(p, proc[p].todo \cup Migrations[v].creates)
        /\ Goto(p, CASE v = RebuildVersion /\ NeedsRebuild(Seen(p).has) -> "create"
                     [] Migrations[v].script # {} -> "script"
                     [] OTHER -> "record")

Commit(p) ==
    /\ lock = p
    /\ db' = draft /\ draft' = Null /\ lock' = Null

\* executescript commits before it runs.
CommitPending(p) ==
    /\ proc[p].pc \in {"create", "script"} /\ Commit(p)
    /\ UNCHANGED proc

RunScript(p) ==
    /\ At(p, "script") /\ lock = Null
    /\ db' = [db EXCEPT !.has = Guarded(@ \cup Migrations[proc[p].next].script)]
    /\ Goto(p, "record")
    /\ UNCHANGED <<draft, lock>>

\* The version is recorded in a transaction that the next migrations go on with.
\* Its number is a primary key: of two processes one is refused.
Record(p) ==
    LET v == proc[p].next
    IN  /\ At(p, "record") /\ lock \in {p, Null}
        /\ IF Seen(p).version >= v THEN Refused(p)
           ELSE /\ draft' = [Seen(p) EXCEPT !.version = v] /\ lock' = p
                /\ proc' = [proc EXCEPT ![p] = Process(IF v = Latest THEN "commit" ELSE "apply",
                                                       v + 1, proc[p].full)]
                /\ UNCHANGED db

CommitLast(p) ==
    /\ At(p, "commit") /\ Commit(p)
    /\ Goto(p, IF proc[p].full THEN "usage" ELSE "up")

-------------------------------------------------------------------------------
(* The rebuild of the templates: four statements, each committed by itself *)

AfterRebuild(p) == IF proc[p].next <= Latest THEN "record" ELSE "memory"

\* (mutant) DROP TABLE IF EXISTS templates_new comes first
CreateAnew(p) ==
    At(p, "create") /\ lock = Null /\ Put(p, [db EXCEPT !.copy = {}]) /\ Goto(p, "fill")

CreateCopy(p) ==
    /\ At(p, "create") /\ lock = Null
    /\ IF db.copy # Null THEN Refused(p)
       ELSE Put(p, [db EXCEPT !.copy = {}]) /\ Goto(p, "fill")

\* The copy names columns that an older table lacks.
FillCopy(p) ==
    /\ At(p, "fill") /\ lock = Null
    /\ IF {"templates.visibility", "templates.tags"} \subseteq db.has
       THEN Put(p, [db EXCEPT !.copy = @ \cup db.heads]) /\ Goto(p, "drop")
       ELSE Refused(p)

DropHeads(p) ==
    /\ At(p, "drop") /\ lock = Null
    /\ IF "templates" \in db.has
       THEN /\ Put(p, [db EXCEPT !.heads = {}, !.has = @ \ (HeadColumns \cup {"templates"})])
            /\ Goto(p, "rename")
       ELSE Refused(p)

RenameCopy(p) ==
    /\ At(p, "rename") /\ lock = Null
    /\ IF "templates" \in db.has \/ db.copy = Null THEN Refused(p)
       ELSE /\ Put(p, [db EXCEPT !.heads = db.copy, !.copy = Null,
                                 !.has = @ \cup HeadColumns \cup {"templates"}])
            /\ Goto(p, AfterRebuild(p))

Rebuild(p) == CreateCopy(p) \/ FillCopy(p) \/ DropHeads(p) \/ RenameCopy(p)

Rebuilding(p) == proc[p].pc \in {"fill", "drop", "rename"}

-------------------------------------------------------------------------------
(* The stores *)

\* A table that a script creates if it is not there, with its columns of today.
Create(p, table, columns) ==
    Add(p, IF table \in db.has THEN {} ELSE {table} \cup columns)

EnsureUsage(p) ==
    At(p, "usage") /\ Create(p, "usage", {"usage.sample"}) /\ Goto(p, "usageColumns")

\* (mutant) the triggers come with their migration only
EnsureColumnsOnly(p) ==
    MayAdd(p, "usageColumns") /\ Add(p, proc[p].todo) /\ Goto(p, "library")

EnsureUsageColumns(p) ==
    /\ MayAdd(p, "usageColumns")
    /\ Put(p, [db EXCEPT !.has = Guarded(@ \cup proc[p].todo)])
    /\ Goto(p, "library")

EnsureLibrary(p) ==
    At(p, "library") /\ Create(p, "templates", HeadColumns) /\ Goto(p, "libraryColumns")

\* A visibility that is added has the check of today; one that is there may not.
EnsureLibraryColumns(p) ==
    /\ MayAdd(p, "libraryColumns")
    /\ IF "templates.visibility" \notin proc[p].todo /\ NeedsRebuild(db.has)
       THEN Goto(p, "create") /\ NothingWritten
       ELSE Add(p, proc[p].todo) /\ Goto(p, "memory")

EnsureMemory(p) ==
    At(p, "memory") /\ Create(p, "facts", {"facts.workspace"}) /\ Goto(p, "up")

EnsureStores(p) ==
    \/ EnsureUsage(p) \/ EnsureUsageColumns(p)
    \/ EnsureLibrary(p) \/ EnsureLibraryColumns(p) \/ EnsureMemory(p)

-------------------------------------------------------------------------------
(* What else happens *)

\* Library.save, by this release or the last
Save(p) ==
    /\ Serves(p) /\ lock = Null /\ "templates" \in db.has
    /\ \E t \in Templates \ saved :
          /\ db' = [db EXCEPT !.heads = @ \cup {t}]
          /\ saved' = saved \cup {t}
          /\ late' = IF \E q \in Processes : At(q, "drop") THEN late \cup {t} ELSE late
    /\ UNCHANGED <<draft, lock, proc, faults>>

\* Somebody else has held the lock for five seconds.
TimesOut(p) == ~Serves(p) /\ ~At(p, "closed") /\ lock \notin {p, Null} /\ Refused(p)

Fault == faults < MaxFaults /\ faults' = faults + 1

Dies(p) == ~At(p, "closed") /\ Fault /\ Goto(p, "closed") /\ Rollback(p)

\* What the console takes for a backup of this program
Restorable(backup) == {"usage", "templates", "facts"} \subseteq backup.has

\* console_ops_restore: the file is exchanged, and the server connects again.  No
\* other process has the file open (see the README).
Restore(p) ==
    /\ At(p, "up") /\ \A q \in Processes \ {p} : At(q, "closed")
    /\ Fault
    /\ \E backup \in Releases :
          /\ Restorable(backup)
          /\ db' = backup /\ saved' = backup.heads /\ late' = {}
          /\ proc' = [proc EXCEPT ![p] = Migrating(backup.version, FALSE)]
    /\ draft' = Null /\ lock' = Null

-------------------------------------------------------------------------------
\* Some processes of the last release are running.
UpgradeInit ==
    /\ db \in Releases
    /\ proc \in [Processes -> {Process("closed", 0, TRUE),
                               Process(IF db.version = 0 THEN "closed" ELSE "old", 0, TRUE)}]
    /\ saved = db.heads /\ late = {}
    /\ draft = Null /\ lock = Null /\ faults = 0

\* What a process that opens the database does next.
Opens(p) ==
    /\ \/ Open(p) \/ Look(p) \/ Duplicate(p) \/ Apply(p) \/ CommitPending(p)
       \/ RunScript(p) \/ Record(p) \/ CommitLast(p) \/ Rebuild(p) \/ EnsureStores(p)
    /\ UNCHANGED <<saved, late, faults>>

UpgradeNext ==
    \E p \in Processes :
        \/ Opens(p) \/ Save(p) \/ Restore(p)
        \/ TimesOut(p) /\ UNCHANGED <<saved, late, faults>>
        \/ Dies(p) /\ UNCHANGED <<saved, late>>

\* systemd and timers start a process again, and it goes on.
UpgradeSpec ==
    /\ UpgradeInit /\ [][UpgradeNext]_upgradeVars
    /\ \A p \in Processes : WF_upgradeVars(Opens(p))

-------------------------------------------------------------------------------
(* Correctness *)

(* A process that has started finds all it needs, whatever release the
   database is of, whoever has died at which statement, and whoever opens it
   at once, unless a rebuild of the templates is under way or was broken off
   (run_migrations and the _ensure_schema of three stores together).        *)
UpIsComplete ==
    (\E p \in Processes : At(p, "up") /\ proc[p].full) /\ db.copy = Null
        => db.version = Latest /\ Everything \subseteq db.has

(* No template is gone from the file: after a death or a rival in the middle
   of a rebuild it is in the table or in the copy that was left.  Those saved
   by others after the copying are the exception (migration 10 and
   _rebuild_templates_visibility_check).                                    *)
TemplatesAreKept ==
    saved \ late \subseteq db.heads \cup (IF db.copy = Null THEN {} ELSE db.copy)

(* A process that starts comes up in the end, whoever has died, timed out or
   been refused before; only the copy of a broken rebuild can prevent it.   *)
EventuallyUp ==
    \A p \in Processes : At(p, "closed") ~> (At(p, "up") \/ [](db.copy # Null))

================================================================================
