------------------------------ MODULE SchemaProofs ------------------------------
(****************************************************************************)
(* No template is gone from the file, and a process that has started finds  *)
(* all it needs, whatever releases, processes, deaths and rivals there are  *)
(* (SchemaUpgrade).                                                         *)
(****************************************************************************)
EXTENDS SchemaUpgrade, TLAPS

-------------------------------------------------------------------------------
(* The invariant.  Of the records only the shape matters.                   *)
DatabaseShape(d) ==
    d = [version |-> d.version, has |-> d.has, heads |-> d.heads, copy |-> d.copy]

ProcessShape ==
    /\ proc = [p \in Processes |-> proc[p]]
    /\ \A p \in Processes :
          proc[p] = [pc |-> proc[p].pc, next |-> proc[p].next,
                     todo |-> proc[p].todo, full |-> proc[p].full]

\* A file as it is committed, or as the owner of the lock sees it.
File(d) ==
    /\ DatabaseShape(d)
    /\ d.heads \subseteq Templates
    /\ d.copy = Null \/ d.copy \subseteq Templates
    /\ "templates" \notin d.has => d.heads = {}

\* What is in a transaction is never about templates.
DraftAgrees == lock # Null => File(draft) /\ draft.heads = db.heads /\ draft.copy = db.copy

\* There is one rebuild at a time, and it has its copy.
OneRebuild ==
    \A p \in Processes : Rebuilding(p) =>
        /\ db.copy # Null
        /\ \A q \in Processes : Rebuilding(q) => q = p

\* Before the table is dropped the copy has all that it must have.
CopyIsReady == \A p \in Processes : At(p, "drop") => saved \ late \subseteq db.copy

KeptInv ==
    /\ ProcessShape /\ File(db) /\ DraftAgrees
    /\ OneRebuild /\ CopyIsReady /\ TemplatesAreKept

-------------------------------------------------------------------------------
(* Steps that leave the templates alone                                     *)

\* No process is further in a rebuild than it was.
NoNewRebuild ==
    /\ ProcessShape'
    /\ \A q \in Processes : \A at \in {"fill", "drop", "rename"} :
          proc'[q].pc = at => proc[q].pc = at

\* The file keeps its templates.
SameTemplates ==
    File(db') /\ DraftAgrees' /\ db'.heads = db.heads /\ db'.copy = db.copy

LEMMA QuietStep ==
    ASSUME KeptInv, NoNewRebuild, SameTemplates, UNCHANGED <<saved, late>>
    PROVE  KeptInv'
<1>1. OneRebuild'
    BY DEF KeptInv, OneRebuild, Rebuilding, NoNewRebuild, SameTemplates
<1>2. CopyIsReady' /\ TemplatesAreKept'
    BY DEF KeptInv, CopyIsReady, TemplatesAreKept, At, NoNewRebuild, SameTemplates
<1> QED
    BY <1>1, <1>2 DEF KeptInv, NoNewRebuild, SameTemplates

LEMMA ReplaceShape ==
    ASSUME ProcessShape, NEW p \in Processes, NEW pc, NEW next, NEW full,
           proc' = [proc EXCEPT ![p] = Process(pc, next, full)]
    PROVE  /\ ProcessShape'
           /\ proc'[p].pc = pc
           /\ \A q \in Processes \ {p} : proc'[q] = proc[q]
<1> DEFINE moved == Process(pc, next, full)
<1>1. proc' = [q \in Processes |-> IF q = p THEN moved ELSE proc[q]]
    BY DEF ProcessShape
<1>2. /\ moved = [pc |-> moved.pc, next |-> moved.next, todo |-> moved.todo, full |-> moved.full]
      /\ moved.pc = pc
    BY DEF Process
<1> HIDE DEF moved
<1> QED
    BY <1>1, <1>2 DEF ProcessShape

LEMMA GotoShape ==
    ASSUME ProcessShape, NEW p \in Processes, NEW pc, Goto(p, pc)
    PROVE  /\ ProcessShape'
           /\ proc'[p].pc = pc
           /\ \A q \in Processes \ {p} : proc'[q] = proc[q]
BY ReplaceShape DEF Goto

LEMMA GotoQuiet ==
    ASSUME ProcessShape, NEW p \in Processes, NEW pc, Goto(p, pc),
           pc \notin {"fill", "drop", "rename"}
    PROVE  NoNewRebuild
BY GotoShape DEF NoNewRebuild

(* Adding columns and tables, in a transaction or not.                      *)
LEMMA AddQuiet ==
    ASSUME KeptInv, NEW p \in Processes, NEW things, Add(p, things)
    PROVE  SameTemplates
<1>1. File(Seen(p)) /\ Seen(p).heads = db.heads /\ Seen(p).copy = db.copy
    BY UpgradeAssumption DEF KeptInv, Seen, DraftAgrees, Add, Put
<1> DEFINE new == [Seen(p) EXCEPT !.has = @ \cup things]
<1>2. File(new) /\ new.heads = db.heads /\ new.copy = db.copy
    BY <1>1 DEF File, DatabaseShape
<1> QED
    BY <1>1, <1>2 DEF Add, Put, SameTemplates, KeptInv, DraftAgrees

LEMMA RollbackQuiet ==
    ASSUME KeptInv, NEW p \in Processes, Rollback(p)
    PROVE  SameTemplates
BY DEF KeptInv, Rollback, SameTemplates, DraftAgrees, File, DatabaseShape

LEMMA RefusedQuiet ==
    ASSUME KeptInv, NEW p \in Processes, Refused(p), UNCHANGED <<saved, late>>
    PROVE  KeptInv'
BY GotoQuiet, RollbackQuiet, QuietStep DEF Refused, KeptInv

LEMMA CommitQuiet ==
    ASSUME KeptInv, NEW p \in Processes, p # Null, Commit(p)
    PROVE  SameTemplates
BY DEF KeptInv, Commit, SameTemplates, DraftAgrees

-------------------------------------------------------------------------------
(* The actions of a process that opens the database                         *)

LEMMA MigrateQuiet ==
    ASSUME KeptInv, NEW p \in Processes, UNCHANGED <<saved, late>>,
           Open(p) \/ Look(p) \/ Duplicate(p) \/ Apply(p) \/ CommitPending(p)
             \/ RunScript(p) \/ Record(p) \/ CommitLast(p)
    PROVE  KeptInv'
<1>1. ProcessShape /\ p # Null
    BY UpgradeAssumption DEF KeptInv
<1>2. ASSUME NothingWritten
      PROVE  SameTemplates
    BY <1>2 DEF NothingWritten, SameTemplates, KeptInv, DraftAgrees, File, DatabaseShape
<1>3. CASE Open(p)
    <2>1. PICK pc \in {"apply", "usage"} :
             proc' = [proc EXCEPT ![p] = Process(pc, db.version + 1, TRUE)]
        BY <1>3 DEF Open, Migrating
    <2>2. /\ ProcessShape' /\ proc'[p].pc = pc
          /\ \A q \in Processes \ {p} : proc'[q] = proc[q]
        BY <1>1, <2>1, ReplaceShape
    <2>3. NoNewRebuild
        BY <2>2 DEF NoNewRebuild
    <2> QED
        BY <1>2, <1>3, <2>3, QuietStep DEF Open
<1>4. CASE Look(p)
    <2>1. NoNewRebuild
        BY <1>1, <1>4 DEF Look, NoNewRebuild, ProcessShape
    <2> QED
        BY <2>1, <1>2, <1>4, QuietStep DEF Look
<1>5. CASE Duplicate(p)
    BY <1>5, RefusedQuiet DEF Duplicate
<1>6. CASE Apply(p)
    <2>1. SameTemplates
        BY <1>6, AddQuiet DEF Apply
    <2>2. \E pc \in {"create", "script", "record"} : Goto(p, pc)
        BY <1>6 DEF Apply
    <2> QED
        BY <1>1, <2>1, <2>2, GotoQuiet, QuietStep
<1>7. CASE CommitPending(p)
    <2>1. NoNewRebuild
        BY <1>1, <1>7 DEF CommitPending, NoNewRebuild, ProcessShape
    <2> QED
        BY <1>1, <1>7, <2>1, CommitQuiet, QuietStep DEF CommitPending
<1>8. CASE RunScript(p)
    <2>1. SameTemplates
        BY <1>8 DEF RunScript, Guarded, SameTemplates, KeptInv, DraftAgrees, File, DatabaseShape
    <2> QED
        BY <1>1, <1>8, <2>1, GotoQuiet, QuietStep DEF RunScript
<1>9. CASE Record(p)
    <2>1. CASE Refused(p)
        BY <2>1, RefusedQuiet
    <2>2. CASE ~Refused(p)
        <3>1. SameTemplates
            <4> DEFINE new == [Seen(p) EXCEPT !.version = proc[p].next]
            <4>1. File(Seen(p)) /\ Seen(p).heads = db.heads /\ Seen(p).copy = db.copy
                BY <1>1, <1>9 DEF KeptInv, Seen, DraftAgrees, Record
            <4>2. File(new) /\ new.heads = db.heads /\ new.copy = db.copy
                BY <4>1 DEF File, DatabaseShape
            <4> QED
                BY <1>9, <2>2, <4>2 DEF Record, SameTemplates, KeptInv, DraftAgrees
        <3>2. NoNewRebuild
            BY <1>1, <1>9, <2>2, ReplaceShape DEF Record, NoNewRebuild
        <3> QED
            BY <3>1, <3>2, QuietStep
    <2> QED
        BY <2>1, <2>2
<1>10. CASE CommitLast(p)
    <2>1. \E pc \in {"usage", "up"} : Goto(p, pc)
        BY <1>10 DEF CommitLast
    <2> QED
        BY <1>1, <1>10, <2>1, CommitQuiet, GotoQuiet, QuietStep DEF CommitLast
<1> QED
    BY <1>3, <1>4, <1>5, <1>6, <1>7, <1>8, <1>9, <1>10

LEMMA EnsureQuiet ==
    ASSUME KeptInv, NEW p \in Processes, UNCHANGED <<saved, late>>, EnsureStores(p)
    PROVE  KeptInv'
<1>1. ProcessShape
    BY DEF KeptInv
<1>2. \E pc \in {"usageColumns", "library", "libraryColumns", "create", "memory", "up"} :
         Goto(p, pc)
    BY DEF EnsureStores, EnsureUsage, EnsureUsageColumns, EnsureLibrary,
           EnsureLibraryColumns, EnsureMemory
<1>3. SameTemplates
    <2>1. CASE EnsureUsageColumns(p)
        <3> DEFINE new == [db EXCEPT !.has = Guarded(@ \cup proc[p].todo)]
        <3>1. File(new) /\ new.heads = db.heads /\ new.copy = db.copy
            BY DEF KeptInv, File, DatabaseShape, Guarded
        <3> QED
            BY <2>1, <3>1 DEF EnsureUsageColumns, Put, SameTemplates, KeptInv, DraftAgrees
    <2>2. CASE NothingWritten
        BY <2>2 DEF NothingWritten, SameTemplates, KeptInv, DraftAgrees, File, DatabaseShape
    <2> QED
        BY <2>1, <2>2, AddQuiet
           DEF EnsureStores, EnsureUsage, EnsureLibrary, EnsureLibraryColumns, EnsureMemory, Create
<1> QED
    BY <1>1, <1>2, <1>3, GotoQuiet, QuietStep

-------------------------------------------------------------------------------
(* The rebuild, statement by statement                                      *)

LEMMA RebuildKeeps ==
    ASSUME KeptInv, NEW p \in Processes, UNCHANGED <<saved, late>>, Rebuild(p)
    PROVE  KeptInv'
<1>1. /\ ProcessShape /\ p # Null /\ File(db) /\ OneRebuild /\ CopyIsReady
      /\ TemplatesAreKept
    BY UpgradeAssumption DEF KeptInv
<1>2. CASE Refused(p)
    BY <1>2, RefusedQuiet
<1>3. ASSUME NEW new, lock = Null, Put(p, new)
      PROVE  db' = new /\ lock' = Null
    BY <1>1, <1>3 DEF Put
<1>4. CASE CreateCopy(p) /\ ~Refused(p)
    <2>1. /\ db.copy = Null /\ lock' = Null /\ db' = [db EXCEPT !.copy = {}] /\ Goto(p, "fill")
        BY <1>3, <1>4 DEF CreateCopy
    <2>2. File(db') /\ DraftAgrees' /\ db'.heads = db.heads /\ db'.copy = {} /\ db'.copy # Null
        BY <1>1, <2>1, UpgradeAssumption DEF File, DatabaseShape, DraftAgrees
    <2>3. /\ ProcessShape' /\ proc'[p].pc = "fill"
          /\ \A q \in Processes \ {p} : proc'[q] = proc[q]
        BY <1>1, <2>1, GotoShape
    <2>4. OneRebuild' /\ CopyIsReady'
        BY <1>1, <2>1, <2>2, <2>3 DEF OneRebuild, Rebuilding, CopyIsReady, At
    <2> QED
        BY <1>1, <2>1, <2>2, <2>3, <2>4 DEF KeptInv, TemplatesAreKept
<1>5. CASE FillCopy(p) /\ ~Refused(p)
    <2>1. /\ At(p, "fill") /\ lock' = Null /\ db' = [db EXCEPT !.copy = @ \cup db.heads]
          /\ Goto(p, "drop")
        BY <1>3, <1>5 DEF FillCopy
    <2>2. db.copy # Null /\ db.copy \subseteq Templates
        BY <1>1, <2>1 DEF OneRebuild, Rebuilding, At, File
    <2>3. /\ File(db') /\ DraftAgrees' /\ db'.heads = db.heads
          /\ db'.copy = db.copy \cup db.heads /\ db'.copy # Null
        BY <1>1, <2>1, <2>2, UpgradeAssumption DEF File, DatabaseShape, DraftAgrees
    <2>4. /\ ProcessShape' /\ proc'[p].pc = "drop"
          /\ \A q \in Processes \ {p} : proc'[q] = proc[q]
        BY <1>1, <2>1, GotoShape
    <2>5. saved' \ late' \subseteq db'.copy
        BY <1>1, <2>2, <2>3 DEF TemplatesAreKept
    <2>6. OneRebuild' /\ CopyIsReady' /\ TemplatesAreKept'
        BY <1>1, <2>1, <2>3, <2>4, <2>5
           DEF OneRebuild, Rebuilding, CopyIsReady, TemplatesAreKept, At
    <2> QED
        BY <2>3, <2>4, <2>6 DEF KeptInv
<1>6. CASE DropHeads(p) /\ ~Refused(p)
    <2>1. /\ At(p, "drop") /\ lock' = Null /\ Goto(p, "rename")
          /\ db' = [db EXCEPT !.heads = {}, !.has = @ \ (HeadColumns \cup {"templates"})]
        BY <1>3, <1>6 DEF DropHeads
    <2>2. /\ File(db') /\ DraftAgrees' /\ db'.copy = db.copy
        BY <1>1, <2>1 DEF File, DatabaseShape, DraftAgrees
    <2>3. /\ ProcessShape' /\ proc'[p].pc = "rename"
          /\ \A q \in Processes \ {p} : proc'[q] = proc[q]
        BY <1>1, <2>1, GotoShape
    <2>4. db.copy # Null /\ saved \ late \subseteq db.copy
        BY <1>1, <2>1 DEF OneRebuild, Rebuilding, CopyIsReady, At
    <2>5. OneRebuild' /\ CopyIsReady' /\ TemplatesAreKept'
        BY <1>1, <2>1, <2>2, <2>3, <2>4
           DEF OneRebuild, Rebuilding, CopyIsReady, TemplatesAreKept, At
    <2> QED
        BY <2>2, <2>3, <2>5 DEF KeptInv
<1>7. CASE RenameCopy(p) /\ ~Refused(p)
    <2>1. /\ At(p, "rename") /\ "templates" \notin db.has /\ db.copy # Null
          /\ lock' = Null /\ Goto(p, AfterRebuild(p))
          /\ db' = [db EXCEPT !.heads = db.copy, !.copy = Null,
                             !.has = @ \cup HeadColumns \cup {"templates"}]
        BY <1>3, <1>7 DEF RenameCopy
    <2>2. saved \ late \subseteq db.copy
        BY <1>1, <2>1 DEF File, TemplatesAreKept
    <2>3. /\ File(db') /\ DraftAgrees' /\ db'.heads = db.copy /\ db'.copy = Null
        BY <1>1, <2>1 DEF File, DatabaseShape, DraftAgrees
    <2>4. /\ ProcessShape' /\ proc'[p].pc \in {"record", "memory"}
          /\ \A q \in Processes \ {p} : proc'[q] = proc[q]
        BY <1>1, <2>1, GotoShape DEF AfterRebuild
    <2>5. OneRebuild' /\ CopyIsReady' /\ TemplatesAreKept'
        BY <1>1, <2>1, <2>2, <2>3, <2>4
           DEF OneRebuild, Rebuilding, CopyIsReady, TemplatesAreKept, At
    <2> QED
        BY <2>3, <2>4, <2>5 DEF KeptInv
<1> QED
    BY <1>2, <1>4, <1>5, <1>6, <1>7 DEF Rebuild

-------------------------------------------------------------------------------
(* What else happens                                                        *)

LEMMA SaveKeeps ==
    ASSUME KeptInv, NEW p \in Processes, Save(p)
    PROVE  KeptInv'
<1>1. PICK t \in Templates \ saved :
         /\ db' = [db EXCEPT !.heads = @ \cup {t}] /\ saved' = saved \cup {t}
         /\ late' = IF \E q \in Processes : At(q, "drop") THEN late \cup {t} ELSE late
    BY DEF Save
<1>2. /\ "templates" \in db.has /\ lock' = Null /\ proc' = proc
    BY DEF Save
<1>3. /\ File(db') /\ DraftAgrees' /\ db'.copy = db.copy /\ db'.heads = db.heads \cup {t}
    BY <1>1, <1>2 DEF KeptInv, File, DatabaseShape, DraftAgrees
<1>4. CopyIsReady'
    BY <1>1, <1>2, <1>3 DEF KeptInv, CopyIsReady, At
<1>5. TemplatesAreKept'
    BY <1>1, <1>3 DEF KeptInv, TemplatesAreKept
<1> QED
    BY <1>2, <1>3, <1>4, <1>5 DEF KeptInv, ProcessShape, OneRebuild, Rebuilding

LEMMA RestoreKeeps ==
    ASSUME KeptInv, NEW p \in Processes, Restore(p)
    PROVE  KeptInv'
<1>1. PICK backup \in Releases :
         /\ db' = backup /\ saved' = backup.heads /\ late' = {}
         /\ proc' = [proc EXCEPT ![p] = Migrating(backup.version, FALSE)]
    BY DEF Restore
<1>2. File(db') /\ db'.copy = Null
    BY <1>1, UpgradeAssumption DEF File, DatabaseShape
<1>3. PICK pc \in {"apply", "up"} :
         proc' = [proc EXCEPT ![p] = Process(pc, backup.version + 1, FALSE)]
    BY <1>1 DEF Migrating
<1>4. /\ ProcessShape' /\ proc'[p].pc = pc
      /\ \A q \in Processes \ {p} : proc'[q].pc = "closed"
    <2>1. /\ ProcessShape' /\ proc'[p].pc = pc
          /\ \A q \in Processes \ {p} : proc'[q] = proc[q]
        BY <1>3, ReplaceShape DEF KeptInv
    <2> QED
        BY <2>1 DEF Restore, At
<1>5. OneRebuild' /\ CopyIsReady' /\ TemplatesAreKept'
    BY <1>1, <1>4 DEF OneRebuild, Rebuilding, CopyIsReady, TemplatesAreKept, At
<1>6. DraftAgrees'
    BY DEF Restore, DraftAgrees
<1> QED
    BY <1>2, <1>4, <1>5, <1>6 DEF KeptInv

LEMMA KeptInitially ==
    ASSUME UpgradeInit
    PROVE  KeptInv
<1>1. File(db) /\ db.copy = Null
    BY UpgradeAssumption DEF UpgradeInit, File, DatabaseShape
<1>2. ProcessShape /\ \A p \in Processes : proc[p].pc \in {"closed", "old"}
    BY DEF UpgradeInit, ProcessShape, Process
<1> QED
    BY <1>1, <1>2 DEF UpgradeInit, KeptInv, DraftAgrees, OneRebuild, Rebuilding,
                      CopyIsReady, TemplatesAreKept, At

LEMMA KeptNext ==
    ASSUME KeptInv, [UpgradeNext]_upgradeVars
    PROVE  KeptInv'
<1>1. CASE UNCHANGED upgradeVars
    BY <1>1 DEF upgradeVars, KeptInv, ProcessShape, File, DatabaseShape, DraftAgrees,
                OneRebuild, Rebuilding, CopyIsReady, TemplatesAreKept, At
<1>2. ASSUME NEW p \in Processes, Opens(p)
      PROVE  KeptInv'
    BY <1>2, MigrateQuiet, RebuildKeeps, EnsureQuiet DEF Opens
<1>3. ASSUME NEW p \in Processes, TimesOut(p), UNCHANGED <<saved, late>>
      PROVE  KeptInv'
    BY <1>3, RefusedQuiet DEF TimesOut
<1>4. ASSUME NEW p \in Processes, Dies(p), UNCHANGED <<saved, late>>
      PROVE  KeptInv'
    BY <1>4, GotoQuiet, RollbackQuiet, QuietStep DEF Dies, KeptInv
<1> QED
    BY <1>1, <1>2, <1>3, <1>4, SaveKeeps, RestoreKeeps DEF UpgradeNext

(* No template is gone from the file, whatever releases, processes, deaths,
   restores and rivals there are: it is in the table or in the copy that a
   broken rebuild has left, if it was not saved behind the copying.         *)
THEOREM UpgradeKeepsTemplates == UpgradeSpec => []TemplatesAreKept
<1>1. UpgradeInit => KeptInv
    BY KeptInitially
<1>2. KeptInv /\ [UpgradeNext]_upgradeVars => KeptInv'
    BY KeptNext
<1>3. KeptInv => TemplatesAreKept
    BY DEF KeptInv
<1> QED
    BY <1>1, <1>2, <1>3, PTL DEF UpgradeSpec

-------------------------------------------------------------------------------
(* The invariant behind UpIsComplete.  Two tables are never without the     *)
(* columns that migrations 1 and 16 add, whoever creates them after that.   *)

TemplateThings == HeadColumns \cup {"templates"}

ColumnsAfter(v, has) ==
    /\ v = 1 /\ "facts" \in has => "facts.workspace" \in has
    /\ v = 16 => "prompt_sources.compatibility" \in has

Done(v, has) ==
    /\ Migrations[v].creates \cup Migrations[v].script \subseteq has
    /\ ColumnsAfter(v, has)

\* The migrations that a file has recorded were done.
Recorded(d) == d.version \in 0..Latest /\ \A v \in 1..d.version : Done(v, d.has)

\* What may become of a file while others work on it: of the templates it loses
\* something in a rebuild only, and then there is a copy.
Grows(d, e) ==
    /\ d.version \in Nat /\ e.version \in Nat /\ d.version <= e.version
    /\ d.has \ TemplateThings \subseteq e.has
    /\ "facts" \in e.has => "facts" \in d.has \/ "facts.workspace" \in e.has
    /\ \/ e.copy # Null
       \/ TemplateThings \subseteq e.has
       \/ d.copy = Null /\ d.has \subseteq e.has

Rebuilds == {"create", "fill", "drop", "rename"}
Later == {"commit", "usage", "usageColumns", "library", "libraryColumns", "memory", "up"}

\* A process r that sees the file s and works on migration r.next has all before it.
Migrated(r, s) ==
    r.pc \notin {"closed", "old", "astray"} =>
        /\ r.next \in 1..(Latest + 1) /\ s.version >= r.next - 1
        /\ r.pc \in {"apply", "script", "record"} => r.next <= Latest
        /\ r.pc \in Rebuilds => r.next \in {RebuildVersion, Latest + 1}
        /\ r.pc \in Later => r.next = Latest + 1
        /\ r.todo # Null => "facts" \notin r.todo
        /\ r.pc = "apply" /\ r.todo # Null => ColumnsAfter(r.next, s.has \cup r.todo)
        /\ r.pc \in {"script", "record"} =>
              Migrations[r.next].creates \subseteq s.has /\ ColumnsAfter(r.next, s.has)
        /\ r.pc = "record" => Migrations[r.next].script \subseteq s.has

\* The places behind EnsureUsageColumns.
Behind(r) ==
    \/ r.pc \in {"library", "libraryColumns", "memory", "up"}
    \/ r.pc \in Rebuilds /\ r.next = Latest + 1

UsageStored(r, s) ==
    r.full =>
        /\ r.pc = "usageColumns" \/ Behind(r) => "usage" \in s.has
        /\ r.pc = "usageColumns" /\ r.todo # Null => UsageColumns \subseteq s.has \cup r.todo
        /\ Behind(r) => UsageColumns \cup {"usage.guards"} \subseteq s.has
        /\ r.pc = "up" => "facts" \in s.has

HeadsStored(r, s) ==
    r.full =>
        \/ s.copy # Null
        \/ /\ r.pc = "libraryColumns" => "templates" \in s.has
           /\ r.pc = "libraryColumns" /\ r.todo # Null =>
                 /\ {"templates.visibility", "templates.tags"} \subseteq s.has \cup r.todo
                 /\ "templates.visibility" \in r.todo =>
                       "templates.archived" \in s.has \cup r.todo
           /\ r.pc \in {"memory", "up"} => TemplateThings \subseteq s.has

Stage(r, s) == Migrated(r, s) /\ UsageStored(r, s) /\ HeadsStored(r, s)

\* Transactions are open in the migrations only.
Locks(p) == At(p, "commit") \/ (proc[p].pc \in {"apply", "create", "script", "record"}
                                  /\ proc[p].next <= Latest)

FilesInv ==
    /\ Recorded(db)
    /\ lock # Null =>
          /\ lock \in Processes /\ Locks(lock)
          /\ Recorded(draft) /\ Grows(db, draft)

CompleteInv ==
    /\ KeptInv /\ FilesInv
    /\ \A p \in Processes : Stage(proc[p], Seen(p))
    /\ \A p \in Processes : At(p, "commit") => lock = p

-------------------------------------------------------------------------------
(* The migrations, one by one                                               *)

LEMMA Concatenation ==
    ASSUME NEW S, NEW s \in Seq(S), NEW t \in Seq(S)
    PROVE  /\ s \o t \in Seq(S)
           /\ Len(s \o t) = Len(s) + Len(t)
           /\ \A i \in 1..Len(s) : (s \o t)[i] = s[i]
           /\ \A i \in 1..Len(t) : (s \o t)[Len(s) + i] = t[i]
OBVIOUS

LEMMA MigrationParts ==
    /\ Latest = 17
    /\ \A v \in 1..9 : Migrations[v] = EarlyMigrations[v]
    /\ Migrations[10] = RebuildMigration
    /\ \A v \in 1..3 : Migrations[10 + v] = TraceMigrations[v]
    /\ \A v \in 1..2 : Migrations[13 + v] = SourceMigrations[v]
    /\ Migrations[16] = LeaseMigration /\ Migrations[17] = BudgetMigration
<1> DEFINE early == EarlyMigrations
           rebuild == <<RebuildMigration>>
           trace == TraceMigrations
           source == SourceMigrations
           last == <<LeaseMigration, BudgetMigration>>
           All5 == {early[i] : i \in 1..9} \cup {rebuild[1]} \cup {trace[i] : i \in 1..3}
                     \cup {source[i] : i \in 1..2} \cup {last[i] : i \in 1..2}
<1>1. Migrations = early \o rebuild \o trace \o source \o last
    BY DEF Migrations
<1>2. early \in Seq(All5)
    <2> DEFINE S == {early[i] : i \in 1..9}
    <2>1. early \in Seq(S)
        BY DEF EarlyMigrations
    <2>2. S \subseteq All5
        OBVIOUS
    <2> HIDE DEF S, early, All5
    <2> QED
        BY <2>1, <2>2
<1>3. rebuild \in Seq(All5) /\ last \in Seq(All5)
    OBVIOUS
<1>4. trace \in Seq(All5)
    <2> DEFINE S == {trace[i] : i \in 1..3}
    <2>1. trace \in Seq(S)
        BY DEF TraceMigrations
    <2>2. S \subseteq All5
        OBVIOUS
    <2> HIDE DEF S, trace, All5
    <2> QED
        BY <2>1, <2>2
<1>5. source \in Seq(All5)
    <2> DEFINE S == {source[i] : i \in 1..2}
    <2>1. source \in Seq(S)
        BY DEF SourceMigrations
    <2>2. S \subseteq All5
        OBVIOUS
    <2> HIDE DEF S, source, All5
    <2> QED
        BY <2>1, <2>2
<1>6. /\ Len(early) = 9 /\ Len(rebuild) = 1 /\ Len(trace) = 3 /\ Len(source) = 2
      /\ Len(last) = 2
      /\ rebuild[1] = RebuildMigration
      /\ last[1] = LeaseMigration /\ last[2] = BudgetMigration
    BY DEF EarlyMigrations, TraceMigrations, SourceMigrations
<1> HIDE DEF early, rebuild, trace, source, last, All5
<1> DEFINE ten == early \o rebuild
           traced == ten \o trace
           most == traced \o source
<1>7. /\ ten \in Seq(All5)
      /\ Len(ten) = Len(early) + Len(rebuild)
      /\ \A v \in 1..Len(early) : ten[v] = early[v]
      /\ \A v \in 1..Len(rebuild) : ten[Len(early) + v] = rebuild[v]
    BY <1>2, <1>3, Concatenation
<1> HIDE DEF ten
<1>8. /\ traced \in Seq(All5)
      /\ Len(traced) = Len(ten) + Len(trace)
      /\ \A v \in 1..Len(ten) : traced[v] = ten[v]
      /\ \A v \in 1..Len(trace) : traced[Len(ten) + v] = trace[v]
    BY <1>4, <1>7, Concatenation
<1> HIDE DEF traced
<1>9. /\ most \in Seq(All5)
      /\ Len(most) = Len(traced) + Len(source)
      /\ \A v \in 1..Len(traced) : most[v] = traced[v]
      /\ \A v \in 1..Len(source) : most[Len(traced) + v] = source[v]
    <2>1. traced \in Seq(All5)
        BY <1>8
    <2> QED
        BY <1>5, <2>1, Concatenation
<1> HIDE DEF most
<1>10. /\ Len(Migrations) = Len(most) + Len(last)
       /\ \A v \in 1..Len(most) : Migrations[v] = most[v]
       /\ \A v \in 1..Len(last) : Migrations[Len(most) + v] = last[v]
    BY <1>1, <1>3, <1>9, Concatenation DEF most, traced, ten
<1>11. Len(ten) = 10 /\ Len(traced) = 13 /\ Len(most) = 15
    BY <1>6, <1>7, <1>8, <1>9
<1>12. \A v \in 1..9 : Migrations[v] = early[v]
    BY SMTT(30), <1>6, <1>7, <1>8, <1>9, <1>10, <1>11
<1>13. Migrations[10] = RebuildMigration
    BY <1>6, <1>7, <1>8, <1>9, <1>10, <1>11
<1>14. \A v \in 1..3 : Migrations[10 + v] = trace[v]
    BY SMTT(30), <1>6, <1>8, <1>9, <1>10, <1>11
<1>15. \A v \in 1..2 : Migrations[13 + v] = source[v]
    BY <1>6, <1>9, <1>10, <1>11
<1>16. Migrations[16] = LeaseMigration /\ Migrations[17] = BudgetMigration
    BY <1>6, <1>10, <1>11
<1> QED
    <2>1. Latest = 17
        BY <1>6, <1>10, <1>11 DEF Latest
    <2> QED
        BY <1>12, <1>13, <1>14, <1>15, <1>16, <2>1, Zenon DEF early, trace, source

LEMMA MigrationFacts ==
    /\ Latest = 17 /\ RebuildVersion = 10
    /\ \A v \in 1..17 :
          /\ Migrations[v].creates \cap (TemplateThings \cup {"facts"}) = {}
          /\ Migrations[v].script \cap (TemplateThings \cup {"facts"}) = {}
          /\ Migrations[v].columns \subseteq UsageColumns
                \cup {"facts.workspace", "prompt_sources.compatibility"}
    /\ Migrations[1].needs = {"facts"} /\ Migrations[1].columns = {"facts.workspace"}
    /\ Migrations[10].creates = {} /\ Migrations[10].script = {}
    /\ Migrations[14].script = {"prompt_sources"}
    /\ Migrations[16].needs = {"prompt_sources"}
    /\ Migrations[16].columns = {"prompt_sources.compatibility"}
    /\ Migrations[17].script = {"budget"}
<1> DEFINE Mild(m) ==
             /\ m.creates \cap (TemplateThings \cup {"facts"}) = {}
             /\ m.script \cap (TemplateThings \cup {"facts"}) = {}
             /\ m.columns \subseteq UsageColumns
                   \cup {"facts.workspace", "prompt_sources.compatibility"}
<1>1. \A v \in 1..9 : Mild(EarlyMigrations[v])
    BY DEF EarlyMigrations, Alters, Creates, Migration, TemplateThings, HeadColumns, UsageColumns
<1>2. \A v \in 1..3 : Mild(TraceMigrations[v])
    BY DEF TraceMigrations, Alters, Migration, TemplateThings, HeadColumns, UsageColumns
<1>3. \A v \in 1..2 : Mild(SourceMigrations[v])
    BY DEF SourceMigrations, Runs, Migration, TemplateThings, HeadColumns, UsageColumns
<1>4. Mild(RebuildMigration) /\ Mild(LeaseMigration) /\ Mild(BudgetMigration)
    BY DEF RebuildMigration, LeaseMigration, BudgetMigration, Runs, Migration,
           TemplateThings, HeadColumns, UsageColumns
<1> HIDE DEF Mild
<1>5. \A v \in 1..17 : Mild(Migrations[v])
    <2> SUFFICES ASSUME NEW v \in 1..17 PROVE Mild(Migrations[v])
        OBVIOUS
    <2>1. CASE v \in 1..9
        BY <2>1, <1>1, MigrationParts
    <2>2. CASE v \in 11..13
        <3>1. v - 10 \in 1..3 /\ v = 10 + (v - 10)
            BY <2>2
        <3> QED
            BY <3>1, <1>2, MigrationParts
    <2>3. CASE v \in 14..15
        <3>1. v - 13 \in 1..2 /\ v = 13 + (v - 13)
            BY <2>3
        <3> QED
            BY <3>1, <1>3, MigrationParts
    <2>4. CASE v \in {10, 16, 17}
        BY <2>4, <1>4, MigrationParts
    <2> QED
        BY <2>1, <2>2, <2>3, <2>4
<1>6. Migrations[1] = Alters("facts", "facts.workspace")
    BY MigrationParts DEF EarlyMigrations
<1>7. Migrations[14] = Runs("prompt_sources")
    <2>1. 14 = 13 + 1
        OBVIOUS
    <2> QED
        BY <2>1, MigrationParts DEF SourceMigrations
<1> QED
    BY <1>5, <1>6, <1>7, MigrationParts
       DEF Mild, Alters, Runs, Migration, RebuildMigration, LeaseMigration, BudgetMigration,
           RebuildVersion

-------------------------------------------------------------------------------
(* Files that grow, and what stays true of them                             *)

LEMMA GrowsReflexive ==
    ASSUME NEW d, d.version \in Nat
    PROVE  Grows(d, d)
BY DEF Grows

LEMMA GrowsTransitive ==
    ASSUME NEW d, NEW e, NEW f, Grows(d, e), Grows(e, f)
    PROVE  Grows(d, f)
<1>1. d.has \ TemplateThings \subseteq f.has
    BY DEF Grows
<1>2. "facts" \in f.has => "facts" \in d.has \/ "facts.workspace" \in f.has
    <2>1. "facts.workspace" \notin TemplateThings
        BY DEF TemplateThings, HeadColumns
    <2> QED
        BY <2>1 DEF Grows
<1>3. \/ f.copy # Null
      \/ TemplateThings \subseteq f.has
      \/ d.copy = Null /\ d.has \subseteq f.has
    BY DEF Grows
<1> QED
    BY <1>1, <1>2, <1>3 DEF Grows

LEMMA RecordedGrows ==
    ASSUME NEW d, NEW e, Recorded(d), Grows(d, e), e.version = d.version
    PROVE  Recorded(e)
<1> SUFFICES ASSUME NEW v \in 1..d.version PROVE Done(v, e.has)
    BY DEF Recorded
<1>1. Done(v, d.has) /\ v \in 1..17
    BY MigrationFacts DEF Recorded
<1>2. Migrations[v].creates \cup Migrations[v].script \subseteq e.has
    BY <1>1, MigrationFacts DEF Done, Grows
<1>3. ColumnsAfter(v, e.has)
    BY <1>1 DEF Done, ColumnsAfter, Grows, TemplateThings, HeadColumns
<1> QED
    BY <1>2, <1>3 DEF Done

LEMMA StageGrows ==
    ASSUME NEW r, NEW s, NEW t, Stage(r, s), Grows(s, t)
    PROVE  Stage(r, t)
<1>1. Migrated(r, t)
    <2> SUFFICES ASSUME r.pc \notin {"closed", "old", "astray"} PROVE Migrated(r, t)
        BY DEF Migrated
    <2>1. r.next \in 1..18 /\ t.version >= r.next - 1
        BY MigrationFacts DEF Stage, Migrated, Grows
    <2>2. r.pc = "apply" /\ r.todo # Null => ColumnsAfter(r.next, t.has \cup r.todo)
        BY DEF Stage, Migrated, Grows, ColumnsAfter, TemplateThings, HeadColumns
    <2>3. r.pc \in {"script", "record"} =>
             Migrations[r.next].creates \subseteq t.has /\ ColumnsAfter(r.next, t.has)
        BY <2>1, MigrationFacts
           DEF Stage, Migrated, Grows, ColumnsAfter, TemplateThings, HeadColumns
    <2>4. r.pc = "record" => Migrations[r.next].script \subseteq t.has
        BY <2>1, MigrationFacts DEF Stage, Migrated, Grows
    <2> QED
        BY <2>1, <2>2, <2>3, <2>4, MigrationFacts DEF Stage, Migrated
<1>2. UsageStored(r, t)
    <2>1. "facts" \in s.has \ TemplateThings => "facts" \in t.has
        BY DEF Grows
    <2>2. ({"usage", "usage.guards", "facts"} \cup UsageColumns) \cap TemplateThings = {}
        BY DEF TemplateThings, HeadColumns, UsageColumns
    <2> QED
        BY <2>1, <2>2 DEF Stage, UsageStored, Grows
<1>3. HeadsStored(r, t)
    BY DEF Stage, HeadsStored, Grows, TemplateThings, HeadColumns
<1> QED
    BY <1>1, <1>2, <1>3 DEF Stage

(* What the statements and the ends of transactions of p do to the files    *)
\* The files are in order, and for the others they have only grown.
FilesFit(p) ==
    /\ Recorded(db)'
    /\ (lock # Null => Recorded(draft) /\ Grows(db, draft))'
    /\ \A q \in Processes \ {p} :
          Grows(Seen(q), Seen(q)') /\ (lock = q <=> lock' = q)
    /\ lock' # Null => lock' \in Processes

LEMMA SeenRecorded ==
    ASSUME CompleteInv, NEW p \in Processes
    PROVE  Recorded(Seen(p)) /\ Seen(p).version \in Nat
BY UpgradeAssumption, MigrationFacts DEF CompleteInv, FilesInv, Seen, Recorded

LEMMA NothingFits ==
    ASSUME CompleteInv, NEW p \in Processes, NothingWritten
    PROVE  FilesFit(p) /\ Seen(p)' = Seen(p)
BY SeenRecorded, GrowsReflexive, UpgradeAssumption
   DEF CompleteInv, FilesInv, FilesFit, NothingWritten, Seen

LEMMA PutFits ==
    ASSUME CompleteInv, NEW p \in Processes, NEW new, Put(p, new),
           Grows(Seen(p), new), new.version = Seen(p).version
    PROVE  FilesFit(p) /\ Seen(p)' = new /\ lock' = lock
<1>1. Recorded(new)
    BY SeenRecorded, RecordedGrows
<1>2. \A q \in Processes : Seen(q).version \in Nat
    BY SeenRecorded
<1>3. CASE lock = p
    <2>1. draft' = new /\ db' = db /\ lock' = p /\ p # Null /\ Seen(p) = draft
        BY <1>3, UpgradeAssumption DEF Put, Seen
    <2>2. Grows(db, draft) /\ Recorded(db)
        BY <2>1, <1>3 DEF CompleteInv, FilesInv
    <2>3. Grows(db, new)
        BY <2>1, <2>2, GrowsTransitive
    <2>4. \A q \in Processes \ {p} : Seen(q) = db /\ Seen(q)' = db
        BY <2>1, <1>3 DEF Seen
    <2> QED
        BY <1>1, <1>2, <1>3, <2>1, <2>2, <2>3, <2>4, GrowsReflexive DEF FilesFit, Seen
<1>4. CASE lock # p
    <2>1. lock = Null /\ db' = new /\ lock' = Null /\ p # Null
        BY <1>4, UpgradeAssumption DEF Put
    <2>2. \A q \in Processes : Seen(q) = db /\ Seen(q)' = new
        BY <2>1, UpgradeAssumption DEF Seen
    <2> QED
        BY <1>1, <2>1, <2>2, UpgradeAssumption DEF FilesFit
<1> QED
    BY <1>3, <1>4

LEMMA CommitFits ==
    ASSUME CompleteInv, NEW p \in Processes, Commit(p)
    PROVE  FilesFit(p) /\ Seen(p)' = Seen(p) /\ lock' = Null
<1>1. lock = p /\ p # Null /\ db' = draft /\ lock' = Null
    BY UpgradeAssumption DEF Commit
<1>2. Recorded(draft) /\ Grows(db, draft)
    BY <1>1 DEF CompleteInv, FilesInv
<1>3. \A q \in Processes : Seen(q)' = draft
    BY <1>1, UpgradeAssumption DEF Seen
<1>4. Seen(p) = draft /\ \A q \in Processes \ {p} : Seen(q) = db
    BY <1>1 DEF Seen
<1> QED
    BY <1>1, <1>2, <1>3, <1>4, UpgradeAssumption DEF FilesFit

LEMMA RollbackFits ==
    ASSUME CompleteInv, NEW p \in Processes, Rollback(p)
    PROVE  FilesFit(p) /\ lock' # p
<1>1. p # Null /\ \A q \in Processes : Seen(q).version \in Nat
    BY SeenRecorded, UpgradeAssumption
<1>2. \A q \in Processes \ {p} : Seen(q)' = Seen(q) /\ (lock = q <=> lock' = q)
    BY UpgradeAssumption DEF Rollback, Seen
<1> QED
    BY <1>1, <1>2, GrowsReflexive DEF FilesFit, Rollback, CompleteInv, FilesInv

LEMMA StepFits ==
    ASSUME CompleteInv, KeptInv', NEW p \in Processes, FilesFit(p),
           \A q \in Processes \ {p} : proc'[q] = proc[q],
           Stage(proc[p], Seen(p))',
           At(p, "commit")' => lock' = p,
           lock' = p => Locks(p)'
    PROVE  CompleteInv'
<1>1. ASSUME NEW q \in Processes \ {p}
      PROVE  Stage(proc[q], Seen(q))'
    <2>1. Stage(proc[q], Seen(q)) /\ Grows(Seen(q), Seen(q)') /\ proc'[q] = proc[q]
        BY DEF CompleteInv, FilesFit
    <2>2. Stage(proc[q], Seen(q)')
        BY <2>1, StageGrows
    <2> QED
        BY <2>1, <2>2
<1>2. FilesInv'
    <2>1. \A q \in Processes \ {p} : lock' = q => Locks(q)'
        BY UpgradeAssumption DEF CompleteInv, FilesInv, FilesFit, Locks, At
    <2> QED
        BY <2>1 DEF FilesFit, FilesInv
<1>3. \A q \in Processes : At(q, "commit")' => lock' = q
    BY DEF CompleteInv, FilesFit, At
<1> QED
    BY <1>1, <1>2, <1>3 DEF CompleteInv

LEMMA Moves ==
    ASSUME ProcessShape, NEW p \in Processes, NEW pc, NEW next, NEW full,
           proc' = [proc EXCEPT ![p] = Process(pc, next, full)]
    PROVE  /\ proc'[p].pc = pc /\ proc'[p].next = next /\ proc'[p].full = full
           /\ proc'[p].todo = Null
           /\ \A q \in Processes \ {p} : proc'[q] = proc[q]
<1>1. proc' = [q \in Processes |-> IF q = p THEN Process(pc, next, full) ELSE proc[q]]
    BY DEF ProcessShape
<1> QED
    BY <1>1 DEF Process

LEMMA GotoMoves ==
    ASSUME ProcessShape, NEW p \in Processes, NEW pc, Goto(p, pc)
    PROVE  /\ proc'[p].pc = pc /\ proc'[p].next = proc[p].next /\ proc'[p].full = proc[p].full
           /\ proc'[p].todo = Null
           /\ \A q \in Processes \ {p} : proc'[q] = proc[q]
BY Moves DEF Goto

\* A process that is not at work makes no promises.
LEMMA IdleStage ==
    ASSUME NEW r, NEW s, r.pc \in {"closed", "old", "astray"}
    PROVE  Stage(r, s)
BY DEF Stage, Migrated, UsageStored, HeadsStored, Behind, Rebuilds

LEMMA RefusedFits ==
    ASSUME CompleteInv, KeptInv', NEW p \in Processes, NEW pc \in {"closed", "astray"},
           Goto(p, pc), Rollback(p)
    PROVE  CompleteInv'
<1>1. FilesFit(p) /\ lock' # p
    BY RollbackFits
<1>2. proc'[p].pc = pc /\ \A q \in Processes \ {p} : proc'[q] = proc[q]
    BY GotoMoves DEF CompleteInv, KeptInv
<1>3. Stage(proc'[p], Seen(p)')
    BY <1>2, IdleStage
<1> QED
    BY <1>1, <1>2, <1>3, StepFits DEF At

LEMMA RefusedCompletes ==
    ASSUME CompleteInv, KeptInv', NEW p \in Processes, Refused(p)
    PROVE  CompleteInv'
BY RefusedFits DEF Refused

(* A process moves on from one place to the next; the files have been seen to. *)
LEMMA GotoFits ==
    ASSUME CompleteInv, KeptInv', NEW p \in Processes, NEW pc, Goto(p, pc),
           FilesFit(p), NEW s, Seen(p)' = s,
           \A r : /\ r.pc = pc /\ r.next = proc[p].next /\ r.full = proc[p].full
                  /\ r.todo = Null
                  => Stage(r, s),
           pc # "commit",
           lock' = p => pc \in {"apply", "create", "script", "record"} /\ proc[p].next <= Latest
    PROVE  CompleteInv'
<1>1. /\ proc'[p].pc = pc /\ proc'[p].next = proc[p].next /\ proc'[p].full = proc[p].full
      /\ proc'[p].todo = Null
      /\ \A q \in Processes \ {p} : proc'[q] = proc[q]
    BY GotoMoves DEF CompleteInv, KeptInv
<1>2. Stage(proc'[p], s)
    BY <1>1
<1> QED
    BY <1>1, <1>2, StepFits DEF At, Locks

-------------------------------------------------------------------------------
(* The migrations keep the invariant                                        *)

LEMMA OpenFits ==
    ASSUME CompleteInv, KeptInv', NEW p \in Processes, Open(p)
    PROVE  CompleteInv'
<1> DEFINE pc == IF db.version < Latest THEN "apply" ELSE "usage"
<1>1. /\ lock = Null /\ NothingWritten /\ p # Null
      /\ proc' = [proc EXCEPT ![p] = Process(pc, db.version + 1, TRUE)]
    BY UpgradeAssumption DEF Open, Migrating
<1> HIDE DEF pc
<1>2. /\ proc'[p].pc = pc
      /\ proc'[p].next = db.version + 1 /\ proc'[p].full = TRUE /\ proc'[p].todo = Null
      /\ \A q \in Processes \ {p} : proc'[q] = proc[q]
    <2> DEFINE full == TRUE
    <2>1. proc' = [proc EXCEPT ![p] = Process(pc, db.version + 1, full)]
        BY <1>1
    <2> HIDE DEF full
    <2>2. /\ proc'[p].pc = pc /\ proc'[p].next = db.version + 1 /\ proc'[p].full = full
          /\ proc'[p].todo = Null
          /\ \A q \in Processes \ {p} : proc'[q] = proc[q]
        BY <2>1, Moves DEF CompleteInv, KeptInv
    <2> QED
        BY <2>2 DEF full
<1>3. FilesFit(p) /\ Seen(p)' = Seen(p) /\ Seen(p) = db /\ lock' = Null
    BY <1>1, NothingFits DEF Seen, NothingWritten
<1>4. db.version \in 0..Latest /\ Latest = 17
    BY MigrationFacts DEF CompleteInv, FilesInv, Recorded
<1>5. Stage(proc'[p], db) /\ proc'[p].pc # "commit"
    BY <1>2, <1>4 DEF pc, Stage, Migrated, UsageStored, HeadsStored, Behind, Rebuilds, Later
<1> QED
    BY <1>1, <1>2, <1>3, <1>5, StepFits DEF At

LEMMA LookFits ==
    ASSUME CompleteInv, KeptInv', NEW p \in Processes, Look(p)
    PROVE  CompleteInv'
<1> DEFINE r == proc[p]
           s == Seen(p)
<1>1. /\ r.pc \in {"apply", "usageColumns", "libraryColumns"} /\ r.todo = Null
      /\ proc' = [proc EXCEPT ![p].todo = Missing(p)] /\ NothingWritten
    BY DEF Look
<1>2. /\ proc'[p].pc = r.pc /\ proc'[p].next = r.next /\ proc'[p].full = r.full
      /\ proc'[p].todo = Missing(p)
      /\ \A q \in Processes \ {p} : proc'[q] = proc[q]
    BY <1>1 DEF CompleteInv, KeptInv, ProcessShape
<1>3. FilesFit(p) /\ Seen(p)' = s /\ lock' = lock
    BY <1>1, NothingFits DEF NothingWritten
<1>4. Stage(r, s) /\ Recorded(s)
    BY SeenRecorded DEF CompleteInv
<1>5. ASSUME r.pc = "apply"
      PROVE  Stage(proc'[p], s)
    <2>1. /\ r.next \in 1..17 /\ s.version >= r.next - 1
          /\ Missing(p) = (IF Migrations[r.next].needs \subseteq s.has
                           THEN Migrations[r.next].columns ELSE {}) \ s.has
        BY <1>4, <1>5, MigrationFacts DEF Stage, Migrated, Missing, Wanted, At
    <2>2. "facts" \notin Missing(p)
        BY <2>1, MigrationFacts DEF UsageColumns
    <2>3. ColumnsAfter(r.next, s.has \cup Missing(p))
        <3>1. r.next = 1 /\ "facts" \in s.has \cup Missing(p) =>
                 "facts.workspace" \in s.has \cup Missing(p)
            BY <2>1, <2>2, MigrationFacts
        <3>2. r.next = 16 => "prompt_sources.compatibility" \in s.has \cup Missing(p)
            <4>1. r.next = 16 => Done(14, s.has)
                BY <1>4, <2>1, MigrationFacts DEF Recorded
            <4> QED
                BY <2>1, <4>1, MigrationFacts DEF Done
        <3> QED
            BY <3>1, <3>2 DEF ColumnsAfter
    <2> QED
        BY <1>2, <1>4, <1>5, <2>2, <2>3
           DEF Stage, Migrated, UsageStored, HeadsStored, Behind, Rebuilds, Later
<1>6. ASSUME r.pc = "usageColumns"
      PROVE  Stage(proc'[p], s)
    <2>1. Missing(p) = UsageColumns \ s.has /\ "facts" \notin Missing(p)
        BY <1>6 DEF Missing, Wanted, At, UsageColumns
    <2> QED
        BY <1>2, <1>4, <1>6, <2>1
           DEF Stage, Migrated, UsageStored, HeadsStored, Behind, Rebuilds, Later
<1>7. ASSUME r.pc = "libraryColumns"
      PROVE  Stage(proc'[p], s)
    <2>1. Missing(p) = (HeadColumns \ (IF "templates.visibility" \in s.has
                                       THEN {"templates.archived"} ELSE {})) \ s.has
        BY <1>7 DEF Missing, Wanted, At
    <2>2. /\ "facts" \notin Missing(p)
          /\ {"templates.visibility", "templates.tags"} \subseteq s.has \cup Missing(p)
          /\ "templates.visibility" \in Missing(p) =>
                "templates.archived" \in s.has \cup Missing(p)
        BY <2>1 DEF HeadColumns
    <2> QED
        BY <1>2, <1>4, <1>7, <2>2
           DEF Stage, Migrated, UsageStored, HeadsStored, Behind, Rebuilds, Later
<1>8. Stage(proc'[p], Seen(p)') /\ ~At(p, "commit")'
    BY <1>1, <1>2, <1>3, <1>5, <1>6, <1>7 DEF At
<1>9. lock' = p => Locks(p)'
    BY <1>2, <1>3, UpgradeAssumption DEF Locks, At, CompleteInv, FilesInv
<1> QED
    BY <1>2, <1>3, <1>8, <1>9, StepFits

LEMMA ApplyFits ==
    ASSUME CompleteInv, KeptInv', NEW p \in Processes, Apply(p)
    PROVE  CompleteInv'
<1> DEFINE r == proc[p]
           s == Seen(p)
           things == r.todo \cup Migrations[r.next].creates
           t == [s EXCEPT !.has = @ \cup things]
           pc == CASE r.next = RebuildVersion /\ NeedsRebuild(s.has) -> "create"
                   [] Migrations[r.next].script # {} -> "script"
                   [] OTHER -> "record"
<1>1. /\ r.pc = "apply" /\ r.todo # Null /\ Put(p, t) /\ Goto(p, pc)
    BY DEF Apply, MayAdd, Add, At
<1>2. Stage(r, s) /\ Recorded(s) /\ s.version \in Nat
    BY SeenRecorded DEF CompleteInv
<1>3. /\ r.next \in 1..17 /\ Latest = 17 /\ s.version >= r.next - 1
      /\ "facts" \notin things /\ ColumnsAfter(r.next, s.has \cup r.todo)
    BY <1>1, <1>2, MigrationFacts DEF Stage, Migrated
<1>4. t.version = s.version /\ t.has = s.has \cup things /\ t.copy = s.copy
    <2>1. DatabaseShape(s)
        BY UpgradeAssumption DEF CompleteInv, KeptInv, DraftAgrees, File, Seen
    <2> QED
        BY <2>1 DEF DatabaseShape
<1> HIDE DEF things, t
<1>5. Grows(s, t)
    BY <1>2, <1>3, <1>4 DEF Grows
<1>6. FilesFit(p) /\ Seen(p)' = t /\ lock' = lock
    BY <1>1, <1>4, <1>5, PutFits
<1>7. Migrations[r.next].creates \subseteq t.has
    BY <1>4 DEF things
<1>8. ColumnsAfter(r.next, t.has)
    BY <1>3, <1>4, MigrationFacts DEF ColumnsAfter, things
<1>9. pc \in {"create", "script", "record"}
    OBVIOUS
<1>10. /\ pc = "create" => r.next = RebuildVersion
       /\ pc = "record" => Migrations[r.next].script = {}
    OBVIOUS
<1> HIDE DEF pc
<1>11. ASSUME NEW q, q.pc = pc, q.next = r.next, q.full = r.full, q.todo = Null
       PROVE  Stage(q, t)
    BY <1>3, <1>4, <1>7, <1>8, <1>9, <1>10, <1>11, MigrationFacts
       DEF Stage, Migrated, UsageStored, HeadsStored, Behind, Rebuilds, Later
<1> QED
    BY <1>1, <1>3, <1>6, <1>9, <1>11, GotoFits

LEMMA CommitPendingFits ==
    ASSUME CompleteInv, KeptInv', NEW p \in Processes, CommitPending(p)
    PROVE  CompleteInv'
<1>1. /\ proc[p].pc \in {"create", "script"} /\ proc' = proc /\ p # Null
      /\ FilesFit(p) /\ Seen(p)' = Seen(p) /\ lock' = Null
    BY CommitFits, UpgradeAssumption DEF CommitPending
<1>2. Stage(proc'[p], Seen(p)')
    BY <1>1 DEF CompleteInv
<1> QED
    BY <1>1, <1>2, StepFits DEF At

LEMMA RunScriptFits ==
    ASSUME CompleteInv, KeptInv', NEW p \in Processes, RunScript(p)
    PROVE  CompleteInv'
<1> DEFINE r == proc[p]
           t == [db EXCEPT !.has = Guarded(@ \cup Migrations[r.next].script)]
<1>1. /\ r.pc = "script" /\ lock = Null /\ db' = t /\ Goto(p, "record")
      /\ draft' = draft /\ lock' = Null /\ p # Null /\ Seen(p) = db
    BY UpgradeAssumption DEF RunScript, At, Seen
<1>2. Stage(r, db) /\ db.version \in Nat
    BY <1>1, SeenRecorded DEF CompleteInv
<1>3. /\ r.next \in 1..17 /\ Latest = 17 /\ db.version >= r.next - 1
      /\ Migrations[r.next].creates \subseteq db.has /\ ColumnsAfter(r.next, db.has)
    BY <1>1, <1>2, MigrationFacts DEF Stage, Migrated
<1>4. t.version = db.version /\ t.copy = db.copy
      /\ t.has = Guarded(db.has \cup Migrations[r.next].script)
    BY DEF CompleteInv, KeptInv, File, DatabaseShape
<1> HIDE DEF t
<1>5. /\ db.has \cup Migrations[r.next].script \subseteq t.has
      /\ t.has \subseteq db.has \cup Migrations[r.next].script \cup {"usage.guards"}
    BY <1>4 DEF Guarded
<1>6. "facts" \in t.has => "facts" \in db.has
    BY <1>3, <1>5, MigrationFacts
<1>7. Grows(db, t)
    BY <1>2, <1>4, <1>5, <1>6 DEF Grows
<1>8. FilesFit(p) /\ Seen(p)' = t /\ lock' = Null
    BY <1>1, <1>4, <1>7, PutFits DEF Put
<1>9. ColumnsAfter(r.next, t.has)
    BY <1>3, <1>5, <1>6 DEF ColumnsAfter
<1>10. ASSUME NEW q, q.pc = "record", q.next = r.next, q.full = r.full, q.todo = Null
       PROVE  Stage(q, t)
    <2>1. q.next \in 1..(Latest + 1) /\ q.next <= Latest /\ t.version >= q.next - 1
        BY <1>3, <1>4, <1>10
    <2>2. /\ Migrations[q.next].creates \cup Migrations[q.next].script \subseteq t.has
          /\ ColumnsAfter(q.next, t.has)
        BY <1>3, <1>5, <1>9, <1>10
    <2>3. Migrated(q, t)
        BY <1>10, <2>1, <2>2 DEF Migrated, Rebuilds, Later
    <2>4. UsageStored(q, t) /\ HeadsStored(q, t)
        BY <1>10 DEF UsageStored, HeadsStored, Behind, Rebuilds
    <2> QED
        BY <2>3, <2>4 DEF Stage
<1> QED
    BY <1>1, <1>8, <1>10, GotoFits

LEMMA RecordFits ==
    ASSUME CompleteInv, KeptInv', NEW p \in Processes, Record(p), ~Refused(p)
    PROVE  CompleteInv'
<1> DEFINE r == proc[p]
           s == Seen(p)
           v == r.next
           t == [s EXCEPT !.version = v]
           pc == IF v = Latest THEN "commit" ELSE "apply"
<1>1. /\ r.pc = "record" /\ lock \in {p, Null} /\ ~(s.version >= v) /\ p # Null
      /\ draft' = t /\ lock' = p /\ db' = db
      /\ proc' = [proc EXCEPT ![p] = Process(pc, v + 1, r.full)]
    BY UpgradeAssumption DEF Record, At
<1>2. Stage(r, s) /\ Recorded(s) /\ s.version \in Nat
    BY SeenRecorded DEF CompleteInv
<1>3. v \in 1..17 /\ Latest = 17 /\ s.version = v - 1 /\ Done(v, s.has)
    BY <1>1, <1>2, MigrationFacts DEF Stage, Migrated, Done
<1>4. t.version = v /\ t.has = s.has /\ t.copy = s.copy
    <2>1. DatabaseShape(s)
        BY UpgradeAssumption DEF CompleteInv, KeptInv, DraftAgrees, File, Seen
    <2> QED
        BY <2>1 DEF DatabaseShape
<1> HIDE DEF t, pc
<1>5. Recorded(t)
    BY <1>2, <1>3, <1>4 DEF Recorded
<1>6. Grows(s, t)
    BY <1>3, <1>4 DEF Grows
<1>7. Grows(db, t)
    <2>1. Grows(db, s)
        BY <1>1, SeenRecorded, GrowsReflexive DEF CompleteInv, FilesInv, Seen, Recorded
    <2> QED
        BY <1>6, <2>1, GrowsTransitive
<1>8. \A q \in Processes \ {p} : Seen(q) = db /\ Seen(q)' = db /\ Grows(db, db)
    BY <1>1, UpgradeAssumption, MigrationFacts, GrowsReflexive
       DEF Seen, CompleteInv, FilesInv, Recorded
<1>9. FilesFit(p) /\ Seen(p)' = t
    BY <1>1, <1>5, <1>7, <1>8, UpgradeAssumption DEF FilesFit, CompleteInv, FilesInv, Seen
<1>10. /\ proc'[p].pc = pc /\ proc'[p].next = v + 1 /\ proc'[p].full = r.full
       /\ proc'[p].todo = Null
       /\ \A q \in Processes \ {p} : proc'[q] = proc[q]
    BY <1>1, Moves DEF CompleteInv, KeptInv
<1>11. Stage(proc'[p], t)
    BY <1>3, <1>4, <1>10
       DEF pc, Stage, Migrated, UsageStored, HeadsStored, Behind, Rebuilds, Later
<1>12. Locks(p)'
    BY <1>3, <1>10 DEF pc, Locks, At
<1> QED
    BY <1>1, <1>9, <1>10, <1>11, <1>12, StepFits

LEMMA CommitLastFits ==
    ASSUME CompleteInv, KeptInv', NEW p \in Processes, CommitLast(p)
    PROVE  CompleteInv'
<1> DEFINE r == proc[p]
           s == Seen(p)
           pc == IF r.full THEN "usage" ELSE "up"
<1>1. pc = "usage" \/ (pc = "up" /\ ~r.full)
    OBVIOUS
<1> HIDE DEF pc
<1>2. r.pc = "commit" /\ Goto(p, pc) /\ Commit(p) /\ p # Null
    BY UpgradeAssumption DEF CommitLast, At, pc
<1>3. FilesFit(p) /\ Seen(p)' = s /\ lock' = Null
    BY <1>2, CommitFits
<1>4. Stage(r, s) /\ r.next = Latest + 1 /\ s.version >= Latest /\ Latest = 17
    <2>1. Stage(r, s) /\ r.pc = "commit"
        BY <1>2 DEF CompleteInv
    <2>2. r.next = Latest + 1 /\ s.version >= r.next - 1
        BY <2>1 DEF Stage, Migrated, Later
    <2> QED
        BY <2>1, <2>2, MigrationFacts
<1>5. ASSUME NEW q, q.pc = pc, q.next = r.next, q.full = r.full, q.todo = Null
      PROVE  Stage(q, s)
    BY <1>1, <1>4, <1>5
       DEF Stage, Migrated, UsageStored, HeadsStored, Behind, Rebuilds, Later
<1> QED
    BY <1>1, <1>2, <1>3, <1>5, GotoFits

-------------------------------------------------------------------------------
(* The rebuild and the stores keep it                                       *)

\* Outside of the migrations there is no transaction.
LEMMA SeesCommitted ==
    ASSUME CompleteInv, NEW p \in Processes,
           Behind(proc[p]) \/ proc[p].pc \in {"usage", "usageColumns"}
    PROVE  lock # p /\ Seen(p) = db
<1>1. Rebuilds = {"create", "fill", "drop", "rename"} /\ Latest = 17
    BY MigrationFacts DEF Rebuilds
<1>2. lock = p => Locks(p)
    BY UpgradeAssumption DEF CompleteInv, FilesInv
<1> QED
    BY <1>1, <1>2 DEF Behind, Locks, At, Seen

LEMMA RebuildFits ==
    ASSUME CompleteInv, KeptInv', NEW p \in Processes, Rebuild(p), ~Refused(p)
    PROVE  CompleteInv'
<1> DEFINE r == proc[p]
<1>1. PICK pc, new :
         /\ pc \in {"fill", "drop", "rename", AfterRebuild(p)}
         /\ r.pc \in Rebuilds /\ lock = Null /\ Put(p, new) /\ Goto(p, pc)
         /\ new.version = db.version
         /\ db.has \ TemplateThings \subseteq new.has
         /\ "facts" \in new.has => "facts" \in db.has
         /\ pc \in {"fill", "drop", "rename"} \/ TemplateThings \subseteq new.has
    <2> DEFINE created == [db EXCEPT !.copy = {}]
               filled == [db EXCEPT !.copy = @ \cup db.heads]
               dropped == [db EXCEPT !.heads = {}, !.has = @ \ (HeadColumns \cup {"templates"})]
               renamed == [db EXCEPT !.heads = db.copy, !.copy = Null,
                                     !.has = @ \cup HeadColumns \cup {"templates"}]
    <2>1. DatabaseShape(db)
        BY DEF CompleteInv, KeptInv, File
    <2>2. /\ created.version = db.version /\ created.has = db.has
          /\ filled.version = db.version /\ filled.has = db.has
          /\ dropped.version = db.version /\ dropped.has = db.has \ TemplateThings
          /\ renamed.version = db.version /\ renamed.has = db.has \cup TemplateThings
        BY <2>1 DEF DatabaseShape, TemplateThings
    <2>3. "facts" \notin TemplateThings
        BY DEF TemplateThings, HeadColumns
    <2>4. CASE CreateCopy(p)
        <3>1. At(p, "create") /\ lock = Null /\ Put(p, created) /\ Goto(p, "fill")
            BY <2>4 DEF CreateCopy
        <3> HIDE DEF created
        <3> QED
            BY <2>2, <3>1 DEF At, Rebuilds
    <2>5. CASE FillCopy(p)
        <3>1. At(p, "fill") /\ lock = Null /\ Put(p, filled) /\ Goto(p, "drop")
            BY <2>5 DEF FillCopy
        <3> HIDE DEF filled
        <3> QED
            BY <2>2, <3>1 DEF At, Rebuilds
    <2>6. CASE DropHeads(p)
        <3>1. At(p, "drop") /\ lock = Null /\ Put(p, dropped) /\ Goto(p, "rename")
            BY <2>6 DEF DropHeads
        <3> HIDE DEF dropped
        <3> QED
            BY <2>2, <3>1 DEF At, Rebuilds
    <2>7. CASE RenameCopy(p)
        <3>1. At(p, "rename") /\ lock = Null /\ Put(p, renamed) /\ Goto(p, AfterRebuild(p))
            BY <2>7 DEF RenameCopy
        <3> HIDE DEF renamed
        <3> QED
            BY <2>2, <2>3, <3>1 DEF At, Rebuilds
    <2> QED
        BY <2>4, <2>5, <2>6, <2>7 DEF Rebuild
<1>2. p # Null /\ Seen(p) = db /\ db' = new /\ lock' = Null
    BY <1>1, UpgradeAssumption DEF Seen, Put
<1>3. Stage(r, db) /\ db.version \in Nat
    BY <1>2, SeenRecorded DEF CompleteInv
<1>4. proc'[p].pc = pc
    BY <1>1, GotoMoves DEF CompleteInv, KeptInv
<1>5. pc \in {"fill", "drop", "rename"} => new.copy # Null
    BY <1>2, <1>4 DEF KeptInv, OneRebuild, Rebuilding
<1>6. Grows(db, new)
    BY <1>1, <1>3, <1>5 DEF Grows
<1>7. FilesFit(p) /\ Seen(p)' = new
    BY <1>1, <1>2, <1>6, PutFits
<1>8. /\ r.next \in {RebuildVersion, Latest + 1} /\ db.version >= r.next - 1
      /\ Latest = 17 /\ RebuildVersion = 10
      /\ Behind(r) <=> r.next = Latest + 1
    BY <1>1, <1>3, MigrationFacts DEF Stage, Migrated, Behind, Rebuilds
<1>9. AfterRebuild(p) = IF r.next = RebuildVersion THEN "record" ELSE "memory"
    BY <1>8 DEF AfterRebuild
<1>10. Stage(r, new)
    BY <1>3, <1>6, StageGrows
<1>11. ASSUME NEW q, q.pc = pc, q.next = r.next, q.full = r.full, q.todo = Null
       PROVE  Stage(q, new)
    <2>1. Migrated(q, new)
        <3>1. new.version >= q.next - 1 /\ q.next \in 1..(Latest + 1)
            BY <1>1, <1>8, <1>11
        <3>2. /\ pc \in {"record", "memory", "fill", "drop", "rename"}
              /\ pc = "record" => q.next = 10
              /\ pc = "memory" => q.next = Latest + 1
            BY <1>1, <1>8, <1>9, <1>11
        <3>3. pc = "record" => /\ Migrations[q.next].creates = {}
                               /\ Migrations[q.next].script = {}
                               /\ ColumnsAfter(q.next, new.has)
            BY <3>2, MigrationFacts DEF ColumnsAfter
        <3> QED
            BY <1>8, <1>11, <3>1, <3>2, <3>3 DEF Migrated, Rebuilds, Later
    <2>2. UsageStored(q, new)
        <3>1. Behind(q) => Behind(r)
            BY <1>1, <1>8, <1>9, <1>11 DEF Behind, Rebuilds
        <3>2. q.pc # "usageColumns" /\ q.pc # "up"
            BY <1>1, <1>9, <1>11
        <3> QED
            BY <1>10, <1>11, <3>1, <3>2 DEF Stage, UsageStored
    <2>3. HeadsStored(q, new)
        BY <1>1, <1>5, <1>9, <1>11 DEF HeadsStored
    <2> QED
        BY <2>1, <2>2, <2>3 DEF Stage
<1>12. pc # "commit"
    BY <1>1, <1>9
<1> QED
    BY <1>1, <1>2, <1>7, <1>11, <1>12, GotoFits

(* A store adds to the file, and the process goes on.                       *)
LEMMA StoreFits ==
    ASSUME CompleteInv, KeptInv', NEW p \in Processes, lock # p,
           NEW pc, pc # "commit", Goto(p, pc), NEW new, Put(p, new),
           Grows(db, new), new.version = db.version,
           \A r : /\ r.pc = pc /\ r.next = proc[p].next /\ r.full = proc[p].full
                  /\ r.todo = Null
                  => Stage(r, new)
    PROVE  CompleteInv'
<1>1. Seen(p) = db
    BY DEF Seen
<1>2. FilesFit(p) /\ Seen(p)' = new /\ lock' = lock
    BY <1>1, PutFits
<1> QED
    BY <1>2, GotoFits

\* Where a process is that has migrated, and what it has by then.
LEMMA StoreStage ==
    ASSUME CompleteInv, NEW p \in Processes,
           proc[p].pc \in {"usage", "usageColumns", "library", "libraryColumns", "memory"}
    PROVE  /\ lock # p /\ Seen(p) = db /\ Stage(proc[p], db)
           /\ proc[p].next = 18 /\ Latest = 17 /\ db.version = 17 /\ "budget" \in db.has
           /\ DatabaseShape(db)
<1>1. Behind(proc[p]) \/ proc[p].pc \in {"usage", "usageColumns"}
    BY DEF Behind
<1>2. lock # p /\ Seen(p) = db
    BY <1>1, SeesCommitted
<1>3. Stage(proc[p], db) /\ Recorded(db) /\ DatabaseShape(db)
    BY <1>2 DEF CompleteInv, FilesInv, KeptInv, File
<1>4. Latest = 17 /\ proc[p].next = 18 /\ db.version = 17
    BY <1>3, MigrationFacts DEF Stage, Migrated, Later, Recorded
<1>5. "budget" \in db.has
    <2>1. Done(17, db.has)
        BY <1>3, <1>4 DEF Recorded
    <2> QED
        BY <2>1, MigrationFacts DEF Done
<1> QED
    BY <1>2, <1>3, <1>4, <1>5

\* What a store adds to the file.
LEMMA Added ==
    ASSUME DatabaseShape(db), db.version \in Nat, NEW things,
           "facts" \in things => "facts.workspace" \in things
    PROVE  LET new == [db EXCEPT !.has = @ \cup things]
           IN  /\ Grows(db, new) /\ new.version = db.version
               /\ new.has = db.has \cup things /\ new.copy = db.copy
BY DEF DatabaseShape, Grows

LEMMA EnsureUsageFits ==
    ASSUME CompleteInv, KeptInv', NEW p \in Processes, EnsureUsage(p)
    PROVE  CompleteInv'
<1> DEFINE things == IF "usage" \in db.has THEN {} ELSE {"usage"} \cup {"usage.sample"}
           new == [db EXCEPT !.has = @ \cup things]
<1>1. /\ lock # p /\ Seen(p) = db /\ Stage(proc[p], db) /\ proc[p].next = 18
      /\ Latest = 17 /\ db.version = 17 /\ DatabaseShape(db)
    BY StoreStage DEF EnsureUsage, At
<1>2. Put(p, new) /\ Goto(p, "usageColumns")
    BY <1>1 DEF EnsureUsage, Create, Add
<1>3. "facts" \notin things /\ "usage" \in db.has \cup things
    OBVIOUS
<1> HIDE DEF things
<1>4. /\ Grows(db, new) /\ new.version = db.version
      /\ new.has = db.has \cup things /\ new.copy = db.copy
    BY <1>1, <1>3, Added
<1> HIDE DEF new
<1>5. ASSUME NEW r, r.pc = "usageColumns", r.next = proc[p].next, r.full = proc[p].full,
             r.todo = Null
      PROVE  Stage(r, new)
    BY <1>1, <1>3, <1>4, <1>5
       DEF Stage, Migrated, UsageStored, HeadsStored, Behind, Rebuilds, Later
<1> QED
    BY <1>1, <1>2, <1>4, <1>5, StoreFits

LEMMA EnsureUsageColumnsFits ==
    ASSUME CompleteInv, KeptInv', NEW p \in Processes, EnsureUsageColumns(p)
    PROVE  CompleteInv'
<1> DEFINE r == proc[p]
           new == [db EXCEPT !.has = Guarded(@ \cup r.todo)]
<1>1. /\ lock # p /\ Seen(p) = db /\ Stage(r, db) /\ r.next = 18
      /\ Latest = 17 /\ db.version = 17 /\ DatabaseShape(db) /\ "budget" \in db.has
    BY StoreStage DEF EnsureUsageColumns, MayAdd, At
<1>2. /\ r.pc = "usageColumns" /\ r.todo # Null
      /\ Put(p, new) /\ Goto(p, "library")
    BY <1>1 DEF EnsureUsageColumns, MayAdd, At
<1>3. /\ new.version = db.version /\ new.copy = db.copy
      /\ new.has = Guarded(db.has \cup r.todo)
    BY <1>1 DEF DatabaseShape
<1>4. "facts" \notin r.todo
    BY <1>1, <1>2 DEF Stage, Migrated
<1>5. /\ db.has \cup r.todo \subseteq new.has
      /\ "facts" \in new.has => "facts" \in db.has
      /\ "usage" \in db.has => "usage.guards" \in new.has
    BY <1>1, <1>3, <1>4 DEF Guarded
<1> HIDE DEF new
<1>6. Grows(db, new)
    BY <1>1, <1>3, <1>5 DEF Grows
<1>7. r.full => "usage" \in db.has /\ UsageColumns \subseteq db.has \cup r.todo
    BY <1>1, <1>2 DEF Stage, UsageStored
<1>8. ASSUME NEW q, q.pc = "library", q.next = r.next, q.full = r.full, q.todo = Null
      PROVE  Stage(q, new)
    BY <1>1, <1>3, <1>5, <1>7, <1>8
       DEF Stage, Migrated, UsageStored, HeadsStored, Behind, Rebuilds, Later
<1> QED
    BY <1>1, <1>2, <1>3, <1>6, <1>8, StoreFits

LEMMA EnsureLibraryFits ==
    ASSUME CompleteInv, KeptInv', NEW p \in Processes, EnsureLibrary(p)
    PROVE  CompleteInv'
<1> DEFINE things == IF "templates" \in db.has THEN {} ELSE {"templates"} \cup HeadColumns
           new == [db EXCEPT !.has = @ \cup things]
<1>1. /\ lock # p /\ Seen(p) = db /\ Stage(proc[p], db) /\ proc[p].next = 18
      /\ Latest = 17 /\ db.version = 17 /\ DatabaseShape(db) /\ proc[p].pc = "library"
    BY StoreStage DEF EnsureLibrary, At
<1>2. Put(p, new) /\ Goto(p, "libraryColumns")
    BY <1>1 DEF EnsureLibrary, Create, Add
<1>3. "facts" \notin things /\ "templates" \in db.has \cup things
    BY DEF HeadColumns
<1> HIDE DEF things
<1>4. /\ Grows(db, new) /\ new.version = db.version
      /\ new.has = db.has \cup things /\ new.copy = db.copy
    BY <1>1, <1>3, Added
<1> HIDE DEF new
<1>5. Stage(proc[p], new)
    BY <1>1, <1>4, StageGrows
<1>6. ASSUME NEW r, r.pc = "libraryColumns", r.next = proc[p].next, r.full = proc[p].full,
             r.todo = Null
      PROVE  Stage(r, new)
    BY <1>1, <1>3, <1>4, <1>5, <1>6
       DEF Stage, Migrated, UsageStored, HeadsStored, Behind, Rebuilds, Later
<1> QED
    BY <1>1, <1>2, <1>4, <1>6, StoreFits

LEMMA EnsureLibraryColumnsFits ==
    ASSUME CompleteInv, KeptInv', NEW p \in Processes, EnsureLibraryColumns(p)
    PROVE  CompleteInv'
<1> DEFINE r == proc[p]
           new == [db EXCEPT !.has = @ \cup r.todo]
           rebuilds == "templates.visibility" \notin r.todo /\ NeedsRebuild(db.has)
<1>1. /\ lock # p /\ Seen(p) = db /\ Stage(r, db) /\ r.next = 18
      /\ Latest = 17 /\ db.version = 17 /\ DatabaseShape(db)
      /\ r.pc = "libraryColumns" /\ r.todo # Null
    BY StoreStage DEF EnsureLibraryColumns, MayAdd, At
<1>2. CASE rebuilds
    <2>1. Goto(p, "create") /\ NothingWritten
        BY <1>2 DEF EnsureLibraryColumns
    <2>2. FilesFit(p) /\ Seen(p)' = db /\ lock' # p
        BY <1>1, <2>1, NothingFits DEF NothingWritten
    <2>3. ASSUME NEW q, q.pc = "create", q.next = r.next, q.full = r.full, q.todo = Null
          PROVE  Stage(q, db)
        BY <1>1, <2>3
           DEF Stage, Migrated, UsageStored, HeadsStored, Behind, Rebuilds, Later
    <2> QED
        BY <2>1, <2>2, <2>3, GotoFits
<1>3. CASE ~rebuilds
    <2>1. Put(p, new) /\ Goto(p, "memory")
        BY <1>1, <1>3 DEF EnsureLibraryColumns, Add
    <2>2. "facts" \notin r.todo
        BY <1>1 DEF Stage, Migrated
    <2>3. /\ Grows(db, new) /\ new.version = db.version
          /\ new.has = db.has \cup r.todo /\ new.copy = db.copy
        BY <1>1, <2>2, Added
    <2> HIDE DEF new
    <2>4. Stage(r, new)
        BY <1>1, <2>3, StageGrows
    <2>5. r.full /\ new.copy = Null => TemplateThings \subseteq new.has
        BY <1>1, <1>3, <2>3
           DEF Stage, HeadsStored, NeedsRebuild, TemplateThings, HeadColumns
    <2>6. ASSUME NEW q, q.pc = "memory", q.next = r.next, q.full = r.full, q.todo = Null
          PROVE  Stage(q, new)
        BY <1>1, <2>3, <2>4, <2>5, <2>6
           DEF Stage, Migrated, UsageStored, HeadsStored, Behind, Rebuilds, Later
    <2> QED
        BY <1>1, <2>1, <2>3, <2>6, StoreFits
<1> QED
    BY <1>2, <1>3

LEMMA EnsureMemoryFits ==
    ASSUME CompleteInv, KeptInv', NEW p \in Processes, EnsureMemory(p)
    PROVE  CompleteInv'
<1> DEFINE things == IF "facts" \in db.has THEN {} ELSE {"facts"} \cup {"facts.workspace"}
           new == [db EXCEPT !.has = @ \cup things]
<1>1. /\ lock # p /\ Seen(p) = db /\ Stage(proc[p], db) /\ proc[p].next = 18
      /\ Latest = 17 /\ db.version = 17 /\ DatabaseShape(db) /\ proc[p].pc = "memory"
    BY StoreStage DEF EnsureMemory, At
<1>2. Put(p, new) /\ Goto(p, "up")
    BY <1>1 DEF EnsureMemory, Create, Add
<1>3. ("facts" \in things => "facts.workspace" \in things) /\ "facts" \in db.has \cup things
    OBVIOUS
<1> HIDE DEF things
<1>4. /\ Grows(db, new) /\ new.version = db.version
      /\ new.has = db.has \cup things /\ new.copy = db.copy
    BY <1>1, <1>3, Added
<1> HIDE DEF new
<1>5. Stage(proc[p], new)
    BY <1>1, <1>4, StageGrows
<1>6. ASSUME NEW r, r.pc = "up", r.next = proc[p].next, r.full = proc[p].full,
             r.todo = Null
      PROVE  Stage(r, new)
    BY <1>1, <1>3, <1>4, <1>5, <1>6
       DEF Stage, Migrated, UsageStored, HeadsStored, Behind, Rebuilds, Later
<1> QED
    BY <1>1, <1>2, <1>4, <1>6, StoreFits

-------------------------------------------------------------------------------
(* What else happens                                                        *)

LEMMA SaveFits ==
    ASSUME CompleteInv, KeptInv', NEW p \in Processes, Save(p)
    PROVE  CompleteInv'
<1>1. PICK t \in Templates : db' = [db EXCEPT !.heads = @ \cup {t}]
    BY DEF Save
<1>2. lock = Null /\ lock' = Null /\ proc' = proc /\ p # Null
    BY UpgradeAssumption DEF Save
<1>3. db'.version = db.version /\ db'.has = db.has /\ db'.copy = db.copy
    BY <1>1 DEF CompleteInv, KeptInv, File, DatabaseShape
<1>4. db.version \in Nat /\ Recorded(db)
    BY MigrationFacts DEF CompleteInv, FilesInv, Recorded
<1>5. Grows(db, db') /\ Recorded(db')
    BY <1>3, <1>4 DEF Grows, Recorded
<1>6. \A q \in Processes : Seen(q) = db /\ Seen(q)' = db' /\ lock # q
    BY <1>2, UpgradeAssumption DEF Seen
<1>7. FilesFit(p)
    BY <1>2, <1>5, <1>6 DEF FilesFit
<1>8. Stage(proc[p], Seen(p)')
    BY <1>5, <1>6, StageGrows DEF CompleteInv
<1>9. ~At(p, "commit")
    BY DEF Save, Serves, At
<1> QED
    BY <1>2, <1>7, <1>8, <1>9, StepFits DEF At

LEMMA ReleaseRecorded ==
    ASSUME NEW old \in Releases
    PROVE  Recorded(old)
<1> SUFFICES ASSUME NEW v \in 1..old.version PROVE Done(v, old.has)
    BY ReleaseAssumption DEF Recorded
<1>1. v \in 1..17 /\ old.version \in 0..17
    BY ReleaseAssumption, MigrationFacts
<1>2. \A w \in 1..old.version :
         /\ Migrations[w].creates \cup Migrations[w].script \subseteq old.has
         /\ Migrations[w].needs \subseteq old.has \ {"usage"} =>
               Migrations[w].columns \subseteq old.has
    BY ReleaseAssumption
<1>3. v = 1 /\ "facts" \in old.has => "facts.workspace" \in old.has
    BY <1>2, MigrationFacts
<1>4. v = 16 => "prompt_sources.compatibility" \in old.has
    <2>1. v = 16 => "prompt_sources" \in old.has
        BY <1>1, <1>2, MigrationFacts
    <2> QED
        BY <1>2, <2>1, MigrationFacts
<1> QED
    BY <1>2, <1>3, <1>4 DEF Done, ColumnsAfter

LEMMA RestoreFits ==
    ASSUME CompleteInv, KeptInv', NEW p \in Processes, Restore(p)
    PROVE  CompleteInv'
<1>1. PICK backup \in Releases :
         db' = backup /\ proc' = [proc EXCEPT ![p] = Migrating(backup.version, FALSE)]
    BY DEF Restore
<1>2. /\ lock' = Null /\ p # Null /\ \A q \in Processes : Seen(q)' = backup
      /\ Recorded(backup) /\ backup.version \in 0..17 /\ Latest = 17
    BY <1>1, UpgradeAssumption, ReleaseRecorded, MigrationFacts DEF Restore, Seen, Recorded
<1> DEFINE pc == IF backup.version < Latest THEN "apply" ELSE "up"
           full == FALSE
<1>3. proc' = [proc EXCEPT ![p] = Process(pc, backup.version + 1, full)]
    BY <1>1 DEF Migrating
<1> HIDE DEF pc, full
<1>4. /\ proc'[p].pc = pc /\ proc'[p].next = backup.version + 1 /\ proc'[p].full = full
      /\ proc'[p].todo = Null
      /\ \A q \in Processes \ {p} : proc'[q] = proc[q]
    BY <1>3, Moves DEF CompleteInv, KeptInv
<1>5. Stage(proc'[p], backup) /\ proc'[p].pc # "commit"
    <2>1. ~full
        BY DEF full
    <2>2. Migrated(proc'[p], backup) /\ proc'[p].pc # "commit"
        BY <1>2, <1>4 DEF pc, Migrated, Rebuilds, Later
    <2> QED
        BY <1>4, <2>1, <2>2 DEF Stage, UsageStored, HeadsStored
<1>6. \A q \in Processes \ {p} : Stage(proc'[q], backup) /\ proc'[q].pc # "commit"
    BY <1>4, IdleStage DEF Restore, At
<1>7. FilesInv'
    BY <1>1, <1>2 DEF FilesInv
<1> QED
    BY <1>2, <1>5, <1>6, <1>7 DEF CompleteInv, At

LEMMA OpensFits ==
    ASSUME CompleteInv, KeptInv', NEW p \in Processes, Opens(p)
    PROVE  CompleteInv'
<1>1. CASE Refused(p)
    BY <1>1, RefusedCompletes
<1>2. CASE ~Refused(p) /\ (Open(p) \/ Look(p) \/ Duplicate(p) \/ Apply(p) \/ CommitPending(p)
             \/ RunScript(p) \/ Record(p) \/ CommitLast(p))
    BY <1>2, OpenFits, LookFits, ApplyFits, CommitPendingFits, RunScriptFits, RecordFits,
       CommitLastFits DEF Duplicate
<1>3. CASE ~Refused(p) /\ Rebuild(p)
    BY <1>3, RebuildFits
<1>4. CASE EnsureStores(p)
    BY <1>4, EnsureUsageFits, EnsureUsageColumnsFits, EnsureLibraryFits,
       EnsureLibraryColumnsFits, EnsureMemoryFits DEF EnsureStores
<1> QED
    BY <1>1, <1>2, <1>3, <1>4 DEF Opens

LEMMA CompleteSuffices ==
    ASSUME CompleteInv
    PROVE  UpIsComplete
<1> SUFFICES ASSUME NEW p \in Processes, At(p, "up"), proc[p].full, db.copy = Null
             PROVE  db.version = Latest /\ Everything \subseteq db.has
    BY DEF UpIsComplete
<1>1. Behind(proc[p]) /\ proc[p].pc = "up"
    BY DEF Behind, At
<1>2. Stage(proc[p], db) /\ Recorded(db)
    BY <1>1, SeesCommitted DEF CompleteInv, FilesInv
<1>3. db.version = Latest /\ Latest = 17
    BY <1>1, <1>2, MigrationFacts DEF Stage, Migrated, Later, Recorded
<1>4. /\ {"usage", "usage.guards", "facts"} \cup UsageColumns \subseteq db.has
      /\ {"templates"} \cup HeadColumns \subseteq db.has
    BY <1>1, <1>2 DEF Stage, UsageStored, HeadsStored, TemplateThings
<1>5. "facts.workspace" \in db.has /\ "prompt_sources.compatibility" \in db.has
    <2>1. Done(1, db.has) /\ Done(16, db.has)
        BY <1>2, <1>3 DEF Recorded
    <2> QED
        BY <1>4, <2>1 DEF Done, ColumnsAfter
<1>6. Brought(Latest) \subseteq db.has
    <2> SUFFICES ASSUME NEW v \in 1..17
                 PROVE  /\ Migrations[v].columns \subseteq db.has
                        /\ Migrations[v].creates \cup Migrations[v].script \subseteq db.has
        BY <1>3 DEF Brought
    <2>1. Migrations[v].columns \subseteq db.has
        BY <1>4, <1>5, MigrationFacts
    <2>2. Migrations[v].creates \cup Migrations[v].script \subseteq db.has
        BY <1>2, <1>3 DEF Recorded, Done
    <2> QED
        BY <2>1, <2>2
<1> QED
    BY <1>3, <1>4, <1>6 DEF Everything

(* A process that has started finds all it needs, whatever release the
   database is of, whoever has died at which statement, and whoever opens it
   at once: every migration is recorded, and every table, column and trigger
   that this release uses is there, unless a rebuild of the templates is under
   way or was broken off.                                                   *)
THEOREM UpgradeCompletes == UpgradeSpec => []UpIsComplete
<1>1. UpgradeInit => KeptInv /\ CompleteInv
    <2> SUFFICES ASSUME UpgradeInit PROVE KeptInv /\ CompleteInv
        OBVIOUS
    <2>1. KeptInv
        BY KeptInitially
    <2>2. \A p \in Processes : proc[p].pc \in {"closed", "old"} /\ Seen(p) = db
        BY UpgradeAssumption DEF UpgradeInit, Process, Seen
    <2>3. Recorded(db) /\ lock = Null
        BY ReleaseRecorded DEF UpgradeInit
    <2> QED
        BY <2>1, <2>2, <2>3, IdleStage DEF CompleteInv, FilesInv, At
<1>2. KeptInv /\ CompleteInv /\ [UpgradeNext]_upgradeVars => KeptInv' /\ CompleteInv'
    <2> SUFFICES ASSUME CompleteInv, [UpgradeNext]_upgradeVars
                 PROVE  KeptInv' /\ CompleteInv'
        OBVIOUS
    <2>1. KeptInv'
        BY KeptNext DEF CompleteInv
    <2>2. CASE UNCHANGED upgradeVars
        BY <2>1, <2>2 DEF upgradeVars, CompleteInv, FilesInv, Locks, At, Seen
    <2>3. ASSUME NEW p \in Processes, TimesOut(p)
          PROVE  CompleteInv'
        BY <2>1, <2>3, RefusedCompletes DEF TimesOut
    <2>4. ASSUME NEW p \in Processes, Dies(p)
          PROVE  CompleteInv'
        BY <2>1, <2>4, RefusedFits DEF Dies
    <2> QED
        BY <2>1, <2>2, <2>3, <2>4, OpensFits, SaveFits, RestoreFits DEF UpgradeNext
<1>3. CompleteInv => UpIsComplete
    BY CompleteSuffices
<1> QED
    BY <1>1, <1>2, <1>3, PTL DEF UpgradeSpec

================================================================================
