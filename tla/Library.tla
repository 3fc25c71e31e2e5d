--------------------------------- MODULE Library ---------------------------------
(****************************************************************************)
(* The template library (src/ylang/library/store.py, hygiene.py, seeds.py)  *)
(* in the processes that share its tables.  An operation reads a template,  *)
(* decides, and writes in a transaction later; other operations, of the     *)
(* threads of the process or of other processes, may come between.  Each    *)
(* process keeps the list of visible templates until it writes itself.      *)
(*                                                                          *)
(* Left out: bodies, parameters, tags and the search index; that the        *)
(* threads of a process share a connection, so that one may commit the half *)
(* of another's transaction; and the wait for a locked database.            *)
(****************************************************************************)
EXTENDS Integers, FiniteSets, TLC

CONSTANTS
    Processes,      \* servers, consoles and command lines with the database open
    Actors,         \* threads that operate on the library
    ProcessOf,      \* the process of each
    Templates,      \* template ids
    Seeds,          \* those of SEED_TEMPLATES
    Null,
    MaxVersion      \* bound on version numbers

ASSUME LibraryAssumption ==
    /\ ProcessOf \in [Actors -> Processes]
    /\ Seeds \subseteq Templates
    /\ MaxVersion \in Nat \ {0}

VARIABLES
    heads,          \* templates: latest version, its source, and visibility
    versions,       \* template_versions: the version numbers that exist
    listed,         \* _list_cache of each process
    op,             \* what each actor is doing to the library
    saves           \* (history) saves of each template that have succeeded, Null
                    \* once it has been deleted

libraryVars == <<heads, versions, listed, op, saves>>

-------------------------------------------------------------------------------
Head(latest, source, visibility) ==
    [latest |-> latest, source |-> source, visibility |-> visibility]

Latest(t) == IF heads[t] = Null THEN 0 ELSE heads[t].latest

SeedHead == Head(1, "seed", "public")

Sources == {"seed", "user", "learned"}
Visibilities == {"public", "private", "archived"}
Heads == [latest : Nat \ {0}, source : Sources, visibility : Visibilities]

ASSUME NullAssumption ==
    /\ Null \notin Nat /\ Null \notin Heads
    /\ \A S \in SUBSET Templates : S # Null

\* Operations; visibility is Null where the caller gives none.
NoOp(result) == [kind |-> "none", result |-> result]
SaveOp(t, source, visibility) ==
    [kind |-> "save", template |-> t, source |-> source, visibility |-> visibility,
     pc |-> "read", row |-> Null]
OtherOp(kind, t) == [kind |-> kind, template |-> t, pc |-> "read"]

Idle(a) == op[a].kind = "none"
Doing(a, kind, pc) == op[a].kind = kind /\ op[a].pc = pc

Finish(a, result) == op' = [op EXCEPT ![a] = NoOp(result)]
Proceed(a, pc) == op' = [op EXCEPT ![a].pc = pc]

\* Every write clears the cache of its process.
ForgetList(a) == listed' = [listed EXCEPT ![ProcessOf[a]] = Null]

-------------------------------------------------------------------------------
(* save *)

SaveRead(a) ==
    /\ Doing(a, "save", "read")
    /\ op' = [op EXCEPT ![a].pc = "write", ![a].row = heads[op[a].template]]
    /\ UNCHANGED <<heads, versions, listed, saves>>

DefaultVisibility(source) == IF source = "seed" THEN "public" ELSE "private"

NextVersion(o) == IF o.row = Null THEN 1 ELSE o.row.latest + 1

\* The row that the save writes, from the one that it has read: it shows and
\* hides as that one did, whatever has happened to it since.
SavedHead(o) ==
    Head(NextVersion(o),
         o.source,
         IF o.visibility # Null THEN o.visibility
         ELSE IF o.row = Null THEN DefaultVisibility(o.source) ELSE o.row.visibility)

\* (mutant) the version is replaced
NeverTaken(o) == FALSE

\* The primary key of template_versions: somebody else has saved since.
Taken(o) == NextVersion(o) \in versions[o.template]

SaveCollides(a) ==
    /\ Doing(a, "save", "write")
    /\ Taken(op[a])
    /\ Finish(a, "error")
    /\ UNCHANGED <<heads, versions, listed, saves>>

\* The template may have been deleted: then the update finds no row, and the
\* version stays behind alone.
SaveWrite(a) ==
    LET t == op[a].template
    IN  /\ Doing(a, "save", "write")
        /\ ~Taken(op[a])
        /\ versions' = [versions EXCEPT ![t] = @ \cup {NextVersion(op[a])}]
        /\ heads' = IF op[a].row # Null /\ heads[t] = Null THEN heads
                    ELSE [heads EXCEPT ![t] = SavedHead(op[a])]
        /\ ForgetList(a)
        /\ Finish(a, "ok")
        /\ saves' = [saves EXCEPT ![t] = IF @ = Null THEN Null ELSE @ + 1]

-------------------------------------------------------------------------------
(* set_visibility and delete *)

Removable(t) == heads[t] # Null /\ heads[t].source # "seed"

\* archive_template, unarchive_template, delete: what they check first.
Allowed(kind, t) ==
    \/ kind \in {"archive", "delete"} /\ Removable(t)
    \/ kind = "unarchive" /\ heads[t] # Null /\ heads[t].visibility = "archived"

Check(a) ==
    /\ \E kind \in {"archive", "unarchive", "delete"} :
          /\ Doing(a, kind, "read")
          /\ IF ~Allowed(kind, op[a].template) THEN Finish(a, "refused")
             ELSE Proceed(a, IF kind = "delete" THEN "write" ELSE "recall")
    /\ UNCHANGED <<heads, versions, listed, saves>>

\* set_visibility reads the template again: a seed stays public.
Recall(a) ==
    LET t == op[a].template
    IN  /\ Doing(a, "archive", "recall") \/ Doing(a, "unarchive", "recall")
        /\ CASE heads[t] = Null -> Finish(a, "refused")
             [] Removable(t)    -> Proceed(a, "write")
             [] OTHER           -> Finish(a, "error")
        /\ UNCHANGED <<heads, versions, listed, saves>>

\* The update says whether it has found a row.
ShowOrHide(a) ==
    LET t == op[a].template
    IN  /\ Doing(a, "archive", "write") \/ Doing(a, "unarchive", "write")
        /\ IF heads[t] = Null THEN Finish(a, "refused") /\ UNCHANGED heads
           ELSE /\ heads' = [heads EXCEPT ![t].visibility =
                                IF op[a].kind = "archive" THEN "archived" ELSE "private"]
                /\ Finish(a, "ok")
        /\ ForgetList(a)
        /\ UNCHANGED <<versions, saves>>

Delete(a) ==
    LET t == op[a].template
    IN  /\ Doing(a, "delete", "write")
        /\ heads' = [heads EXCEPT ![t] = Null]
        /\ versions' = [versions EXCEPT ![t] = {}]
        /\ saves' = [saves EXCEPT ![t] = Null]
        /\ ForgetList(a)
        /\ Finish(a, "ok")

-------------------------------------------------------------------------------
(* Listing, starting and stopping *)

Visible == {t \in Templates : heads[t] # Null /\ heads[t].visibility # "archived"}

\* list, through which the improver looks for references
List(p) ==
    /\ listed[p] = Null
    /\ listed' = [listed EXCEPT ![p] = Visible]
    /\ UNCHANGED <<heads, versions, op, saves>>

\* ensure_seeds, whenever a process opens the library: it saves a seed that is
\* not there.
EnsureSeed(a, t) ==
    /\ Idle(a) /\ t \in Seeds /\ heads[t] = Null
    /\ op' = [op EXCEPT ![a] = SaveOp(t, "seed", Null)]
    /\ UNCHANGED <<heads, versions, listed, saves>>

\* An operation that a caller asks for, bounded by the version numbers.
MayBegin(o) == o.kind # "save" \/ Latest(o.template) < MaxVersion

Requests ==
    {OtherOp(kind, t) : kind \in {"archive", "unarchive", "delete"}, t \in Templates}
    \cup {SaveOp(t, "user", visibility) : t \in Templates, visibility \in {Null, "public"}}

Begin(a, o) ==
    /\ Idle(a) /\ MayBegin(o)
    /\ op' = [op EXCEPT ![a] = o]
    /\ UNCHANGED <<heads, versions, listed, saves>>

\* A process dies with what its actors were doing.
StopLibrary(p) ==
    /\ listed' = [listed EXCEPT ![p] = Null]
    /\ op' = [a \in Actors |-> IF ProcessOf[a] = p THEN NoOp("none") ELSE op[a]]
    /\ UNCHANGED <<heads, versions, saves>>

\* A library in use: users may have saved templates, over a seed too.
LibraryInit ==
    /\ heads \in [Templates -> {Null, SeedHead, Head(1, "user", "public"),
                                Head(2, "user", "public")}]
    /\ \A t \in Templates :
          heads[t] \in IF t \in Seeds THEN {SeedHead, Head(2, "user", "public")}
                      ELSE {Null, Head(1, "user", "public")}
    /\ versions = [t \in Templates |-> 1..Latest(t)]
    /\ listed = [p \in Processes |-> Null]
    /\ op = [a \in Actors |-> NoOp("none")]
    /\ saves = [t \in Templates |-> Latest(t)]

LibraryStep(a) ==
    \/ SaveRead(a) \/ SaveWrite(a) \/ SaveCollides(a)
    \/ Check(a) \/ Recall(a) \/ ShowOrHide(a) \/ Delete(a)

-------------------------------------------------------------------------------
(* Correctness *)

(* store.py:243: "Append a new immutable version".  While nobody deletes the
   template, each save that has succeeded has its version, numbered without a
   gap, and the latest is the last: savers that have read the same latest
   version collide instead of replacing one another's.  (A delete between
   the read and the write of a save breaks this: the README shows how.)     *)
VersionsAreAppended ==
    \A t \in Templates : saves[t] # Null =>
        Latest(t) = saves[t] /\ versions[t] = 1..saves[t]

================================================================================
