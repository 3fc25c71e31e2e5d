---------------------------- MODULE MCSchemaUpgrade ----------------------------
(* SchemaUpgrade for TLC: a new database, those of releases with no, 9 and  *)
(* 16 migrations, and those whose templates lack columns.                   *)
EXTENDS SchemaUpgrade

CONSTANTS essay, chore

\* What the stores and the first n migrations have made.
HasAfter(n) ==
    {"usage", "usage.sample", "templates", "templates.visibility", "templates.tags", "facts"}
        \cup Brought(n)
        \cup (IF n < RebuildVersion THEN {} ELSE {"templates.archived"})

Release(n) == [version |-> n, has |-> HasAfter(n), heads |-> {essay}, copy |-> Null]
Empty == [version |-> 0, has |-> {}, heads |-> {}, copy |-> Null]

\* Templates without some columns, as Library._ensure_schema provides for.
Without(columns) == [Release(13) EXCEPT !.has = @ \ columns]

\* A release without migrations: migration 10 cannot copy its templates.
Ancient == [version |-> 0, has |-> {"usage", "templates", "facts"}, heads |-> {essay},
            copy |-> Null]

KnownReleases ==
    {Empty, Ancient, Without({"templates.archived"}), Without(HeadColumns)}
        \cup {Release(n) : n \in {9, 16}}

================================================================================
