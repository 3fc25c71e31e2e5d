-------------------------- MODULE MCSourceCatalogue --------------------------
(* A source that adds, loses its layout, changes licence, drops and restores. *)
EXTENDS SourceCatalogue

CONSTANTS a, b, c, r, x, y, here

MCSource == [i \in Items |-> here]
MCTitle  == [i \in Items |-> i]
MCFingerprint == [t \in Bodies |-> t]

Lists(texts) == [source |-> here, texts |-> texts, full |-> TRUE]

\* 2 has no prompt files, 3 another licence.
MCUpstream == << Lists(1 :> a @@ 2 :> r), Lists(1 :> x), Lists(2 :> y),
                 Lists(1 :> b @@ 2 :> Blank), Lists(2 :> r) >>
MCLicensed == {1, 2, 4, 5}
MCWellLaidOut == {1, 3, 4, 5}
MCLocalImports == {[source |-> here, texts |-> 1 :> c, full |-> FALSE]}
MCListings == ToSet(MCUpstream) \cup MCLocalImports
MCProcess == [w \in Workers |-> w]

\* Bound: from the overrun of a lease on, upstream is at one of its first two revisions,
\* no import has begun and no operator is between the check and the flag.
Narrow == overruns' > 0 => head' <= 2 /\ imports' = 0 /\ ~enabling'

MCSpec == CatalogueInit /\ [][CatalogueNext /\ Narrow]_allVars /\ CatalogueFairness

===============================================================================
