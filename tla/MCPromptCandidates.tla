-------------------------- MODULE MCPromptCandidates --------------------------
(* Small instances of PromptCuration. *)
EXTENDS PromptCuration

CONSTANTS a, b, r, here, there, chore, essay

\* Items 1 and 2 are of one source; 3, of another, shares its title with 1.
MCSource == [i \in Items |-> IF i = 3 THEN there ELSE here]
MCTitle  == [i \in Items |-> IF i = 2 THEN essay ELSE chore]
MCFingerprint == [x \in Bodies |-> x]

\* Every listing of src with some of the items and the given texts.
ListingsOf(src, some, texts, complete) ==
    [source : {src}, full : complete, texts : UNION {[S -> texts] : S \in SUBSET some}]

PairListings == ListingsOf(here, {1}, {a, r}, {TRUE})
TwinListings ==
    ListingsOf(here, {}, {a}, {FALSE}) \cup ListingsOf(there, {3}, {a, b}, {FALSE})
        \cup [source : {here}, full : {FALSE}, texts : {1 :> a @@ 2 :> b, 2 :> a}]

AllListings == PairListings \cup TwinListings

WorkerSymmetry == Permutations(Workers)

-------------------------------------------------------------------------------
(* On one item, two operations at once; on three, one after the other. *)

\* What is begun belongs to the way of working.
InPlace(job) ==
    /\ job.op = "ingest" => job.listing \in IF together THEN PairListings ELSE TwinListings
    /\ job.op = "save"   => together \/ ~job.ack

MCNext == CurationNext /\ \A w \in Workers : InPlace(work'[w])

MCSpec == CurationInit /\ [][MCNext]_<<vars, together>>

===============================================================================
