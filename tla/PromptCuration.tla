---------------------------- MODULE PromptCuration ----------------------------
(***************************************************************************)
(* Two ways to work on the prompts that were imported: several operations  *)
(* at once, or one after the other.  What a curator may rely on when no    *)
(* operation overlaps another is more than what holds in any case.         *)
(***************************************************************************)
EXTENDS PromptCandidates

VARIABLE together   \* whether operations may overlap

Overlap == \E w \in Workers : work[w] # Idle /\ work'[w] = work[w]

CurationInit == Init /\ together \in BOOLEAN

CurationNext ==
    /\ Next
    /\ UNCHANGED together
    /\ together \/ ~Overlap

CurationSpec == CurationInit /\ [][CurationNext]_<<vars, together>>

-------------------------------------------------------------------------------
(* Properties *)

\* No item comes up as new with a text that is rejected.
NewsIsNotRejected ==
    \A i \in DOMAIN items' \ DOMAIN items :
        items'[i].state = "candidate_new" => items'[i].body \notin RejectedHashes

\* The provenance of a version tells the text it holds.
ProvenanceMatches ==
    \A p \in provenance : p.body = templates[p.template][p.version].body

\* No two items are linked to versions of one template.
LinksAreApart ==
    \A i, j \in DOMAIN items :
        i # j /\ items[i].link # Null /\ items[j].link # Null
            => items[i].link[1] # items[j].link[1]

\* A rejected item is not promoted.
RejectedStays ==
    \A i \in DOMAIN items : items[i].state = "rejected" => items'[i].state # "promoted"

\* As long as no two operations overlap, no two items are linked to versions of one
\* template, so that a promotion never hides another prompt's text behind a newer
\* version (_promotion_template_id), and the provenance of a version tells the text it
\* holds (link_promotion reads the row a second time for it).
PromotionsAreSound == together \/ (LinksAreApart /\ ProvenanceMatches)

\* As long as no two operations overlap, a rejection stands: an item first seen with a
\* text that is rejected, here or in another source, does not come up as new
\* (rejected_hashes), and a rejected item is not promoted (promote.py:104).
RejectionStands == [][together \/ (NewsIsNotRejected /\ RejectedStays)]_<<vars, together>>

===============================================================================
