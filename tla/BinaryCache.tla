----------------------------- MODULE BinaryCache -----------------------------
(***************************************************************************)
(* What niks3 promises to the users of the cache: a published root can be  *)
(* fetched together with everything it references, until it is retracted.  *)
(* How uploads, rows, tombstones and locks achieve that is PushGC's matter. *)
(***************************************************************************)

CONSTANTS Keys, Narinfos, Required, ClosureOf

VARIABLES
    published,  \* roots that readers may rely on
    stored      \* objects a reader can fetch

vars == <<published, stored>>

\* What readers of r fetch.
Needs(r) == ClosureOf[r] \cap Required

Init == published = {} /\ stored = {}

Store(K) ==
    /\ stored' = stored \cup K
    /\ UNCHANGED published

Publish(R) ==
    /\ \A r \in R : Needs(r) \subseteq stored
    /\ published' = published \cup R
    /\ UNCHANGED stored

Retract(R) ==
    /\ published' = published \ R
    /\ UNCHANGED stored

Drop(K) ==
    /\ \A r \in published : Needs(r) \cap K = {}
    /\ stored' = stored \ K
    /\ UNCHANGED published

Next ==
    \/ \E K \in SUBSET Keys : Store(K)
    \/ \E R \in SUBSET Narinfos : Publish(R)
    \/ \E R \in SUBSET Narinfos : Retract(R)
    \/ \E K \in SUBSET Keys : Drop(K)

Spec == Init /\ [][Next]_vars
=============================================================================
