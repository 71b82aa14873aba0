----------------------------- MODULE MCHiring -----------------------------
(* TLC instances of Hiring. *)
EXTENDS Hiring, TLC

Interchangeable == Permutations(Application) \cup Permutations(Call)

\* Bound: three calls overlap only on a mission for one person, with one application,
\* whose date has passed; two calls on any offer.
CrowdedOnOne ==
  overlaps > 1 => /\ ~ongoing /\ quantity = 1 /\ past /\ forced = {}
                  /\ Cardinality({a \in Application : app[a] # "NONE"}) = 1

BoundedSpec == Init /\ [][Next /\ CrowdedOnOne']_vars
==========================================================================
