------------------------- MODULE MCContactUnlock -------------------------
(* TLC instances of ContactUnlock. *)
EXTENDS ContactUnlock, TLC

Interchangeable == Permutations(Application) \cup Permutations(Call)
==========================================================================
