------------------------ MODULE MCPenaltyBilling ------------------------
(* TLC instances of PenaltyBilling: penalties of one and two francs, callers *)
(* that no action tells apart.                                             *)
EXTENDS PenaltyBilling, TLC

CONSTANTS p1, p2, p3

MCAmount == [p \in Penalty |-> IF p = p1 THEN 2 ELSE 1]
MCSymmetry == Permutations(Caller)
=========================================================================
