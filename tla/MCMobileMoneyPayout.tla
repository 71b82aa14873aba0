----------------------- MODULE MCMobileMoneyPayout -----------------------
(* TLC instances of MobileMoneyPayout: two dialogs, of one and two francs. *)
EXTENDS MobileMoneyPayout, TLC

CONSTANTS p1, p2

MCAmount == (p1 :> 1) @@ (p2 :> 2)
==========================================================================
