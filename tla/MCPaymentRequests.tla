------------------------ MODULE MCPaymentRequests ------------------------
(* TLC instances of PaymentRequests.  No symmetry: the runs check liveness   *)
(* or stop at their first violation.                                        *)
EXTENDS PaymentRequests
==========================================================================
