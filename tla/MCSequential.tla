--------------------------- MODULE MCSequential ---------------------------
(***************************************************************************)
(* What calls that run one after another guarantee, though no row is locked *)
(* between their reads and their writes: the billing status of              *)
(* PenaltyBilling and the plan periods of Subscriptions.  They share no      *)
(* state: a behaviour runs one of them, while the other stays in its         *)
(* initial state.                                                           *)
(***************************************************************************)
EXTENDS MCPenaltyBilling, Subscriptions

VARIABLE part

MCLength == [TRIAL |-> 1, MONTHLY |-> 2]
MCPrice == [basic |-> [TRIAL |-> 0, MONTHLY |-> 1], top |-> [TRIAL |-> 0, MONTHLY |-> 2]]

SequentialInit == Init /\ SubInit /\ part \in {"penalties", "periods"}

SequentialNext ==
  /\ UNCHANGED part
  /\ \/ part = "penalties" /\ Next /\ UNCHANGED subVars
     \/ part = "periods" /\ SubNext /\ UNCHANGED vars

SequentialSpec == SequentialInit /\ [][SequentialNext]_<<vars, subVars, part>>
==========================================================================
