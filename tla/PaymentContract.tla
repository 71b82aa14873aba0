------------------------- MODULE PaymentContract -------------------------
(***************************************************************************)
(* What the payment-request subsystem promises about one payment request,  *)
(* whatever deposits, webhooks and polls it goes through: it is settled at *)
(* most once, it is approved only if the gateway really collected its      *)
(* amount, approving it books its amount exactly once, and what the payer  *)
(* bought is delivered at most once and only after that booking.           *)
(***************************************************************************)
EXTENDS Integers

CONSTANT Request

VARIABLES
  collected,   \* the requests for which the gateway collected the right amount
  outcome,     \* what the platform recorded about each request
  booked,      \* how often the request's amount was booked in the ledgers
  delivered    \* how often the post-payment effect ran

vars == <<collected, outcome, booked, delivered>>

Outcome == {"open", "approved", "rejected"}

Init ==
  /\ collected = {}
  /\ outcome = [r \in Request |-> "open"]
  /\ booked = [r \in Request |-> 0]
  /\ delivered = [r \in Request |-> 0]

\* The payer's operator collects the amount of r.
Collect(r) ==
  /\ collected' = collected \cup {r}
  /\ UNCHANGED <<outcome, booked, delivered>>

\* The platform records the payment of r and books it.
Approve(r) ==
  /\ outcome[r] = "open"
  /\ r \in collected
  /\ outcome' = [outcome EXCEPT ![r] = "approved"]
  /\ booked' = [booked EXCEPT ![r] = @ + 1]
  /\ UNCHANGED <<collected, delivered>>

\* The platform gives up on r.
Reject(r) ==
  /\ outcome[r] = "open"
  /\ outcome' = [outcome EXCEPT ![r] = "rejected"]
  /\ UNCHANGED <<collected, booked, delivered>>

\* The payer gets what the payment was for.
Deliver(r) ==
  /\ outcome[r] = "approved"
  /\ delivered[r] = 0
  /\ delivered' = [delivered EXCEPT ![r] = 1]
  /\ UNCHANGED <<collected, outcome, booked>>

Next == \E r \in Request : Collect(r) \/ Approve(r) \/ Reject(r) \/ Deliver(r)

Spec == Init /\ [][Next]_vars
==========================================================================
