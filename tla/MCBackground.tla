--------------------------- MODULE MCBackground ---------------------------
(***************************************************************************)
(* What the background workers must get done in the end: the timed scan of  *)
(* Hiring, the inbound queue of WhatsAppInbound and the pages of Broadcasts. *)
(* They share no state: a behaviour runs one of them, chosen at the start,  *)
(* while the others stay in their initial state, where nothing is due.      *)
(***************************************************************************)
EXTENDS WhatsAppInbound, Broadcasts

CONSTANTS Application, Call, Quantities, ForcedStatuses, MaxOverlaps, NoApplication

VARIABLES ongoing, quantity, past, deleted, offer, app, assigned, call, scan,
          maxQuantity, rolledBack, forced, crossed, annulled, overlaps, part

Offer == INSTANCE Hiring

offerVars == <<ongoing, quantity, past, deleted, offer, app, assigned, call, scan,
               maxQuantity, rolledBack, forced, crossed, annulled, overlaps>>

Init ==
  /\ InboundInit /\ Offer!Init /\ CastInit
  /\ part \in {"inbound", "hiring", "broadcast"}
  /\ part # "hiring" => ~ongoing /\ quantity = 1

Next ==
  /\ UNCHANGED part
  /\ \/ part = "inbound" /\ InboundNext /\ UNCHANGED <<offerVars, castVars>>
     \/ part = "hiring" /\ Offer!Next /\ UNCHANGED <<inboundVars, castVars>>
     \/ part = "broadcast" /\ CastNext /\ UNCHANGED <<inboundVars, offerVars>>

Spec ==
  /\ Init /\ [][Next]_<<inboundVars, offerVars, castVars, part>>
  /\ InboundFairness /\ Offer!Fairness /\ CastFairness

\* Queues, keys, attempts, rows, counters and calls hold values of their types.
BackgroundTypeOK == InboundTypeOK /\ CastTypeOK

\* An offer past its date stops recruiting, unless no scan takes it (Hiring).
OverdueStopsRecruiting == Offer!OverdueStopsRecruiting
==========================================================================
