---------------------------- MODULE OrderLifecycle ----------------------------
(***************************************************************************)
(* What placing, accepting and cancelling an order promise, with no screen,*)
(* no write queue and no restart: each operation of send_order.dart as the *)
(* documents' one-way course. OrderFlow implements it on one device.       *)
(***************************************************************************)
CONSTANTS Orders, Offers, OrderOf, NoOffer

VARIABLES
    phase,      \* per order: how far it is
    payment,    \* per order: its payment option, fixed when it is placed
    winner,     \* per order: the chosen offer
    deal        \* per offer: what its provider is told

lifeVars == <<phase, payment, winner, deal>>

Place(o, p) ==
    /\ phase[o] = "none"
    /\ phase' = [phase EXCEPT ![o] = "awaitingOffers"]
    /\ payment' = [payment EXCEPT ![o] = p]
    /\ UNCHANGED <<winner, deal>>

Bid(f) ==
    /\ deal[f] = "none" /\ phase[OrderOf[f]] # "none"
    /\ deal' = [deal EXCEPT ![f] = "pending"]
    /\ UNCHANGED <<phase, payment, winner>>

Start(o) ==
    /\ phase[o] = "awaitingOffers"
    /\ phase' = [phase EXCEPT ![o] = "inProgress"]
    /\ UNCHANGED <<payment, winner, deal>>

\* A customer who pays electronically chooses once; a cash customer may, by
\* accepting again while the first acceptance is on its way, choose again.
Choose(f) ==
    LET o == OrderOf[f] IN
    /\ phase[o] \in {"inProgress", "cancelled"} /\ deal[f] # "none"
    /\ payment[o] = "electronic" => winner[o] = NoOffer
    /\ winner' = [winner EXCEPT ![o] = f]
    /\ UNCHANGED <<phase, payment, deal>>

\* A provider hears of its acceptance after the order names a winner, which for
\* an electronic order is this offer, and not after hearing of a cancellation.
Accept(f) ==
    LET o == OrderOf[f] IN
    /\ winner[o] # NoOffer
    /\ payment[o] = "electronic" => winner[o] = f /\ deal[f] = "pending"
    /\ deal' = [deal EXCEPT ![f] = "accepted"]
    /\ UNCHANGED <<phase, payment, winner>>

\* Only an order in progress is cancelled, and nothing leads out of it.
Cancel(o) ==
    /\ phase[o] = "inProgress"
    /\ phase' = [phase EXCEPT ![o] = "cancelled"]
    /\ UNCHANGED <<payment, winner, deal>>

Withdraw(f) ==
    /\ phase[OrderOf[f]] = "cancelled" /\ winner[OrderOf[f]] # NoOffer
    /\ deal' = [deal EXCEPT ![f] = "orderCancelled"]
    /\ UNCHANGED <<phase, payment, winner>>

Init ==
    /\ phase = [o \in Orders |-> "none"]
    /\ payment = [o \in Orders |-> "cash"]
    /\ winner = [o \in Orders |-> NoOffer]
    /\ deal = [f \in Offers |-> "none"]

Next ==
    \/ \E o \in Orders : \/ \E p \in {"cash", "electronic"} : Place(o, p)
                         \/ Start(o) \/ Cancel(o)
    \/ \E f \in Offers : Bid(f) \/ Choose(f) \/ Accept(f) \/ Withdraw(f)

Spec == Init /\ [][Next]_lifeVars
=============================================================================
