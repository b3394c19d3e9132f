----------------------------- MODULE Marketplace -----------------------------
(***************************************************************************)
(* The app and the cancellation function together: every update the app's  *)
(* write queues commit to an order document is an event of the function's  *)
(* trigger, and the function reads the offer documents the app and the     *)
(* providers write. What was charged meets what is refunded here.          *)
(***************************************************************************)
EXTENDS OrderFlow, Functions

CONSTANTS
    Price,          \* [Offers -> Nat]: the offers' prices in halalas
    Deployed,       \* functions/index.js exports handleOrderCancellation
    MaxDeliveries,  \* bound: deliveries of one event
    MaxAttempts     \* attempts of one refund transaction

ASSUME MarketAssumption == /\ \A f \in Offers : Price[f] \in Nat
                           /\ MaxDeliveries \in Nat \ {0} /\ MaxAttempts \in Nat \ {0}

VARIABLES sent, inbox, runs, user, ledger

Refund == INSTANCE CancellationRefund 
    WITH Faults <- {}, MaxEvents <- 0, Redelivered <- Nat, happened <- {}

marketVars == <<vars, sent, inbox, runs, user, ledger>>

\* onUpdate: creating a document and an update that changes nothing are no events.
Updated(o) == order[o].status # "none" /\ order'[o] # order[o]

Trigger ==
    \/ /\ \E o \in Orders : Updated(o) /\ Refund!Emit(o, order[o], order'[o])
       /\ UNCHANGED <<runs, user, ledger>>
    \/ /\ \A o \in Orders : ~Updated(o)
       /\ UNCHANGED <<sent, inbox, runs, user, ledger>>

\* The customer signed in through initUser, which reads the user document.
MarketInit == Init /\ Refund!FunctionInit /\ user.exists

MarketNext ==
    \/ Next /\ Trigger
    \/ Refund!Functions /\ UNCHANGED vars

MarketSpec == MarketInit /\ [][MarketNext]_marketVars

\* The client keeps sending its writes and the platform its deliveries.
MarketFairSpec ==
    /\ MarketSpec
    /\ \A d \in Devices : WF_marketVars(Deliver(d) /\ Trigger)
    /\ WF_marketVars((\E e \in inbox : Refund!Invoke(e)) /\ UNCHANGED vars)
    /\ WF_marketVars((\E r \in runs : Refund!Handle(r)) /\ UNCHANGED vars)

-----------------------------------------------------------------------------
(* Money *)

\* PaymentPage charges price.ceil() riyals.
Paid(f) == ((Price[f] + 99) \div 100) * 100

OffersFor(o) == {f \in Offers : OrderOf[f] = o}

PaidFor(o) == SumFunctionOnSet([f \in Offers |-> charges[f] * Paid(f)], OffersFor(o))

Entries(o) == {t \in ledger : t.order = o}

Refunded(o) == Refund!Total(Entries(o))

-----------------------------------------------------------------------------
(* Properties *)

\* The wallet never gets back more for an order than was charged for it, in
\* every interleaving of taps, writes, deliveries and transactions.
RefundWithinPayment == \A o \in Orders : Refunded(o) <= PaidFor(o)

\* A refunded order is not being served: the function acts on the document of
\* its event, and nothing the app still had queued restarts the order.
RefundedIsCancelled == \A t \in ledger : order[t.order].status = "cancelled"

\* Over several devices, which may restart a cancelled order from a stale page
\* and cancel it again, an order is still refunded at most as often as charged.
RefundsAreCharged ==
    \A o \in Orders : Cardinality(Entries(o)) <= SumFunctionOnSet(charges, OffersFor(o))

\* An electronic order cancelled after its offerId was written is refunded.
ChosenIsRefunded ==
    \A o \in Orders :
        [](order[o].status = "inProgress" /\ order[o].offerId # NoOffer
               /\ order[o].paymentOption = "electronic"
             => [](order[o].status = "cancelled" => <>(Entries(o) # {})))

\* What the cancel dialog of an electronic order promises: the amount paid is
\* returned to the wallet.
PaidIsReturned ==
    \A o \in Orders :
        (order[o].status = "cancelled" /\ order[o].paymentOption = "electronic")
            ~> Refunded(o) = PaidFor(o)

\* The same promise about the amount alone: what is returned for an offer is
\* what its payment page charged.
ReturnsWhatWasPaid == \A t \in ledger : t.amount = Paid(t.offer)

-----------------------------------------------------------------------------
(* Why the money is right: an event carries the document as it was, and what   *)
(* makes a refund of it is not taken back until the refund is made.            *)

Charged(o, f) == f \in Offers /\ OrderOf[f] = o /\ charges[f] > 0

\* On any number of devices, what the function pays out is the price of an offer
\* the order's customer was charged for.
RefundsFollowCharges ==
    /\ \A e \in inbox : e.after.paymentOption = "electronic" /\ e.after.offerId # NoOffer =>
          Charged(e.order, e.after.offerId)
    /\ \A r \in runs : /\ r.offerId # NoOffer => Charged(r.order, r.offerId)
                       /\ r.pc # "getOffer" => r.offerId # NoOffer /\ r.price = Price[r.offerId]
    /\ \A t \in ledger : Charged(t.order, t.offer) /\ t.amount = Price[t.offer]

Cancellations(o) == {e \in inbox : e.order = o /\ Refund!Becomes(e, "cancelled")}

RunsFor(o) == {r \in runs : r.order = o}

Single(S) == \A x, y \in S : x = y

\* One device cancels an order once, so it has one refund to come, under way or
\* made.
OneRefund ==
    \A o \in Orders :
        /\ Cancellations(o) # {} \/ RunsFor(o) # {} \/ Entries(o) # {} =>
              order[o].status = "cancelled"
        /\ Single(Cancellations(o)) /\ Single(RunsFor(o)) /\ Single(Entries(o))
        /\ Cancellations(o) = {} \/ RunsFor(o) = {}
        /\ Entries(o) = {} \/ (Cancellations(o) = {} /\ RunsFor(o) = {})

-----------------------------------------------------------------------------
(* Why several devices are refunded no more often than they were charged: a    *)
(* charge is passed on from the payment page to the start write, the started   *)
(* document, its cancellation's event, the invocation and the entry.           *)

\* The pages whose charge for order o has not been answered.
ChargePages(o) ==
    UNION {{<<d, i>> : i \in {j \in DOMAIN nav[d] : /\ Charging(nav[d][j])
                                                   /\ OrderOf[nav[d][j].offer] = o}} : d \in Devices}

StartWrites(o) ==
    UNION {{<<d, i>> : i \in {j \in DOMAIN queue[d] : /\ queue[d][j].op = "start"
                                                     /\ queue[d][j].order = o}} : d \in Devices}

InProgress(o) == IF order[o].status = "inProgress" THEN 1 ELSE 0

\* Events and invocations that name an offer to refund.
RefundEvents(o) == {e \in Cancellations(o) : e.after.offerId # NoOffer}

RefundRuns(o) == {r \in RunsFor(o) : r.offerId # NoOffer}

Claims(o) == Cardinality(ChargePages(o)) + Cardinality(StartWrites(o)) + InProgress(o)
             + Cardinality(RefundEvents(o)) + Cardinality(RefundRuns(o)) + Cardinality(Entries(o))

\* Only electronic orders are refunded: the payment option of a document, which
\* its events carry, never changes.
RefundsAreElectronic ==
    /\ \A e \in inbox : Exists(e.order) /\ e.after.paymentOption = order[e.order].paymentOption
    /\ \A r \in runs : Exists(r.order) /\ Electronic(r.order)
    /\ \A t \in ledger : Exists(t.order) /\ Electronic(t.order)

\* For everything of an electronic order that may still become a refund or is
\* one there was a charge, on any number of devices.
ChargesCoverClaims ==
    \A o \in Orders : ~Exists(o) \/ Electronic(o) =>
        Claims(o) <= SumFunctionOnSet(charges, OffersFor(o))
=============================================================================
