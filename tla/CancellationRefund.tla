-------------------------- MODULE CancellationRefund --------------------------
(***************************************************************************)
(* functions/handle_order_cancellation.js: the Cloud Function that returns *)
(* the price of a cancelled electronic order to its customer's wallet.     *)
(*                                                                         *)
(* Firestore emits one event per update of an order document; the platform *)
(* delivers each at least once and in no particular order; an invocation   *)
(* reads the offer, then runs a transaction on the user document, which    *)
(* another commit to that document makes retry.                            *)
(*                                                                         *)
(* The order and offer documents belong to the app: this module reads them *)
(* and has an arbitrary environment that writes them. Marketplace replaces *)
(* that environment by the app itself. Amounts are in halalas.             *)
(***************************************************************************)
EXTENDS Integers, FiniteSets, Functions

CONSTANTS
    Orders, Offers, NoOffer,
    Price,          \* [Offers -> Nat]: the offer document's price
    Deployed,       \* functions/index.js exports the handler
    MaxDeliveries,  \* bound: deliveries of one event
    Redelivered,    \* bound: events that may be delivered more than once
    MaxAttempts,    \* attempts of one transaction before it gives up
    Faults,         \* which of AllFaults the environment may inject
    MaxEvents       \* bound: order updates of the arbitrary environment

AllFaults == {"crash", "touch", "lostReply"}

ASSUME RefundFaultsAssumption == Faults \subseteq AllFaults
ASSUME PriceAssumption == Price \in [Offers -> Nat]
ASSUME EmptyIdAssumption == NoOffer \notin Offers
ASSUME DeliveryAssumption == MaxDeliveries \in Nat \ {0} /\ MaxAttempts \in Nat \ {0}

VARIABLES
    order, offer,   \* the app's documents, as in OrderFlow
    sent,           \* events emitted so far
    inbox,          \* events the platform still has to deliver
    runs,           \* invocations in progress
    user,           \* the customer's document
    ledger,         \* the customer's transactions subcollection
    happened        \* history: the faults so far

functionVars == <<sent, inbox, runs, user, ledger, happened>>
refundVars == <<order, offer, functionVars>>

Status == {"none", "awaitingOffers", "inProgress", "cancelled"}

Doc == [status : Status, offerId : Offers \cup {NoOffer},
        paymentOption : {"cash", "electronic"}]

Event == [id : Nat, order : Orders, before : Status, after : Doc, left : 1..MaxDeliveries]

\* `fresh` says no commit has touched the user document since the transaction
\* read it.
Run == [id : Nat, delivery : 1..MaxDeliveries, order : Orders,
        offerId : Offers \cup {NoOffer}, pc : {"getOffer", "getUser", "commit"},
        price : Nat, balance : Nat, fresh : BOOLEAN, attempt : 1..MaxAttempts]

Entry == [id : Nat, delivery : 1..MaxDeliveries, attempt : 1..MaxAttempts,
          order : Orders, offer : Offers, amount : Nat]

-----------------------------------------------------------------------------
(* The platform *)

\* An order document went from `before` to `after`.
Emit(o, before, after) ==
    /\ sent' = sent + 1
    /\ IF Deployed
       THEN \E n \in 1..(IF sent' \in Redelivered THEN MaxDeliveries ELSE 1) :
              inbox' = inbox \cup {[id |-> sent + 1, order |-> o, before |-> before.status,
                                    after |-> after, left |-> n]}
       ELSE inbox' = inbox

\* Mutant: every update of an order that is not cancelled is a cancellation.
WasNot(e, status) == e.before # status

Becomes(e, status) == e.before # status /\ e.after.status = status

\* Mutant: cash orders are refunded as well.
AnyPayment(e) == TRUE

PaidByCard(e) == e.after.paymentOption = "electronic"

\* One delivery of e; the handler's guards end it at once, or it awaits the
\* offer document.
Invoke(e) ==
    /\ e \in inbox
    /\ inbox' = (inbox \ {e}) \cup
                (IF e.left > 1 THEN {[e EXCEPT !.left = @ - 1]} ELSE {})
    /\ runs' = IF Becomes(e, "cancelled") /\ PaidByCard(e)
               THEN runs \cup {[id |-> e.id, delivery |-> e.left, order |-> e.order,
                                offerId |-> e.after.offerId, pc |-> "getOffer",
                                price |-> 0, balance |-> 0, fresh |-> FALSE, attempt |-> 1]}
               ELSE runs
    /\ UNCHANGED <<order, offer, sent, user, ledger, happened>>

-----------------------------------------------------------------------------
(* The handler between its awaits *)

\* Bound: each fault happens once.
Happens(fault) == fault \in Faults \ happened /\ happened' = happened \cup {fault}

Step(r, next) == runs' = (runs \ {r}) \cup {next}

End(r) == runs' = runs \ {r}

\* Mutant: the offer's status is checked as well.
OfferAccepted(f) == f # NoOffer /\ offer[f] = "accepted"

OfferExists(f) == f # NoOffer /\ offer[f] # "none"

\* doc("") throws and is caught; a missing document is logged: both end here.
GetOffer(r) ==
    /\ r \in runs /\ r.pc = "getOffer"
    /\ IF OfferExists(r.offerId)
       THEN Step(r, [r EXCEPT !.pc = "getUser", !.price = Price[r.offerId]])
       ELSE End(r)
    /\ UNCHANGED <<order, offer, sent, inbox, user, ledger, happened>>

\* transaction.get(userRef); "No such user document!" is thrown and caught.
GetUser(r) ==
    /\ r \in runs /\ r.pc = "getUser"
    /\ IF user.exists
       THEN Step(r, [r EXCEPT !.pc = "commit", !.balance = user.balance, !.fresh = TRUE])
       ELSE End(r)
    /\ UNCHANGED <<order, offer, sent, inbox, user, ledger, happened>>

Stale(S) == {[r EXCEPT !.fresh = FALSE] : r \in S}

\* Mutant: the balance is written outside the transaction.
Unconditional(r) == TRUE

\* The commit succeeds: nothing wrote the user document since r read it.
Serializable(r) == r.fresh

\* Mutant: the refund stays scheduled after its success.
Rescheduled(r) == Stale(runs)

Committed(r) == Stale(runs \ {r})

\* Mutants: the attempts are off by one; a conflict is final.
MayRetryOnceMore(r) == r.attempt <= MaxAttempts

NeverRetries(r) == FALSE

MayRetry(r) == r.attempt < MaxAttempts

\* The transaction's two writes take effect together. The server's answer ends
\* the invocation, or is lost, an error the client retries like a conflict.
Commit(r) ==
    /\ r \in runs /\ r.pc = "commit" /\ Serializable(r)
    /\ user' = [user EXCEPT !.balance = r.balance + r.price]
    /\ ledger' = ledger \cup {[id |-> r.id, delivery |-> r.delivery, attempt |-> r.attempt,
                               order |-> r.order, offer |-> r.offerId, amount |-> r.price]}
    /\ \/ runs' = Committed(r) /\ UNCHANGED happened
       \/ runs' = Stale(runs) /\ Happens("lostReply")
    /\ UNCHANGED <<order, offer, sent, inbox>>

\* A transaction that lost the race runs its function again, until it has used
\* its attempts and rejects into the handler's catch.
Retry(r) ==
    /\ r \in runs /\ r.pc = "commit" /\ ~r.fresh
    /\ IF MayRetry(r)
       THEN Step(r, [r EXCEPT !.pc = "getUser", !.attempt = @ + 1])
       ELSE End(r)
    /\ UNCHANGED <<order, offer, sent, inbox, user, ledger, happened>>

\* The instance dies or times out; the trigger sets no retry policy.
Crash(r) ==
    /\ Happens("crash")
    /\ r \in runs /\ End(r)
    /\ UNCHANGED <<order, offer, sent, inbox, user, ledger>>

\* The app updates the user document without touching the balance (fcmToken).
TouchUser ==
    /\ Happens("touch")
    /\ \E r \in runs : r.fresh
    /\ runs' = Stale(runs)
    /\ UNCHANGED <<order, offer, sent, inbox, user, ledger>>

Handle(r) == GetOffer(r) \/ GetUser(r) \/ Commit(r) \/ Retry(r)

Functions == \/ \E e \in inbox : Invoke(e)
             \/ \E r \in runs : Handle(r) \/ Crash(r)
             \/ TouchUser

FunctionInit ==
    /\ sent = 0 /\ inbox = {} /\ runs = {} /\ ledger = {} /\ happened = {}
    /\ user \in [exists : BOOLEAN, balance : {0}]

-----------------------------------------------------------------------------
(* The arbitrary environment *)

UpdateOrder(o) ==
    /\ sent < MaxEvents
    /\ \E s \in Status \ {"none"}, f \in Offers \cup {NoOffer} :
         LET after == [order[o] EXCEPT !.status = s, !.offerId = f]
         IN  /\ after # order[o]
             /\ order' = [order EXCEPT ![o] = after]
             /\ Emit(o, order[o], after)
    /\ UNCHANGED <<offer, runs, user, ledger, happened>>

Init ==
    /\ order \in [Orders -> {d \in Doc : d.status = "awaitingOffers" /\ d.offerId = NoOffer}]
    /\ offer \in [Offers -> {"none", "pending"}]
    /\ FunctionInit

Next == Functions \/ \E o \in Orders : UpdateOrder(o)

Spec == Init /\ [][Next]_refundVars

\* The platform delivers every event and runs every invocation to its end.
Fairness == /\ WF_refundVars(\E e \in inbox : Invoke(e))
            /\ WF_refundVars(\E r \in runs : Handle(r))

FairSpec == Spec /\ Fairness

-----------------------------------------------------------------------------
(* Properties *)

TypeOK ==
    /\ sent \in Nat
    /\ inbox \subseteq Event
    /\ runs \subseteq Run
    /\ user \in [exists : BOOLEAN, balance : Nat]
    /\ ledger \subseteq Entry
    /\ happened \subseteq AllFaults

Total(S) == SumFunctionOnSet([t \in S |-> t.amount], S)

\* The wallet balance is the sum of the recorded transactions, however
\* invocations of different orders and other writes to the user document
\* interleave: the read-modify-write of the balance loses no refund.
BalanceMatchesLedger == user.balance = Total(ledger)

\* The same step by step: a transaction that takes effect adds one entry and its
\* amount to the balance as it stands at that moment, not as the transaction
\* read it; an entry is never written twice, and nothing else moves either.
BalanceFollowsLedger ==
    [][\/ user'.balance = user.balance /\ ledger' = ledger
       \/ \E t \in ledger' \ ledger : /\ ledger' = ledger \cup {t}
                                      /\ user'.balance = user.balance + t.amount]_refundVars

SameDelivery(s, t) == s.id = t.id /\ s.delivery = t.delivery

\* A delivery refunds at most once, also when the event is delivered again, its
\* instance dies, or its transaction runs several times because other
\* invocations or the app write the user document. Only a commit whose reply
\* was lost is repeated.
OneEntryPerDelivery ==
    "lostReply" \notin happened =>
        \A s, t \in ledger : SameDelivery(s, t) => s = t

\* Every cancellation the handler accepts is refunded in the end if its offer
\* and user exist: without faults, no order of deliveries and no conflict
\* between refunds leaves an invocation half done.
CancellationRefunded ==
    \A i \in 1..MaxEvents, o \in Orders, f \in Offers :
        (\E e \in inbox : /\ e.id = i /\ e.order = o /\ e.after.offerId = f
                          /\ Becomes(e, "cancelled") /\ PaidByCard(e)
                          /\ OfferExists(f) /\ user.exists)
            ~> (happened # {} \/ \E t \in ledger : t.id = i /\ t.order = o /\ t.offer = f)
=============================================================================
