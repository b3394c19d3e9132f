------------------------------ MODULE OrderFlow ------------------------------
(***************************************************************************)
(* The life of a service order in the customer app: the screens it is      *)
(* placed, accepted, paid and cancelled from, the three service functions  *)
(* of lib/services/send_order.dart, and the write queue of the Firestore   *)
(* client that carries their updates to the order and offer documents.     *)
(*                                                                         *)
(* A service function is a chain of awaited single-document writes, so a   *)
(* call in progress IS the write it awaits: acknowledging the write runs   *)
(* the code up to the next await, which enqueues the next write, or up to  *)
(* the end of the function, which pops and pushes routes.                  *)
(***************************************************************************)
EXTENDS Naturals, Sequences, FiniteSets

CONSTANTS
    Devices,      \* installations of the app signed in as one customer
    Orders,       \* ids that collection("orders").doc() may generate
    Offers,       \* offers providers may make
    OrderOf,      \* [Offers -> Orders]: the offer's orderId field
    NoOrder,      \* a route that shows no order
    NoOffer,      \* the empty offerId ""
    Faults,       \* which of AllFaults the environment may inject
    MaxQueue,     \* bound: pending writes of a device when a call starts
    MaxCharges    \* bound: charges of one offer's payment page

AllFaults == {"kill", "reject", "lostResult", "unanswered"}

ASSUME OrderOfAssumption == OrderOf \in [Offers -> Orders]
ASSUME SentinelAssumption == NoOrder \notin Orders /\ NoOffer \notin Offers
ASSUME DevicesAssumption == Devices # {}
ASSUME FaultsAssumption == Faults \subseteq AllFaults
ASSUME BoundsAssumption == MaxQueue \in Nat \ {0} /\ MaxCharges \in Nat \ {0}

VARIABLES
    order,        \* order documents on the server
    offer,        \* status field of the offer documents on the server
    issued,       \* order ids already generated, whether or not the create succeeded
    queue,        \* per device: pending writes, oldest first
    nav,          \* per device: the Navigator's stack, home first
    charges,      \* per offer: times a card was charged for it
    ahead         \* per device: pending writes the server has already applied

vars == <<order, offer, issued, queue, nav, charges, ahead>>

-----------------------------------------------------------------------------
(* Documents, writes and routes *)

OrderStatus == {"none", "awaitingOffers", "inProgress", "cancelled"}
OfferStatus == {"none", "pending", "accepted", "orderCancelled"}
PaymentOption == {"cash", "electronic"}

OrderDoc == [status : OrderStatus, offerId : Offers \cup {NoOffer},
             paymentOption : PaymentOption]

NoDoc == [status |-> "none", offerId |-> NoOffer, paymentOption |-> "cash"]

NewOrder(p) == [status |-> "awaitingOffers", offerId |-> NoOffer, paymentOption |-> p]

\* The awaited writes, named for what they do: orderDoc.set, the three updates
\* of acceptOffer, the two of cancelOrder.
Op == {"create", "start", "choose", "accept", "cancel", "withdraw"}

\* `at` is the stack position of the route whose BuildContext the call
\* captured, 0 once that route has left the stack; `live` says the process that
\* awaits the write still runs.
Write == {w \in [op : Op, order : Orders, offer : Offers \cup {NoOffer},
                 paymentOption : PaymentOption, at : Nat, live : BOOLEAN] :
             w.op \in {"start", "choose", "accept", "withdraw"} => w.offer \in Offers}

Page == {"home", "form", "order", "sheet", "dialog", "payment", "result"}

\* `snap` is the OrderModel a page was built with and keeps showing; `busy` is
\* the form's _loading, and on the payment page a charge whose result is due.
Route == {r \in [page : Page, order : Orders \cup {NoOrder}, snap : OrderDoc,
                 offer : Offers \cup {NoOffer}, busy : BOOLEAN] :
             /\ r.page \in {"order", "sheet", "dialog"} => r.order \in Orders
             /\ r.page \in {"sheet", "payment"} => r.offer \in Offers}

Screen(p, o, s, f) == [page |-> p, order |-> o, snap |-> s, offer |-> f, busy |-> FALSE]

Plain(p) == Screen(p, NoOrder, NoDoc, NoOffer)

-----------------------------------------------------------------------------
(* The Navigator *)

Top(d) == nav[d][Len(nav[d])]

On(d, p) == nav[d] # <<>> /\ Top(d).page = p

\* n calls of Navigator.pop; popping an empty history changes nothing.
Popped(stack, n) == SubSeq(stack, 1, IF Len(stack) > n THEN Len(stack) - n ELSE 0)

\* Contexts captured above position n are unmounted.
Unmount(q, n) ==
    [i \in DOMAIN q |-> IF q[i].at > n THEN [q[i] EXCEPT !.at = 0] ELSE q[i]]

\* Device d shows `stack`, of which the lowest `kept` routes are old ones.
Show(d, stack, kept, q) ==
    /\ nav' = [nav EXCEPT ![d] = stack]
    /\ queue' = [queue EXCEPT ![d] = Unmount(q, kept)]

Push(d, r) == Show(d, Append(nav[d], r), Len(nav[d]), queue[d])

Pop(d, n, q) == LET s == Popped(nav[d], n) IN Show(d, s, Len(s), q)

-----------------------------------------------------------------------------
(* What device d reads: the server's document under its own pending writes *)

Newest(S) == {i \in S : \A j \in S : j <= i}

StatusWrites(d, o) ==
    {i \in DOMAIN queue[d] : /\ queue[d][i].order = o
                             /\ queue[d][i].op \in {"create", "start", "cancel"}}

StatusSet(op) == CASE op = "create" -> "awaitingOffers"
                   [] op = "start" -> "inProgress"
                   [] op = "cancel" -> "cancelled"
                   [] OTHER -> "none"

ViewStatus(d, o) ==
    LET last == Newest(StatusWrites(d, o))
    IN  IF last = {} THEN order[o].status ELSE StatusSet(queue[d][CHOOSE i \in last : TRUE].op)

ViewOfferId(d, o) ==
    LET last == Newest({i \in DOMAIN queue[d] : /\ queue[d][i].order = o
                                                /\ queue[d][i].op = "choose"})
    IN  IF last = {} THEN order[o].offerId ELSE queue[d][CHOOSE i \in last : TRUE].offer

ViewPayment(d, o) ==
    LET creates == {i \in DOMAIN queue[d] : /\ queue[d][i].order = o
                                            /\ queue[d][i].op = "create"}
    IN  IF creates = {} THEN order[o].paymentOption
        ELSE queue[d][CHOOSE i \in creates : TRUE].paymentOption

ViewOrder(d, o) == [status |-> ViewStatus(d, o), offerId |-> ViewOfferId(d, o),
                    paymentOption |-> ViewPayment(d, o)]

\* Offer f is in streamAllOffers(o): its status, under pending updates, is pending.
ListedForOrder(d, o, f) ==
    /\ OrderOf[f] = o
    /\ offer[f] = "pending"
    /\ \A i \in DOMAIN queue[d] :
          queue[d][i].op \in {"accept", "withdraw"} => queue[d][i].offer # f

-----------------------------------------------------------------------------
(* The service functions up to their first await *)

MayCall(d) == Len(queue[d]) < MaxQueue

Call(op, o, f, p, at) == [op |-> op, order |-> o, offer |-> f, paymentOption |-> p,
                          at |-> at, live |-> TRUE]

\* Mutant: acceptOffer writes the offerId before the status.
ChoosesFirst == "choose"

\* The first write of acceptOffer.
AcceptsWith == "start"

\* sendOrder: doc() generates an id, set(json) is enqueued; the form's button
\* has set _loading, which nothing resets.
SendOrder(d, o, p) ==
    /\ On(d, "form") /\ ~Top(d).busy /\ MayCall(d)
    /\ o \notin issued
    /\ issued' = issued \cup {o}
    /\ queue' = [queue EXCEPT ![d] = Append(@, Call("create", o, NoOffer, p, Len(nav[d])))]
    /\ nav' = [nav EXCEPT ![d][Len(nav[d])].busy = TRUE]
    /\ UNCHANGED <<order, offer, charges>>

\* "Accept offer" on the sheet of a cash order: acceptOffer, no loading guard.
AcceptOfferCash(d) ==
    /\ On(d, "sheet") /\ Top(d).snap.paymentOption # "electronic" /\ MayCall(d)
    /\ queue' = [queue EXCEPT ![d] =
          Append(@, Call(AcceptsWith, Top(d).order, Top(d).offer, "cash", Len(nav[d])))]
    /\ UNCHANGED <<order, offer, issued, nav, charges>>

\* Mutant: every result of the gateway takes the paid branch.
AnyResult(r) == TRUE

\* The gateway's answer to the page's charge is paid.
IsPaid(r) == r.busy

\* PaymentStatus.paid: acceptOffer is called and not awaited, the payment page
\* is replaced by a result page, and control falls through to a second push.
OnPaymentPaid(d) ==
    /\ On(d, "payment") /\ IsPaid(Top(d)) /\ MayCall(d)
    /\ LET n == Len(nav[d]) - 1
           f == Top(d).offer
       IN  Show(d, Popped(nav[d], 1) \o <<Plain("result"), Plain("result")>>, n,
                Append(queue[d], Call(AcceptsWith, OrderOf[f], f, "electronic", n + 1)))
    /\ UNCHANGED <<order, offer, issued, charges>>

\* "OK" of the cancel dialog: cancelOrder with the page's snapshot of offerId
\* and the page's context; the dialog stays open.
CancelOrder(d) ==
    /\ On(d, "dialog") /\ MayCall(d)
    /\ queue' = [queue EXCEPT ![d] =
          Append(@, Call("cancel", Top(d).order, Top(d).snap.offerId,
                         Top(d).snap.paymentOption, Len(nav[d]) - 1))]
    /\ UNCHANGED <<order, offer, issued, nav, charges>>

-----------------------------------------------------------------------------
(* The screens *)

Browse(d, r) == Push(d, r) /\ UNCHANGED <<order, offer, issued, charges>>

OpenForm(d) == On(d, "home") /\ Browse(d, Plain("form"))

OpenOrder(d, o) ==
    /\ On(d, "home")
    /\ ViewStatus(d, o) # "none"
    /\ Browse(d, Screen("order", o, ViewOrder(d, o), NoOffer))

\* Mutant: offers are tappable whatever the order's status.
AlwaysTappable(r) == TRUE

\* Offers are tappable while the page's snapshot still awaits offers.
Tappable(r) == r.snap.status = "awaitingOffers"

ShowOffer(d, f) ==
    /\ On(d, "order") /\ Tappable(Top(d))
    /\ ListedForOrder(d, Top(d).order, f)
    /\ Browse(d, Screen("sheet", Top(d).order, Top(d).snap, f))

\* Mutant: the cancel button is always shown.
AlwaysCancellable(r) == TRUE

\* The page shows the cancel button.
Cancellable(r) == r.snap.status = "inProgress"

AskCancel(d) ==
    /\ On(d, "order") /\ Cancellable(Top(d))
    /\ Browse(d, Screen("dialog", Top(d).order, Top(d).snap, NoOffer))

\* Mutant: the payment page opens over the order page and its sheet.
PayOverSheet(d) ==
    /\ On(d, "sheet") /\ Top(d).snap.paymentOption = "electronic"
    /\ Browse(d, Screen("payment", NoOrder, NoDoc, Top(d).offer))

\* "Accept offer" on the sheet of an electronic order: two pops, PaymentPage.
AcceptOfferElectronic(d) ==
    /\ On(d, "sheet") /\ Top(d).snap.paymentOption = "electronic"
    /\ LET s == Popped(nav[d], 2)
       IN  Show(d, Append(s, Screen("payment", NoOrder, NoDoc, Top(d).offer)),
                Len(s), queue[d])
    /\ UNCHANGED <<order, offer, issued, charges>>

\* The payment gateway charges the card; its answer is on the way.
PaymentCaptured(d) ==
    /\ On(d, "payment") /\ ~Top(d).busy
    /\ charges[Top(d).offer] < MaxCharges
    /\ charges' = [charges EXCEPT ![Top(d).offer] = @ + 1]
    /\ nav' = [nav EXCEPT ![d][Len(nav[d])].busy = TRUE]
    /\ UNCHANGED <<order, offer, issued, queue>>

\* Any result but paid: a result page on top of the payment page. After a
\* charge this needs the paid answer to be lost ("lostResult").
OnPaymentOther(d) ==
    /\ On(d, "payment")
    /\ Top(d).busy => "lostResult" \in Faults
    /\ Show(d, Append([nav[d] EXCEPT ![Len(nav[d])].busy = FALSE], Plain("result")),
            Len(nav[d]), queue[d])
    /\ UNCHANGED <<order, offer, issued, charges>>

\* The root route has no back button. Leaving the payment page while a charge
\* is in progress disposes the State whose context onPaymentResult needs, so it
\* throws before it accepts ("lostResult").
Back(d) ==
    /\ Len(nav[d]) > 1
    /\ (Top(d).page = "payment" /\ Top(d).busy) => "lostResult" \in Faults
    /\ Pop(d, 1, queue[d])
    /\ UNCHANGED <<order, offer, issued, charges>>

-----------------------------------------------------------------------------
(* Acknowledgements: the head of the queue is committed, the call resumes *)

Ready(d, op) == queue[d] # <<>> /\ Head(queue[d]).op = op

TargetExists(w) ==
    CASE w.op = "create" -> TRUE
      [] w.op \in {"accept", "withdraw"} -> offer[w.offer] # "none"
      [] OTHER -> order[w.order].status # "none"

\* Mutant: the provider is told before the order names the offer.
AcceptsBeforeChoosing(w) == IF w.op = "start" THEN "accept" ELSE "end"

\* Mutant: acceptOffer does not update the offer.
NeverAccepts(w) == IF w.op = "start" THEN "choose" ELSE "end"

\* Mutant: cancelOrder goes on with an empty offerId.
WithdrawsNothing(w) == IF w.op = "cancel" THEN "withdraw" ELSE "end"

\* The write a call awaits after w. With an empty offerId the second update of
\* cancelOrder throws on the path "offers/" and the function ends in its catch.
Following(w) == CASE w.op = "start" -> "choose"
                  [] w.op = "choose" -> "accept"
                  [] w.op = "cancel" /\ w.offer # NoOffer -> "withdraw"
                  [] OTHER -> "end"

\* A running call goes on to its next write; an orphaned one ends here.
Continue(d, w) ==
    queue' = [queue EXCEPT ![d] = IF w.live /\ Following(w) # "end"
                                  THEN Append(Tail(@), [w EXCEPT !.op = Following(w)])
                                  ELSE Tail(@)]

\* The closing Navigator calls of a function act on whatever is on top, if the
\* captured context is mounted; a context that left the stack is still mounted
\* while its exit transition runs, and throws after it.
Resumes(w) == {w.live} \cup (IF w.at = 0 THEN {FALSE} ELSE {})

PopBoth(d, w) == \E go \in Resumes(w) : Pop(d, IF go THEN 2 ELSE 0, Tail(queue[d]))

\* The end of sendOrder, which a rejected set reaches as well: pop the form,
\* open the page of the OrderModel that was built before the write.
ShowSent(d, w) ==
    \E go \in Resumes(w) :
       IF go /\ nav[d] # <<>>
       THEN LET s == Popped(nav[d], 1)
            IN  Show(d, Append(s, Screen("order", w.order, NewOrder(w.paymentOption), NoOffer)),
                     Len(s), Tail(queue[d]))
       ELSE Pop(d, 0, Tail(queue[d]))

AckCreate(d) ==
    /\ Ready(d, "create")
    /\ LET w == Head(queue[d]) IN
         /\ order' = [order EXCEPT ![w.order] = NewOrder(w.paymentOption)]
         /\ ShowSent(d, w)
    /\ UNCHANGED <<offer, issued, charges>>

\* order.update({status: in progress})
AckStart(d) ==
    /\ Ready(d, "start")
    /\ LET w == Head(queue[d]) IN
         /\ TargetExists(w)
         /\ order' = [order EXCEPT ![w.order].status = "inProgress"]
         /\ Continue(d, w)
    /\ UNCHANGED <<offer, issued, nav, charges>>

\* order.update({offerId})
AckChoose(d) ==
    /\ Ready(d, "choose")
    /\ LET w == Head(queue[d]) IN
         /\ TargetExists(w)
         /\ order' = [order EXCEPT ![w.order].offerId = w.offer]
         /\ Continue(d, w)
    /\ UNCHANGED <<offer, issued, nav, charges>>

\* offer.update({status: accepted}), then two pops
AckAccept(d) ==
    /\ Ready(d, "accept")
    /\ LET w == Head(queue[d]) IN
         /\ TargetExists(w)
         /\ offer' = [offer EXCEPT ![w.offer] = "accepted"]
         /\ PopBoth(d, w)
    /\ UNCHANGED <<order, issued, charges>>

\* order.update({status: cancelled})
AckCancel(d) ==
    /\ Ready(d, "cancel")
    /\ LET w == Head(queue[d]) IN
         /\ TargetExists(w)
         /\ order' = [order EXCEPT ![w.order].status = "cancelled"]
         /\ Continue(d, w)
    /\ UNCHANGED <<offer, issued, nav, charges>>

\* offer.update({status: order cancelled}), then two pops
AckWithdraw(d) ==
    /\ Ready(d, "withdraw")
    /\ LET w == Head(queue[d]) IN
         /\ TargetExists(w)
         /\ offer' = [offer EXCEPT ![w.offer] = "orderCancelled"]
         /\ PopBoth(d, w)
    /\ UNCHANGED <<order, issued, charges>>

Ack(d) == \/ AckCreate(d) \/ AckStart(d) \/ AckChoose(d)
          \/ AckAccept(d) \/ AckCancel(d) \/ AckWithdraw(d)

\* The server refuses the next write it is to apply.
Refusable(d) ==
    /\ ahead[d] < Len(queue[d])
    /\ "reject" \in Faults \/ ~TargetExists(queue[d][ahead[d] + 1])

\* Mutant: the closing pop and push of sendOrder are inside its try.
RejectStays(d) ==
    /\ queue[d] # <<>> /\ Refusable(d)
    /\ Pop(d, 0, Tail(queue[d]))
    /\ UNCHANGED <<order, offer, issued, charges>>

\* A permanent write error: the client drops the oldest write, for whichever
\* write the error was meant, and its call ends in its catch.
Reject(d) ==
    /\ queue[d] # <<>> /\ Refusable(d)
    /\ IF Ready(d, "create") THEN ShowSent(d, Head(queue[d]))
       ELSE Pop(d, 0, Tail(queue[d]))
    /\ UNCHANGED <<order, offer, issued, charges>>

-----------------------------------------------------------------------------
(* Writes whose answer is late or lost ("unanswered"): the client sends its   *)
(* whole queue, and sends it again from the start after every interruption    *)

UpdatedOrder(w) == CASE w.op = "create" -> NewOrder(w.paymentOption)
                     [] w.op = "choose" -> [order[w.order] EXCEPT !.offerId = w.offer]
                     [] w.op \in {"start", "cancel"} ->
                            [order[w.order] EXCEPT !.status = StatusSet(w.op)]
                     [] OTHER -> order[w.order]

UpdatedOffer(w) == CASE w.op = "accept" -> "accepted"
                     [] w.op = "withdraw" -> "orderCancelled"
                     [] OTHER -> offer[w.offer]

\* The server applies a write; its answer is on the way.
ApplyAhead(d) ==
    /\ ahead[d] < Len(queue[d])
    /\ LET w == queue[d][ahead[d] + 1] IN
         /\ TargetExists(w)
         /\ order' = [order EXCEPT ![w.order] = UpdatedOrder(w)]
         /\ offer' = IF w.offer = NoOffer THEN offer ELSE [offer EXCEPT ![w.offer] = UpdatedOffer(w)]
    /\ ahead' = [ahead EXCEPT ![d] = @ + 1]
    /\ UNCHANGED <<issued, queue, nav, charges>>

\* The answer to the oldest write arrives and its call resumes.
Answer(d) ==
    /\ queue[d] # <<>> /\ ahead[d] > 0
    /\ LET w == Head(queue[d]) IN
         \/ w.op = "create" /\ ShowSent(d, w)
         \/ w.op \in {"accept", "withdraw"} /\ PopBoth(d, w)
         \/ w.op \in {"start", "choose", "cancel"} /\ Continue(d, w) /\ UNCHANGED nav
    /\ ahead' = [ahead EXCEPT ![d] = @ - 1]
    /\ UNCHANGED <<order, offer, issued, charges>>

\* The connection is lost and made again: the server skips nothing of what is
\* sent again, for the new stream's handshake carries no stream token.
Reconnect(d) ==
    /\ ahead[d] > 0
    /\ ahead' = [ahead EXCEPT ![d] = 0]
    /\ UNCHANGED <<order, offer, issued, queue, nav, charges>>

Unanswered(d) == "unanswered" \in Faults /\ (ApplyAhead(d) \/ Answer(d) \/ Reconnect(d))

-----------------------------------------------------------------------------
(* The environment *)

\* The process dies and is started again: routes and calls are lost, the
\* client's persisted write queue is not.
Kill(d) ==
    /\ "kill" \in Faults
    /\ nav' = [nav EXCEPT ![d] = <<Plain("home")>>]
    /\ queue' = [queue EXCEPT ![d] =
          [i \in DOMAIN @ |-> [@[i] EXCEPT !.at = 0, !.live = FALSE]]]
    /\ UNCHANGED <<order, offer, issued, charges>>

\* A provider offers on an order it can see.
MakeOffer(f) ==
    /\ offer[f] = "none" /\ order[OrderOf[f]].status # "none"
    /\ offer' = [offer EXCEPT ![f] = "pending"]
    /\ UNCHANGED <<order, issued, queue, nav, charges>>

-----------------------------------------------------------------------------
Init ==
    /\ order = [o \in Orders |-> NoDoc]
    /\ offer = [f \in Offers |-> "none"]
    /\ issued = {}
    /\ queue = [d \in Devices |-> <<>>]
    /\ nav = [d \in Devices |-> <<Plain("home")>>]
    /\ charges = [f \in Offers |-> 0]
    /\ ahead = [d \in Devices |-> 0]

Tap(d) ==
    \/ OpenForm(d) \/ AskCancel(d) \/ Back(d)
    \/ AcceptOfferCash(d) \/ AcceptOfferElectronic(d) \/ CancelOrder(d)
    \/ \E o \in Orders : OpenOrder(d, o)
    \/ \E f \in Offers : ShowOffer(d, f)
    \/ \E o \in Orders, p \in PaymentOption : SendOrder(d, o, p)

Gateway(d) == PaymentCaptured(d) \/ OnPaymentPaid(d) \/ OnPaymentOther(d)

Answered(d) == ahead[d] = 0 /\ Ack(d)

Next ==
    \/ \E d \in Devices : (Tap(d) \/ Gateway(d) \/ Answered(d)) /\ UNCHANGED ahead
    \/ \E d \in Devices : (Reject(d) \/ Kill(d)) /\ ahead' = [ahead EXCEPT ![d] = 0]
    \/ \E d \in Devices : Unanswered(d)
    \/ \E f \in Offers : MakeOffer(f) /\ UNCHANGED ahead

Spec == Init /\ [][Next]_vars

\* The oldest write of device d is answered.
Deliver(d) ==
    \/ Answered(d) /\ UNCHANGED ahead
    \/ Reject(d) /\ ahead' = [ahead EXCEPT ![d] = 0]
    \/ "unanswered" \in Faults /\ Answer(d)

\* The client sends its queue again until the server answers, over restarts
\* too; nothing obliges a user, a provider or the gateway to act.
FairSpec == Spec /\ \A d \in Devices : WF_vars(Deliver(d))

-----------------------------------------------------------------------------
(* Properties *)

DocsOK ==
    /\ order \in [Orders -> OrderDoc]
    /\ offer \in [Offers -> OfferStatus]
    /\ issued \subseteq Orders
    /\ queue \in [Devices -> Seq(Write)]
    /\ nav \in [Devices -> Seq(Route)]
    /\ charges \in [Offers -> Nat]

TypeOK == DocsOK /\ ahead \in [Devices -> Nat]

Started(o) == order[o].status \in {"inProgress", "cancelled"}

\* A provider told that its offer is accepted has an order to work on: whatever
\* devices, restarts and rejected writes interleave the three awaited writes of
\* acceptOffer, the offer is marked last, after its order was started and given
\* an offerId.
AcceptedOfferMeansStarted ==
    \A f \in Offers : offer[f] = "accepted" =>
        Started(OrderOf[f]) /\ order[OrderOf[f]].offerId # NoOffer

\* The offerId that acceptOffer writes into an order, and that cancelOrder and
\* the refund function later follow, is an existing offer made for that order,
\* and it never appears on an order that was not started first.
ChosenOfferBelongs ==
    \A o \in Orders : order[o].offerId # NoOffer =>
        /\ Started(o)
        /\ OrderOf[order[o].offerId] = o
        /\ offer[order[o].offerId] # "none"

\* Electronic orders are not served unpaid: no restart, lost answer, rejected
\* write or second device makes acceptOffer run for an offer whose card payment
\* was not charged (payment.dart reaches it from the paid branch only).
ElectronicPaidFirst ==
    \A o \in Orders : order[o].paymentOption = "electronic" =>
        /\ Started(o) => \E f \in Offers : OrderOf[f] = o /\ charges[f] > 0
        /\ \A f \in Offers : (OrderOf[f] = o /\ (order[o].offerId = f \/ offer[f] = "accepted"))
                => charges[f] > 0

\* With one device and no lost answers an electronic order has at most one
\* accepted offer, for the pending start write hides the order's offers from
\* every page opened after the payment. It is also charged at most once, if it
\* is the only order placed: the closing pop of another order's sendOrder may
\* close the payment page while the charge is made, and the customer pays again.
ElectronicOnce ==
    \A o \in Orders : order[o].paymentOption = "electronic" =>
        \A f, g \in Offers : (OrderOf[f] = o /\ OrderOf[g] = o) =>
            /\ issued = {o} => charges[f] <= 1
            /\ (issued = {o} /\ charges[f] > 0 /\ charges[g] > 0) => f = g
            /\ (offer[f] = "accepted" /\ offer[g] = "accepted") => f = g

\* Cancelling is final: a cancelled order is never started again by a write
\* that was queued, awaited or tapped before the cancellation.
CancelledIsFinal ==
    [][\A o \in Orders : order[o].status = "cancelled" => order'[o].status = "cancelled"]_vars

\* No device has a write of order o to be answered or a page of it open.
Settled(o) ==
    \A d \in Devices :
        /\ \A i \in DOMAIN queue[d] : queue[d][i].order # o
        /\ \A i \in DOMAIN nav[d] :
              /\ nav[d][i].order # o
              /\ nav[d][i].page = "payment" => OrderOf[nav[d][i].offer] # o

\* A cancelled order stays cancelled once its writes are answered and its pages
\* closed, also when the client sent a start and a cancel again because their
\* answers were lost and the order was for a moment in progress again.
SettledIsFinal ==
    \A o \in Orders :
        []((order[o].status = "cancelled" /\ Settled(o)) => [](order[o].status = "cancelled"))

\* A started order gets its provider: the acceptOffer call that wrote the first
\* status comes to its third write unless the customer cancels.
StartedGetsProvider ==
    \A o \in Orders : order[o].status = "inProgress" ~>
        \/ order[o].status = "cancelled"
        \/ order[o].offerId # NoOffer /\ offer[order[o].offerId] = "accepted"

\* A submitted form is left: its _loading is set and never reset, so whatever
\* becomes of the write, sendOrder must come to its pop.
FormReleased ==
    \A d \in Devices :
        (\E i \in DOMAIN nav[d] : nav[d][i].page = "form" /\ nav[d][i].busy)
            ~> ~\E i \in DOMAIN nav[d] : nav[d][i].page = "form" /\ nav[d][i].busy

-----------------------------------------------------------------------------
(* Why the properties of all devices hold: what every queued write and every   *)
(* open page knows of the documents, which only move forward.                   *)

Exists(o) == order[o].status # "none"

Electronic(o) == order[o].paymentOption = "electronic"

PaidSomehow(o) == \E f \in Offers : OrderOf[f] = o /\ charges[f] > 0

Acceptable(f) == offer[f] # "none" /\ (Electronic(OrderOf[f]) => charges[f] > 0)

SoundWrite(w) ==
    /\ w.order \in issued
    /\ w.op = "create" <=> ~Exists(w.order)
    /\ w.op \in {"start", "choose", "accept"} =>
          OrderOf[w.offer] = w.order /\ Acceptable(w.offer)
    /\ w.op \in {"choose", "accept"} => Started(w.order)
    /\ w.op = "accept" => order[w.order].offerId # NoOffer
    /\ w.op = "cancel" /\ Electronic(w.order) => PaidSomehow(w.order)
    /\ w.op \in {"cancel", "withdraw"} /\ w.offer # NoOffer => offer[w.offer] # "none"

SoundSnapshot(r) ==
    /\ r.order \in issued
    /\ Exists(r.order) => r.snap.paymentOption = order[r.order].paymentOption
    /\ r.snap.status = "inProgress" =>
          Exists(r.order) /\ (Electronic(r.order) => PaidSomehow(r.order))
    /\ r.snap.offerId # NoOffer => offer[r.snap.offerId] # "none"

SoundRoute(r) ==
    /\ r.page \in {"order", "sheet", "dialog"} => SoundSnapshot(r)
    /\ r.page = "dialog" => r.snap.status = "inProgress"
    /\ r.page = "sheet" => OrderOf[r.offer] = r.order
    /\ r.page \in {"sheet", "payment"} => offer[r.offer] # "none"
    /\ r.page = "payment" /\ r.busy => charges[r.offer] > 0

\* An order document is created once.
CreatedOnce ==
    \A d, e \in Devices : \A i \in DOMAIN queue[d], j \in DOMAIN queue[e] :
        (queue[d][i].op = "create" /\ queue[e][j].op = "create"
            /\ queue[d][i].order = queue[e][j].order) => d = e /\ i = j

\* A page opened on an order whose creation is pending shows what it creates.
PagesMatchCreates ==
    \A d, e \in Devices : \A i \in DOMAIN nav[d], j \in DOMAIN queue[e] :
        (nav[d][i].page \in {"order", "sheet", "dialog"} /\ queue[e][j].op = "create"
            /\ nav[d][i].order = queue[e][j].order)
        => nav[d][i].snap.paymentOption = queue[e][j].paymentOption

\* Every write is answered when it is applied.
AnswersInTime == "unanswered" \notin Faults

\* The inductive invariant: pending writes and open pages agree with the server
\* on every interleaving, so a late write never acts on a document in a state
\* its call has not established.
PendingWorkIsSound ==
    /\ \A o \in Orders : Exists(o) => o \in issued
    /\ \A f \in Offers : offer[f] # "none" => Exists(OrderOf[f])
    /\ \A d \in Devices : \A i \in DOMAIN queue[d] : SoundWrite(queue[d][i])
    /\ \A d \in Devices : \A i \in DOMAIN nav[d] : SoundRoute(nav[d][i])
    /\ CreatedOnce
    /\ PagesMatchCreates

IInv ==
    /\ DocsOK
    /\ PendingWorkIsSound
    /\ AcceptedOfferMeansStarted
    /\ ChosenOfferBelongs
    /\ ElectronicPaidFirst

-----------------------------------------------------------------------------
(* Why the properties of one device hold: its queue keeps the order of its      *)
(* calls, and what a page offers to do agrees with what is queued.              *)

OneDevice == \A d, e \in Devices : d = e

\* A write of order o is pending on device d.
Awaits(d, op, o) == \E i \in DOMAIN queue[d] : queue[d][i].op = op /\ queue[d][i].order = o

\* The page leads to an acceptance of an offer of order o.
Choosing(r, o) ==
    \/ r.page = "order" /\ r.order = o /\ r.snap.status = "awaitingOffers"
    \/ r.page = "sheet" /\ r.order = o
    \/ r.page = "payment" /\ OrderOf[r.offer] = o

\* The page leads to a cancellation of order o.
Cancelling(r, o) ==
    r.page \in {"order", "dialog"} /\ r.order = o /\ r.snap.status = "inProgress"

NoneChoosing(d, o) == \A i \in DOMAIN nav[d] : ~Choosing(nav[d][i], o)

NoneCancelling(d, o) == \A i \in DOMAIN nav[d] : ~Cancelling(nav[d][i], o)

HomeIsRoot ==
    \A d \in Devices : \A i \in DOMAIN nav[d] : nav[d][i].page = "home" => i = 1

\* A start write is queued before the cancellation of its order, and no page is
\* open that could queue another one.
CancelsAreLast ==
    \A d \in Devices : \A j \in DOMAIN queue[d] :
        LET w == queue[d][j] IN
        w.op = "cancel" =>
            /\ NoneChoosing(d, w.order)
            /\ \A i \in DOMAIN queue[d] :
                  queue[d][i].op = "start" /\ queue[d][i].order = w.order => i < j

\* Nothing a device still holds would start a cancelled order again, with any
\* kill, rejected write or lost payment result.
NothingReopens ==
    /\ HomeIsRoot
    /\ CancelsAreLast
    /\ \A d \in Devices, o \in Orders :
          /\ NoneChoosing(d, o) \/ NoneCancelling(d, o)
          /\ order[o].status = "cancelled" => NoneChoosing(d, o) /\ ~Awaits(d, "start", o)

\* No write but one of a missing document is refused.
NoneRejected == "reject" \notin Faults

Acceptance == {"start", "choose", "accept"}

\* A sheet lies on its order's page, the page of an order that does not exist yet
\* is on top, and no other pages of one order lead to an acceptance together.
PagesInOrder ==
    \A d \in Devices : \A i \in DOMAIN nav[d] :
        /\ nav[d][i].page = "sheet" =>
              /\ i - 1 \in DOMAIN nav[d] /\ nav[d][i - 1].page = "order"
              /\ nav[d][i - 1].order = nav[d][i].order /\ nav[d][i - 1].snap = nav[d][i].snap
              /\ nav[d][i].snap.status = "awaitingOffers"
        /\ nav[d][i].page = "order" /\ ~Exists(nav[d][i].order) => i = Len(nav[d])
        /\ \A j \in DOMAIN nav[d], o \in Orders :
              i < j /\ Choosing(nav[d][i], o) /\ Choosing(nav[d][j], o) =>
                  j = i + 1 /\ nav[d][i].page = "order" /\ nav[d][j].page = "sheet"

\* A write of order o is pending on device d below position j.
Before(d, j, op, o) ==
    \E i \in DOMAIN queue[d] : i < j /\ queue[d][i].op = op /\ queue[d][i].order = o

\* At position j of its queue, device d is past the start of order o.
StartedBefore(d, j, o) == Started(o) \/ Before(d, j, "start", o)

\* At position j, offerId f, if it is one, is of order o, which names an offer.
ChosenBefore(d, j, o, f) ==
    f # NoOffer => /\ OrderOf[f] = o
                   /\ order[o].offerId # NoOffer \/ Before(d, j, "choose", o)

\* What a cancellation relies on was written before it.
CancelsInOrder ==
    /\ \A d \in Devices : \A i \in DOMAIN nav[d], o \in Orders :
          Cancelling(nav[d][i], o) =>
              /\ StartedBefore(d, Len(queue[d]) + 1, o)
              /\ ChosenBefore(d, Len(queue[d]) + 1, o, nav[d][i].snap.offerId)
    /\ \A d \in Devices : \A j \in DOMAIN queue[d] :
          LET w == queue[d][j] IN
          /\ w.op = "cancel" => StartedBefore(d, j, w.order) /\ ChosenBefore(d, j, w.order, w.offer)
          /\ w.op = "withdraw" => /\ OrderOf[w.offer] = w.order
                                  /\ order[w.order].status = "cancelled"
                                  /\ order[w.order].offerId # NoOffer
    /\ \A f \in Offers : offer[f] = "orderCancelled" =>
          order[OrderOf[f]].status = "cancelled" /\ order[OrderOf[f]].offerId # NoOffer

\* An electronic order goes through one acceptance: no page that could start
\* another is open once it is queued, and its writes find what they rely on.
AcceptedOnce ==
    \A d \in Devices, o \in Orders : Electronic(o) =>
        /\ ~NoneChoosing(d, o) => ~Started(o) /\ \A op \in Acceptance : ~Awaits(d, op, o)
        /\ \A i, j \in DOMAIN queue[d] :
              (queue[d][i].order = o /\ queue[d][i].op \in Acceptance
                  /\ queue[d][j].order = o /\ queue[d][j].op \in Acceptance) => i = j
        /\ Awaits(d, "start", o) \/ Awaits(d, "choose", o) => order[o].offerId = NoOffer
        /\ \A i \in DOMAIN queue[d] : queue[d][i].op = "accept" /\ queue[d][i].order = o =>
              /\ order[o].offerId = queue[d][i].offer /\ offer[queue[d][i].offer] = "pending"
              /\ ~Before(d, i, "withdraw", o)
        /\ \A f \in Offers : OrderOf[f] = o /\ offer[f] = "accepted" => order[o].offerId = f

\* A charge of the page's offer has not been answered.
Charging(r) == r.page = "payment" /\ r.busy

\* While no other order is placed nothing closes or covers the page of a charge,
\* and until the start write of the order is queued no other page charges for it.
PaidOnce ==
    /\ \A f \in Offers : charges[f] > 0 => offer[f] # "none"
    /\ \A d \in Devices, o \in Orders : Electronic(o) /\ issued = {o} =>
          /\ \A i \in DOMAIN nav[d] : Charging(nav[d][i]) => i = Len(nav[d])
          /\ \A f, g \in Offers : charges[f] <= 1 /\ (charges[f] > 0 /\ charges[g] > 0 => f = g)
          /\ (\E f \in Offers : charges[f] > 0) =>
                \/ Started(o) \/ Awaits(d, "start", o)
                \/ \E i \in DOMAIN nav[d] : Charging(nav[d][i])

\* One acceptance and one cancellation at a time, in that order.
OneAtATime == PagesInOrder /\ CancelsInOrder /\ AcceptedOnce

-----------------------------------------------------------------------------
(* Why a settled order stays cancelled, whatever is answered late, lost or sent *)
(* again: what is pending or open is of other orders.                           *)

\* The page shows an order of T as cancelled or not at all.
PageApart(r, T) ==
    /\ r.page \in {"order", "sheet", "dialog"} =>
          \/ r.order \in issued \ T
          \/ r.page = "order" /\ r.order \in T /\ r.snap.status = "cancelled"
    /\ r.page = "sheet" => OrderOf[r.offer] = r.order
    /\ r.page = "payment" => OrderOf[r.offer] \in issued \ T

\* The orders T are cancelled, and no device has a write of one of them to be
\* answered or a page open that could make one.
Apart(T) ==
    /\ \A o \in Orders : Exists(o) => o \in issued
    /\ \A o \in T : order[o].status = "cancelled"
    /\ \A d \in Devices : \A i \in DOMAIN queue[d] : queue[d][i].order \in issued \ T
    /\ \A d \in Devices : \A i \in DOMAIN nav[d] : PageApart(nav[d][i], T)

-----------------------------------------------------------------------------
(* Why an acceptance is right on one device also when its writes are applied,   *)
(* applied again and answered late: a create that may be applied again is ahead *)
(* of everything else of its order, so nothing that relies on a start is queued *)
(* before the create is answered.                                               *)

\* An electronic order, or one that a device creates as such.
ToBePaid(o) ==
    \/ Electronic(o)
    \/ \E d \in Devices : \E i \in DOMAIN queue[d] :
          queue[d][i].op = "create" /\ queue[d][i].order = o
             /\ queue[d][i].paymentOption = "electronic"

Creating(o) == \E d \in Devices : Awaits(d, "create", o)

\* What a queued call relies on, before and after its writes are applied.
LateCall(w) ==
    /\ w.op = "create" /\ Electronic(w.order) => w.paymentOption = "electronic"
    /\ w.op \in Acceptance =>
          /\ OrderOf[w.offer] = w.order /\ offer[w.offer] # "none"
          /\ ToBePaid(w.order) => charges[w.offer] > 0
    /\ w.op \in {"choose", "accept"} => Started(w.order) /\ ~Creating(w.order)
    /\ w.op = "accept" => order[w.order].offerId # NoOffer
    /\ w.op = "cancel" /\ ToBePaid(w.order) => PaidSomehow(w.order)

LatePage(r) ==
    /\ r.page \in {"order", "sheet", "dialog"} /\ ToBePaid(r.order) =>
          /\ r.snap.paymentOption = "electronic"
          /\ r.snap.status = "inProgress" => PaidSomehow(r.order)
    /\ r.page = "dialog" => r.snap.status = "inProgress"
    /\ r.page \in {"sheet", "payment"} => offer[r.offer] # "none"
    /\ Charging(r) => charges[r.offer] > 0

LateDocs ==
    /\ \A o \in Orders : order[o].offerId # NoOffer =>
          /\ Started(o) /\ ~Creating(o)
          /\ OrderOf[order[o].offerId] = o /\ offer[order[o].offerId] # "none"
          /\ Electronic(o) => charges[order[o].offerId] > 0
    /\ \A f \in Offers : offer[f] = "accepted" =>
          /\ order[OrderOf[f]].offerId # NoOffer
          /\ Electronic(OrderOf[f]) => charges[f] > 0
    /\ \A o \in Orders : /\ Electronic(o) => Exists(o)
                         /\ Started(o) /\ ToBePaid(o) => PaidSomehow(o)

\* The create of an order comes before its other writes.
CreatesFirst ==
    \A d \in Devices : \A i, j \in DOMAIN queue[d] :
        queue[d][i].op = "create" /\ queue[d][j].order = queue[d][i].order => i <= j

\* Only pending writes are applied ahead of their answers.
AheadFits == \A d \in Devices : ahead[d] <= Len(queue[d])

\* A start or a choice that was applied is in the order's document.
AppliedShows ==
    \A d \in Devices : \A i \in DOMAIN queue[d] : i <= ahead[d] =>
        LET w == queue[d][i] IN
        /\ w.op = "start" => Started(w.order)
        /\ w.op = "choose" => order[w.order].offerId # NoOffer

\* The inductive invariant of one device with every fault.
LateWorkIsSound ==
    /\ AheadFits
    /\ LateDocs
    /\ CreatesFirst
    /\ AppliedShows
    /\ \A d \in Devices : \A i \in DOMAIN queue[d] : LateCall(queue[d][i])
    /\ \A d \in Devices : \A i \in DOMAIN nav[d] : LatePage(nav[d][i])

-----------------------------------------------------------------------------
Lifecycle == INSTANCE OrderLifecycle
    WITH phase <- [o \in Orders |-> order[o].status],
         payment <- [o \in Orders |-> order[o].paymentOption],
         winner <- [o \in Orders |-> order[o].offerId],
         deal <- offer

\* One device, with restarts and lost payment results, implements the lifecycle:
\* statuses only move forward, an electronic order is given one offer, and its
\* provider is told of acceptance and cancellation in that order.
ImplementsLifecycle == Lifecycle!Spec
=============================================================================
