--------------------------- MODULE OrderFlowProofs ---------------------------
(***************************************************************************)
(* What OrderFlow guarantees for every number of orders and offers and     *)
(* every bound.                                                            *)
(*                                                                         *)
(* The first part is about any number of devices: the types, and the       *)
(* safety of all interleavings, by showing that IInv is inductive.         *)
(* Documents only move forward (Grows), so what a queued write or an open  *)
(* page knows of them stays true while it waits (WriteKept, RouteKept).    *)
(* An action is then described by the writes it adds to one queue          *)
(* (QueueStep) and the routes it shows (RoutesFrom), and only those new    *)
(* ones have to be shown sound.                                            *)
(*                                                                         *)
(* The second part is about one device, whose queue keeps the order of its *)
(* calls. NavStep says what an action does at each position of the stack,  *)
(* as QueueStep does for the queue. On them rest, one upon the other,      *)
(* NothingReopens (cancellation is final), OneAtATime (the refinement of   *)
(* OrderLifecycle) and PaidOnce (an electronic order is charged once).     *)
(*                                                                         *)
(* The third part is about any number of devices and every fault: Apart    *)
(* (a cancelled order that is settled stays cancelled).                    *)
(*                                                                         *)
(* The fourth part is about one device and every fault: LateWorkIsSound    *)
(* (an acceptance is right although its writes are answered late or sent   *)
(* again).                                                                 *)
(***************************************************************************)
EXTENDS OrderFlow, SumTheorems, TLAPS

USE OrderOfAssumption, SentinelAssumption, BoundsAssumption

-----------------------------------------------------------------------------
(* The Navigator's operators on sequences *)

\* Popping keeps a prefix of the stack.
LEMMA PoppedPrefix ==
    ASSUME NEW S, NEW s \in Seq(S), NEW n \in Nat
    PROVE  /\ Popped(s, n) \in Seq(S)
           /\ Len(Popped(s, n)) <= Len(s)
           /\ \A i \in DOMAIN Popped(s, n) : i \in DOMAIN s /\ Popped(s, n)[i] = s[i]
BY DEF Popped

\* A function on 1..n is a sequence.
LEMMA FunctionIsSeq ==
    ASSUME NEW S, NEW n \in Nat, NEW s \in [1..n -> S]
    PROVE  s \in Seq(S) /\ Len(s) = n
OBVIOUS

\* Unmounting contexts changes no write but for `at`.
LEMMA UnmountSame ==
    ASSUME NEW q \in Seq(Write), NEW n \in Nat
    PROVE  /\ Unmount(q, n) \in Seq(Write)
           /\ Len(Unmount(q, n)) = Len(q)
           /\ \A i \in DOMAIN q : \E a \in Nat : Unmount(q, n)[i] = [q[i] EXCEPT !.at = a]
<1>1. \A i \in DOMAIN q : q[i] \in Write
  OBVIOUS
<1>2. \A i \in DOMAIN q : \E a \in Nat : Unmount(q, n)[i] = [q[i] EXCEPT !.at = a]
  <2>1. SUFFICES ASSUME NEW i \in DOMAIN q
                 PROVE  \E a \in Nat : Unmount(q, n)[i] = [q[i] EXCEPT !.at = a]
    OBVIOUS
  <2>2. CASE q[i].at > n
    BY <2>2 DEF Unmount
  <2>3. CASE ~(q[i].at > n)
    <3>1. q[i] = [q[i] EXCEPT !.at = q[i].at] /\ q[i].at \in Nat
      BY <1>1 DEF Write
    <3>2. QED
      BY <2>3, <3>1 DEF Unmount
  <2>4. QED
    BY <2>2, <2>3
<1>3. \A w \in Write, a \in Nat : [w EXCEPT !.at = a] \in Write
  BY DEF Write
<1>4. /\ DOMAIN Unmount(q, n) = 1..Len(q)
      /\ \A i \in 1..Len(q) : Unmount(q, n)[i] \in Write
  <2>1. DOMAIN Unmount(q, n) = 1..Len(q)
    BY DEF Unmount
  <2>2. ASSUME NEW i \in 1..Len(q)
        PROVE  Unmount(q, n)[i] \in Write
    <3>0. i \in DOMAIN q
      OBVIOUS
    <3>1. PICK a \in Nat : Unmount(q, n)[i] = [q[i] EXCEPT !.at = a]
      BY <1>2, <3>0, Zenon
    <3>2. [q[i] EXCEPT !.at = a] \in Write
      BY <1>1, <1>3, <3>0, Zenon
    <3>3. QED
      BY <3>1, <3>2, Zenon
  <2>3. QED
    BY <2>1, <2>2
<1>5. Unmount(q, n) = [i \in 1..Len(q) |-> Unmount(q, n)[i]]
  BY DEF Unmount
<1>6. Unmount(q, n) \in Seq(Write) /\ Len(Unmount(q, n)) = Len(q)
  BY <1>4, <1>5, FunctionIsSeq
<1>7. QED
  BY <1>2, <1>6

-----------------------------------------------------------------------------
(* Types of what the actions build *)

\* The documents sendOrder builds, and the absent one, are documents.
LEMMA DocTypes ==
    /\ NoDoc \in OrderDoc
    /\ \A p \in PaymentOption : NewOrder(p) \in OrderDoc
BY DEF NoDoc, NewOrder, OrderDoc, OrderStatus, PaymentOption

\* Home, form and result pages are routes.
LEMMA PlainType ==
    ASSUME NEW p \in {"home", "form", "result"}
    PROVE  Plain(p) \in Route
BY DocTypes DEF Plain, Screen, Route, Page

\* A page of an order or an offer is a route.
LEMMA ScreenType ==
    ASSUME NEW p \in Page, NEW o \in Orders \cup {NoOrder}, NEW sn \in OrderDoc,
           NEW f \in Offers \cup {NoOffer},
           p \in {"order", "sheet", "dialog"} => o \in Orders,
           p \in {"sheet", "payment"} => f \in Offers
    PROVE  Screen(p, o, sn, f) \in Route
BY DEF Screen, Route

\* The first write of a service function is a write.
LEMMA CallType ==
    ASSUME NEW op \in {"create", "start", "cancel"}, NEW o \in Orders,
           NEW f \in Offers \cup {NoOffer}, NEW p \in PaymentOption, NEW n \in Nat,
           op = "start" => f \in Offers
    PROVE  Call(op, o, f, p, n) \in Write
BY DEF Call, Write, Op

\* The route on top of a device's stack.
LEMMA TopType ==
    ASSUME DocsOK, NEW d \in Devices, nav[d] # <<>>
    PROVE  /\ nav[d] \in Seq(Route) /\ Len(nav[d]) \in Nat \ {0}
           /\ Len(nav[d]) \in DOMAIN nav[d]
           /\ Top(d) \in Route
BY DEF DocsOK, Top

\* The oldest pending write of a device.
LEMMA HeadType ==
    ASSUME DocsOK, NEW d \in Devices, queue[d] # <<>>
    PROVE  /\ queue[d] \in Seq(Write)
           /\ Head(queue[d]) \in Write
           /\ Tail(queue[d]) \in Seq(Write)
BY DEF DocsOK

\* Showing a stack of routes keeps the types.
LEMMA ShowType ==
    ASSUME DocsOK, NEW d \in Devices, NEW stack \in Seq(Route), NEW kept \in Nat,
           NEW q \in Seq(Write), Show(d, stack, kept, q)
    PROVE  /\ nav' \in [Devices -> Seq(Route)]
           /\ queue' \in [Devices -> Seq(Write)]
BY UnmountSame DEF DocsOK, Show

\* Popping keeps the types.
LEMMA PopType ==
    ASSUME DocsOK, NEW d \in Devices, NEW n \in Nat, NEW q \in Seq(Write), Pop(d, n, q)
    PROVE  /\ nav' \in [Devices -> Seq(Route)]
           /\ queue' \in [Devices -> Seq(Write)]
<1>1. Popped(nav[d], n) \in Seq(Route) /\ Len(Popped(nav[d], n)) \in Nat
  BY PoppedPrefix DEF DocsOK
<1>2. QED
  BY <1>1, ShowType DEF Pop

\* Pushing a route keeps the types.
LEMMA PushType ==
    ASSUME DocsOK, NEW d \in Devices, NEW r \in Route, Push(d, r)
    PROVE  /\ nav' \in [Devices -> Seq(Route)]
           /\ queue' \in [Devices -> Seq(Write)]
<1>1. /\ Append(nav[d], r) \in Seq(Route) /\ Len(nav[d]) \in Nat
      /\ queue[d] \in Seq(Write)
  BY DEF DocsOK
<1>2. QED
  BY <1>1, ShowType DEF Push

\* A document read under pending writes is a document.
LEMMA ViewType ==
    ASSUME DocsOK, NEW d \in Devices, NEW o \in Orders
    PROVE  ViewOrder(d, o) \in OrderDoc
<1>1. order[o] \in OrderDoc /\ queue[d] \in Seq(Write)
  BY DEF DocsOK
<1>2. \A i \in DOMAIN queue[d] : queue[d][i] \in Write
  BY <1>1
<1>3. ViewStatus(d, o) \in OrderStatus
  <2> DEFINE last == Newest(StatusWrites(d, o))
  <2>1. CASE last = {}
    BY <1>1, <2>1 DEF ViewStatus, OrderDoc
  <2>2. CASE last # {}
    <3>1. \A op : StatusSet(op) \in OrderStatus
      BY DEF StatusSet, OrderStatus
    <3>2. QED
      BY <2>2, <3>1 DEF ViewStatus
  <2>3. QED
    BY <2>1, <2>2
<1>4. ViewOfferId(d, o) \in Offers \cup {NoOffer}
  <2> DEFINE last == Newest({i \in DOMAIN queue[d] : /\ queue[d][i].order = o
                                                     /\ queue[d][i].op = "choose"})
  <2>1. CASE last = {}
    BY <1>1, <2>1 DEF ViewOfferId, OrderDoc
  <2>2. CASE last # {}
    <3>1. (CHOOSE i \in last : TRUE) \in DOMAIN queue[d]
      BY <2>2 DEF Newest
    <3>2. QED
      BY <1>2, <2>2, <3>1 DEF ViewOfferId, Write
  <2>3. QED
    BY <2>1, <2>2
<1>5. ViewPayment(d, o) \in PaymentOption
  <2> DEFINE creates == {i \in DOMAIN queue[d] : /\ queue[d][i].order = o
                                                /\ queue[d][i].op = "create"}
  <2>1. CASE creates = {}
    BY <1>1, <2>1 DEF ViewPayment, OrderDoc
  <2>2. CASE creates # {}
    <3>1. (CHOOSE i \in creates : TRUE) \in DOMAIN queue[d]
      BY <2>2
    <3>2. QED
      BY <1>2, <2>2, <3>1 DEF ViewPayment, Write
  <2>3. QED
    BY <2>1, <2>2
<1>6. QED
  BY <1>3, <1>4, <1>5 DEF ViewOrder, OrderDoc

\* A screen action shows new routes and leaves the documents alone.
LEMMA ScreenStepType ==
    ASSUME DocsOK, UNCHANGED <<order, offer, issued, charges>>,
           nav' \in [Devices -> Seq(Route)], queue' \in [Devices -> Seq(Write)]
    PROVE  DocsOK'
BY DEF DocsOK

\* A running call's next write is a write.
LEMMA ContinueType ==
    ASSUME DocsOK, NEW d \in Devices, queue[d] # <<>>,
           Continue(d, Head(queue[d]))
    PROVE  queue' \in [Devices -> Seq(Write)]
<1> DEFINE w == Head(queue[d])
<1>1. w \in Write /\ Tail(queue[d]) \in Seq(Write)
  BY HeadType
<1>2. ASSUME Following(w) # "end"
      PROVE  [w EXCEPT !.op = Following(w)] \in Write
  BY <1>1, <1>2 DEF Following, Write, Op
<1>3. ASSUME Following(w) # "end"
      PROVE  Append(Tail(queue[d]), [w EXCEPT !.op = Following(w)]) \in Seq(Write)
  BY <1>1, <1>2, <1>3
<1>4. QED
  BY <1>1, <1>3 DEF Continue, DocsOK

\* The end of acceptOffer and of cancelOrder.
LEMMA PopBothType ==
    ASSUME DocsOK, NEW d \in Devices, queue[d] # <<>>, PopBoth(d, Head(queue[d]))
    PROVE  /\ nav' \in [Devices -> Seq(Route)]
           /\ queue' \in [Devices -> Seq(Write)]
<1>1. Tail(queue[d]) \in Seq(Write)
  BY HeadType
<1>2. PICK n \in Nat : Pop(d, n, Tail(queue[d]))
  BY DEF PopBoth
<1>3. QED
  BY <1>1, <1>2, PopType

\* The end of sendOrder.
LEMMA ShowSentType ==
    ASSUME DocsOK, NEW d \in Devices, queue[d] # <<>>, ShowSent(d, Head(queue[d]))
    PROVE  /\ nav' \in [Devices -> Seq(Route)]
           /\ queue' \in [Devices -> Seq(Write)]
<1> DEFINE w == Head(queue[d])
           s == Popped(nav[d], 1)
           r == Screen("order", w.order, NewOrder(w.paymentOption), NoOffer)
<1>1. w \in Write /\ Tail(queue[d]) \in Seq(Write) /\ nav[d] \in Seq(Route)
  BY HeadType DEF DocsOK
<1>2. w.order \in Orders /\ w.paymentOption \in PaymentOption
  BY <1>1 DEF Write
<1>3. s \in Seq(Route) /\ Len(s) \in Nat
  BY <1>1, PoppedPrefix
<1>4. r \in Route
  BY <1>2, DocTypes, ScreenType DEF Page
<1>5. Append(s, r) \in Seq(Route)
  BY <1>3, <1>4
<1>6. CASE Show(d, Append(s, r), Len(s), Tail(queue[d]))
  BY <1>1, <1>3, <1>5, <1>6, ShowType
<1>7. CASE Pop(d, 0, Tail(queue[d]))
  BY <1>1, <1>7, PopType
<1>8. QED
  BY <1>6, <1>7 DEF ShowSent

\* Two facts the queue-only steps share.
LEMMA EnqueueType ==
    ASSUME DocsOK, NEW d \in Devices, NEW w \in Write
    PROVE  /\ [queue EXCEPT ![d] = Append(@, w)] \in [Devices -> Seq(Write)]
           /\ Append(queue[d], w) \in Seq(Write)
BY DEF DocsOK

\* Setting or resetting the busy flag of the page on top keeps the types.
LEMMA BusyType ==
    ASSUME DocsOK, NEW d \in Devices, nav[d] # <<>>, NEW b \in BOOLEAN
    PROVE  /\ [nav[d] EXCEPT ![Len(nav[d])].busy = b] \in Seq(Route)
           /\ [nav EXCEPT ![d][Len(nav[d])].busy = b] \in [Devices -> Seq(Route)]
<1>1. nav \in [Devices -> Seq(Route)] /\ nav[d] \in Seq(Route)
      /\ Len(nav[d]) \in 1..Len(nav[d]) /\ Top(d) \in Route
  BY TopType DEF DocsOK
<1>2. [Top(d) EXCEPT !.busy = b] \in Route
  BY <1>1 DEF Route
<1>3. [nav[d] EXCEPT ![Len(nav[d])].busy = b] \in Seq(Route)
  BY <1>1, <1>2 DEF Top
<1>4. QED
  BY <1>1, <1>3

-----------------------------------------------------------------------------
(* Type correctness *)

\* The types hold when the app starts.
LEMMA InitType == Init => DocsOK
<1>1. SUFFICES ASSUME Init PROVE DocsOK
  OBVIOUS
<1>2. <<Plain("home")>> \in Seq(Route)
  BY PlainType
<1>3. QED
  BY <1>1, <1>2, DocTypes DEF Init, DocsOK, OfferStatus

\* What a user's tap does to the types.
LEMMA TapType ==
    ASSUME DocsOK, NEW d \in Devices, Tap(d)
    PROVE  DocsOK'
<1> USE DEF Browse
<1>1. CASE OpenForm(d)
  BY <1>1, PlainType, PushType, ScreenStepType DEF OpenForm
<1>2. CASE AskCancel(d)
  <2>1. Top(d) \in Route /\ Top(d).page = "order"
    BY <1>2, TopType DEF AskCancel, On
  <2>2. Screen("dialog", Top(d).order, Top(d).snap, NoOffer) \in Route
    BY <2>1, ScreenType DEF Route, Page
  <2>3. QED
    BY <1>2, <2>2, PushType, ScreenStepType DEF AskCancel
<1>3. CASE Back(d)
  <2>1. queue[d] \in Seq(Write)
    BY DEF DocsOK
  <2>2. QED
    BY <1>3, <2>1, PopType, ScreenStepType DEF Back
<1>4. CASE AcceptOfferCash(d)
  <2>1. Top(d) \in Route /\ Top(d).page = "sheet" /\ Len(nav[d]) \in Nat
    BY <1>4, TopType DEF AcceptOfferCash, On
  <2>2. Call(AcceptsWith, Top(d).order, Top(d).offer, "cash", Len(nav[d])) \in Write
    BY <2>1, CallType DEF Route, AcceptsWith, PaymentOption
  <2>3. QED
    BY <1>4, <2>2, EnqueueType DEF AcceptOfferCash, DocsOK
<1>5. CASE AcceptOfferElectronic(d)
  <2> DEFINE s == Popped(nav[d], 2)
             r == Screen("payment", NoOrder, NoDoc, Top(d).offer)
  <2>1. Top(d) \in Route /\ Top(d).page = "sheet"
    BY <1>5, TopType DEF AcceptOfferElectronic, On
  <2>2. r \in Route
    BY <2>1, DocTypes, ScreenType DEF Route, Page
  <2>3. s \in Seq(Route) /\ Len(s) \in Nat /\ queue[d] \in Seq(Write)
    BY PoppedPrefix DEF DocsOK
  <2>4. Append(s, r) \in Seq(Route)
    BY <2>2, <2>3
  <2>5. QED
    BY <1>5, <2>3, <2>4, ShowType, ScreenStepType DEF AcceptOfferElectronic
<1>6. CASE CancelOrder(d)
  <2>1. /\ Top(d) \in Route /\ Top(d).page = "dialog"
        /\ Len(nav[d]) - 1 \in Nat
    BY <1>6, TopType DEF CancelOrder, On
  <2>2. Call("cancel", Top(d).order, Top(d).snap.offerId, Top(d).snap.paymentOption,
             Len(nav[d]) - 1) \in Write
    BY <2>1, CallType DEF Route, OrderDoc
  <2>3. QED
    BY <1>6, <2>2, EnqueueType DEF CancelOrder, DocsOK
<1>7. CASE \E o \in Orders : OpenOrder(d, o)
  <2>1. PICK o \in Orders : OpenOrder(d, o)
    BY <1>7
  <2>2. Screen("order", o, ViewOrder(d, o), NoOffer) \in Route
    BY ViewType, ScreenType DEF Page
  <2>3. QED
    BY <2>1, <2>2, PushType, ScreenStepType DEF OpenOrder
<1>8. CASE \E f \in Offers : ShowOffer(d, f)
  <2>1. PICK f \in Offers : ShowOffer(d, f)
    BY <1>8
  <2>2. Top(d) \in Route /\ Top(d).page = "order"
    BY <2>1, TopType DEF ShowOffer, On
  <2>3. Screen("sheet", Top(d).order, Top(d).snap, f) \in Route
    BY <2>2, ScreenType DEF Route, Page
  <2>4. QED
    BY <2>1, <2>3, PushType, ScreenStepType DEF ShowOffer
<1>9. CASE \E o \in Orders, p \in PaymentOption : SendOrder(d, o, p)
  <2>1. PICK o \in Orders, p \in PaymentOption : SendOrder(d, o, p)
    BY <1>9
  <2>2. nav[d] # <<>> /\ Len(nav[d]) \in Nat
    BY <2>1, TopType DEF SendOrder, On
  <2>3. Call("create", o, NoOffer, p, Len(nav[d])) \in Write
    BY <2>2, CallType
  <2>4. QED
    BY <2>1, <2>2, <2>3, EnqueueType, BusyType DEF SendOrder, DocsOK
<1>10. QED
  BY <1>1, <1>2, <1>3, <1>4, <1>5, <1>6, <1>7, <1>8, <1>9 DEF Tap

\* What a payment does to the types.
LEMMA GatewayType ==
    ASSUME DocsOK, NEW d \in Devices, Gateway(d)
    PROVE  DocsOK'
<1>1. CASE PaymentCaptured(d)
  <2>1. nav[d] # <<>> /\ Top(d) \in Route /\ Top(d).offer \in Offers
    BY <1>1, TopType DEF PaymentCaptured, On, Route
  <2>2. nav' \in [Devices -> Seq(Route)]
    BY <1>1, <2>1, BusyType DEF PaymentCaptured
  <2>3. charges' \in [Offers -> Nat]
    BY <1>1, <2>1 DEF PaymentCaptured, DocsOK
  <2>4. QED
    BY <1>1, <2>2, <2>3 DEF PaymentCaptured, DocsOK
<1>2. CASE OnPaymentPaid(d)
  <2> DEFINE n == Len(nav[d]) - 1
             f == Top(d).offer
             w == Call(AcceptsWith, OrderOf[f], f, "electronic", n + 1)
             s == Popped(nav[d], 1) \o <<Plain("result"), Plain("result")>>
  <2>1. Top(d) \in Route /\ f \in Offers /\ n \in Nat
    <3>1. nav[d] # <<>> /\ Top(d).page = "payment"
      BY <1>2 DEF OnPaymentPaid, On
    <3>2. Top(d) \in Route /\ Len(nav[d]) \in Nat \ {0}
      BY <3>1, TopType
    <3>3. Top(d).offer \in Offers
      BY <3>1, <3>2 DEF Route
    <3>4. QED
      BY <3>2, <3>3
  <2>2. w \in Write
    BY <2>1, CallType DEF AcceptsWith, PaymentOption
  <2>3. s \in Seq(Route)
    <3>1. Popped(nav[d], 1) \in Seq(Route)
      BY PoppedPrefix DEF DocsOK
    <3>2. <<Plain("result"), Plain("result")>> \in Seq(Route)
      BY PlainType
    <3>3. QED
      BY <3>1, <3>2
  <2>4. QED
    BY <1>2, <2>1, <2>2, <2>3, EnqueueType, ShowType, ScreenStepType DEF OnPaymentPaid
<1>3. CASE OnPaymentOther(d)
  <2>1. /\ nav[d] # <<>> /\ Len(nav[d]) \in Nat
        /\ queue[d] \in Seq(Write)
    BY <1>3, TopType DEF OnPaymentOther, On, DocsOK
  <2>2. Append([nav[d] EXCEPT ![Len(nav[d])].busy = FALSE], Plain("result")) \in Seq(Route)
    <3>1. [nav[d] EXCEPT ![Len(nav[d])].busy = FALSE] \in Seq(Route)
      BY <2>1, BusyType
    <3>2. Plain("result") \in Route
      BY PlainType
    <3>3. QED
      BY <3>1, <3>2
  <2>3. QED
    BY <1>3, <2>1, <2>2, ShowType, ScreenStepType DEF OnPaymentOther
<1>4. QED
  BY <1>1, <1>2, <1>3 DEF Gateway

\* The three updates of an order document.
LEMMA UpdateType ==
    ASSUME DocsOK, NEW o \in Orders
    PROVE  /\ \A s \in OrderStatus : [order EXCEPT ![o].status = s] \in [Orders -> OrderDoc]
           /\ \A f \in Offers \cup {NoOffer} :
                 [order EXCEPT ![o].offerId = f] \in [Orders -> OrderDoc]
<1>1. order \in [Orders -> OrderDoc] /\ order[o] \in OrderDoc
  BY DEF DocsOK
<1>2. \A s \in OrderStatus : [order[o] EXCEPT !.status = s] \in OrderDoc
  BY <1>1 DEF OrderDoc
<1>3. \A f \in Offers \cup {NoOffer} : [order[o] EXCEPT !.offerId = f] \in OrderDoc
  BY <1>1 DEF OrderDoc
<1>4. QED
  BY <1>1, <1>2, <1>3

\* What an acknowledged write does to the types.
LEMMA AckType ==
    ASSUME DocsOK, NEW d \in Devices, Ack(d)
    PROVE  DocsOK'
<1> DEFINE w == Head(queue[d])
<1>1. /\ queue[d] # <<>> /\ w \in Write
      /\ w.order \in Orders /\ w.offer \in Offers \cup {NoOffer}
  <2>1. queue[d] # <<>>
    BY DEF Ack, AckCreate, AckStart, AckChoose, AckAccept, AckCancel, AckWithdraw, Ready
  <2>2. QED
    BY <2>1, HeadType DEF Write
<1>2. CASE AckCreate(d)
  <2>1. order' \in [Orders -> OrderDoc]
    BY <1>1, <1>2, DocTypes DEF AckCreate, DocsOK, Write
  <2>2. QED
    BY <1>1, <1>2, <2>1, ShowSentType DEF AckCreate, DocsOK
<1>3. CASE AckStart(d)
  <2>1. order' \in [Orders -> OrderDoc]
    BY <1>1, <1>3, UpdateType DEF AckStart, OrderStatus
  <2>2. QED
    BY <1>1, <1>3, <2>1, ContinueType DEF AckStart, DocsOK
<1>4. CASE AckChoose(d)
  <2>1. order' \in [Orders -> OrderDoc]
    BY <1>1, <1>4, UpdateType DEF AckChoose
  <2>2. QED
    BY <1>1, <1>4, <2>1, ContinueType DEF AckChoose, DocsOK
<1>5. CASE AckAccept(d)
  <2>1. offer' \in [Offers -> OfferStatus]
    BY <1>1, <1>5 DEF AckAccept, DocsOK, OfferStatus
  <2>2. QED
    BY <1>1, <1>5, <2>1, PopBothType DEF AckAccept, DocsOK
<1>6. CASE AckCancel(d)
  <2>1. order' \in [Orders -> OrderDoc]
    BY <1>1, <1>6, UpdateType DEF AckCancel, OrderStatus
  <2>2. QED
    BY <1>1, <1>6, <2>1, ContinueType DEF AckCancel, DocsOK
<1>7. CASE AckWithdraw(d)
  <2>1. offer' \in [Offers -> OfferStatus]
    BY <1>1, <1>7 DEF AckWithdraw, DocsOK, OfferStatus
  <2>2. QED
    BY <1>1, <1>7, <2>1, PopBothType DEF AckWithdraw, DocsOK
<1>8. QED
  BY <1>2, <1>3, <1>4, <1>5, <1>6, <1>7 DEF Ack

\* What a rejected write, a restart and a provider do to the types.
LEMMA EnvironmentType ==
    ASSUME DocsOK,
           \/ \E d \in Devices : Reject(d) \/ Kill(d)
           \/ \E f \in Offers : MakeOffer(f)
    PROVE  DocsOK'
<1>1. CASE \E d \in Devices : Reject(d)
  <2>1. PICK d \in Devices : Reject(d)
    BY <1>1
  <2>2. queue[d] # <<>> /\ Tail(queue[d]) \in Seq(Write)
    BY <2>1, HeadType DEF Reject
  <2>3. nav' \in [Devices -> Seq(Route)] /\ queue' \in [Devices -> Seq(Write)]
    BY <2>1, <2>2, ShowSentType, PopType DEF Reject
  <2>4. QED
    BY <2>1, <2>3, ScreenStepType DEF Reject
<1>2. CASE \E d \in Devices : Kill(d)
  <2>1. PICK d \in Devices : Kill(d)
    BY <1>2
  <2> DEFINE q == [i \in DOMAIN queue[d] |-> [queue[d][i] EXCEPT !.at = 0, !.live = FALSE]]
  <2>2. queue[d] \in Seq(Write)
    BY DEF DocsOK
  <2>3. \A i \in DOMAIN queue[d] : queue[d][i] \in Write
    BY <2>2
  <2>4. \A i \in DOMAIN queue[d] : [queue[d][i] EXCEPT !.at = 0, !.live = FALSE] \in Write
    BY <2>3 DEF Write
  <2>5. q \in Seq(Write)
    <3>1. DOMAIN queue[d] = 1..Len(queue[d]) /\ Len(queue[d]) \in Nat
      BY <2>2
    <3>2. q = [i \in 1..Len(queue[d]) |-> q[i]] /\ \A i \in 1..Len(queue[d]) : q[i] \in Write
      BY <2>4, <3>1, Zenon
    <3>3. q \in [1..Len(queue[d]) -> Write]
      BY <3>2, Zenon
    <3>4. QED
      BY <3>1, <3>3, FunctionIsSeq, Zenon
  <2>6. <<Plain("home")>> \in Seq(Route)
    BY PlainType
  <2>7. queue' = [queue EXCEPT ![d] = q]
    BY <2>1 DEF Kill, DocsOK
  <2>8. QED
    BY <2>1, <2>5, <2>6, <2>7 DEF Kill, DocsOK
<1>3. CASE \E f \in Offers : MakeOffer(f)
  BY <1>3 DEF MakeOffer, DocsOK, OfferStatus
<1>4. QED
  BY <1>1, <1>2, <1>3

\* What writes applied before they are answered do to the types.
LEMMA UnansweredType ==
    ASSUME TypeOK, NEW d \in Devices, Unanswered(d)
    PROVE  DocsOK'
<1>1. DocsOK /\ ahead[d] \in Nat /\ queue[d] \in Seq(Write)
  BY DEF TypeOK, DocsOK
<1>2. CASE ApplyAhead(d)
  <2> DEFINE w == queue[d][ahead[d] + 1]
  <2>1. w \in Write
    BY <1>1, <1>2 DEF ApplyAhead
  <2>2. /\ w.order \in Orders /\ w.offer \in Offers \cup {NoOffer}
        /\ w.paymentOption \in PaymentOption /\ w.op \in Op
        /\ order[w.order] \in OrderDoc
    BY <1>1, <2>1 DEF Write, DocsOK
  <2>3. UpdatedOrder(w) \in OrderDoc
    <3>1. \A s \in OrderStatus : [order[w.order] EXCEPT !.status = s] \in OrderDoc
      BY <2>2 DEF OrderDoc
    <3>2. [order[w.order] EXCEPT !.offerId = w.offer] \in OrderDoc
      BY <2>2 DEF OrderDoc
    <3>3. NewOrder(w.paymentOption) \in OrderDoc
      BY <2>2, DocTypes
    <3>4. QED
      BY <2>2, <3>1, <3>2, <3>3 DEF UpdatedOrder, StatusSet, OrderStatus, Op
  <2>4. w.offer # NoOffer => UpdatedOffer(w) \in OfferStatus
    BY <1>1, <2>2 DEF UpdatedOffer, DocsOK, OfferStatus
  <2>5. order' \in [Orders -> OrderDoc] /\ offer' \in [Offers -> OfferStatus]
    BY <1>1, <1>2, <2>2, <2>3, <2>4 DEF ApplyAhead, DocsOK
  <2>6. QED
    BY <1>1, <1>2, <2>5 DEF ApplyAhead, DocsOK
<1>3. CASE Answer(d)
  <2>1. queue[d] # <<>> /\ UNCHANGED <<order, offer, issued, charges>>
    BY <1>3 DEF Answer
  <2>2. nav' \in [Devices -> Seq(Route)] /\ queue' \in [Devices -> Seq(Write)]
    <3>1. CASE ShowSent(d, Head(queue[d]))
      BY <1>1, <2>1, <3>1, ShowSentType
    <3>2. CASE PopBoth(d, Head(queue[d]))
      BY <1>1, <2>1, <3>2, PopBothType
    <3>3. CASE Continue(d, Head(queue[d])) /\ UNCHANGED nav
      BY <1>1, <2>1, <3>3, ContinueType DEF DocsOK
    <3>4. QED
      BY <1>3, <3>1, <3>2, <3>3 DEF Answer
  <2>3. QED
    BY <1>1, <2>1, <2>2, ScreenStepType
<1>4. CASE Reconnect(d)
  BY <1>1, <1>4 DEF Reconnect, DocsOK
<1>5. QED
  BY <1>2, <1>3, <1>4 DEF Unanswered

\* Every step keeps the documents, queues and screens in their types.
LEMMA StepDocs == TypeOK /\ [Next]_vars => DocsOK'
<1>1. SUFFICES ASSUME TypeOK, [Next]_vars PROVE DocsOK'
  OBVIOUS
<1>2. DocsOK
  BY <1>1 DEF TypeOK
<1>3. CASE UNCHANGED vars
  BY <1>2, <1>3 DEF DocsOK, vars
<1>4. CASE Next
  BY <1>1, <1>2, <1>4, TapType, GatewayType, AckType, EnvironmentType, UnansweredType
     DEF Next, Answered
<1>5. QED
  BY <1>1, <1>3, <1>4

\* How far the server is ahead of a device stays a natural number.
LEMMA StepAhead == TypeOK /\ [Next]_vars => ahead' \in [Devices -> Nat]
<1>1. SUFFICES ASSUME TypeOK, [Next]_vars PROVE ahead' \in [Devices -> Nat]
  OBVIOUS
<1>2. ahead \in [Devices -> Nat]
  BY <1>1 DEF TypeOK
<1>3. ASSUME NEW d \in Devices, Unanswered(d)
      PROVE  ahead' \in [Devices -> Nat]
  BY <1>2, <1>3 DEF Unanswered, ApplyAhead, Answer, Reconnect
<1>4. ASSUME NEW d \in Devices, ahead' = [ahead EXCEPT ![d] = 0]
      PROVE  ahead' \in [Devices -> Nat]
  BY <1>2, <1>4
<1>5. QED
  BY <1>1, <1>2, <1>3, <1>4 DEF Next, vars

\* The documents, the write queues and the screens of any number of devices
\* stay well-formed, whatever answers are late, lost or repeated: in particular
\* every awaited write names the offer it needs and every page the order it
\* shows (TypeOK of Write and Route).
THEOREM TypeCorrect == Spec => []TypeOK
<1>1. Init => TypeOK
  BY InitType DEF Init, TypeOK
<1>2. TypeOK /\ [Next]_vars => TypeOK'
  BY StepDocs, StepAhead DEF TypeOK
<1>3. QED
  BY <1>1, <1>2, PTL DEF Spec

-----------------------------------------------------------------------------
(* What every step does to documents, queues and stacks *)

\* Documents only move forward.
Grows ==
    /\ issued \subseteq issued'
    /\ \A o \in Orders :
          /\ Exists(o) => Exists(o)' /\ order'[o].paymentOption = order[o].paymentOption
          /\ Started(o) => Started(o)'
          /\ order[o].offerId # NoOffer => order'[o].offerId # NoOffer
    /\ \A f \in Offers : /\ offer[f] # "none" => offer'[f] # "none"
                         /\ charges[f] > 0 => charges'[f] > 0

NothingCreated == \A o \in Orders : Exists(o)' => Exists(o)

\* The same call, apart from where it returns to.
SameCall(u, v) == /\ u.op = v.op /\ u.order = v.order /\ u.offer = v.offer
                  /\ u.paymentOption = v.paymentOption

\* Device d drops its k oldest writes and adds at most one, a member of N.
QueueStep(d, k, N) ==
    /\ \A e \in Devices \ {d} : queue'[e] = queue[e]
    /\ \A i \in DOMAIN queue'[d] :
          \/ i + k \in DOMAIN queue[d] /\ SameCall(queue'[d][i], queue[d][i + k])
          \/ i + k = Len(queue[d]) + 1 /\ \E n \in N : SameCall(queue'[d][i], n)

Shown == {"order", "sheet", "dialog"}

\* The same page, perhaps with its charge answered.
SameRoute(r, s) == /\ r.page = s.page /\ r.order = s.order /\ r.snap = s.snap
                   /\ r.offer = s.offer
                   /\ r.page = "payment" /\ r.busy => s.busy

-----------------------------------------------------------------------------
(* Old knowledge stays true *)

\* What a queued write relies on still holds after the step, unless the step
\* created its order.
LEMMA WriteKept ==
    ASSUME IInv, Grows, NEW w \in Write, SoundWrite(w), Exists(w.order)' => Exists(w.order)
    PROVE  SoundWrite(w)'
<1>1. w.order \in Orders /\ w.offer \in Offers \cup {NoOffer}
  BY DEF Write
<1>2. w.order \in issued'
  BY DEF Grows, SoundWrite
<1>3. w.op = "create" <=> ~Exists(w.order)'
  BY <1>1 DEF Grows, SoundWrite
<1>4. w.op \in {"start", "choose", "accept"} => OrderOf[w.offer] = w.order /\ Acceptable(w.offer)'
  <2>1. SUFFICES ASSUME w.op \in {"start", "choose", "accept"}
                 PROVE  OrderOf[w.offer] = w.order /\ Acceptable(w.offer)'
    OBVIOUS
  <2>2. w.offer \in Offers /\ OrderOf[w.offer] = w.order /\ Exists(w.order)
    BY <2>1 DEF Write, SoundWrite
  <2>3. offer[w.offer] # "none" /\ (Electronic(w.order) => charges[w.offer] > 0)
    BY <2>1, <2>2 DEF SoundWrite, Acceptable
  <2>4. QED
    BY <1>1, <2>2, <2>3 DEF Grows, Acceptable, Electronic
<1>5. w.op \in {"choose", "accept"} => Started(w.order)'
  BY <1>1 DEF Grows, SoundWrite
<1>6. w.op = "accept" => order'[w.order].offerId # NoOffer
  BY <1>1 DEF Grows, SoundWrite
<1>7. w.op = "cancel" /\ Electronic(w.order)' => PaidSomehow(w.order)'
  BY <1>1 DEF Grows, SoundWrite, Electronic, PaidSomehow
<1>8. w.op \in {"cancel", "withdraw"} /\ w.offer # NoOffer => offer'[w.offer] # "none"
  BY <1>1 DEF Grows, SoundWrite
<1>9. QED
  BY <1>2, <1>3, <1>4, <1>5, <1>6, <1>7, <1>8 DEF SoundWrite

\* What an open page shows still fits its order after the step, if it fits what
\* the step creates.
LEMMA RouteKept ==
    ASSUME IInv, Grows, NEW r \in Route, SoundRoute(r), NEW s, SameRoute(s, r),
           r.page \in Shown /\ ~Exists(r.order) /\ Exists(r.order)'
               => r.snap.paymentOption = order'[r.order].paymentOption
    PROVE  SoundRoute(s)'
<1>1. ASSUME r.page \in Shown
      PROVE  SoundSnapshot(s)'
  <2>1. r.order \in Orders /\ r.snap.offerId \in Offers \cup {NoOffer}
    BY <1>1 DEF Route, OrderDoc, Shown
  <2>2. SoundSnapshot(r) /\ s.order = r.order /\ s.snap = r.snap
    BY <1>1 DEF SoundRoute, SameRoute, Shown
  <2>3. r.order \in issued'
    BY <2>2 DEF SoundSnapshot, Grows
  <2>4. Exists(r.order)' => r.snap.paymentOption = order'[r.order].paymentOption
    BY <1>1, <2>1, <2>2 DEF SoundSnapshot, Grows
  <2>5. r.snap.status = "inProgress" => Exists(r.order)' /\ (Electronic(r.order)' => PaidSomehow(r.order)')
    BY <2>1, <2>2 DEF SoundSnapshot, Grows, Electronic, PaidSomehow
  <2>6. r.snap.offerId # NoOffer => offer'[r.snap.offerId] # "none"
    BY <2>1, <2>2 DEF SoundSnapshot, Grows
  <2>7. QED
    BY <2>2, <2>3, <2>4, <2>5, <2>6 DEF SoundSnapshot
<1>2. s.page \in {"sheet", "payment"} => s.offer \in Offers /\ offer'[s.offer] # "none"
  BY DEF SoundRoute, SameRoute, Route, Grows
<1>3. s.page = "payment" /\ s.busy => charges'[s.offer] > 0
  BY DEF SoundRoute, SameRoute, Route, Grows
<1>4. QED
  BY <1>1, <1>2, <1>3 DEF SoundRoute, SameRoute, Shown

-----------------------------------------------------------------------------
(* Sound additions keep everything sound *)

\* The order that AckCreate creates: the one of d's oldest write.
CreatedBy(d, k) ==
    \A o \in Orders : Exists(o)' /\ ~Exists(o) =>
        /\ k = 1 /\ queue[d] # <<>>
        /\ queue[d][1].op = "create" /\ queue[d][1].order = o
        /\ order'[o].paymentOption = queue[d][1].paymentOption

\* A write that was pending before the step, and still is, knows the order it
\* is for: AckCreate removes the only write that creates its order.
LEMMA NotOverCreated ==
    ASSUME IInv, Grows, NEW d \in Devices, NEW k \in {0, 1}, CreatedBy(d, k),
           NEW e \in Devices, NEW i \in DOMAIN queue[e], e = d => i > k,
           NEW w, w = queue[e][i]
    PROVE  Exists(w.order)' => Exists(w.order)
<1>1. SUFFICES ASSUME Exists(w.order)', ~Exists(w.order) PROVE FALSE
  OBVIOUS
<1>2. queue \in [Devices -> Seq(Write)] /\ PendingWorkIsSound
  BY DEF IInv, DocsOK
<1>3. w \in Write /\ w.order \in Orders
  <2>1. w \in Write
    BY <1>2
  <2>2. QED
    BY <2>1 DEF Write
<1>4. w.op = "create"
  BY <1>1, <1>2 DEF PendingWorkIsSound, SoundWrite
<1>5. /\ k = 1 /\ queue[d] # <<>> /\ queue[d][1].op = "create"
      /\ queue[d][1].order = w.order
  BY <1>1, <1>3 DEF CreatedBy
<1>6. 1 \in DOMAIN queue[d]
  BY <1>2, <1>5
<1>7. d = e /\ 1 = i
  BY <1>2, <1>4, <1>5, <1>6, Zenon DEF PendingWorkIsSound, CreatedOnce
<1>8. QED
  BY <1>5, <1>7

\* Every queued write stays sound.
LEMMA WritesSound ==
    ASSUME IInv, DocsOK', Grows, NEW d \in Devices, NEW k \in {0, 1}, NEW N,
           QueueStep(d, k, N), CreatedBy(d, k),
           \A n \in N : SoundWrite(n)'
    PROVE  \A e \in Devices : \A i \in DOMAIN queue'[e] : SoundWrite(queue[e][i])'
<1>1. SUFFICES ASSUME NEW e \in Devices, NEW i \in DOMAIN queue'[e]
               PROVE  SoundWrite(queue[e][i])'
  OBVIOUS
<1>2. queue \in [Devices -> Seq(Write)] /\ queue' \in [Devices -> Seq(Write)]
  BY DEF IInv, DocsOK
<1>3. ASSUME NEW j \in DOMAIN queue[e], SameCall(queue'[e][i], queue[e][j]), e = d => j > k
      PROVE  SoundWrite(queue[e][i])'
  <2>1. queue[e][j] \in Write /\ SoundWrite(queue[e][j])
    BY <1>2, <1>3 DEF IInv, PendingWorkIsSound
  <2>2. PICK w \in Write : w = queue[e][j]
    BY <2>1
  <2>3. Exists(w.order)' => Exists(w.order)
    BY <1>3, <2>2, NotOverCreated
  <2>4. SoundWrite(w)'
    BY <2>1, <2>2, <2>3, WriteKept
  <2>5. QED
    BY <1>3, <2>2, <2>4 DEF SoundWrite, SameCall
<1>4. CASE e # d
  BY <1>3, <1>4 DEF QueueStep, SameCall
<1>5. CASE e = d
  <2>1. CASE i + k \in DOMAIN queue[d] /\ SameCall(queue'[d][i], queue[d][i + k])
    <3>1. i + k > k
      BY <1>1, <1>2, <1>5
    <3>2. QED
      BY <1>3, <1>5, <2>1, <3>1
  <2>2. CASE \E n \in N : SameCall(queue'[d][i], n)
    <3>1. PICK n \in N : SameCall(queue'[d][i], n)
      BY <2>2
    <3>2. SoundWrite(n)'
      OBVIOUS
    <3>3. QED
      BY <1>5, <3>1, <3>2 DEF SoundWrite, SameCall
  <2>3. QED
    BY <1>1, <1>5, <2>1, <2>2 DEF QueueStep
<1>6. QED
  BY <1>4, <1>5

\* A pending create was pending before, or is for an order of no earlier page.
LEMMA CreatesAreOld ==
    ASSUME IInv, DocsOK', NEW d \in Devices, NEW k \in {0, 1}, NEW N,
           QueueStep(d, k, N),
           \A n \in N : n.op = "create" => n.order \notin issued,
           NEW e \in Devices, NEW i \in DOMAIN queue'[e], queue'[e][i].op = "create"
    PROVE  \/ /\ e = d /\ i + k = Len(queue[d]) + 1
              /\ queue'[e][i].order \notin issued
           \/ LET j == IF e = d THEN i + k ELSE i
              IN  j \in DOMAIN queue[e] /\ SameCall(queue'[e][i], queue[e][j])
BY DEF QueueStep, SameCall

\* An order is created once.
LEMMA StillCreatedOnce ==
    ASSUME IInv, DocsOK', NEW d \in Devices, NEW k \in {0, 1}, NEW N,
           QueueStep(d, k, N),
           \A n \in N : n.op = "create" => n.order \notin issued
    PROVE  CreatedOnce'
<1>1. SUFFICES ASSUME NEW a \in Devices, NEW b \in Devices,
                      NEW i \in DOMAIN queue'[a], NEW j \in DOMAIN queue'[b],
                      queue'[a][i].op = "create", queue'[b][j].op = "create",
                      queue'[a][i].order = queue'[b][j].order
               PROVE  a = b /\ i = j
  BY DEF CreatedOnce
<1> DEFINE p == IF a = d THEN i + k ELSE i
           q == IF b = d THEN j + k ELSE j
           OldI == p \in DOMAIN queue[a] /\ SameCall(queue'[a][i], queue[a][p])
           OldJ == q \in DOMAIN queue[b] /\ SameCall(queue'[b][j], queue[b][q])
           NewI == a = d /\ i + k = Len(queue[d]) + 1 /\ queue'[a][i].order \notin issued
           NewJ == b = d /\ j + k = Len(queue[d]) + 1 /\ queue'[b][j].order \notin issued
<1>2. /\ queue \in [Devices -> Seq(Write)] /\ queue' \in [Devices -> Seq(Write)]
      /\ i \in Nat /\ j \in Nat
  BY SMTT(30) DEF IInv, DocsOK
<1>3. (NewI \/ OldI) /\ (NewJ \/ OldJ)
  BY <1>1, CreatesAreOld
<1>4. OldI => queue'[a][i].order \in issued
  BY DEF SameCall, SoundWrite, IInv, PendingWorkIsSound
<1>5. OldJ => queue'[b][j].order \in issued
  BY DEF SameCall, SoundWrite, IInv, PendingWorkIsSound
<1>6. CASE OldI /\ OldJ
  <2>1. a = b /\ p = q
    <3>1. /\ queue[a][p].op = "create" /\ queue[b][q].op = "create"
          /\ queue[a][p].order = queue[b][q].order
      BY <1>1, <1>6 DEF SameCall
    <3>2. CreatedOnce /\ p \in DOMAIN queue[a] /\ q \in DOMAIN queue[b]
      BY <1>6 DEF IInv, PendingWorkIsSound
    <3>3. QED
      BY <3>1, <3>2, ZenonT(60) DEF CreatedOnce
  <2>2. QED
    BY <1>2, <2>1
<1>7. CASE NewI /\ NewJ
  BY <1>2, <1>7
<1>8. QED
  BY <1>1, <1>3, <1>4, <1>5, <1>6, <1>7

\* Page r shows what the pending creates of its order will create.
MatchesCreates(r) ==
    r.page \in Shown =>
        \A c \in Devices : \A j \in DOMAIN queue'[c] :
            (queue'[c][j].op = "create" /\ queue'[c][j].order = r.order)
            => r.snap.paymentOption = queue'[c][j].paymentOption

\* Every stack shows old routes, or routes whose soundness is known.
RoutesFrom ==
    \A e \in Devices : \A i \in DOMAIN nav'[e] :
        \/ \E j \in DOMAIN nav[e] : SameRoute(nav'[e][i], nav[e][j])
        \/ SoundRoute(nav[e][i])' /\ MatchesCreates(nav'[e][i])

\* Every open page stays sound.
LEMMA RoutesSound ==
    ASSUME IInv, DocsOK', Grows, NEW d \in Devices, NEW k \in {0, 1},
           CreatedBy(d, k), RoutesFrom
    PROVE  \A e \in Devices : \A i \in DOMAIN nav'[e] : SoundRoute(nav[e][i])'
<1>1. SUFFICES ASSUME NEW e \in Devices, NEW i \in DOMAIN nav'[e],
                      NEW j \in DOMAIN nav[e], SameRoute(nav'[e][i], nav[e][j])
               PROVE  SoundRoute(nav[e][i])'
  BY DEF RoutesFrom
<1>2. /\ nav \in [Devices -> Seq(Route)] /\ queue \in [Devices -> Seq(Write)]
      /\ PendingWorkIsSound
  BY DEF IInv, DocsOK
<1>3. nav[e][j] \in Route /\ SoundRoute(nav[e][j])
  BY <1>1, <1>2 DEF PendingWorkIsSound
<1>4. PICK r \in Route : r = nav[e][j]
  BY <1>3
<1>5. PICK s : s = nav'[e][i]
  OBVIOUS
<1>6. ASSUME r.page \in Shown, ~Exists(r.order), Exists(r.order)'
      PROVE  r.snap.paymentOption = order'[r.order].paymentOption
  <2>1. r.order \in Orders
    BY <1>6 DEF Route, Shown
  <2>2. /\ queue[d] # <<>> /\ queue[d][1].op = "create" /\ queue[d][1].order = r.order
        /\ order'[r.order].paymentOption = queue[d][1].paymentOption
    BY <1>6, <2>1 DEF CreatedBy
  <2>3. 1 \in DOMAIN queue[d]
    BY <1>2, <2>2
  <2>4. QED
    BY <1>2, <1>4, <1>6, <2>2, <2>3 DEF PendingWorkIsSound, PagesMatchCreates, Shown
<1>7. SoundRoute(s)'
  BY <1>1, <1>3, <1>4, <1>5, <1>6, RouteKept
<1>8. QED
  BY <1>5, <1>7 DEF SoundRoute, SoundSnapshot

\* Every open page still shows what a pending create will create.
LEMMA StillMatch ==
    ASSUME IInv, DocsOK', Grows, NEW d \in Devices, NEW k \in {0, 1}, NEW N,
           QueueStep(d, k, N), RoutesFrom,
           \A n \in N : n.op = "create" => n.order \notin issued
    PROVE  PagesMatchCreates'
<1>1. SUFFICES ASSUME NEW a \in Devices, NEW c \in Devices,
                      NEW i \in DOMAIN nav'[a], NEW j \in DOMAIN queue'[c],
                      nav'[a][i].page \in Shown, queue'[c][j].op = "create",
                      nav'[a][i].order = queue'[c][j].order
               PROVE  nav'[a][i].snap.paymentOption = queue'[c][j].paymentOption
  BY DEF PagesMatchCreates, Shown
<1>2. SUFFICES ASSUME NEW m \in DOMAIN nav[a], SameRoute(nav'[a][i], nav[a][m])
               PROVE  nav'[a][i].snap.paymentOption = queue'[c][j].paymentOption
  BY <1>1 DEF RoutesFrom, MatchesCreates
<1>3. nav[a][m].page \in Shown /\ SoundRoute(nav[a][m])
  BY <1>1, <1>2 DEF SameRoute, IInv, PendingWorkIsSound
<1>4. nav'[a][i].order \in issued
  BY <1>2, <1>3 DEF SameRoute, SoundRoute, SoundSnapshot, Shown
<1>5. PICK q \in DOMAIN queue[c] : SameCall(queue'[c][j], queue[c][q])
  BY <1>1, <1>4, CreatesAreOld
<1>6. /\ queue[c][q].op = "create" /\ nav[a][m].order = queue[c][q].order
      /\ nav[a][m].snap.paymentOption = nav'[a][i].snap.paymentOption
      /\ queue[c][q].paymentOption = queue'[c][j].paymentOption
  BY <1>1, <1>2, <1>5 DEF SameCall, SameRoute
<1>7. QED
  BY <1>3, <1>6 DEF IInv, PendingWorkIsSound, PagesMatchCreates, Shown

\* The four lemmas together.
LEMMA Preserved ==
    ASSUME IInv, DocsOK', Grows, NEW d \in Devices, NEW k \in {0, 1}, NEW N,
           QueueStep(d, k, N), CreatedBy(d, k), RoutesFrom,
           \A n \in N : SoundWrite(n)' /\ (n.op = "create" => n.order \notin issued),
           \A o \in Orders : Exists(o)' => o \in issued',
           \A f \in Offers : offer'[f] # "none" => Exists(OrderOf[f])'
    PROVE  PendingWorkIsSound'
<1>1. \A e \in Devices : \A i \in DOMAIN queue'[e] : SoundWrite(queue[e][i])'
  BY WritesSound
<1>2. \A e \in Devices : \A i \in DOMAIN nav'[e] : SoundRoute(nav[e][i])'
  BY RoutesSound
<1>3. CreatedOnce' /\ PagesMatchCreates'
  BY StillCreatedOnce, StillMatch
<1>4. QED
  BY <1>1, <1>2, <1>3 DEF PendingWorkIsSound

\* A step that leaves orders and offers alone only has to add sound writes and
\* sound routes.
LEMMA QuietStep ==
    ASSUME IInv, DocsOK', UNCHANGED <<order, offer>>, issued \subseteq issued',
           \A f \in Offers : charges[f] > 0 => charges'[f] > 0,
           NEW d \in Devices, NEW k \in {0, 1}, NEW N, QueueStep(d, k, N), RoutesFrom,
           \A n \in N : SoundWrite(n)' /\ (n.op = "create" => n.order \notin issued)
    PROVE  IInv'
<1>1. Grows
  BY DEF Grows, Exists, Started
<1>2. CreatedBy(d, k)
  BY DEF CreatedBy, Exists
<1>3. \A o \in Orders : Exists(o)' => o \in issued'
  BY DEF Exists, IInv, PendingWorkIsSound
<1>4. \A f \in Offers : offer'[f] # "none" => Exists(OrderOf[f])'
  BY DEF Exists, IInv, PendingWorkIsSound
<1>5. PendingWorkIsSound'
  BY <1>1, <1>2, <1>3, <1>4, Preserved
<1>6. AcceptedOfferMeansStarted' /\ ChosenOfferBelongs'
  BY DEF IInv, AcceptedOfferMeansStarted, ChosenOfferBelongs, Started
<1>7. ElectronicPaidFirst'
  BY DEF IInv, ElectronicPaidFirst, Started
<1>8. QED
  BY <1>5, <1>6, <1>7 DEF IInv

-----------------------------------------------------------------------------
(* What the Navigator and the queue do in these terms *)

\* Showing a stack unmounts contexts and nothing else in the queue.
LEMMA ShowEffect ==
    ASSUME DocsOK, NEW d \in Devices, NEW stack, NEW kept \in Nat, NEW q \in Seq(Write),
           Show(d, stack, kept, q)
    PROVE  /\ nav'[d] = stack /\ \A e \in Devices \ {d} : nav'[e] = nav[e]
           /\ \A e \in Devices \ {d} : queue'[e] = queue[e]
           /\ DOMAIN queue'[d] = DOMAIN q
           /\ \A i \in DOMAIN q : SameCall(queue'[d][i], q[i])
<1>1. /\ nav'[d] = stack /\ \A e \in Devices \ {d} : nav'[e] = nav[e]
      /\ \A e \in Devices \ {d} : queue'[e] = queue[e]
      /\ queue'[d] = Unmount(q, kept)
  BY DEF Show, DocsOK
<1>2. DOMAIN Unmount(q, kept) = DOMAIN q
  BY DEF Unmount
<1>3. \A i \in DOMAIN q : SameCall(Unmount(q, kept)[i], q[i])
  <2>1. SUFFICES ASSUME NEW i \in DOMAIN q PROVE SameCall(Unmount(q, kept)[i], q[i])
    OBVIOUS
  <2>2. q[i] \in Write
    OBVIOUS
  <2>0. \A j \in DOMAIN q : \E a \in Nat : Unmount(q, kept)[j] = [q[j] EXCEPT !.at = a]
    BY UnmountSame, Zenon
  <2>3. PICK a \in Nat : Unmount(q, kept)[i] = [q[i] EXCEPT !.at = a]
    BY <2>0, Zenon
  <2>4. QED
    BY <2>2, <2>3 DEF SameCall, Write
<1>4. QED
  BY <1>1, <1>2, <1>3

\* The queue of a device that shows a stack over its old writes, over all but
\* the oldest, or over its old writes and a new one.
LEMMA ShowQueue ==
    ASSUME DocsOK, NEW d \in Devices, NEW stack, NEW kept \in Nat, NEW q \in Seq(Write),
           Show(d, stack, kept, q)
    PROVE  /\ q = queue[d] => QueueStep(d, 0, {})
           /\ queue[d] # <<>> /\ q = Tail(queue[d]) => QueueStep(d, 1, {})
           /\ \A w \in Write : q = Append(queue[d], w) => QueueStep(d, 0, {w})
<1>1. /\ \A e \in Devices \ {d} : queue'[e] = queue[e]
      /\ DOMAIN queue'[d] = DOMAIN q
      /\ \A i \in DOMAIN q : SameCall(queue'[d][i], q[i])
  BY ShowEffect
<1>2. queue[d] \in Seq(Write)
  BY DEF DocsOK
<1>3. q = queue[d] => QueueStep(d, 0, {})
  BY <1>1, <1>2 DEF QueueStep
<1>4. queue[d] # <<>> /\ q = Tail(queue[d]) => QueueStep(d, 1, {})
  BY <1>1, <1>2 DEF QueueStep
<1>5. ASSUME NEW w \in Write, q = Append(queue[d], w)
      PROVE  QueueStep(d, 0, {w})
  BY <1>1, <1>2, <1>5 DEF QueueStep
<1>6. QED
  BY <1>3, <1>4, <1>5

\* Starting a call without navigating.
LEMMA EnqueueQueue ==
    ASSUME DocsOK, NEW d \in Devices, NEW w \in Write,
           queue' = [queue EXCEPT ![d] = Append(@, w)]
    PROVE  QueueStep(d, 0, {w})
<1>1. queue[d] \in Seq(Write) /\ queue'[d] = Append(queue[d], w)
  BY DEF DocsOK
<1>2. \A e \in Devices \ {d} : queue'[e] = queue[e]
  BY DEF DocsOK
<1>3. QED
  BY <1>1, <1>2 DEF QueueStep, SameCall

\* A call that goes on to its next write, or ends.
LEMMA ContinueQueue ==
    ASSUME DocsOK, NEW d \in Devices, queue[d] # <<>>, Continue(d, Head(queue[d])),
           NEW n, n = [Head(queue[d]) EXCEPT !.op = Following(Head(queue[d]))]
    PROVE  QueueStep(d, 1, {m \in {n} : Following(Head(queue[d])) # "end"})
<1> DEFINE w == Head(queue[d])
           goes == w.live /\ Following(w) # "end"
<1>1. queue[d] \in Seq(Write)
  BY DEF DocsOK
<1>2. \A e \in Devices \ {d} : queue'[e] = queue[e]
  BY DEF Continue, DocsOK
<1>3. queue'[d] = IF goes THEN Append(Tail(queue[d]), n) ELSE Tail(queue[d])
  BY DEF Continue, DocsOK
<1>4. CASE goes
  <2>1. \A i \in DOMAIN queue'[d] :
           \/ i + 1 \in DOMAIN queue[d] /\ queue'[d][i] = queue[d][i + 1]
           \/ i + 1 = Len(queue[d]) + 1 /\ queue'[d][i] = n
    BY <1>1, <1>3, <1>4
  <2>2. n \in {m \in {n} : Following(w) # "end"}
    BY <1>4
  <2>3. QED
    BY <1>2, <2>1, <2>2 DEF QueueStep, SameCall
<1>5. CASE ~goes
  BY <1>1, <1>2, <1>3, <1>5 DEF QueueStep, SameCall
<1>6. QED
  BY <1>4, <1>5

PlainPage == {"home", "form", "result"}

\* Pages that show no order are sound.
LEMMA StackRoutes ==
    ASSUME NEW d \in Devices, \A e \in Devices \ {d} : nav'[e] = nav[e],
           \A i \in DOMAIN nav'[d] :
              \/ \E j \in DOMAIN nav[d] : SameRoute(nav'[d][i], nav[d][j])
              \/ nav'[d][i].page \in PlainPage
    PROVE  RoutesFrom
BY DEF RoutesFrom, SameRoute, PlainPage, SoundRoute, MatchesCreates, Shown

\* Popping shows old routes only.
LEMMA PopRoutes ==
    ASSUME DocsOK, NEW d \in Devices, NEW n \in Nat, NEW q \in Seq(Write), Pop(d, n, q)
    PROVE  /\ RoutesFrom
           /\ q = queue[d] => QueueStep(d, 0, {})
           /\ queue[d] # <<>> /\ q = Tail(queue[d]) => QueueStep(d, 1, {})
<1> DEFINE s == Popped(nav[d], n)
<1>1. /\ s \in Seq(Route) /\ Len(s) \in Nat
      /\ \A i \in DOMAIN s : i \in DOMAIN nav[d] /\ s[i] = nav[d][i]
  BY PoppedPrefix DEF DocsOK
<1>2. Show(d, s, Len(s), q)
  BY DEF Pop
<1>3. nav'[d] = s /\ \A e \in Devices \ {d} : nav'[e] = nav[e]
  BY <1>1, <1>2, ShowEffect
<1>4. RoutesFrom
  BY <1>1, <1>3, StackRoutes DEF SameRoute
<1>5. QED
  BY <1>1, <1>2, <1>4, ShowQueue

\* Pushing a sound page over a part of the old stack.
LEMMA PushRoutes ==
    ASSUME DocsOK, NEW d \in Devices, NEW s \in Seq(Route), NEW r, NEW q \in Seq(Write),
           \A i \in DOMAIN s : i \in DOMAIN nav[d] /\ s[i] = nav[d][i],
           Show(d, Append(s, r), Len(s), q),
           SoundRoute(r)', MatchesCreates(r)
    PROVE  RoutesFrom
<1>1. nav'[d] = Append(s, r) /\ \A e \in Devices \ {d} : nav'[e] = nav[e]
  <2>1. Len(s) \in Nat
    OBVIOUS
  <2>2. QED
    BY <2>1, ShowEffect
<1>2. \A e \in Devices : \A i \in DOMAIN nav'[e] :
         \/ \E j \in DOMAIN nav[e] : SameRoute(nav'[e][i], nav[e][j])
         \/ e = d /\ nav'[e][i] = r
  <2>1. SUFFICES ASSUME NEW i \in DOMAIN nav'[d]
                 PROVE  (i \in DOMAIN nav[d] /\ nav'[d][i] = nav[d][i]) \/ nav'[d][i] = r
    BY <1>1 DEF SameRoute
  <2>2. QED
    BY <1>1
<1>3. \A e \in Devices : \A i \in DOMAIN nav'[e] :
         nav'[e][i] = r => SoundRoute(nav[e][i])' /\ MatchesCreates(nav'[e][i])
  BY DEF SoundRoute, SoundSnapshot
<1>4. QED
  BY <1>2, <1>3 DEF RoutesFrom

-----------------------------------------------------------------------------
(* New pages *)

\* A page that agrees with the pending creates goes on agreeing while none is added.
LEMMA MatchLater ==
    ASSUME NEW d \in Devices, NEW k \in {0, 1}, QueueStep(d, k, {}), NEW r,
           \A c \in Devices : \A j \in DOMAIN queue[c] :
               (queue[c][j].op = "create" /\ queue[c][j].order = r.order)
               => r.snap.paymentOption = queue[c][j].paymentOption
    PROVE  MatchesCreates(r)
<1>1. SUFFICES ASSUME NEW c \in Devices, NEW i \in DOMAIN queue'[c],
                      queue'[c][i].op = "create", queue'[c][i].order = r.order
               PROVE  r.snap.paymentOption = queue'[c][i].paymentOption
  BY DEF MatchesCreates
<1>2. PICK j \in DOMAIN queue[c] : SameCall(queue'[c][i], queue[c][j])
  BY <1>1 DEF QueueStep, SameCall
<1>3. QED
  BY <1>1, <1>2 DEF SameCall

\* The page on top is sound.
LEMMA TopSound ==
    ASSUME IInv, NEW d \in Devices, nav[d] # <<>>
    PROVE  /\ DocsOK /\ Top(d) \in Route /\ SoundRoute(Top(d))
           /\ Len(nav[d]) \in DOMAIN nav[d]
<1>1. DocsOK /\ Top(d) \in Route /\ Len(nav[d]) \in DOMAIN nav[d]
  BY TopType DEF IInv
<1>2. QED
  BY <1>1 DEF IInv, PendingWorkIsSound, Top

\* A sheet or dialog shows what the page below it shows.
LEMMA DerivedSound ==
    ASSUME IInv, UNCHANGED <<order, offer, issued, charges>>,
           NEW d \in Devices, nav[d] # <<>>, Top(d).page \in Shown,
           QueueStep(d, 0, {}),
           NEW r, r.order = Top(d).order, r.snap = Top(d).snap
    PROVE  SoundSnapshot(r)' /\ MatchesCreates(r)
<1>1. DocsOK /\ SoundRoute(Top(d)) /\ Len(nav[d]) \in DOMAIN nav[d]
  BY TopSound
<1>2. SoundSnapshot(Top(d))
  BY <1>1 DEF SoundRoute, Shown
<1>3. SoundSnapshot(r)
  BY <1>2 DEF SoundSnapshot
<1>4. SoundSnapshot(r)'
  BY <1>3 DEF SoundSnapshot, Exists, Electronic, PaidSomehow
<1>5. \A c \in Devices : \A j \in DOMAIN queue[c] :
         (queue[c][j].op = "create" /\ queue[c][j].order = r.order)
         => r.snap.paymentOption = queue[c][j].paymentOption
  BY <1>1 DEF IInv, PendingWorkIsSound, PagesMatchCreates, Shown, Top
<1>6. QED
  BY <1>4, <1>5, MatchLater

\* A page opened from the order list shows the order and its pending writes.
LEMMA ViewSound ==
    ASSUME IInv, NEW d \in Devices, NEW o \in Orders, ViewStatus(d, o) # "none",
           NEW r, r.order = o, r.snap = ViewOrder(d, o)
    PROVE  /\ SoundSnapshot(r)
           /\ \A c \in Devices : \A j \in DOMAIN queue[c] :
                 (queue[c][j].op = "create" /\ queue[c][j].order = o)
                 => r.snap.paymentOption = queue[c][j].paymentOption
<1>1. /\ queue[d] \in Seq(Write) /\ order[o] \in OrderDoc /\ PendingWorkIsSound
      /\ \A i \in DOMAIN queue[d] : queue[d][i] \in Write /\ SoundWrite(queue[d][i])
  BY DEF IInv, DocsOK, PendingWorkIsSound
<1>2. /\ r.snap.status = ViewStatus(d, o) /\ r.snap.offerId = ViewOfferId(d, o)
      /\ r.snap.paymentOption = ViewPayment(d, o)
  BY DEF ViewOrder
<1> DEFINE shown == Newest(StatusWrites(d, o))
           chosen == Newest({i \in DOMAIN queue[d] : /\ queue[d][i].order = o
                                                      /\ queue[d][i].op = "choose"})
           creates == {i \in DOMAIN queue[d] : /\ queue[d][i].order = o
                                               /\ queue[d][i].op = "create"}
<1>3. r.order \in issued
  <2>1. CASE shown = {}
    BY <1>1, <2>1 DEF ViewStatus, PendingWorkIsSound, Exists
  <2>2. CASE shown # {}
    BY <1>1, <2>2 DEF Newest, StatusWrites, SoundWrite
  <2>3. QED
    BY <2>1, <2>2
<1>4. Exists(o) => r.snap.paymentOption = order[o].paymentOption
  <2>1. Exists(o) => creates = {}
    BY <1>1 DEF SoundWrite
  <2>2. QED
    BY <1>2, <2>1 DEF ViewPayment
<1>5. r.snap.status = "inProgress" => Exists(o) /\ (Electronic(o) => PaidSomehow(o))
  <2>1. SUFFICES ASSUME ViewStatus(d, o) = "inProgress"
                 PROVE  Exists(o) /\ (Electronic(o) => PaidSomehow(o))
    BY <1>2
  <2>2. CASE shown = {}
    BY <2>1, <2>2 DEF ViewStatus, Exists, Started, Electronic, PaidSomehow,
                      IInv, ElectronicPaidFirst
  <2>3. CASE shown # {}
    <3>1. PICK i \in DOMAIN queue[d] : /\ queue[d][i].order = o
                                       /\ queue[d][i].op \in {"create", "start", "cancel"}
                                       /\ StatusSet(queue[d][i].op) = "inProgress"
      BY <2>1, <2>3 DEF ViewStatus, Newest, StatusWrites
    <3>2. queue[d][i].op = "start"
      BY <3>1 DEF StatusSet
    <3>3. queue[d][i].offer \in Offers
      BY <1>1, <3>2 DEF Write
    <3>4. QED
      BY <1>1, <3>1, <3>2, <3>3 DEF SoundWrite, Acceptable, PaidSomehow, Electronic
  <2>4. QED
    BY <2>2, <2>3
<1>6. r.snap.offerId # NoOffer => offer[r.snap.offerId] # "none"
  <2>1. CASE chosen = {}
    BY <1>2, <2>1 DEF ViewOfferId, IInv, ChosenOfferBelongs
  <2>2. CASE chosen # {}
    <3>1. PICK i \in DOMAIN queue[d] : /\ queue[d][i].op = "choose"
                                       /\ ViewOfferId(d, o) = queue[d][i].offer
      BY <2>2 DEF ViewOfferId, Newest
    <3>2. QED
      BY <1>1, <1>2, <3>1 DEF SoundWrite, Acceptable
  <2>3. QED
    BY <2>1, <2>2
<1>7. ASSUME NEW c \in Devices, NEW j \in DOMAIN queue[c],
             queue[c][j].op = "create", queue[c][j].order = o
      PROVE  r.snap.paymentOption = queue[c][j].paymentOption
  <2>1. ~Exists(o)
    BY <1>1, <1>7 DEF PendingWorkIsSound, SoundWrite
  <2>2. shown # {}
    BY <2>1 DEF ViewStatus, Exists
  <2>3. PICK i \in DOMAIN queue[d] : queue[d][i].order = o
    BY <2>2 DEF Newest, StatusWrites
  <2>4. queue[d][i].op = "create"
    BY <1>1, <2>1, <2>3 DEF SoundWrite
  <2>5. creates # {}
    BY <2>3, <2>4
  <2>6. PICK m \in creates : ViewPayment(d, o) = queue[d][m].paymentOption
    BY <2>5 DEF ViewPayment
  <2>7. d = c /\ m = j
    BY <1>1, <1>7, <2>6 DEF PendingWorkIsSound, CreatedOnce
  <2>8. QED
    BY <1>2, <2>6, <2>7
<1>8. QED
  BY <1>3, <1>4, <1>5, <1>6, <1>7 DEF SoundSnapshot

-----------------------------------------------------------------------------
(* The actions *)

\* Opening a sound page.
LEMMA BrowseSafe ==
    ASSUME IInv, DocsOK', NEW d \in Devices, NEW r, Browse(d, r), SoundRoute(r)',
           QueueStep(d, 0, {}) => MatchesCreates(r)
    PROVE  IInv'
<1>1. /\ nav[d] \in Seq(Route) /\ Len(nav[d]) \in Nat
      /\ queue[d] \in Seq(Write) /\ DocsOK
  BY DEF IInv, DocsOK
<1>2. Show(d, Append(nav[d], r), Len(nav[d]), queue[d])
  BY DEF Browse, Push
<1>3. QueueStep(d, 0, {})
  BY <1>1, <1>2, ShowQueue
<1>4. RoutesFrom
  BY <1>1, <1>2, <1>3, PushRoutes
<1>5. QED
  BY <1>3, <1>4, QuietStep DEF Browse

\* The form shows no order.
LEMMA OpenFormSafe ==
    ASSUME IInv, DocsOK', NEW d \in Devices, OpenForm(d)
    PROVE  IInv'
<1>1. PICK r : r = Plain("form")
  OBVIOUS
<1>2. SoundRoute(r)' /\ MatchesCreates(r)
  BY <1>1 DEF SoundRoute, MatchesCreates, Shown, Plain, Screen
<1>3. QED
  BY <1>1, <1>2, BrowseSafe DEF OpenForm

\* A page opened from the order list is sound (ViewSound).
LEMMA OpenOrderSafe ==
    ASSUME IInv, DocsOK', NEW d \in Devices, NEW o \in Orders, OpenOrder(d, o)
    PROVE  IInv'
<1>1. PICK r : r = Screen("order", o, ViewOrder(d, o), NoOffer)
  OBVIOUS
<1>2. r.page = "order" /\ r.order = o /\ r.snap = ViewOrder(d, o)
  BY <1>1 DEF Screen
<1>3. /\ SoundSnapshot(r)
      /\ \A c \in Devices : \A j \in DOMAIN queue[c] :
            (queue[c][j].op = "create" /\ queue[c][j].order = o)
            => r.snap.paymentOption = queue[c][j].paymentOption
  BY <1>2, ViewSound DEF OpenOrder
<1>4. SoundRoute(r)'
  BY <1>2, <1>3 DEF OpenOrder, Browse, SoundRoute, SoundSnapshot, Exists, Electronic, PaidSomehow
<1>5. QueueStep(d, 0, {}) => MatchesCreates(r)
  BY <1>2, <1>3, MatchLater
<1>6. QED
  BY <1>1, <1>4, <1>5, BrowseSafe DEF OpenOrder

\* The sheet shows the page's order and one of its offers.
LEMMA ShowOfferSafe ==
    ASSUME IInv, DocsOK', NEW d \in Devices, NEW f \in Offers, ShowOffer(d, f)
    PROVE  IInv'
<1>1. PICK r : r = Screen("sheet", Top(d).order, Top(d).snap, f)
  OBVIOUS
<1>2. /\ r.page = "sheet" /\ r.order = Top(d).order /\ r.snap = Top(d).snap
      /\ r.offer = f
  BY <1>1 DEF Screen
<1>3. /\ nav[d] # <<>> /\ Top(d).page \in Shown /\ UNCHANGED <<order, offer, issued, charges>>
      /\ OrderOf[f] = Top(d).order /\ offer[f] = "pending"
  BY DEF ShowOffer, On, Shown, Browse, ListedForOrder
<1>4. QueueStep(d, 0, {}) => SoundSnapshot(r)' /\ MatchesCreates(r)
  BY <1>2, <1>3, DerivedSound
<1>5. QueueStep(d, 0, {})
  BY ShowQueue DEF ShowOffer, Browse, Push, IInv, DocsOK
<1>6. SoundRoute(r)'
  BY <1>2, <1>3, <1>4, <1>5 DEF SoundRoute
<1>7. QED
  BY <1>1, <1>4, <1>6, BrowseSafe DEF ShowOffer

\* The cancel dialog is opened on an order the page shows in progress.
LEMMA AskCancelSafe ==
    ASSUME IInv, DocsOK', NEW d \in Devices, AskCancel(d)
    PROVE  IInv'
<1>1. PICK r : r = Screen("dialog", Top(d).order, Top(d).snap, NoOffer)
  OBVIOUS
<1>2. /\ r.page = "dialog" /\ r.order = Top(d).order /\ r.snap = Top(d).snap
  BY <1>1 DEF Screen
<1>3. /\ nav[d] # <<>> /\ Top(d).page \in Shown /\ UNCHANGED <<order, offer, issued, charges>>
      /\ Top(d).snap.status = "inProgress"
  BY DEF AskCancel, On, Shown, Browse, Cancellable
<1>4. QueueStep(d, 0, {}) => SoundSnapshot(r)' /\ MatchesCreates(r)
  BY <1>2, <1>3, DerivedSound
<1>5. QueueStep(d, 0, {})
  BY ShowQueue DEF AskCancel, Browse, Push, IInv, DocsOK
<1>6. SoundRoute(r)'
  BY <1>2, <1>3, <1>4, <1>5 DEF SoundRoute
<1>7. QED
  BY <1>1, <1>4, <1>6, BrowseSafe DEF AskCancel

\* Going back only removes routes.
LEMMA BackSafe ==
    ASSUME IInv, DocsOK', NEW d \in Devices, Back(d)
    PROVE  IInv'
<1>1. queue[d] \in Seq(Write) /\ DocsOK
  BY DEF IInv, DocsOK
<1>2. QueueStep(d, 0, {}) /\ RoutesFrom
  BY <1>1, PopRoutes DEF Back
<1>3. QED
  BY <1>2, QuietStep DEF Back

\* The payment page is opened for the sheet's offer.
LEMMA AcceptOfferElectronicSafe ==
    ASSUME IInv, DocsOK', NEW d \in Devices, AcceptOfferElectronic(d)
    PROVE  IInv'
<1> DEFINE s == Popped(nav[d], 2)
<1>1. PICK r : r = Screen("payment", NoOrder, NoDoc, Top(d).offer)
  OBVIOUS
<1>2. DocsOK /\ queue[d] \in Seq(Write) /\ nav[d] # <<>> /\ Top(d).page = "sheet"
  BY DEF IInv, DocsOK, AcceptOfferElectronic, On
<1>3. r.page = "payment" /\ ~r.busy /\ r.offer = Top(d).offer
  BY <1>1 DEF Screen
<1>4. SoundRoute(r)' /\ MatchesCreates(r)
  BY <1>2, <1>3, TopSound DEF SoundRoute, MatchesCreates, Shown, AcceptOfferElectronic
<1>5. /\ s \in Seq(Route) /\ Len(s) \in Nat
      /\ \A i \in DOMAIN s : i \in DOMAIN nav[d] /\ s[i] = nav[d][i]
  BY <1>2, PoppedPrefix DEF DocsOK
<1>6. Show(d, Append(s, r), Len(s), queue[d])
  BY <1>1 DEF AcceptOfferElectronic
<1>7. QueueStep(d, 0, {})
  BY <1>2, <1>5, <1>6, ShowQueue
<1>8. RoutesFrom
  BY <1>2, <1>4, <1>5, <1>6, PushRoutes
<1>9. QED
  BY <1>7, <1>8, QuietStep DEF AcceptOfferElectronic

\* Setting the busy flag of the page on top.
LEMMA BusyEffect ==
    ASSUME DocsOK, NEW d \in Devices, nav[d] # <<>>,
           nav' = [nav EXCEPT ![d][Len(nav[d])].busy = TRUE]
    PROVE  /\ \A e \in Devices \ {d} : nav'[e] = nav[e]
           /\ DOMAIN nav'[d] = DOMAIN nav[d]
           /\ \A i \in DOMAIN nav[d] :
                 /\ nav'[d][i].page = nav[d][i].page /\ nav'[d][i].order = nav[d][i].order
                 /\ nav'[d][i].snap = nav[d][i].snap /\ nav'[d][i].offer = nav[d][i].offer
                 /\ i # Len(nav[d]) => nav'[d][i] = nav[d][i]
<1>1. nav \in [Devices -> Seq(Route)] /\ nav[d] \in Seq(Route)
  BY DEF DocsOK
<1>2. /\ \A e \in Devices \ {d} : nav'[e] = nav[e]
      /\ nav'[d] = [nav[d] EXCEPT ![Len(nav[d])] = [nav[d][Len(nav[d])] EXCEPT !.busy = TRUE]]
  BY <1>1
<1>3. \A r \in Route : LET s == [r EXCEPT !.busy = TRUE]
                       IN  s.page = r.page /\ s.order = r.order /\ s.snap = r.snap /\ s.offer = r.offer
  BY DEF Route
<1>4. \A i \in DOMAIN nav[d] : nav[d][i] \in Route
  BY <1>1
<1>5. QED
  BY <1>2, <1>3, <1>4

\* sendOrder enqueues the create of an id nobody has used.
LEMMA SendOrderSafe ==
    ASSUME IInv, DocsOK', NEW d \in Devices, NEW o \in Orders, NEW p \in PaymentOption,
           SendOrder(d, o, p)
    PROVE  IInv'
<1>1. PICK n : n = Call("create", o, NoOffer, p, Len(nav[d]))
  OBVIOUS
<1>2. /\ DocsOK /\ nav[d] # <<>> /\ Top(d).page = "form" /\ Len(nav[d]) \in Nat
      /\ o \notin issued /\ issued' = issued \cup {o} /\ UNCHANGED <<order, offer, charges>>
  BY TopType DEF IInv, SendOrder, On
<1>3. n \in Write /\ n.op = "create" /\ n.order = o
  BY <1>1, <1>2, CallType DEF Call
<1>4. ~Exists(o)
  BY <1>2 DEF IInv, PendingWorkIsSound
<1>5. SoundWrite(n)'
  BY <1>2, <1>3, <1>4 DEF SoundWrite, Exists
<1>6. QueueStep(d, 0, {n})
  BY <1>1, <1>2, <1>3, EnqueueQueue DEF SendOrder
<1>7. RoutesFrom
  <2>1. nav' = [nav EXCEPT ![d][Len(nav[d])].busy = TRUE]
    BY DEF SendOrder
  <2>2. \A i \in DOMAIN nav'[d] : SameRoute(nav'[d][i], nav[d][i])
    BY <1>2, <2>1, BusyEffect DEF SameRoute, Top
  <2>3. DOMAIN nav'[d] = DOMAIN nav[d] /\ \A e \in Devices \ {d} : nav'[e] = nav[e]
    BY <1>2, <2>1, BusyEffect
  <2>4. \A i \in DOMAIN nav'[d] : \E j \in DOMAIN nav[d] : SameRoute(nav'[d][i], nav[d][j])
    BY <2>2, <2>3
  <2>5. QED
    BY <2>3, <2>4, StackRoutes
<1>8. QED
  BY <1>2, <1>3, <1>5, <1>6, <1>7, QuietStep

\* A stack that did not change.
LEMMA SameStacks ==
    ASSUME UNCHANGED nav
    PROVE  RoutesFrom
BY DEF RoutesFrom, SameRoute

\* acceptOffer from a sheet: the order is a cash order, since pages know the payment option.
LEMMA AcceptOfferCashSafe ==
    ASSUME IInv, DocsOK', NEW d \in Devices, AcceptOfferCash(d)
    PROVE  IInv'
<1> DEFINE t == Top(d)
<1>1. PICK n : n = Call(AcceptsWith, t.order, t.offer, "cash", Len(nav[d]))
  OBVIOUS
<1>2. /\ nav[d] # <<>> /\ t.page = "sheet" /\ t.snap.paymentOption # "electronic"
      /\ UNCHANGED <<order, offer, issued, nav, charges>>
  BY DEF AcceptOfferCash, On
<1>3. /\ DocsOK /\ t \in Route /\ SoundRoute(t) /\ Len(nav[d]) \in Nat
      /\ t.order \in Orders /\ t.offer \in Offers
  BY <1>2, TopSound, TopType DEF Route
<1>4. n \in Write /\ n.op = "start" /\ n.order = t.order /\ n.offer = t.offer
  BY <1>1, <1>3, CallType DEF AcceptsWith, Call, PaymentOption
<1>5. /\ SoundSnapshot(t) /\ OrderOf[t.offer] = t.order /\ offer[t.offer] # "none"
      /\ Exists(t.order)
  BY <1>2, <1>3 DEF SoundRoute, IInv, PendingWorkIsSound
<1>6. SoundWrite(n)
  BY <1>2, <1>4, <1>5 DEF SoundWrite, SoundSnapshot, Acceptable, Electronic
<1>7. SoundWrite(n)'
  BY <1>2, <1>6 DEF SoundWrite, Acceptable, Electronic, Exists, Started, PaidSomehow
<1>8. QueueStep(d, 0, {n})
  BY <1>1, <1>3, <1>4, EnqueueQueue DEF AcceptOfferCash
<1>9. QED
  BY <1>2, <1>4, <1>7, <1>8, SameStacks, QuietStep

\* cancelOrder from a dialog: the order is in progress, so it was paid if electronic.
LEMMA CancelOrderSafe ==
    ASSUME IInv, DocsOK', NEW d \in Devices, CancelOrder(d)
    PROVE  IInv'
<1> DEFINE t == Top(d)
<1>1. PICK n : n = Call("cancel", t.order, t.snap.offerId, t.snap.paymentOption, Len(nav[d]) - 1)
  OBVIOUS
<1>2. /\ nav[d] # <<>> /\ t.page = "dialog"
      /\ UNCHANGED <<order, offer, issued, nav, charges>>
  BY DEF CancelOrder, On
<1>3. /\ DocsOK /\ t \in Route /\ SoundRoute(t) /\ Len(nav[d]) - 1 \in Nat
      /\ t.order \in Orders /\ t.snap \in OrderDoc
  BY <1>2, TopSound, TopType DEF Route
<1>4. n \in Write /\ n.op = "cancel" /\ n.order = t.order /\ n.offer = t.snap.offerId
  BY <1>1, <1>3, CallType DEF Call, OrderDoc
<1>5. SoundSnapshot(t) /\ t.snap.status = "inProgress"
  BY <1>2, <1>3 DEF SoundRoute
<1>6. SoundWrite(n)
  BY <1>4, <1>5 DEF SoundWrite, SoundSnapshot
<1>7. SoundWrite(n)'
  BY <1>2, <1>6 DEF SoundWrite, Acceptable, Electronic, Exists, Started, PaidSomehow
<1>8. QueueStep(d, 0, {n})
  BY <1>1, <1>3, <1>4, EnqueueQueue DEF CancelOrder
<1>9. QED
  BY <1>2, <1>4, <1>7, <1>8, SameStacks, QuietStep

\* A charge makes the payment page wait for its answer.
LEMMA PaymentCapturedSafe ==
    ASSUME IInv, DocsOK', NEW d \in Devices, PaymentCaptured(d)
    PROVE  IInv'
<1> DEFINE t == Top(d)
           l == Len(nav[d])
<1>1. /\ nav[d] # <<>> /\ t.page = "payment" /\ UNCHANGED <<order, offer, issued, queue>>
      /\ nav' = [nav EXCEPT ![d][l].busy = TRUE]
      /\ charges' = [charges EXCEPT ![t.offer] = @ + 1]
  BY DEF PaymentCaptured, On
<1>2. /\ DocsOK /\ t \in Route /\ SoundRoute(t) /\ t.offer \in Offers
      /\ charges \in [Offers -> Nat]
  BY <1>1, TopSound DEF Route, DocsOK
<1>3. charges'[t.offer] > 0 /\ \A f \in Offers : charges[f] > 0 => charges'[f] > 0
  BY <1>1, <1>2
<1>4. /\ DOMAIN nav'[d] = DOMAIN nav[d]
      /\ \A e \in Devices \ {d} : nav'[e] = nav[e]
      /\ \A i \in DOMAIN nav'[d] : i # l => SameRoute(nav'[d][i], nav[d][i])
      /\ l \in DOMAIN nav'[d] =>
            nav'[d][l].page = "payment" /\ nav'[d][l].offer = t.offer
  BY <1>1, <1>2, BusyEffect DEF SameRoute, Top
<1>5. \A i \in DOMAIN nav'[d] : i = l => SoundRoute(nav[d][i])' /\ MatchesCreates(nav'[d][i])
  <2>1. offer'[t.offer] # "none"
    BY <1>1, <1>2 DEF SoundRoute
  <2>2. QED
    BY <1>3, <1>4, <2>1 DEF SoundRoute, MatchesCreates, Shown
<1>6. RoutesFrom
  BY <1>4, <1>5 DEF RoutesFrom, SameRoute
<1>7. QueueStep(d, 0, {})
  BY <1>1, <1>2 DEF QueueStep, SameCall, DocsOK
<1>8. QED
  BY <1>1, <1>3, <1>6, <1>7, QuietStep

\* acceptOffer from the paid branch: the page waits for an answer, so its offer was charged.
LEMMA OnPaymentPaidSafe ==
    ASSUME IInv, DocsOK', NEW d \in Devices, OnPaymentPaid(d)
    PROVE  IInv'
<1> DEFINE f == Top(d).offer
           l == Len(nav[d]) - 1
           s == Popped(nav[d], 1)
           plain == <<Plain("result"), Plain("result")>>
<1>1. PICK n : n = Call(AcceptsWith, OrderOf[f], f, "electronic", l + 1)
  OBVIOUS
<1>2. /\ nav[d] # <<>> /\ Top(d).page = "payment" /\ Top(d).busy
      /\ UNCHANGED <<order, offer, issued, charges>>
  BY DEF OnPaymentPaid, On, IsPaid
<1>3. /\ DocsOK /\ Top(d) \in Route /\ SoundRoute(Top(d)) /\ l \in Nat /\ f \in Offers
      /\ queue[d] \in Seq(Write) /\ nav[d] \in Seq(Route)
  <2>1. DocsOK /\ Top(d) \in Route /\ SoundRoute(Top(d))
    BY <1>2, TopSound
  <2>2. f \in Offers
    BY <1>2, <2>1 DEF Route
  <2>3. QED
    BY <1>2, <2>1, <2>2, TopType DEF DocsOK
<1>4. n \in Write /\ n.op = "start" /\ n.order = OrderOf[f] /\ n.offer = f
  BY <1>1, <1>3, CallType, OrderOfAssumption DEF AcceptsWith, Call, PaymentOption
<1>5. offer[f] # "none" /\ charges[f] > 0 /\ Exists(OrderOf[f]) /\ OrderOf[f] \in issued
  <2>1. offer[f] # "none" /\ charges[f] > 0
    BY <1>2, <1>3 DEF SoundRoute
  <2>2. OrderOf[f] \in Orders
    BY <1>3, OrderOfAssumption
  <2>3. QED
    BY <1>3, <2>1, <2>2 DEF IInv, PendingWorkIsSound
<1>6. SoundWrite(n)
  BY <1>4, <1>5 DEF SoundWrite, Acceptable
<1>7. SoundWrite(n)'
  BY <1>2, <1>6 DEF SoundWrite, Acceptable, Electronic, Exists, Started, PaidSomehow
<1>8. /\ Show(d, s \o plain, l, Append(queue[d], n))
      /\ Append(queue[d], n) \in Seq(Write)
  BY <1>1, <1>3, <1>4 DEF OnPaymentPaid
<1>9. QueueStep(d, 0, {n})
  BY <1>3, <1>4, <1>8, ShowQueue
<1>10. RoutesFrom
  <2>1. nav'[d] = s \o plain /\ \A e \in Devices \ {d} : nav'[e] = nav[e]
    BY <1>3, <1>8, ShowEffect
  <2>2. s \in Seq(Route) /\ \A i \in DOMAIN s : i \in DOMAIN nav[d] /\ s[i] = nav[d][i]
    BY <1>3, PoppedPrefix
  <2>3. Plain("result").page = "result"
    BY DEF Plain, Screen
  <2>4. \A i \in DOMAIN (s \o plain) : (i \in DOMAIN s /\ (s \o plain)[i] = s[i])
                                        \/ (s \o plain)[i] = Plain("result")
    BY <2>2
  <2>5. \A i \in DOMAIN nav'[d] : \/ \E j \in DOMAIN nav[d] : SameRoute(nav'[d][i], nav[d][j])
                                  \/ nav'[d][i].page \in PlainPage
    BY <2>1, <2>2, <2>3, <2>4 DEF SameRoute, PlainPage
  <2>6. QED
    BY <2>1, <2>5, StackRoutes
<1>11. QED
  BY <1>2, <1>4, <1>7, <1>9, <1>10, QuietStep

\* Any other result only shows a page.
LEMMA OnPaymentOtherSafe ==
    ASSUME IInv, DocsOK', NEW d \in Devices, OnPaymentOther(d)
    PROVE  IInv'
<1> DEFINE l == Len(nav[d])
           s == [nav[d] EXCEPT ![l].busy = FALSE]
<1>1. /\ DocsOK /\ nav[d] # <<>> /\ queue[d] \in Seq(Write) /\ nav[d] \in Seq(Route)
      /\ UNCHANGED <<order, offer, issued, charges>>
  BY DEF OnPaymentOther, On, IInv, DocsOK
<1>2. Show(d, Append(s, Plain("result")), l, queue[d]) /\ l \in Nat
  BY <1>1 DEF OnPaymentOther
<1>3. QueueStep(d, 0, {})
  BY <1>1, <1>2, ShowQueue
<1>4. /\ nav'[d] = Append(s, Plain("result"))
      /\ \A e \in Devices \ {d} : nav'[e] = nav[e]
  BY <1>1, <1>2, ShowEffect
<1>5. s \in Seq(Route) /\ DOMAIN s = DOMAIN nav[d]
  BY <1>1, BusyType
<1>6. \A i \in DOMAIN s : SameRoute(s[i], nav[d][i])
  <2>1. \A r \in Route : SameRoute([r EXCEPT !.busy = FALSE], r)
    BY DEF SameRoute, Route
  <2>2. \A i \in DOMAIN s : s[i] = nav[d][i] \/ s[i] = [nav[d][i] EXCEPT !.busy = FALSE]
    BY <1>1, <1>5
  <2>3. \A i \in DOMAIN s : nav[d][i] \in Route
    BY <1>1, <1>5
  <2>4. QED
    BY <2>1, <2>2, <2>3 DEF SameRoute
<1>7. \A i \in DOMAIN nav'[d] : (i \in DOMAIN s /\ nav'[d][i] = s[i]) \/ nav'[d][i] = Plain("result")
  BY <1>4, <1>5
<1>8. RoutesFrom
  <2>1. Plain("result").page \in PlainPage
    BY DEF Plain, Screen, PlainPage
  <2>2. \A i \in DOMAIN nav'[d] : \/ \E j \in DOMAIN nav[d] : SameRoute(nav'[d][i], nav[d][j])
                                  \/ nav'[d][i].page \in PlainPage
    BY <1>5, <1>6, <1>7, <2>1, Zenon
  <2>3. QED
    BY <1>4, <2>2, StackRoutes
<1>9. QED
  BY <1>1, <1>3, <1>8, QuietStep

\* The end of sendOrder opens a page that is sound if the document created, if
\* any, is the one written.
LEMMA ShowSentEffect ==
    ASSUME IInv, DocsOK', NEW d \in Devices, queue[d] # <<>>,
           NEW w, w = Head(queue[d]), w.op = "create", ShowSent(d, w),
           issued \subseteq issued',
           Exists(w.order)' => order'[w.order].paymentOption = w.paymentOption
    PROVE  QueueStep(d, 1, {}) /\ RoutesFrom
<1> DEFINE s == Popped(nav[d], 1)
<1>1. PICK r : r = Screen("order", w.order, NewOrder(w.paymentOption), NoOffer)
  OBVIOUS
<1>2. /\ DocsOK /\ PendingWorkIsSound /\ Tail(queue[d]) \in Seq(Write) /\ queue[d] \in Seq(Write)
      /\ 1 \in DOMAIN queue[d] /\ w = queue[d][1] /\ nav[d] \in Seq(Route)
  BY HeadType DEF IInv, DocsOK
<1>3. /\ r.page = "order" /\ r.order = w.order /\ r.snap.paymentOption = w.paymentOption
      /\ r.snap.status = "awaitingOffers" /\ r.snap.offerId = NoOffer
  BY <1>1 DEF Screen, NewOrder
<1>4. SoundRoute(r)'
  <2>1. w.order \in issued'
    BY <1>2 DEF PendingWorkIsSound, SoundWrite
  <2>2. QED
    BY <1>3, <2>1 DEF SoundRoute, SoundSnapshot
<1>5. QueueStep(d, 1, {}) => MatchesCreates(r)
  <2>1. SUFFICES ASSUME QueueStep(d, 1, {}), NEW c \in Devices, NEW i \in DOMAIN queue'[c],
                        queue'[c][i].op = "create", queue'[c][i].order = w.order
                 PROVE  FALSE
    BY <1>3 DEF MatchesCreates
  <2>2. PICK j \in DOMAIN queue[c] : SameCall(queue'[c][i], queue[c][j]) /\ (c = d => j = i + 1)
    BY <2>1 DEF QueueStep, SameCall
  <2>3. queue[c][j].op = "create" /\ queue[c][j].order = queue[d][1].order
    BY <1>2, <2>1, <2>2 DEF SameCall
  <2>4. d = c /\ 1 = j
    BY <1>2, <2>3, ZenonT(60) DEF PendingWorkIsSound, CreatedOnce
  <2>5. i \in Nat \ {0}
    BY <2>1 DEF DocsOK
  <2>6. QED
    BY <2>2, <2>4, <2>5
<1>6. CASE Show(d, Append(s, r), Len(s), Tail(queue[d]))
  <2>1. /\ s \in Seq(Route) /\ Len(s) \in Nat
        /\ \A i \in DOMAIN s : i \in DOMAIN nav[d] /\ s[i] = nav[d][i]
    BY <1>2, PoppedPrefix
  <2>2. QueueStep(d, 1, {})
    BY <1>2, <1>6, <2>1, ShowQueue
  <2>3. QED
    BY <1>2, <1>4, <1>5, <1>6, <2>1, <2>2, PushRoutes
<1>7. CASE Pop(d, 0, Tail(queue[d]))
  BY <1>2, <1>7, PopRoutes
<1>8. QED
  BY <1>1, <1>6, <1>7 DEF ShowSent

\* A rejected write leaves the queue; a rejected create still opens its page.
LEMMA RejectSafe ==
    ASSUME IInv, DocsOK', NEW d \in Devices, Reject(d)
    PROVE  IInv'
<1>1. PICK w : w = Head(queue[d])
  OBVIOUS
<1>2. /\ queue[d] # <<>> /\ DocsOK /\ PendingWorkIsSound /\ Tail(queue[d]) \in Seq(Write)
      /\ 1 \in DOMAIN queue[d] /\ w = queue[d][1]
      /\ UNCHANGED <<order, offer, issued, charges>>
  BY <1>1, HeadType DEF Reject, IInv, DocsOK
<1>3. QueueStep(d, 1, {}) /\ RoutesFrom
  <2>1. CASE Ready(d, "create")
    <3>1. w.op = "create" /\ ShowSent(d, w)
      BY <1>1, <2>1 DEF Reject, Ready
    <3>2. ~Exists(w.order)'
      BY <1>2, <3>1 DEF PendingWorkIsSound, SoundWrite, Exists
    <3>3. QED
      BY <1>1, <1>2, <3>1, <3>2, ShowSentEffect
  <2>2. CASE ~Ready(d, "create")
    BY <1>2, <2>2, PopRoutes DEF Reject
  <2>3. QED
    BY <2>1, <2>2
<1>4. QED
  BY <1>2, <1>3, QuietStep

\* A restart forgets routes and calls and keeps the writes.
LEMMA KillSafe ==
    ASSUME IInv, DocsOK', NEW d \in Devices, Kill(d)
    PROVE  IInv'
<1>1. /\ queue \in [Devices -> Seq(Write)] /\ nav \in [Devices -> Seq(Route)]
      /\ UNCHANGED <<order, offer, issued, charges>>
  BY DEF IInv, DocsOK, Kill
<1>2. /\ nav'[d] = <<Plain("home")>> /\ \A e \in Devices \ {d} : nav'[e] = nav[e]
      /\ \A e \in Devices \ {d} : queue'[e] = queue[e]
      /\ queue'[d] = [i \in DOMAIN queue[d] |-> [queue[d][i] EXCEPT !.at = 0, !.live = FALSE]]
  BY <1>1 DEF Kill
<1>3. RoutesFrom
  <2>1. Plain("home").page \in PlainPage
    BY DEF Plain, Screen, PlainPage
  <2>2. \A i \in DOMAIN nav'[d] : nav'[d][i] = Plain("home")
    <3>1. \A x : \A i \in DOMAIN <<x>> : <<x>>[i] = x
      OBVIOUS
    <3>2. QED
      BY <1>2, <3>1, Zenon
  <2>3. QED
    BY <1>2, <2>1, <2>2, StackRoutes
<1>4. QueueStep(d, 0, {})
  <2>1. \A u \in Write : SameCall([u EXCEPT !.at = 0, !.live = FALSE], u)
    BY DEF SameCall, Write
  <2>2. \A i \in DOMAIN queue[d] : queue[d][i] \in Write /\ i + 0 = i
    BY <1>1
  <2>3. \A i \in DOMAIN queue'[d] : /\ i \in DOMAIN queue[d]
                                    /\ SameCall(queue'[d][i], queue[d][i])
    BY <1>2, <2>1, <2>2
  <2>4. QED
    BY <1>2, <2>2, <2>3 DEF QueueStep
<1>5. QED
  BY <1>1, <1>3, <1>4, QuietStep

-----------------------------------------------------------------------------
(* Acknowledgements *)

\* The oldest pending write is sound.
LEMMA HeadSound ==
    ASSUME IInv, NEW d \in Devices, queue[d] # <<>>, NEW w, w = Head(queue[d])
    PROVE  /\ DocsOK /\ w \in Write /\ SoundWrite(w) /\ w = queue[d][1]
           /\ w.order \in Orders /\ w.offer \in Offers \cup {NoOffer}
           /\ w.op \in {"start", "choose", "accept", "withdraw"} => w.offer \in Offers
<1>1. /\ DocsOK /\ w \in Write /\ w = queue[d][1] /\ 1 \in DOMAIN queue[d]
  BY HeadType DEF IInv, DocsOK
<1>2. SoundWrite(w)
  BY <1>1 DEF IInv, PendingWorkIsSound
<1>3. QED
  BY <1>1, <1>2 DEF Write

\* Nothing is created by an update.
LEMMA NothingCreatedBy ==
    ASSUME NothingCreated, NEW d, NEW k
    PROVE  CreatedBy(d, k)
BY DEF NothingCreated, CreatedBy

\* The status update of acceptOffer or cancelOrder.
LEMMA StatusStep ==
    ASSUME IInv, DocsOK', NEW d \in Devices, queue[d] # <<>>, NEW w, w = Head(queue[d]),
           NEW s \in {"inProgress", "cancelled"},
           order' = [order EXCEPT ![w.order].status = s],
           UNCHANGED <<offer, issued, nav, charges>>,
           Continue(d, w), Exists(w.order),
           Electronic(w.order) => PaidSomehow(w.order),
           NEW n, n = [w EXCEPT !.op = Following(w)],
           Following(w) # "end" => SoundWrite(n)' /\ n.op # "create"
    PROVE  IInv'
<1>1. /\ DocsOK /\ w.order \in Orders /\ PendingWorkIsSound
      /\ AcceptedOfferMeansStarted /\ ChosenOfferBelongs /\ ElectronicPaidFirst
  BY HeadSound DEF IInv
<1>2. /\ \A o \in Orders : o # w.order => order'[o] = order[o]
      /\ order'[w.order].status = s
      /\ order'[w.order].offerId = order[w.order].offerId
      /\ order'[w.order].paymentOption = order[w.order].paymentOption
  BY <1>1 DEF DocsOK, OrderDoc
<1>3. Grows /\ NothingCreated
  BY <1>1, <1>2 DEF Grows, NothingCreated, Exists, Started
<1>4. QueueStep(d, 1, {m \in {n} : Following(w) # "end"})
  BY <1>1, ContinueQueue
<1>5. \A o \in Orders : Exists(o)' => o \in issued'
  BY <1>1, <1>3 DEF NothingCreated, PendingWorkIsSound
<1>6. \A f \in Offers : offer'[f] # "none" => Exists(OrderOf[f])'
  BY <1>1, <1>3, OrderOfAssumption DEF Grows, PendingWorkIsSound
<1>7. PendingWorkIsSound'
  <2> DEFINE N == {m \in {n} : Following(w) # "end"}
  <2>1. CreatedBy(d, 1) /\ RoutesFrom
    BY <1>3, NothingCreatedBy, SameStacks
  <2>2. \A m \in {n} : Following(w) # "end" =>
            SoundWrite(m)' /\ (m.op = "create" => m.order \notin issued)
    <3>1. \A m \in {n} : m = n
      OBVIOUS
    <3>2. QED
      BY <3>1, Zenon
  <2>3. \A m \in N : SoundWrite(m)' /\ (m.op = "create" => m.order \notin issued)
    BY <2>2, Zenon
  <2>4. QED
    BY <1>3, <1>4, <1>5, <1>6, <2>1, <2>3, Preserved
<1>8. AcceptedOfferMeansStarted'
  BY <1>1, <1>3, OrderOfAssumption DEF AcceptedOfferMeansStarted, Grows
<1>9. \A o \in Orders : order'[o].offerId = order[o].offerId
                         /\ order'[o].paymentOption = order[o].paymentOption
  BY <1>2
<1>10. ChosenOfferBelongs'
  BY <1>1, <1>3, <1>9 DEF ChosenOfferBelongs, Grows
<1>11. ElectronicPaidFirst'
  <2>1. SUFFICES ASSUME NEW o \in Orders, order[o].paymentOption = "electronic"
                 PROVE  /\ Started(o)' => \E f \in Offers : OrderOf[f] = o /\ charges[f] > 0
                        /\ \A f \in Offers : (OrderOf[f] = o
                               /\ (order[o].offerId = f \/ offer[f] = "accepted"))
                             => charges[f] > 0
    BY <1>9 DEF ElectronicPaidFirst
  <2>2. CASE o = w.order
    BY <1>1, <2>1, <2>2 DEF ElectronicPaidFirst, Electronic, PaidSomehow
  <2>3. CASE o # w.order
    BY <1>1, <1>2, <2>1, <2>3 DEF ElectronicPaidFirst, Started
  <2>4. QED
    BY <2>2, <2>3
<1>12. QED
  BY <1>7, <1>8, <1>10, <1>11 DEF IInv

\* The order is started; the next write names the offer.
LEMMA AckStartSafe ==
    ASSUME IInv, DocsOK', NEW d \in Devices, AckStart(d)
    PROVE  IInv'
<1>1. PICK w : w = Head(queue[d])
  OBVIOUS
<1>2. PICK n : n = [w EXCEPT !.op = Following(w)]
  OBVIOUS
<1>3. /\ queue[d] # <<>> /\ w.op = "start" /\ Continue(d, w)
      /\ order' = [order EXCEPT ![w.order].status = "inProgress"]
      /\ UNCHANGED <<offer, issued, nav, charges>>
  BY <1>1 DEF AckStart, Ready
<1>4. DocsOK /\ w \in Write /\ SoundWrite(w) /\ w.order \in Orders /\ w.offer \in Offers
  BY <1>1, <1>3, HeadSound
<1>5. /\ w.order \in issued /\ Exists(w.order) /\ OrderOf[w.offer] = w.order
      /\ offer[w.offer] # "none" /\ (Electronic(w.order) => charges[w.offer] > 0)
  BY <1>3, <1>4 DEF SoundWrite, Acceptable
<1>6. n.op = "choose" /\ n.order = w.order /\ n.offer = w.offer
  BY <1>2, <1>3, <1>4 DEF Write, Following
<1>7. /\ order'[w.order].status = "inProgress"
      /\ order'[w.order].paymentOption = order[w.order].paymentOption
  BY <1>3, <1>4 DEF DocsOK, OrderDoc
<1>8. SoundWrite(n)'
  BY <1>3, <1>5, <1>6, <1>7 DEF SoundWrite, Exists, Started, Acceptable, Electronic
<1>9. QED
  BY <1>1, <1>2, <1>3, <1>4, <1>5, <1>6, <1>8, StatusStep DEF PaidSomehow

\* The order is cancelled; the next write withdraws the offer, if there is one.
LEMMA AckCancelSafe ==
    ASSUME IInv, DocsOK', NEW d \in Devices, AckCancel(d)
    PROVE  IInv'
<1>1. PICK w : w = Head(queue[d])
  OBVIOUS
<1>2. PICK n : n = [w EXCEPT !.op = Following(w)]
  OBVIOUS
<1>3. /\ queue[d] # <<>> /\ w.op = "cancel" /\ Continue(d, w)
      /\ order' = [order EXCEPT ![w.order].status = "cancelled"]
      /\ UNCHANGED <<offer, issued, nav, charges>>
  BY <1>1 DEF AckCancel, Ready
<1>4. DocsOK /\ w \in Write /\ SoundWrite(w) /\ w.order \in Orders
  BY <1>1, <1>3, HeadSound
<1>5. /\ w.order \in issued /\ Exists(w.order)
      /\ (Electronic(w.order) => PaidSomehow(w.order))
      /\ (w.offer # NoOffer => offer[w.offer] # "none")
  BY <1>3, <1>4 DEF SoundWrite
<1>6. Following(w) # "end" => n.op = "withdraw" /\ n.order = w.order /\ n.offer = w.offer
  BY <1>2, <1>3, <1>4 DEF Write, Following
<1>7. order'[w.order].status = "cancelled"
  BY <1>3, <1>4 DEF DocsOK, OrderDoc
<1>8. Following(w) # "end" => SoundWrite(n)'
  BY <1>3, <1>5, <1>6, <1>7 DEF SoundWrite, Exists
<1>9. QED
  BY <1>1, <1>2, <1>3, <1>4, <1>5, <1>6, <1>8, StatusStep

\* The order names the offer; the next write may accept it.
LEMMA AckChooseSafe ==
    ASSUME IInv, DocsOK', NEW d \in Devices, AckChoose(d)
    PROVE  IInv'
<1>1. PICK w : w = Head(queue[d])
  OBVIOUS
<1>2. PICK n : n = [w EXCEPT !.op = Following(w)]
  OBVIOUS
<1>3. /\ queue[d] # <<>> /\ w.op = "choose" /\ Continue(d, w)
      /\ order' = [order EXCEPT ![w.order].offerId = w.offer]
      /\ UNCHANGED <<offer, issued, nav, charges>>
  BY <1>1 DEF AckChoose, Ready
<1>4. /\ DocsOK /\ w \in Write /\ SoundWrite(w) /\ w.order \in Orders /\ w.offer \in Offers
      /\ PendingWorkIsSound /\ w.offer # NoOffer
      /\ AcceptedOfferMeansStarted /\ ChosenOfferBelongs /\ ElectronicPaidFirst
  BY <1>1, <1>3, HeadSound, SentinelAssumption DEF IInv
<1>5. /\ w.order \in issued /\ Exists(w.order) /\ OrderOf[w.offer] = w.order
      /\ offer[w.offer] # "none" /\ (Electronic(w.order) => charges[w.offer] > 0)
      /\ Started(w.order)
  BY <1>3, <1>4 DEF SoundWrite, Acceptable
<1>6. /\ n.op = "accept" /\ n.order = w.order /\ n.offer = w.offer
      /\ Following(w) # "end"
  BY <1>2, <1>3, <1>4 DEF Write, Following
<1>7. /\ \A o \in Orders : o # w.order => order'[o].offerId = order[o].offerId
      /\ order'[w.order].offerId = w.offer
      /\ \A o \in Orders : /\ order'[o].status = order[o].status
                            /\ order'[o].paymentOption = order[o].paymentOption
  BY <1>3, <1>4 DEF DocsOK, OrderDoc
<1>8. SoundWrite(n)'
  BY <1>3, <1>4, <1>5, <1>6, <1>7 DEF SoundWrite, Exists, Started, Acceptable, Electronic
<1>9. Grows /\ NothingCreated
  BY <1>3, <1>4, <1>7 DEF Grows, NothingCreated, Exists, Started
<1>10. QueueStep(d, 1, {n})
  <2>1. QueueStep(d, 1, {m \in {n} : Following(w) # "end"})
    BY <1>1, <1>2, <1>3, <1>4, ContinueQueue
  <2>2. {m \in {n} : Following(w) # "end"} = {n}
    BY <1>6
  <2>3. QED
    BY <2>1, <2>2
<1>11. \A o \in Orders : Exists(o)' => o \in issued'
  BY <1>3, <1>4, <1>9 DEF NothingCreated, PendingWorkIsSound
<1>12. \A f \in Offers : offer'[f] # "none" => Exists(OrderOf[f])'
  BY <1>3, <1>4, <1>9, OrderOfAssumption DEF Grows, PendingWorkIsSound
<1>13. PendingWorkIsSound'
  <2>1. CreatedBy(d, 1) /\ RoutesFrom
    BY <1>3, <1>9, NothingCreatedBy, SameStacks
  <2>2. QED
    BY <1>6, <1>8, <1>9, <1>10, <1>11, <1>12, <2>1, Preserved
<1>14. AcceptedOfferMeansStarted'
  BY <1>3, <1>4, <1>9, OrderOfAssumption DEF AcceptedOfferMeansStarted, Grows
<1>15. ChosenOfferBelongs'
  BY <1>3, <1>4, <1>5, <1>7 DEF ChosenOfferBelongs, Started
<1>16. ElectronicPaidFirst'
  BY <1>3, <1>4, <1>5, <1>7 DEF ElectronicPaidFirst, Started, Electronic
<1>17. QED
  BY <1>13, <1>14, <1>15, <1>16 DEF IInv

\* The order exists from here on; nothing knew of it but its own create and its pages.
LEMMA AckCreateSafe ==
    ASSUME IInv, DocsOK', NEW d \in Devices, AckCreate(d)
    PROVE  IInv'
<1>1. PICK w : w = Head(queue[d])
  OBVIOUS
<1>2. /\ queue[d] # <<>> /\ w.op = "create" /\ ShowSent(d, w)
      /\ order' = [order EXCEPT ![w.order] = NewOrder(w.paymentOption)]
      /\ UNCHANGED <<offer, issued, charges>>
  BY <1>1 DEF AckCreate, Ready
<1>3. /\ DocsOK /\ w = queue[d][1] /\ SoundWrite(w) /\ w.order \in Orders
      /\ PendingWorkIsSound
      /\ AcceptedOfferMeansStarted /\ ChosenOfferBelongs /\ ElectronicPaidFirst
  BY <1>1, <1>2, HeadSound DEF IInv
<1>4. w.order \in issued /\ ~Exists(w.order)
  BY <1>2, <1>3 DEF SoundWrite
<1>5. /\ \A o \in Orders : o # w.order => order'[o] = order[o]
      /\ order'[w.order].status = "awaitingOffers" /\ order'[w.order].offerId = NoOffer
      /\ order'[w.order].paymentOption = w.paymentOption
  BY <1>2, <1>3 DEF DocsOK, NewOrder
<1>6. \A f \in Offers : OrderOf[f] = w.order => offer[f] = "none"
  BY <1>3, <1>4 DEF PendingWorkIsSound
<1>7. Grows
  <2>1. ~Started(w.order)
    BY <1>4 DEF Started, Exists
  <2>2. order[w.order].offerId = NoOffer
    BY <1>3, <2>1 DEF ChosenOfferBelongs
  <2>3. QED
    BY <1>2, <1>4, <1>5, <2>1, <2>2 DEF Grows, Exists, Started
<1>8. CreatedBy(d, 1)
  BY <1>2, <1>3, <1>5 DEF CreatedBy, Exists
<1>9. QueueStep(d, 1, {}) /\ RoutesFrom
  BY <1>1, <1>2, <1>5, ShowSentEffect
<1>10. \A o \in Orders : Exists(o)' => o \in issued'
  BY <1>2, <1>3, <1>4, <1>5 DEF PendingWorkIsSound, Exists
<1>11. \A f \in Offers : offer'[f] # "none" => Exists(OrderOf[f])'
  BY <1>2, <1>3, <1>7, OrderOfAssumption DEF PendingWorkIsSound, Grows
<1>12. PendingWorkIsSound'
  BY <1>7, <1>8, <1>9, <1>10, <1>11, Preserved
<1>13. AcceptedOfferMeansStarted'
  BY <1>2, <1>3, <1>7, OrderOfAssumption DEF AcceptedOfferMeansStarted, Grows
<1>14. ChosenOfferBelongs'
  BY <1>2, <1>3, <1>5 DEF ChosenOfferBelongs, Started
<1>15. ElectronicPaidFirst'
  <2>1. SUFFICES ASSUME NEW o \in Orders, order'[o].paymentOption = "electronic"
                 PROVE  /\ Started(o)' => \E f \in Offers : OrderOf[f] = o /\ charges[f] > 0
                        /\ \A f \in Offers : (OrderOf[f] = o
                               /\ (order'[o].offerId = f \/ offer[f] = "accepted"))
                             => charges[f] > 0
    BY <1>2 DEF ElectronicPaidFirst
  <2>2. CASE o = w.order
    BY <1>5, <1>6, <2>2, SentinelAssumption DEF Started
  <2>3. CASE o # w.order
    BY <1>3, <1>5, <2>1, <2>3 DEF ElectronicPaidFirst, Started
  <2>4. QED
    BY <2>2, <2>3
<1>16. QED
  BY <1>12, <1>13, <1>14, <1>15 DEF IInv

\* An offer's status changes and the orders stay as they are.
LEMMA OfferStep ==
    ASSUME IInv, DocsOK', NEW f \in Offers, NEW s \in OfferStatus \ {"none"},
           offer' = [offer EXCEPT ![f] = s], UNCHANGED <<order, issued, charges>>,
           Exists(OrderOf[f]),
           s = "accepted" => /\ Started(OrderOf[f]) /\ order[OrderOf[f]].offerId # NoOffer
                             /\ (Electronic(OrderOf[f]) => charges[f] > 0),
           NEW d \in Devices, NEW k \in {0, 1}, QueueStep(d, k, {}), RoutesFrom
    PROVE  IInv'
<1>1. /\ DocsOK /\ PendingWorkIsSound
      /\ AcceptedOfferMeansStarted /\ ChosenOfferBelongs /\ ElectronicPaidFirst
  BY DEF IInv
<1>2. offer'[f] = s /\ \A g \in Offers : g # f => offer'[g] = offer[g]
  BY <1>1 DEF DocsOK
<1>3. Grows /\ NothingCreated
  BY <1>2 DEF Grows, NothingCreated, Exists, Started
<1>4. CreatedBy(d, k)
  BY <1>3, NothingCreatedBy
<1>5. \A o \in Orders : Exists(o)' => o \in issued'
  BY <1>1, <1>3 DEF NothingCreated, PendingWorkIsSound
<1>6. \A g \in Offers : offer'[g] # "none" => Exists(OrderOf[g])'
  BY <1>1, <1>2 DEF PendingWorkIsSound, Exists
<1>7. PendingWorkIsSound'
  BY <1>3, <1>4, <1>5, <1>6, Preserved
<1>8. AcceptedOfferMeansStarted'
  BY <1>1, <1>2 DEF AcceptedOfferMeansStarted, Started
<1>9. ChosenOfferBelongs'
  BY <1>1, <1>2 DEF ChosenOfferBelongs, Started
<1>10. ElectronicPaidFirst'
  BY <1>1, <1>2 DEF ElectronicPaidFirst, Started, Electronic
<1>11. QED
  BY <1>7, <1>8, <1>9, <1>10 DEF IInv

\* The last writes of acceptOffer and cancelOrder.
LEMMA AckOfferSafe ==
    ASSUME IInv, DocsOK', NEW d \in Devices, AckAccept(d) \/ AckWithdraw(d)
    PROVE  IInv'
<1>1. PICK w : w = Head(queue[d])
  OBVIOUS
<1>2. /\ queue[d] # <<>> /\ w.op \in {"accept", "withdraw"} /\ PopBoth(d, w)
      /\ offer[w.offer] # "none" /\ UNCHANGED <<order, issued, charges>>
      /\ offer' = [offer EXCEPT ![w.offer] =
                      IF w.op = "accept" THEN "accepted" ELSE "orderCancelled"]
  BY <1>1 DEF AckAccept, AckWithdraw, Ready, TargetExists
<1>3. /\ DocsOK /\ SoundWrite(w) /\ w.offer \in Offers /\ PendingWorkIsSound
  BY <1>1, <1>2, HeadSound DEF IInv
<1>4. Exists(OrderOf[w.offer])
  BY <1>2, <1>3 DEF PendingWorkIsSound
<1>5. w.op = "accept" => /\ Started(OrderOf[w.offer]) /\ order[OrderOf[w.offer]].offerId # NoOffer
                         /\ (Electronic(OrderOf[w.offer]) => charges[w.offer] > 0)
  BY <1>3 DEF SoundWrite, Acceptable
<1>6. QueueStep(d, 1, {}) /\ RoutesFrom
  <2>1. PICK m \in Nat : Pop(d, m, Tail(queue[d]))
    BY <1>2 DEF PopBoth
  <2>2. Tail(queue[d]) \in Seq(Write)
    BY <1>2, <1>3, HeadType
  <2>3. QED
    BY <1>2, <1>3, <2>1, <2>2, PopRoutes
<1>7. CASE w.op = "accept"
  BY <1>2, <1>3, <1>4, <1>5, <1>6, <1>7, OfferStep DEF OfferStatus
<1>8. CASE w.op = "withdraw"
  BY <1>2, <1>3, <1>4, <1>6, <1>8, OfferStep DEF OfferStatus
<1>9. QED
  BY <1>2, <1>7, <1>8

\* A provider offers on an order that exists.
LEMMA MakeOfferSafe ==
    ASSUME IInv, DocsOK', NEW f \in Offers, MakeOffer(f), NEW d \in Devices
    PROVE  IInv'
<1>1. QueueStep(d, 0, {}) /\ RoutesFrom
  BY SameStacks DEF MakeOffer, QueueStep, SameCall, IInv, DocsOK
<1>2. QED
  BY <1>1, OfferStep DEF MakeOffer, OfferStatus, Exists

-----------------------------------------------------------------------------
(* The theorems *)

\* The invariant holds when the app starts.
LEMMA InitSafe == Init => IInv
<1>1. SUFFICES ASSUME Init PROVE IInv
  OBVIOUS
<1>2. DocsOK
  BY <1>1, InitType
<1>3. AcceptedOfferMeansStarted /\ ChosenOfferBelongs /\ ElectronicPaidFirst
  BY <1>1, SentinelAssumption, OrderOfAssumption
     DEF Init, AcceptedOfferMeansStarted, ChosenOfferBelongs, ElectronicPaidFirst, NoDoc, Started
<1>4. \A d \in Devices : \A i \in DOMAIN nav[d] : nav[d][i] = Plain("home")
  <2>1. \A x : \A i \in DOMAIN <<x>> : <<x>>[i] = x
    OBVIOUS
  <2>2. \A d \in Devices : nav[d] = <<Plain("home")>>
    BY <1>1 DEF Init
  <2>3. QED
    BY <2>1, <2>2, Zenon
<1>5. Plain("home").page = "home"
  BY DEF Plain, Screen
<1>6. \A d \in Devices : DOMAIN queue[d] = {}
  BY <1>1 DEF Init
<1>7. PendingWorkIsSound
  <2>1. CreatedOnce /\ PagesMatchCreates
    BY <1>6 DEF CreatedOnce, PagesMatchCreates
  <2>2. \A o \in Orders : ~Exists(o)
    BY <1>1 DEF Init, NoDoc, Exists
  <2>3. \A f \in Offers : offer[f] = "none"
    BY <1>1 DEF Init
  <2>4. QED
    BY <1>4, <1>5, <1>6, <2>1, <2>2, <2>3 DEF PendingWorkIsSound, SoundRoute
<1>8. QED
  BY <1>2, <1>3, <1>7 DEF IInv

\* Every step preserves the invariant.
LEMMA StepSafe ==
    ASSUME AnswersInTime
    PROVE  IInv /\ TypeOK /\ [Next]_vars => IInv'
<1>1. SUFFICES ASSUME IInv, TypeOK, [Next]_vars PROVE IInv'
  OBVIOUS
<1>2. DocsOK'
  BY <1>1, StepDocs
<1>3. CASE UNCHANGED vars
  BY SMTT(30), <1>1, <1>2, <1>3
     DEF vars, IInv, PendingWorkIsSound, AcceptedOfferMeansStarted, ChosenOfferBelongs,
         ElectronicPaidFirst, CreatedOnce, PagesMatchCreates, SoundWrite, SoundRoute,
         SoundSnapshot, Exists, Started, Electronic, PaidSomehow, Acceptable
<1>4. ASSUME NEW d \in Devices, Tap(d)
      PROVE  IInv'
  BY <1>1, <1>2, <1>4, OpenFormSafe, AskCancelSafe, BackSafe, AcceptOfferCashSafe,
     AcceptOfferElectronicSafe, CancelOrderSafe, OpenOrderSafe, ShowOfferSafe, SendOrderSafe
     DEF Tap
<1>5. ASSUME NEW d \in Devices, Gateway(d)
      PROVE  IInv'
  BY <1>1, <1>2, <1>5, PaymentCapturedSafe, OnPaymentPaidSafe, OnPaymentOtherSafe DEF Gateway
<1>6. ASSUME NEW d \in Devices, Ack(d)
      PROVE  IInv'
  BY <1>1, <1>2, <1>6, AckCreateSafe, AckStartSafe, AckChooseSafe, AckOfferSafe, AckCancelSafe
     DEF Ack
<1>7. ASSUME NEW f \in Offers, MakeOffer(f)
      PROVE  IInv'
  BY <1>1, <1>2, <1>7, MakeOfferSafe, DevicesAssumption
<1>8. ASSUME NEW d \in Devices PROVE ~Unanswered(d)
  BY DEF Unanswered, AnswersInTime
<1>9. QED
  BY <1>1, <1>2, <1>3, <1>4, <1>5, <1>6, <1>7, <1>8, RejectSafe, KillSafe DEF Next, Answered

\* IInv is inductive, so pending writes and open pages never contradict the
\* documents: whatever the phones, restarts, rejections and lost payment
\* results, a write of send_order.dart acts on a document in the state its call
\* established, as long as answers come with the writes they answer.
THEOREM PendingWorkStaysSound ==
    ASSUME AnswersInTime
    PROVE  Spec => []PendingWorkIsSound
<1>1. IInv => PendingWorkIsSound
  BY DEF IInv
<1>2. IInv /\ TypeOK /\ [Next]_vars => IInv'
  BY StepSafe
<1>3. QED
  BY <1>1, <1>2, InitSafe, TypeCorrect, PTL DEF Spec

\* acceptOffer marks an offer last: an accepted offer's order is started and has
\* an offerId, in every interleaving of its three awaited writes.
THEOREM AcceptedOffersAreStarted ==
    ASSUME AnswersInTime
    PROVE  Spec => []AcceptedOfferMeansStarted
<1>1. IInv => AcceptedOfferMeansStarted
  BY DEF IInv
<1>2. IInv /\ TypeOK /\ [Next]_vars => IInv'
  BY StepSafe
<1>3. QED
  BY <1>1, <1>2, InitSafe, TypeCorrect, PTL DEF Spec

\* The offerId an order carries, which cancelOrder and the refund function
\* follow, names an existing offer made for this order.
THEOREM ChosenOffersBelong ==
    ASSUME AnswersInTime
    PROVE  Spec => []ChosenOfferBelongs
<1>1. IInv => ChosenOfferBelongs
  BY DEF IInv
<1>2. IInv /\ TypeOK /\ [Next]_vars => IInv'
  BY StepSafe
<1>3. QED
  BY <1>1, <1>2, InitSafe, TypeCorrect, PTL DEF Spec

\* acceptOffer is reached from the paid branch of payment.dart only: no
\* electronic order is started, given an offer or announced without a charge.
THEOREM ElectronicIsPaidFirst ==
    ASSUME AnswersInTime
    PROVE  Spec => []ElectronicPaidFirst
<1>1. IInv => ElectronicPaidFirst
  BY DEF IInv
<1>2. IInv /\ TypeOK /\ [Next]_vars => IInv'
  BY StepSafe
<1>3. QED
  BY <1>1, <1>2, InitSafe, TypeCorrect, PTL DEF Spec

-----------------------------------------------------------------------------
(* One device: what a step does at each position of its stack *)

\* The same page, whatever becomes of its charge.
SamePage(r, s) == r.page = s.page /\ r.order = s.order /\ r.snap = s.snap /\ r.offer = s.offer

\* The lowest m pages are old ones; those above them show no order, or are a
\* member of R on top.
NavStep(d, m, R) ==
    \A i \in DOMAIN nav'[d] :
        /\ i <= m => i \in DOMAIN nav[d] /\ SamePage(nav'[d][i], nav[d][i])
        /\ i > m => \/ nav'[d][i].page \in {"form", "result"}
                    \/ nav'[d][i].page = "home" /\ i = 1
                    \/ i = Len(nav'[d]) /\ nav'[d][i] \in R

\* Popping.
LEMMA PopNav ==
    ASSUME DocsOK, NEW d \in Devices, NEW n \in Nat, NEW q \in Seq(Write), Pop(d, n, q)
    PROVE  /\ NavStep(d, Len(nav[d]), {}) /\ nav'[d] = Popped(nav[d], n)
           /\ Len(nav'[d]) <= Len(nav[d])
<1> DEFINE s == Popped(nav[d], n)
<1>1. /\ s \in Seq(Route) /\ Len(s) \in Nat /\ Len(s) <= Len(nav[d])
      /\ \A i \in DOMAIN s : i \in DOMAIN nav[d] /\ s[i] = nav[d][i]
  BY SMTT(30), PoppedPrefix DEF DocsOK
<1>2. Show(d, s, Len(s), q)
  BY DEF Pop
<1>3. nav'[d] = s
  BY <1>1, <1>2, ShowEffect
<1>4. nav[d] \in Seq(Route)
  BY DEF DocsOK
<1>5. QED
  BY <1>1, <1>3, <1>4 DEF NavStep, SamePage

\* Opening a page over a part of the old stack.
LEMMA PushNav ==
    ASSUME DocsOK, NEW d \in Devices, NEW s \in Seq(Route), NEW r, NEW q \in Seq(Write),
           \A i \in DOMAIN s : i \in DOMAIN nav[d] /\ s[i] = nav[d][i],
           Show(d, Append(s, r), Len(s), q)
    PROVE  /\ nav'[d] = Append(s, r) /\ Len(nav'[d]) = Len(s) + 1
           /\ NavStep(d, Len(s), {r})
<1>1. nav'[d] = Append(s, r)
  <2>1. Len(s) \in Nat
    OBVIOUS
  <2>2. QED
    BY <2>1, ShowEffect
<1>2. ASSUME NEW i \in DOMAIN nav'[d]
      PROVE  \/ i <= Len(s) /\ i \in DOMAIN s /\ nav'[d][i] = s[i]
             \/ i = Len(nav'[d]) /\ nav'[d][i] = r /\ ~(i <= Len(s))
  BY <1>1
<1>3. QED
  BY <1>1, <1>2 DEF NavStep, SamePage

\* A stack that stays.
LEMMA SameNav ==
    ASSUME DocsOK, NEW d \in Devices, nav' = nav
    PROVE  NavStep(d, Len(nav[d]), {})
BY DEF NavStep, SamePage, DocsOK

-----------------------------------------------------------------------------
(* What each action does to the stack and the queue of its device *)

\* Pushing a page.
LEMMA PushEffect ==
    ASSUME DocsOK, NEW d \in Devices, NEW r, Push(d, r)
    PROVE  /\ QueueStep(d, 0, {}) /\ NavStep(d, Len(nav[d]), {r})
           /\ nav'[d] = Append(nav[d], r) /\ Len(nav'[d]) = Len(nav[d]) + 1
<1>1. /\ nav[d] \in Seq(Route) /\ queue[d] \in Seq(Write) /\ Len(nav[d]) \in Nat
      /\ \A i \in DOMAIN nav[d] : i \in DOMAIN nav[d] /\ nav[d][i] = nav[d][i]
  BY DEF DocsOK
<1>2. Show(d, Append(nav[d], r), Len(nav[d]), queue[d])
  BY DEF Push
<1>3. QED
  BY <1>1, <1>2, PushNav, ShowQueue

\* Popping, with or without the answer to the oldest write.
LEMMA PopEffect ==
    ASSUME DocsOK, NEW d \in Devices, NEW n \in Nat, NEW q \in Seq(Write), Pop(d, n, q)
    PROVE  /\ NavStep(d, Len(nav[d]), {}) /\ Len(nav'[d]) <= Len(nav[d])
           /\ q = queue[d] => QueueStep(d, 0, {})
           /\ queue[d] # <<>> /\ q = Tail(queue[d]) => QueueStep(d, 1, {})
BY PopNav, PopRoutes

\* Pages that show no order may be left out of a step's new pages.
LEMMA PlainNav ==
    ASSUME NEW d \in Devices, NEW m, NEW r, NavStep(d, m, {r}), r.page \in {"form", "result"}
    PROVE  NavStep(d, m, {})
BY DEF NavStep

\* A flag that is set on the page on top.
LEMMA BusyNav ==
    ASSUME DocsOK, NEW d \in Devices, nav[d] # <<>>,
           nav' = [nav EXCEPT ![d][Len(nav[d])].busy = TRUE]
    PROVE  NavStep(d, Len(nav[d]), {}) /\ Len(nav'[d]) = Len(nav[d])
<1>1. nav[d] \in Seq(Route) /\ nav'[d] \in Seq(Route)
  BY BusyType DEF DocsOK
<1>2. /\ DOMAIN nav'[d] = DOMAIN nav[d]
      /\ \A i \in DOMAIN nav[d] : SamePage(nav'[d][i], nav[d][i])
  BY BusyEffect DEF SamePage
<1>3. Len(nav'[d]) = Len(nav[d])
  BY <1>1, <1>2
<1>4. \A i \in DOMAIN nav'[d] : i \in DOMAIN nav[d] /\ ~(i > Len(nav[d]))
  BY <1>1, <1>2
<1>5. QED
  BY <1>2, <1>3, <1>4 DEF NavStep

\* "Accept offer" for an electronic order: two pages leave, the payment page comes.
LEMMA PayNav ==
    ASSUME DocsOK, NEW d \in Devices, AcceptOfferElectronic(d),
           NEW r, r = Screen("payment", NoOrder, NoDoc, Top(d).offer),
           NEW m, m = IF Len(nav[d]) > 2 THEN Len(nav[d]) - 2 ELSE 0
    PROVE  /\ QueueStep(d, 0, {}) /\ NavStep(d, m, {r})
           /\ m \in Nat /\ Len(nav'[d]) = m + 1
<1> DEFINE s == Popped(nav[d], 2)
<1>1. /\ nav[d] \in Seq(Route) /\ queue[d] \in Seq(Write) /\ nav[d] # <<>>
      /\ Show(d, Append(s, r), Len(s), queue[d])
  BY DEF DocsOK, AcceptOfferElectronic, On
<1>2. /\ s \in Seq(Route) /\ Len(s) \in Nat
      /\ \A i \in DOMAIN s : i \in DOMAIN nav[d] /\ s[i] = nav[d][i]
  BY <1>1, PoppedPrefix
<1>3. Len(s) = m
  BY <1>1 DEF Popped
<1>4. nav'[d] = Append(s, r) /\ Len(nav'[d]) = Len(s) + 1 /\ NavStep(d, Len(s), {r})
  BY <1>1, <1>2, PushNav
<1>5. QueueStep(d, 0, {})
  BY <1>1, <1>2, ShowQueue
<1>6. QED
  BY <1>2, <1>3, <1>4, <1>5

\* A paid charge replaces the payment page by two result pages and starts acceptOffer.
LEMMA PaidNav ==
    ASSUME DocsOK, NEW d \in Devices, OnPaymentPaid(d),
           NEW n, n = Call(AcceptsWith, OrderOf[Top(d).offer], Top(d).offer, "electronic",
                           Len(nav[d]) - 1 + 1)
    PROVE  /\ QueueStep(d, 0, {n}) /\ NavStep(d, Len(nav[d]) - 1, {})
           /\ Len(nav[d]) - 1 \in Nat /\ Top(d).page = "payment" /\ nav[d] # <<>>
           /\ Top(d).offer \in Offers /\ n \in Write
           /\ n.op = "start" /\ n.order = OrderOf[Top(d).offer] /\ n.offer = Top(d).offer
<1> DEFINE f == Top(d).offer
           l == Len(nav[d]) - 1
           s == Popped(nav[d], 1)
           plain == <<Plain("result"), Plain("result")>>
<1>1. /\ nav[d] # <<>> /\ Top(d).page = "payment"
      /\ Show(d, s \o plain, l, Append(queue[d], n))
  BY DEF OnPaymentPaid, On
<1>2. /\ Top(d) \in Route /\ l \in Nat /\ nav[d] \in Seq(Route) /\ queue[d] \in Seq(Write)
      /\ Len(nav[d]) \in Nat
  BY <1>1, TopType DEF DocsOK
<1>3. f \in Offers
  BY <1>1, <1>2 DEF Route
<1>4. n \in Write /\ n.op = "start" /\ n.order = OrderOf[f] /\ n.offer = f
  BY <1>2, <1>3, CallType, OrderOfAssumption DEF AcceptsWith, Call, PaymentOption
<1>5. Append(queue[d], n) \in Seq(Write)
  BY <1>2, <1>4
<1>6. QueueStep(d, 0, {n})
  BY <1>1, <1>2, <1>4, <1>5, ShowQueue
<1>7. nav'[d] = s \o plain
  BY <1>1, <1>2, <1>5, ShowEffect
<1>8. /\ s \in Seq(Route) /\ Len(s) = l
      /\ \A i \in DOMAIN s : i \in DOMAIN nav[d] /\ s[i] = nav[d][i]
  <2>1. Len(s) = l
    BY <1>1, <1>2 DEF Popped
  <2>2. QED
    BY <1>2, <2>1, PoppedPrefix
<1>9. NavStep(d, l, {})
  <2>1. Plain("result").page = "result"
    BY DEF Plain, Screen
  <2>2. \A i \in DOMAIN (s \o plain) :
           \/ i \in DOMAIN s /\ (s \o plain)[i] = s[i] /\ i <= l
           \/ (s \o plain)[i] = Plain("result") /\ ~(i <= l)
    BY <1>2, <1>8
  <2>3. \A i \in DOMAIN (s \o plain) :
           \/ i \in DOMAIN nav[d] /\ (s \o plain)[i] = nav[d][i] /\ ~(i > l)
           \/ (s \o plain)[i].page = "result" /\ ~(i <= l)
    <3>1. \A i \in DOMAIN (s \o plain) : i <= l => ~(i > l)
      BY <1>2
    <3>2. QED
      BY <1>8, <2>1, <2>2, <3>1
  <2>4. QED
    BY <1>7, <2>3 DEF NavStep, SamePage
<1>10. QED
  BY <1>1, <1>2, <1>3, <1>4, <1>6, <1>9

\* Any other result covers the payment page.
LEMMA OtherNav ==
    ASSUME DocsOK, NEW d \in Devices, OnPaymentOther(d)
    PROVE  QueueStep(d, 0, {}) /\ NavStep(d, Len(nav[d]), {})
<1> DEFINE l == Len(nav[d])
           s == [nav[d] EXCEPT ![l].busy = FALSE]
<1>1. /\ nav[d] # <<>> /\ queue[d] \in Seq(Write) /\ nav[d] \in Seq(Route) /\ l \in Nat
      /\ Show(d, Append(s, Plain("result")), l, queue[d])
  BY DEF OnPaymentOther, On, DocsOK
<1>2. nav'[d] = Append(s, Plain("result"))
  BY <1>1, ShowEffect
<1>3. s \in Seq(Route) /\ DOMAIN s = DOMAIN nav[d]
  BY <1>1, BusyType
<1>4. \A i \in DOMAIN s : SamePage(s[i], nav[d][i])
  <2>1. \A r \in Route : SamePage([r EXCEPT !.busy = FALSE], r)
    BY DEF SamePage, Route
  <2>2. \A i \in DOMAIN s : s[i] = nav[d][i] \/ s[i] = [nav[d][i] EXCEPT !.busy = FALSE]
    BY <1>1, <1>3
  <2>3. \A i \in DOMAIN s : nav[d][i] \in Route
    BY <1>1, <1>3
  <2>4. QED
    BY <2>1, <2>2, <2>3 DEF SamePage
<1>5. \A i \in DOMAIN nav'[d] : \/ i \in DOMAIN s /\ nav'[d][i] = s[i]
                                \/ nav'[d][i] = Plain("result") /\ ~(i <= l)
  BY <1>1, <1>2, <1>3
<1>6. Plain("result").page = "result"
  BY DEF Plain, Screen
<1>7. NavStep(d, l, {})
  <2>1. \A i \in DOMAIN s : ~(i > l)
    BY <1>1, <1>3
  <2>2. QED
    BY <1>3, <1>4, <1>5, <1>6, <2>1 DEF NavStep
<1>8. QED
  BY <1>1, <1>7, ShowQueue

\* The end of sendOrder: the page on top gives way to the order's, or all stays.
LEMMA SentNav ==
    ASSUME DocsOK, NEW d \in Devices, queue[d] # <<>>, NEW w, w = Head(queue[d]), ShowSent(d, w),
           NEW r, r = Screen("order", w.order, NewOrder(w.paymentOption), NoOffer)
    PROVE  /\ QueueStep(d, 1, {})
           /\ \/ /\ NavStep(d, Len(nav[d]) - 1, {r}) /\ Len(nav'[d]) = Len(nav[d])
                 /\ nav[d] # <<>>
              \/ NavStep(d, Len(nav[d]), {}) /\ Len(nav'[d]) <= Len(nav[d])
<1> DEFINE s == Popped(nav[d], 1)
<1>1. /\ nav[d] \in Seq(Route) /\ queue[d] \in Seq(Write) /\ Tail(queue[d]) \in Seq(Write)
      /\ Len(nav[d]) \in Nat
  BY HeadType DEF DocsOK
<1>2. CASE nav[d] # <<>> /\ Show(d, Append(s, r), Len(s), Tail(queue[d]))
  <2>1. /\ s \in Seq(Route) /\ Len(s) \in Nat
        /\ \A i \in DOMAIN s : i \in DOMAIN nav[d] /\ s[i] = nav[d][i]
    BY <1>1, PoppedPrefix
  <2>2. Len(s) = Len(nav[d]) - 1
    BY <1>1, <1>2 DEF Popped
  <2>3. QueueStep(d, 1, {})
    BY <1>1, <1>2, <2>1, ShowQueue
  <2>4. NavStep(d, Len(s), {r}) /\ Len(nav'[d]) = Len(s) + 1
    BY <1>1, <1>2, <2>1, PushNav
  <2>5. QED
    BY <1>1, <1>2, <2>2, <2>3, <2>4
<1>3. CASE Pop(d, 0, Tail(queue[d]))
  BY <1>1, <1>3, PopEffect
<1>4. QED
  BY <1>2, <1>3 DEF ShowSent

\* A restart.
LEMMA KillNav ==
    ASSUME DocsOK, NEW d \in Devices, Kill(d)
    PROVE  QueueStep(d, 0, {}) /\ NavStep(d, 0, {}) /\ Len(nav'[d]) = 1
<1>1. /\ queue \in [Devices -> Seq(Write)] /\ nav \in [Devices -> Seq(Route)]
  BY DEF DocsOK
<1>2. /\ nav'[d] = <<Plain("home")>> /\ \A e \in Devices \ {d} : nav'[e] = nav[e]
      /\ \A e \in Devices \ {d} : queue'[e] = queue[e]
      /\ queue'[d] = [i \in DOMAIN queue[d] |-> [queue[d][i] EXCEPT !.at = 0, !.live = FALSE]]
  BY <1>1 DEF Kill
<1>3. QueueStep(d, 0, {})
  <2>1. \A u \in Write : SameCall([u EXCEPT !.at = 0, !.live = FALSE], u)
    BY DEF SameCall, Write
  <2>2. \A i \in DOMAIN queue[d] : queue[d][i] \in Write /\ i + 0 = i
    BY <1>1
  <2>3. \A i \in DOMAIN queue'[d] : /\ i \in DOMAIN queue[d]
                                    /\ SameCall(queue'[d][i], queue[d][i])
    BY <1>2, <2>1, <2>2
  <2>4. QED
    BY <1>2, <2>2, <2>3 DEF QueueStep
<1>4. NavStep(d, 0, {}) /\ Len(nav'[d]) = 1
  <2>1. Plain("home").page = "home"
    BY DEF Plain, Screen
  <2>2. PICK h : h = Plain("home")
    OBVIOUS
  <2>3. /\ Len(nav'[d]) = 1
        /\ \A i \in DOMAIN nav'[d] : i = 1 /\ nav'[d][i] = h /\ ~(i <= 0)
    <3>1. nav'[d] = <<h>>
      BY <1>2, <2>2
    <3>2. \A x : \A i \in DOMAIN <<x>> : <<x>>[i] = x
      OBVIOUS
    <3>3. \A i \in DOMAIN nav'[d] : nav'[d][i] = h
      BY <3>1, <3>2, Zenon
    <3>4. Len(nav'[d]) = 1 /\ DOMAIN nav'[d] = {1}
      BY <3>1
    <3>5. QED
      BY <3>3, <3>4
  <2>4. QED
    BY <2>1, <2>2, <2>3 DEF NavStep
<1>5. QED
  BY <1>3, <1>4

-----------------------------------------------------------------------------
(* What a page of the order shows *)

\* A nonempty set of queue positions has a newest one.
LEMMA NewestExists ==
    ASSUME NEW n \in Nat, NEW P \in SUBSET (1..n), P # {}
    PROVE  Newest(P) # {}
<1> DEFINE T == {n - i : i \in P}
<1>1. T \in SUBSET Nat /\ T # {}
  <2>1. \A i \in P : n - i \in Nat
    OBVIOUS
  <2>2. PICK i \in P : TRUE
    OBVIOUS
  <2>3. n - i \in T
    BY <2>2
  <2>4. QED
    BY <2>1, <2>3
<1>2. PICK t \in T : \A u \in T : t <= u
  BY <1>1, LeastOf
<1>3. PICK i \in P : t = n - i
  OBVIOUS
<1>4. \A j \in P : n - j \in T /\ j \in Nat /\ i \in Nat
  OBVIOUS
<1>5. ASSUME NEW j \in P PROVE j <= i
  <2>1. t <= n - j
    BY <1>2, <1>4
  <2>2. n - i <= n - j /\ j \in Nat /\ i \in Nat
    BY <1>3, <1>4, <2>1
  <2>3. QED
    BY <2>2
<1>6. QED
  BY <1>3, <1>5 DEF Newest

\* The status shown is the server's or the one of the newest pending status write.
LEMMA ViewStatusIs ==
    ASSUME DocsOK, NEW d \in Devices, NEW o \in Orders
    PROVE  \/ StatusWrites(d, o) = {} /\ ViewStatus(d, o) = order[o].status
           \/ \E j \in StatusWrites(d, o) : ViewStatus(d, o) = StatusSet(queue[d][j].op)
<1> DEFINE last == Newest(StatusWrites(d, o))
<1>1. StatusWrites(d, o) \in SUBSET (1..Len(queue[d])) /\ Len(queue[d]) \in Nat
  BY DEF StatusWrites, DocsOK
<1>2. CASE StatusWrites(d, o) = {}
  <2>1. last = {}
    BY <1>2 DEF Newest
  <2>2. QED
    BY <1>2, <2>1 DEF ViewStatus
<1>3. CASE StatusWrites(d, o) # {}
  <2>1. last # {}
    BY <1>1, <1>3, NewestExists
  <2>2. (CHOOSE i \in last : TRUE) \in StatusWrites(d, o)
    BY <2>1 DEF Newest
  <2>3. QED
    BY <2>1, <2>2 DEF ViewStatus
<1>4. QED
  BY <1>2, <1>3

\* A page that still awaits offers is opened only if the order's document does
\* and nothing is queued that ends it.
LEMMA ViewAwaits ==
    ASSUME IInv, NEW d \in Devices, NEW o \in Orders, ViewStatus(d, o) = "awaitingOffers"
    PROVE  /\ ~Awaits(d, "start", o) /\ ~Awaits(d, "cancel", o)
           /\ ~Started(o)
<1>1. /\ DocsOK
      /\ \A i \in DOMAIN queue[d] : queue[d][i].op = "create" <=> ~Exists(queue[d][i].order)
  BY DEF IInv, PendingWorkIsSound, SoundWrite
<1>2. CASE StatusWrites(d, o) = {} /\ order[o].status = "awaitingOffers"
  BY <1>2 DEF StatusWrites, Awaits, Started
<1>3. ASSUME NEW j \in StatusWrites(d, o), StatusSet(queue[d][j].op) = "awaitingOffers"
      PROVE  ~Awaits(d, "start", o) /\ ~Awaits(d, "cancel", o) /\ ~Started(o)
  <2>1. j \in DOMAIN queue[d] /\ queue[d][j].op = "create" /\ queue[d][j].order = o
    BY <1>3 DEF StatusWrites, StatusSet
  <2>2. ~Exists(o)
    BY <1>1, <2>1
  <2>3. QED
    BY <1>1, <2>2 DEF Awaits, Started, Exists
<1>4. QED
  BY <1>1, <1>2, <1>3, ViewStatusIs

-----------------------------------------------------------------------------
(* Nothing reopens a cancelled order *)

\* A page that leads to an acceptance of order o may be opened.
MayChoose(d, o) ==
    /\ NoneCancelling(d, o) /\ ~Awaits(d, "cancel", o)
    /\ order[o].status # "cancelled"

\* What a step has to show of the one write it adds, or the one page it opens.
LEMMA ReopensKept ==
    ASSUME DocsOK, DocsOK', OneDevice, NothingReopens, NEW d \in Devices,
           NEW k \in {0, 1}, NEW N, QueueStep(d, k, N), NEW m \in Nat, NEW R, NavStep(d, m, R),
           N = {} \/ R = {},
           \A r \in R : r.page # "home",
           \A r \in R, o \in Orders : /\ Choosing(r, o) => MayChoose(d, o)
                                      /\ Cancelling(r, o) => NoneChoosing(d, o),
           \A n \in N : /\ n.op = "start" => MayChoose(d, n.order)
                        /\ n.op = "cancel" => NoneChoosing(d, n.order),
           \A o \in Orders : order'[o].status = "cancelled" /\ order[o].status # "cancelled"
               => R = {} /\ NoneChoosing(d, o) /\ ~Awaits(d, "start", o)
                         /\ \A n \in N : n.op # "start"
    PROVE  NothingReopens'
<1>1. \A e \in Devices : e = d
  BY DEF OneDevice
<1>2. /\ queue[d] \in Seq(Write) /\ (queue[d] \in Seq(Write))'
      /\ Len(queue[d]) \in Nat
  BY DEF DocsOK
<1>0. ASSUME NEW i \in DOMAIN nav'[d]
      PROVE  \/ i \in DOMAIN nav[d] /\ SamePage(nav'[d][i], nav[d][i])
             \/ nav'[d][i].page \in {"form", "result"}
             \/ nav'[d][i].page = "home" /\ i = 1
             \/ i = Len(nav'[d]) /\ nav'[d][i] \in R
  <2>1. (nav[d] \in Seq(Route))' /\ i \in Nat
    BY <1>0 DEF DocsOK
  <2>2. i <= m \/ i > m
    BY <2>1
  <2>3. QED
    BY <2>2 DEF NavStep
<1>3. ASSUME NEW i \in DOMAIN nav'[d], NEW o \in Orders
      PROVE  /\ Choosing(nav[d][i], o)' =>
                   \/ i \in DOMAIN nav[d] /\ Choosing(nav[d][i], o)
                   \/ nav'[d][i] \in R /\ MayChoose(d, o)
             /\ Cancelling(nav[d][i], o)' =>
                   \/ i \in DOMAIN nav[d] /\ Cancelling(nav[d][i], o)
                   \/ nav'[d][i] \in R /\ NoneChoosing(d, o)
             /\ Choosing(nav[d][i], o)' => ~Cancelling(nav[d][i], o)'
  BY <1>0, <1>3 DEF SamePage, Choosing, Cancelling
<1>4. ASSUME NEW i \in DOMAIN queue'[d]
      PROVE  /\ i \in Nat \ {0}
             /\ \/ /\ i + k \in DOMAIN queue[d]
                   /\ queue'[d][i].op = queue[d][i + k].op
                   /\ queue'[d][i].order = queue[d][i + k].order
                \/ i + k = Len(queue[d]) + 1
                   /\ \E n \in N : queue'[d][i].op = n.op /\ queue'[d][i].order = n.order
             /\ queue'[d][i].order \in Orders
  BY <1>2, <1>4 DEF QueueStep, SameCall, Write
<1>5. HomeIsRoot'
  BY <1>0, <1>1 DEF NothingReopens, HomeIsRoot, SamePage
<1>6. ASSUME NEW o \in Orders
      PROVE  /\ NoneChoosing(d, o)' \/ NoneCancelling(d, o)'
             /\ order'[o].status = "cancelled" => NoneChoosing(d, o)' /\ ~Awaits(d, "start", o)'
  <2>1. NoneChoosing(d, o) \/ NoneCancelling(d, o)
    BY DEF NothingReopens
  <2>2. NoneChoosing(d, o)' \/ NoneCancelling(d, o)'
    <3>1. SUFFICES ASSUME NEW i \in DOMAIN nav'[d], Choosing(nav[d][i], o)',
                          NEW j \in DOMAIN nav'[d], Cancelling(nav[d][j], o)'
                   PROVE  FALSE
      BY DEF NoneChoosing, NoneCancelling
    <3>2. \/ i \in DOMAIN nav[d] /\ Choosing(nav[d][i], o)
          \/ nav'[d][i] \in R /\ MayChoose(d, o)
      BY <1>3, <3>1
    <3>3. \/ j \in DOMAIN nav[d] /\ Cancelling(nav[d][j], o)
          \/ nav'[d][j] \in R /\ NoneChoosing(d, o)
      BY <1>3, <3>1
    <3>4. CASE nav'[d][i] \in R /\ MayChoose(d, o) /\ nav'[d][j] \in R
      <4>1. i = j \/ (i \in DOMAIN nav[d] /\ Choosing(nav[d][i], o)) \/ (j \in DOMAIN nav[d] /\ Cancelling(nav[d][j], o))
        BY <1>0, <3>1, <3>4 DEF SamePage, Choosing, Cancelling
      <4>2. QED
        BY <1>3, <2>1, <3>1, <3>2, <3>3, <3>4, <4>1 DEF NoneChoosing, NoneCancelling, MayChoose
    <3>5. QED
      BY <2>1, <3>2, <3>3, <3>4 DEF NoneChoosing, NoneCancelling, MayChoose
  <2>3. ASSUME order'[o].status = "cancelled"
        PROVE  NoneChoosing(d, o)'
    BY <1>3, <2>3 DEF NothingReopens, NoneChoosing, MayChoose
  <2>4. ASSUME order'[o].status = "cancelled"
        PROVE  ~Awaits(d, "start", o)'
    BY <1>4, <2>4 DEF NothingReopens, Awaits, MayChoose
  <2>5. QED
    BY <2>2, <2>3, <2>4
<1>7. CancelsAreLast'
  <2>1. SUFFICES ASSUME NEW j \in DOMAIN queue'[d], queue'[d][j].op = "cancel",
                        NEW o \in Orders, o = queue'[d][j].order
                 PROVE  /\ NoneChoosing(d, o)'
                        /\ \A i \in DOMAIN queue'[d] :
                              queue'[d][i].op = "start" /\ queue'[d][i].order = o => i < j
    BY <1>1, <1>4 DEF CancelsAreLast
  <2>2. CASE j + k \in DOMAIN queue[d] /\ queue[d][j + k].op = "cancel" /\ queue[d][j + k].order = o
    <3>1. /\ NoneChoosing(d, o) /\ Awaits(d, "cancel", o)
          /\ \A i \in DOMAIN queue[d] :
                queue[d][i].op = "start" /\ queue[d][i].order = o => i < j + k
      BY <2>2 DEF NothingReopens, CancelsAreLast, Awaits
    <3>2. NoneChoosing(d, o)'
      BY <1>3, <3>1 DEF NoneChoosing, MayChoose
    <3>3. ASSUME NEW i \in DOMAIN queue'[d], queue'[d][i].op = "start", queue'[d][i].order = o
          PROVE  i < j
      BY <1>4, <2>1, <3>1, <3>3 DEF MayChoose
    <3>4. QED
      BY <3>2, <3>3
  <2>3. CASE j + k = Len(queue[d]) + 1 /\ \E n \in N : "cancel" = n.op /\ o = n.order
    <3>1. NoneChoosing(d, o) /\ R = {}
      BY <2>3
    <3>2. NoneChoosing(d, o)'
      BY <1>3, <3>1 DEF NoneChoosing
    <3>3. ASSUME NEW i \in DOMAIN queue'[d], queue'[d][i].op = "start", queue'[d][i].order = o
          PROVE  i < j
      <4>1. i \in Nat /\ j \in Nat /\ i # j
        BY <1>4, <2>1, <3>3
      <4>2. i + k \in DOMAIN queue[d] \/ i + k = j + k
        BY <1>4, <2>3
      <4>3. QED
        BY <1>2, <2>3, <4>1, <4>2
    <3>4. QED
      BY <3>2, <3>3
  <2>4. QED
    BY <1>4, <2>1, <2>2, <2>3
<1>8. QED
  BY <1>1, <1>5, <1>6, <1>7 DEF NothingReopens

\* Pages that lead to an acceptance lead to another one.
LEMMA ChoosingMayChoose ==
    ASSUME NothingReopens, NEW d \in Devices, NEW o \in Orders, NEW i \in DOMAIN nav[d],
           Choosing(nav[d][i], o)
    PROVE  MayChoose(d, o)
BY DEF NothingReopens, MayChoose, NoneChoosing, NoneCancelling, CancelsAreLast, Awaits

\* With the home page on top no page of an order is open.
LEMMA HomeAlone ==
    ASSUME DocsOK, NothingReopens, NEW d \in Devices, On(d, "home"), NEW o
    PROVE  NoneChoosing(d, o) /\ NoneCancelling(d, o)
<1>1. nav[d] \in Seq(Route) /\ Len(nav[d]) \in DOMAIN nav[d] /\ nav[d][Len(nav[d])].page = "home"
  BY TopType DEF On, Top
<1>2. Len(nav[d]) = 1
  BY <1>1 DEF NothingReopens, HomeIsRoot
<1>3. \A i \in DOMAIN nav[d] : nav[d][i].page = "home"
  BY <1>1, <1>2
<1>4. QED
  BY <1>3 DEF NoneChoosing, NoneCancelling, Choosing, Cancelling

\* What a tap does.
LEMMA TapReopensNothing ==
    ASSUME IInv, DocsOK', OneDevice, NothingReopens, NEW d \in Devices, Tap(d)
    PROVE  NothingReopens'
<1>1. /\ DocsOK /\ queue[d] \in Seq(Write) /\ nav[d] \in Seq(Route) /\ Len(nav[d]) \in Nat
      /\ 0 \in {0, 1}
  BY DEF IInv, DocsOK
<1>2. ASSUME UNCHANGED order
      PROVE  \A o \in Orders : ~(order'[o].status = "cancelled" /\ order[o].status # "cancelled")
  BY <1>2
<1>3. CASE OpenForm(d)
  <2>1. Push(d, Plain("form")) /\ UNCHANGED order
    BY <1>3 DEF OpenForm, Browse
  <2>2. Plain("form").page = "form"
    BY DEF Plain, Screen
  <2>3. QueueStep(d, 0, {}) /\ NavStep(d, Len(nav[d]), {})
    BY <1>1, <2>1, <2>2, PushEffect, PlainNav
  <2>4. QED
    BY <1>1, <1>2, <2>1, <2>3, ReopensKept
<1>4. CASE AskCancel(d)
  <2>1. PICK r : r = Screen("dialog", Top(d).order, Top(d).snap, NoOffer)
    OBVIOUS
  <2>2. /\ Push(d, r) /\ UNCHANGED order /\ nav[d] # <<>>
        /\ Top(d).page = "order" /\ Top(d).snap.status = "inProgress"
    BY <1>4, <2>1 DEF AskCancel, Browse, On, Cancellable
  <2>3. /\ r.page = "dialog" /\ r.order = Top(d).order /\ r.snap = Top(d).snap
    BY <2>1 DEF Screen
  <2>4. QueueStep(d, 0, {}) /\ NavStep(d, Len(nav[d]), {r})
    BY <1>1, <2>2, PushEffect
  <2>5. \A o \in Orders : Cancelling(r, o) => Cancelling(Top(d), o)
    BY <2>2, <2>3 DEF Cancelling
  <2>6. \A o \in Orders : /\ Choosing(r, o) => MayChoose(d, o)
                          /\ Cancelling(r, o) => NoneChoosing(d, o)
    BY <1>1, <2>2, <2>3, <2>5, TopType DEF Choosing, NothingReopens, NoneCancelling, Top
  <2>7. QED
    BY <1>1, <1>2, <2>2, <2>3, <2>4, <2>6, ReopensKept
<1>5. CASE Back(d)
  <2>1. Pop(d, 1, queue[d]) /\ UNCHANGED order
    BY <1>5 DEF Back
  <2>2. QueueStep(d, 0, {}) /\ NavStep(d, Len(nav[d]), {})
    BY <1>1, <2>1, PopEffect
  <2>3. QED
    BY <1>1, <1>2, <2>1, <2>2, ReopensKept
<1>6. CASE AcceptOfferCash(d)
  <2>1. PICK n : n = Call(AcceptsWith, Top(d).order, Top(d).offer, "cash", Len(nav[d]))
    OBVIOUS
  <2>2. /\ nav[d] # <<>> /\ Top(d).page = "sheet" /\ UNCHANGED <<order, nav>>
        /\ queue' = [queue EXCEPT ![d] = Append(@, n)]
    BY <1>6, <2>1 DEF AcceptOfferCash, On
  <2>3. /\ Top(d) \in Route /\ Top(d).order \in Orders /\ Len(nav[d]) \in DOMAIN nav[d]
        /\ Top(d).offer \in Offers
    BY <1>1, <2>2, TopType DEF Route
  <2>4. n \in Write /\ n.op = "start" /\ n.order = Top(d).order
    BY <1>1, <2>1, <2>3, CallType DEF AcceptsWith, Call, PaymentOption
  <2>5. MayChoose(d, n.order)
    BY <2>2, <2>3, <2>4, ChoosingMayChoose DEF Choosing, Top
  <2>6. QueueStep(d, 0, {n}) /\ NavStep(d, Len(nav[d]), {})
    BY <1>1, <2>2, <2>4, EnqueueQueue, SameNav
  <2>7. QED
    BY <1>1, <1>2, <2>2, <2>4, <2>5, <2>6, ReopensKept
<1>7. CASE AcceptOfferElectronic(d)
  <2>1. PICK r, m : /\ r = Screen("payment", NoOrder, NoDoc, Top(d).offer)
                    /\ m = IF Len(nav[d]) > 2 THEN Len(nav[d]) - 2 ELSE 0
    OBVIOUS
  <2>2. nav[d] # <<>> /\ Top(d).page = "sheet" /\ UNCHANGED order
    BY <1>7 DEF AcceptOfferElectronic, On
  <2>3. /\ Top(d) \in Route /\ Top(d).order \in Orders /\ Len(nav[d]) \in DOMAIN nav[d]
        /\ OrderOf[Top(d).offer] = Top(d).order
    BY <1>1, <2>2, TopType, TopSound DEF Route, SoundRoute
  <2>4. r.page = "payment" /\ r.offer = Top(d).offer
    BY <2>1 DEF Screen
  <2>5. MayChoose(d, Top(d).order)
    BY <2>2, <2>3, ChoosingMayChoose DEF Choosing, Top
  <2>6. QueueStep(d, 0, {}) /\ NavStep(d, m, {r}) /\ m \in Nat
    BY <1>1, <1>7, <2>1, PayNav
  <2>7. \A o \in Orders : /\ Choosing(r, o) => MayChoose(d, o)
                          /\ Cancelling(r, o) => NoneChoosing(d, o)
    BY <2>3, <2>4, <2>5 DEF Choosing, Cancelling
  <2>8. QED
    BY <1>1, <1>2, <2>2, <2>4, <2>6, <2>7, ReopensKept
<1>8. CASE CancelOrder(d)
  <2>1. PICK n : n = Call("cancel", Top(d).order, Top(d).snap.offerId,
                          Top(d).snap.paymentOption, Len(nav[d]) - 1)
    OBVIOUS
  <2>2. /\ nav[d] # <<>> /\ Top(d).page = "dialog" /\ UNCHANGED <<order, nav>>
        /\ queue' = [queue EXCEPT ![d] = Append(@, n)]
    BY <1>8, <2>1 DEF CancelOrder, On
  <2>3. /\ Top(d) \in Route /\ Top(d).order \in Orders /\ Len(nav[d]) \in DOMAIN nav[d]
        /\ Top(d).snap \in OrderDoc /\ Top(d).snap.status = "inProgress" /\ Len(nav[d]) - 1 \in Nat
    BY <1>1, <2>2, TopType, TopSound DEF Route, SoundRoute
  <2>4. n \in Write /\ n.op = "cancel" /\ n.order = Top(d).order
    BY <1>1, <2>1, <2>3, CallType DEF Call, OrderDoc
  <2>5. NoneChoosing(d, n.order)
    BY <2>2, <2>3, <2>4 DEF NothingReopens, NoneCancelling, Cancelling, Top
  <2>6. QueueStep(d, 0, {n}) /\ NavStep(d, Len(nav[d]), {})
    BY <1>1, <2>2, <2>4, EnqueueQueue, SameNav
  <2>7. QED
    BY <1>1, <1>2, <2>2, <2>4, <2>5, <2>6, ReopensKept
<1>9. ASSUME NEW p \in Orders, OpenOrder(d, p)
      PROVE  NothingReopens'
  <2>1. PICK r : r = Screen("order", p, ViewOrder(d, p), NoOffer)
    OBVIOUS
  <2>2. On(d, "home") /\ Push(d, r) /\ UNCHANGED order
    BY <1>9, <2>1 DEF OpenOrder, Browse
  <2>3. r.page = "order" /\ r.order = p /\ r.snap.status = ViewStatus(d, p)
    BY <2>1 DEF Screen, ViewOrder
  <2>4. QueueStep(d, 0, {}) /\ NavStep(d, Len(nav[d]), {r})
    BY <1>1, <2>2, PushEffect
  <2>5. \A o \in Orders : NoneChoosing(d, o) /\ NoneCancelling(d, o)
    BY <1>1, <2>2, HomeAlone
  <2>6. r.snap.status = "awaitingOffers" => MayChoose(d, p)
    BY <2>3, <2>5, ViewAwaits DEF MayChoose, Started
  <2>7. \A o \in Orders : /\ Choosing(r, o) => MayChoose(d, o)
                          /\ Cancelling(r, o) => NoneChoosing(d, o)
    BY <2>3, <2>5, <2>6 DEF Choosing
  <2>8. QED
    BY <1>1, <1>2, <2>2, <2>3, <2>4, <2>7, ReopensKept
<1>10. ASSUME NEW f \in Offers, ShowOffer(d, f)
       PROVE  NothingReopens'
  <2>1. PICK r : r = Screen("sheet", Top(d).order, Top(d).snap, f)
    OBVIOUS
  <2>2. /\ Push(d, r) /\ UNCHANGED order /\ nav[d] # <<>>
        /\ Top(d).page = "order" /\ Top(d).snap.status = "awaitingOffers"
    BY <1>10, <2>1 DEF ShowOffer, Browse, On, Tappable
  <2>3. r.page = "sheet" /\ r.order = Top(d).order
    BY <2>1 DEF Screen
  <2>4. QueueStep(d, 0, {}) /\ NavStep(d, Len(nav[d]), {r})
    BY <1>1, <2>2, PushEffect
  <2>5. Len(nav[d]) \in DOMAIN nav[d]
    BY <1>1, <2>2, TopType
  <2>6. \A o \in Orders : Choosing(r, o) => MayChoose(d, o)
    <3>1. \A o \in Orders : Choosing(r, o) => Choosing(nav[d][Len(nav[d])], o)
      BY <2>2, <2>3 DEF Choosing, Top
    <3>2. QED
      BY <2>5, <3>1, ChoosingMayChoose
  <2>7. \A o \in Orders : ~Cancelling(r, o)
    BY <2>3 DEF Cancelling
  <2>8. QED
    BY <1>1, <1>2, <2>2, <2>3, <2>4, <2>6, <2>7, ReopensKept
<1>11. ASSUME NEW o \in Orders, NEW p \in PaymentOption, SendOrder(d, o, p)
       PROVE  NothingReopens'
  <2>1. PICK n : n = Call("create", o, NoOffer, p, Len(nav[d]))
    OBVIOUS
  <2>2. /\ nav[d] # <<>> /\ UNCHANGED order
        /\ queue' = [queue EXCEPT ![d] = Append(@, n)]
        /\ nav' = [nav EXCEPT ![d][Len(nav[d])].busy = TRUE]
    BY <1>11, <2>1 DEF SendOrder, On
  <2>3. n \in Write /\ n.op = "create"
    BY <1>1, <2>1, CallType DEF Call
  <2>4. QueueStep(d, 0, {n}) /\ NavStep(d, Len(nav[d]), {})
    BY <1>1, <2>2, <2>3, EnqueueQueue, BusyNav
  <2>5. \A u \in {n} : u.op # "start" /\ u.op # "cancel"
    BY <2>3
  <2>6. \A q \in Orders : order'[q].status = "cancelled" => order[q].status = "cancelled"
    BY <2>2
  <2>7. QED
    BY <1>1, <1>2, <2>4, <2>5, <2>6, ReopensKept
<1>12. QED
  BY <1>3, <1>4, <1>5, <1>6, <1>7, <1>8, <1>9, <1>10, <1>11 DEF Tap

\* What the gateway does.
LEMMA GatewayReopensNothing ==
    ASSUME IInv, DocsOK', OneDevice, NothingReopens, NEW d \in Devices, Gateway(d)
    PROVE  NothingReopens'
<1>1. /\ DocsOK /\ nav[d] \in Seq(Route) /\ Len(nav[d]) \in Nat /\ 0 \in {0, 1}
  BY DEF IInv, DocsOK
<1>2. UNCHANGED order
  BY DEF Gateway, PaymentCaptured, OnPaymentPaid, OnPaymentOther
<1>3. \A o \in Orders : ~(order'[o].status = "cancelled" /\ order[o].status # "cancelled")
  BY <1>2
<1>4. CASE PaymentCaptured(d)
  <2>1. NavStep(d, Len(nav[d]), {})
    BY <1>1, <1>4, BusyNav DEF PaymentCaptured, On
  <2>2. QueueStep(d, 0, {})
    BY <1>1, <1>4 DEF PaymentCaptured, QueueStep, SameCall, DocsOK
  <2>3. QED
    BY <1>1, <1>3, <2>1, <2>2, ReopensKept
<1>5. CASE OnPaymentPaid(d)
  <2>1. PICK n : n = Call(AcceptsWith, OrderOf[Top(d).offer], Top(d).offer, "electronic",
                          Len(nav[d]) - 1 + 1)
    OBVIOUS
  <2>2. /\ QueueStep(d, 0, {n}) /\ NavStep(d, Len(nav[d]) - 1, {}) /\ Len(nav[d]) - 1 \in Nat
        /\ Top(d).page = "payment" /\ nav[d] # <<>> /\ Top(d).offer \in Offers
        /\ n.op = "start" /\ n.order = OrderOf[Top(d).offer]
    BY <1>1, <1>5, <2>1, PaidNav
  <2>3. Len(nav[d]) \in DOMAIN nav[d] /\ n.order \in Orders
    BY <1>1, <2>2, TopType, OrderOfAssumption
  <2>4. MayChoose(d, n.order)
    BY <2>2, <2>3, ChoosingMayChoose DEF Choosing, Top
  <2>5. QED
    BY <1>1, <1>3, <2>2, <2>4, ReopensKept
<1>6. CASE OnPaymentOther(d)
  BY <1>1, <1>3, <1>6, OtherNav, ReopensKept
<1>7. QED
  BY <1>4, <1>5, <1>6 DEF Gateway

\* The page sendOrder opens at its end, whether or not the create was rejected.
LEMMA SentReopensNothing ==
    ASSUME IInv, DocsOK', OneDevice, NothingReopens, NEW d \in Devices, queue[d] # <<>>,
           NEW w, w = Head(queue[d]), w.op = "create", ShowSent(d, w),
           \A o \in Orders : order'[o].status = "cancelled" => order[o].status = "cancelled"
    PROVE  NothingReopens'
<1>1. PICK r : r = Screen("order", w.order, NewOrder(w.paymentOption), NoOffer)
  OBVIOUS
<1>2. /\ DocsOK /\ w \in Write /\ SoundWrite(w) /\ w.order \in Orders
      /\ nav[d] \in Seq(Route) /\ Len(nav[d]) \in Nat
  BY HeadSound DEF DocsOK
<1>3. r.page = "order" /\ r.order = w.order /\ r.snap.status = "awaitingOffers"
  BY <1>1 DEF Screen, NewOrder
<1>4. ~Exists(w.order)
  BY <1>2 DEF SoundWrite
<1>5. MayChoose(d, w.order)
  <2>1. NoneCancelling(d, w.order)
    BY <1>4 DEF NoneCancelling, Cancelling, IInv, PendingWorkIsSound, SoundRoute, SoundSnapshot
  <2>2. ~Awaits(d, "cancel", w.order)
    BY <1>4 DEF Awaits, IInv, PendingWorkIsSound, SoundWrite
  <2>3. QED
    BY <1>4, <2>1, <2>2 DEF MayChoose, Exists
<1>6. \A o \in Orders : /\ Choosing(r, o) => MayChoose(d, o)
                        /\ Cancelling(r, o) => NoneChoosing(d, o)
  BY <1>3, <1>5 DEF Choosing, Cancelling
<1>7. QueueStep(d, 1, {})
  BY <1>1, <1>2, SentNav
<1>8. CASE NavStep(d, Len(nav[d]) - 1, {r}) /\ nav[d] # <<>>
  <2>1. Len(nav[d]) - 1 \in Nat
    BY <1>2, <1>8
  <2>2. QED
    BY <1>2, <1>3, <1>6, <1>7, <1>8, <2>1, ReopensKept
<1>9. CASE NavStep(d, Len(nav[d]), {})
  BY <1>2, <1>7, <1>9, ReopensKept
<1>10. QED
  BY <1>1, <1>2, <1>8, <1>9, SentNav

\* What a call does when its write is acknowledged.
LEMMA AckReopensNothing ==
    ASSUME IInv, DocsOK', OneDevice, NothingReopens, NEW d \in Devices, Ack(d)
    PROVE  NothingReopens'
<1>1. PICK w : w = Head(queue[d])
  OBVIOUS
<1>2. PICK n : n = [w EXCEPT !.op = Following(w)]
  OBVIOUS
<1>3. queue[d] # <<>>
  BY DEF Ack, AckCreate, AckStart, AckChoose, AckAccept, AckCancel, AckWithdraw, Ready
<1>4. /\ DocsOK /\ w \in Write /\ SoundWrite(w) /\ w.order \in Orders /\ w = queue[d][1]
      /\ nav[d] \in Seq(Route) /\ Len(nav[d]) \in Nat /\ queue[d] \in Seq(Write)
      /\ Tail(queue[d]) \in Seq(Write) /\ 1 \in DOMAIN queue[d] /\ order \in [Orders -> OrderDoc]
  BY <1>1, <1>3, HeadSound, HeadType DEF DocsOK
<1>5. CASE AckCreate(d)
  <2>1. /\ w.op = "create" /\ ShowSent(d, w)
        /\ order' = [order EXCEPT ![w.order] = NewOrder(w.paymentOption)]
    BY <1>1, <1>5 DEF AckCreate, Ready
  <2>2. \A o \in Orders : order'[o].status = "cancelled" => order[o].status = "cancelled"
    BY <1>4, <2>1 DEF NewOrder
  <2>3. QED
    BY <1>1, <1>3, <2>1, <2>2, SentReopensNothing
<1>6. ASSUME Continue(d, w), UNCHANGED nav
      PROVE  /\ QueueStep(d, 1, {m \in {n} : Following(w) # "end"})
             /\ NavStep(d, Len(nav[d]), {})
             /\ \A m \in {m \in {n} : Following(w) # "end"} : m.op \in {"choose", "accept", "withdraw"}
  <2>1. n.op = Following(w)
    BY <1>2, <1>4 DEF Write
  <2>2. Following(w) # "end" => n.op \in {"choose", "accept", "withdraw"}
    BY <2>1 DEF Following
  <2>3. NavStep(d, Len(nav[d]), {})
    BY <1>4, <1>6, SameNav
  <2>4. QueueStep(d, 1, {m \in {n} : Following(w) # "end"})
    <3>1. DocsOK /\ Continue(d, Head(queue[d]))
      BY <1>1, <1>4, <1>6
    <3>2. n = [Head(queue[d]) EXCEPT !.op = Following(Head(queue[d]))]
      BY <1>1, <1>2
    <3>3. QueueStep(d, 1, {m \in {n} : Following(Head(queue[d])) # "end"})
      BY <1>3, <3>1, <3>2, ContinueQueue
    <3>4. QED
      BY <1>1, <3>3
  <2>5. QED
    BY <2>2, <2>3, <2>4
<1>7. CASE AckStart(d) \/ AckChoose(d)
  <2>1. /\ Continue(d, w) /\ UNCHANGED nav
        /\ \A o \in Orders : order'[o].status = "cancelled" => order[o].status = "cancelled"
    BY <1>1, <1>4, <1>7 DEF AckStart, AckChoose, OrderDoc
  <2>2. QED
    BY <1>4, <1>6, <2>1, ReopensKept
<1>8. CASE AckCancel(d)
  <2>1. /\ Continue(d, w) /\ UNCHANGED nav /\ w.op = "cancel"
        /\ \A o \in Orders \ {w.order} : order'[o] = order[o]
    BY <1>1, <1>4, <1>8 DEF AckCancel, Ready
  <2>2. NoneChoosing(d, w.order) /\ ~Awaits(d, "start", w.order)
    <3>1. /\ NoneChoosing(d, w.order)
          /\ \A i \in DOMAIN queue[d] :
                queue[d][i].op = "start" /\ queue[d][i].order = w.order => i < 1
      BY <1>4, <2>1 DEF NothingReopens, CancelsAreLast
    <3>2. QED
      BY <1>4, <3>1 DEF Awaits
  <2>3. \A o \in Orders : order'[o].status = "cancelled" /\ order[o].status # "cancelled"
            => NoneChoosing(d, o) /\ ~Awaits(d, "start", o)
    BY <2>1, <2>2
  <2>4. QED
    BY <1>4, <1>6, <2>1, <2>3, ReopensKept
<1>9. CASE AckAccept(d) \/ AckWithdraw(d)
  <2>1. PopBoth(d, w) /\ UNCHANGED order
    BY <1>1, <1>9 DEF AckAccept, AckWithdraw
  <2>2. PICK k \in Nat : Pop(d, k, Tail(queue[d]))
    BY <1>1, <2>1 DEF PopBoth
  <2>3. QueueStep(d, 1, {}) /\ NavStep(d, Len(nav[d]), {})
    BY <1>3, <1>4, <2>2, PopEffect
  <2>4. QED
    BY <1>4, <2>1, <2>3, ReopensKept
<1>10. QED
  BY <1>5, <1>7, <1>8, <1>9 DEF Ack

\* A rejected write, a restart, a provider's offer.
LEMMA RejectReopensNothing ==
    ASSUME IInv, DocsOK', OneDevice, NothingReopens, NEW d \in Devices, Reject(d)
    PROVE  NothingReopens'
<1>1. PICK w : w = Head(queue[d])
  OBVIOUS
<1>2. /\ DocsOK /\ queue[d] # <<>> /\ Tail(queue[d]) \in Seq(Write) /\ UNCHANGED order
      /\ Len(nav[d]) \in Nat
  BY HeadType DEF Reject, IInv, DocsOK
<1>3. CASE Ready(d, "create")
  <2>1. w.op = "create" /\ ShowSent(d, w)
    BY <1>1, <1>3 DEF Reject, Ready
  <2>2. QED
    BY <1>1, <1>2, <2>1, SentReopensNothing
<1>4. CASE ~Ready(d, "create")
  <2>1. QueueStep(d, 1, {}) /\ NavStep(d, Len(nav[d]), {})
    BY <1>2, <1>4, PopEffect DEF Reject
  <2>2. QED
    BY <1>2, <2>1, ReopensKept
<1>5. QED
  BY <1>3, <1>4

\* A restart.
LEMMA KillReopensNothing ==
    ASSUME IInv, DocsOK', OneDevice, NothingReopens, NEW d \in Devices, Kill(d)
    PROVE  NothingReopens'
<1>1. DocsOK /\ UNCHANGED order /\ QueueStep(d, 0, {}) /\ NavStep(d, 0, {})
  BY KillNav DEF IInv, Kill
<1>2. QED
  BY <1>1, ReopensKept

\* A provider's offer.
LEMMA OfferReopensNothing ==
    ASSUME NothingReopens, UNCHANGED <<order, queue, nav>>
    PROVE  NothingReopens'
BY DEF NothingReopens, HomeIsRoot, CancelsAreLast, NoneChoosing, NoneCancelling, Choosing,
       Cancelling, Awaits

\* No step gives a device something that reopens a cancelled order.
LEMMA StepReopensNothing ==
    ASSUME AnswersInTime, OneDevice
    PROVE  IInv /\ NothingReopens /\ TypeOK /\ [Next]_vars => NothingReopens'
<1>1. SUFFICES ASSUME IInv, NothingReopens, TypeOK, [Next]_vars PROVE NothingReopens'
  OBVIOUS
<1>2. DocsOK'
  BY <1>1, StepDocs
<1>3. CASE UNCHANGED vars \/ \E f \in Offers : MakeOffer(f)
  BY <1>1, <1>3, OfferReopensNothing DEF vars, MakeOffer
<1>4. ASSUME NEW d \in Devices, Tap(d) \/ Gateway(d) \/ Ack(d) \/ Reject(d) \/ Kill(d)
      PROVE  NothingReopens'
  BY <1>1, <1>2, <1>4, TapReopensNothing, GatewayReopensNothing, AckReopensNothing,
     RejectReopensNothing, KillReopensNothing
<1>5. \A d \in Devices : ~Unanswered(d)
  BY DEF Unanswered, AnswersInTime
<1>6. QED
  BY <1>1, <1>3, <1>4, <1>5 DEF Next, Answered

\* And so it is when the app starts.
LEMMA InitReopensNothing == Init => NothingReopens
<1>1. SUFFICES ASSUME Init PROVE NothingReopens
  OBVIOUS
<1>2. PICK h : h = Plain("home")
  OBVIOUS
<1>3. h.page = "home"
  BY <1>2 DEF Plain, Screen
<1>4. ASSUME NEW d \in Devices
      PROVE  DOMAIN nav[d] = {1} /\ nav[d][1] = h /\ DOMAIN queue[d] = {}
  BY <1>1, <1>2 DEF Init
<1>5. \A d \in Devices, o \in Orders : NoneChoosing(d, o) /\ ~Awaits(d, "start", o)
  BY <1>3, <1>4 DEF NoneChoosing, Choosing, Awaits
<1>6. HomeIsRoot /\ CancelsAreLast
  BY <1>4 DEF HomeIsRoot, CancelsAreLast
<1>7. QED
  BY <1>5, <1>6 DEF NothingReopens

\* One device never holds anything that would start a cancelled order again: the
\* write queue keeps every start before the cancellation, and the page the order
\* is cancelled from (order_page.dart) is opened when none that accepts is left.
THEOREM NothingReopensOrders ==
    ASSUME AnswersInTime, OneDevice
    PROVE  Spec => []NothingReopens
<1>1. IInv /\ TypeOK /\ [Next]_vars => IInv'
  BY StepSafe
<1>2. IInv /\ NothingReopens /\ TypeOK /\ [Next]_vars => NothingReopens'
  BY StepReopensNothing
<1>3. QED
  BY <1>1, <1>2, InitSafe, InitReopensNothing, TypeCorrect, PTL DEF Spec

\* A step of one device leaves a cancelled order cancelled.
LEMMA StaysCancelled ==
    ASSUME AnswersInTime, IInv, NothingReopens, [Next]_vars,
           NEW o \in Orders, order[o].status = "cancelled"
    PROVE  order'[o].status = "cancelled"
<1>1. Next \/ UNCHANGED order
  BY DEF vars
<1>2. ASSUME order'[o] # order[o]
      PROVE  order'[o].status = "cancelled"
  <2>1. PICK d \in Devices : AckCreate(d) \/ AckStart(d) \/ AckChoose(d) \/ AckCancel(d)
    <3>1. \A d \in Devices : ~Unanswered(d)
      BY DEF Unanswered, AnswersInTime
    <3>2. \A d \in Devices : Tap(d) \/ Gateway(d) \/ Reject(d) \/ Kill(d) => UNCHANGED order
      BY DEF Tap, OpenForm, AskCancel, Back, AcceptOfferCash, AcceptOfferElectronic, CancelOrder,
             OpenOrder, ShowOffer, SendOrder, Gateway, PaymentCaptured, OnPaymentPaid,
             OnPaymentOther, Reject, Kill, Browse
    <3>3. \A f \in Offers : MakeOffer(f) => UNCHANGED order
      BY DEF MakeOffer
    <3>4. QED
      BY <1>1, <1>2, <3>1, <3>2, <3>3 DEF Next, Answered, Ack, AckAccept, AckWithdraw
  <2>2. PICK w : w = Head(queue[d])
    OBVIOUS
  <2>3. queue[d] # <<>>
    BY <2>1 DEF AckCreate, AckStart, AckChoose, AckCancel, Ready
  <2>4. /\ SoundWrite(w) /\ w = queue[d][1] /\ 1 \in DOMAIN queue[d] /\ w.order \in Orders
        /\ order \in [Orders -> OrderDoc]
    <3>1. /\ DocsOK /\ SoundWrite(w) /\ w = queue[d][1] /\ w.order \in Orders
      BY <1>1, <2>2, <2>3, HeadSound
    <3>2. QED
      BY <2>3, <3>1 DEF DocsOK
  <2>5. CASE AckCreate(d)
    BY <1>1, <1>2, <2>2, <2>4, <2>5 DEF AckCreate, Ready, SoundWrite, Exists
  <2>6. CASE AckStart(d)
    <3>1. Awaits(d, "start", w.order) /\ order' = [order EXCEPT ![w.order].status = "inProgress"]
      BY <2>2, <2>4, <2>6 DEF AckStart, Ready, Awaits
    <3>2. w.order # o
      BY <1>1, <3>1 DEF NothingReopens
    <3>3. QED
      BY <1>1, <2>4, <3>1, <3>2
  <2>7. CASE AckChoose(d) \/ AckCancel(d)
    BY <1>1, <2>2, <2>4, <2>7 DEF AckChoose, AckCancel, OrderDoc
  <2>8. QED
    BY <2>1, <2>5, <2>6, <2>7
<1>3. QED
  BY <1>2

\* Cancellation is final on one device, whatever is killed, rejected or lost: no
\* write of send_order.dart that was queued or tapped before changes the status
\* of a cancelled order.
THEOREM CancellationIsFinal ==
    ASSUME AnswersInTime, OneDevice
    PROVE  Spec => CancelledIsFinal
<1> DEFINE Final == \A o \in Orders :
               order[o].status = "cancelled" => order'[o].status = "cancelled"
<1>1. IInv /\ NothingReopens /\ [Next]_vars => [Final]_vars
  BY StaysCancelled
<1>2. IInv /\ TypeOK /\ [Next]_vars => IInv'
  BY StepSafe
<1>3. Spec => []NothingReopens
  BY NothingReopensOrders
<1>4. Spec => [][Final]_vars
  BY <1>1, <1>2, <1>3, InitSafe, TypeCorrect, PTL DEF Spec
<1>5. QED
  BY <1>4 DEF CancelledIsFinal

-----------------------------------------------------------------------------
(* One acceptance and one cancellation at a time *)

\* A queue that loses at most its k oldest writes.
Keeps(d, k) == Len(queue[d]) <= Len(queue'[d]) + k

\* Where the writes and the pages of the next state come from.
LEMMA WritesFrom ==
    ASSUME DocsOK, DocsOK', NEW d \in Devices, NEW k \in {0, 1}, NEW N, QueueStep(d, k, N),
           NEW i \in DOMAIN queue'[d]
    PROVE  /\ i \in Nat \ {0} /\ queue'[d][i].order \in Orders
           /\ \/ /\ i + k \in DOMAIN queue[d] /\ i + k < Len(queue[d]) + 1
                 /\ queue'[d][i].op = queue[d][i + k].op
                 /\ queue'[d][i].order = queue[d][i + k].order
                 /\ queue'[d][i].offer = queue[d][i + k].offer
              \/ /\ i + k = Len(queue[d]) + 1
                 /\ \E n \in N : /\ queue'[d][i].op = n.op /\ queue'[d][i].order = n.order
                                 /\ queue'[d][i].offer = n.offer
<1>1. /\ queue[d] \in Seq(Write) /\ (queue[d] \in Seq(Write))' /\ Len(queue[d]) \in Nat
  BY DEF DocsOK
<1>2. i \in Nat \ {0} /\ queue'[d][i].order \in Orders
  BY <1>1 DEF Write
<1>3. i + k \in DOMAIN queue[d] => i + k < Len(queue[d]) + 1
  BY <1>1, <1>2
<1>4. QED
  BY <1>2, <1>3 DEF QueueStep, SameCall

\* The same for pages.
LEMMA PagesFrom ==
    ASSUME DocsOK', NEW d \in Devices, NEW m \in Nat, NEW R, NavStep(d, m, R),
           NEW i \in DOMAIN nav'[d]
    PROVE  /\ i \in Nat \ {0} /\ i <= Len(nav'[d]) /\ Len(nav'[d]) \in Nat
           /\ \/ i <= m /\ i \in DOMAIN nav[d] /\ SamePage(nav'[d][i], nav[d][i])
              \/ i > m /\ nav'[d][i].page \in PlainPage
              \/ i > m /\ i = Len(nav'[d]) /\ nav'[d][i] \in R
<1>1. (nav[d] \in Seq(Route))'
  BY DEF DocsOK
<1>2. i \in Nat \ {0} /\ i <= Len(nav'[d]) /\ Len(nav'[d]) \in Nat
  BY <1>1
<1>3. i <= m \/ i > m
  BY <1>2
<1>4. QED
  BY <1>2, <1>3 DEF NavStep, PlainPage

\* The pages stay in order if the new one, r, fits on those below it.
Fits(d, m, r) ==
    /\ r.page = "sheet" =>
          /\ m \in DOMAIN nav[d] /\ Len(nav'[d]) = m + 1
          /\ nav[d][m].page = "order" /\ nav[d][m].order = r.order /\ nav[d][m].snap = r.snap
          /\ r.snap.status = "awaitingOffers"
    /\ \A o \in Orders : Choosing(r, o) =>
          \A i \in DOMAIN nav[d] : i <= m /\ Choosing(nav[d][i], o) =>
              /\ i = m /\ Len(nav'[d]) = m + 1
              /\ nav[d][i].page = "order" /\ r.page = "sheet"

\* The pages stay in order when the new ones fit on the old.
LEMMA PagesKept ==
    ASSUME DocsOK, DocsOK', OneDevice, PagesInOrder, NEW d \in Devices,
           NEW m \in Nat, NEW R, NavStep(d, m, R),
           \A o \in Orders : Exists(o) => Exists(o)',
           \/ m = 0
           \/ m < Len(nav[d])
           \/ Len(nav'[d]) <= Len(nav[d])
           \/ Top(d).page = "order" => Exists(Top(d).order),
           \A r \in R : Fits(d, m, r)
    PROVE  PagesInOrder'
<1>1. \A e \in Devices : e = d
  BY DEF OneDevice
<1>2. /\ nav[d] \in Seq(Route) /\ (nav[d] \in Seq(Route))' /\ Len(nav[d]) \in Nat
      /\ Len(nav'[d]) \in Nat
  BY DEF DocsOK
<1>3. \A i \in DOMAIN nav[d] : nav[d][i].page = "order" => nav[d][i].order \in Orders
  BY <1>2 DEF Route
<1>4. ASSUME NEW i \in DOMAIN nav'[d], nav'[d][i].page = "sheet"
      PROVE  /\ i - 1 \in DOMAIN nav'[d] /\ nav'[d][i - 1].page = "order"
             /\ nav'[d][i - 1].order = nav'[d][i].order /\ nav'[d][i - 1].snap = nav'[d][i].snap
             /\ nav'[d][i].snap.status = "awaitingOffers"
  <2>1. CASE i <= m /\ i \in DOMAIN nav[d] /\ SamePage(nav'[d][i], nav[d][i])
    <3>1. /\ i - 1 \in DOMAIN nav[d] /\ nav[d][i - 1].page = "order"
          /\ nav[d][i - 1].order = nav'[d][i].order /\ nav[d][i - 1].snap = nav'[d][i].snap
          /\ nav'[d][i].snap.status = "awaitingOffers"
      BY <1>4, <2>1 DEF PagesInOrder, SamePage
    <3>2. i - 1 \in DOMAIN nav'[d] /\ i - 1 <= m
      BY <1>2, <2>1, <3>1
    <3>3. QED
      BY <3>1, <3>2 DEF NavStep, SamePage
  <2>2. CASE i > m /\ i = Len(nav'[d]) /\ nav'[d][i] \in R
    <3>1. /\ m \in DOMAIN nav[d] /\ Len(nav'[d]) = m + 1
          /\ nav[d][m].page = "order" /\ nav[d][m].order = nav'[d][i].order
          /\ nav[d][m].snap = nav'[d][i].snap /\ nav'[d][i].snap.status = "awaitingOffers"
      BY <1>4, <2>2 DEF Fits
    <3>2. i - 1 = m /\ m \in DOMAIN nav'[d] /\ m <= m
      BY <1>2, <2>2, <3>1
    <3>3. QED
      BY <3>1, <3>2 DEF NavStep, SamePage
  <2>3. QED
    BY <1>4, <2>1, <2>2, PagesFrom DEF PlainPage
<1>5. ASSUME NEW i \in DOMAIN nav'[d], nav'[d][i].page = "order", ~Exists(nav[d][i].order)'
      PROVE  i = Len(nav'[d])
  <2>1. CASE i <= m /\ i \in DOMAIN nav[d] /\ SamePage(nav'[d][i], nav[d][i])
    <3>1. nav[d][i].page = "order" /\ ~Exists(nav[d][i].order)
      BY <1>3, <1>5, <2>1 DEF SamePage, Exists
    <3>2. i = Len(nav[d])
      BY <2>1, <3>1 DEF PagesInOrder
    <3>3. QED
      BY <1>2, <2>1, <3>1, <3>2 DEF Top
  <2>2. QED
    BY <1>5, <2>1, PagesFrom DEF PlainPage
<1>6. ASSUME NEW i \in DOMAIN nav'[d], NEW j \in DOMAIN nav'[d], NEW o \in Orders, i < j,
             Choosing(nav[d][i], o)', Choosing(nav[d][j], o)'
      PROVE  j = i + 1 /\ nav'[d][i].page = "order" /\ nav'[d][j].page = "sheet"
  <2>1. \/ i <= m /\ i \in DOMAIN nav[d] /\ Choosing(nav[d][i], o) /\ SamePage(nav'[d][i], nav[d][i])
        \/ i = Len(nav'[d])
    BY <1>6, PagesFrom DEF SamePage, Choosing, PlainPage
  <2>2. \/ j <= m /\ j \in DOMAIN nav[d] /\ Choosing(nav[d][j], o) /\ SamePage(nav'[d][j], nav[d][j])
        \/ j = Len(nav'[d]) /\ nav'[d][j] \in R /\ j > m
    BY <1>6, PagesFrom DEF SamePage, Choosing, PlainPage
  <2>3. i # Len(nav'[d]) /\ i \in Nat
    BY <1>2, <1>6
  <2>4. CASE j <= m /\ j \in DOMAIN nav[d] /\ Choosing(nav[d][j], o) /\ SamePage(nav'[d][j], nav[d][j])
    BY <1>6, <2>1, <2>3, <2>4 DEF PagesInOrder, SamePage
  <2>5. CASE j = Len(nav'[d]) /\ nav'[d][j] \in R /\ j > m
    <3>1. Choosing(nav'[d][j], o)
      BY <1>6 DEF Choosing
    <3>2. /\ i = m /\ Len(nav'[d]) = m + 1
          /\ nav[d][i].page = "order" /\ nav'[d][j].page = "sheet"
      BY <2>1, <2>3, <2>5, <3>1 DEF Fits
    <3>3. QED
      BY <2>1, <2>3, <2>5, <3>2 DEF SamePage
  <2>6. QED
    BY <2>2, <2>4, <2>5
<1>7. QED
  BY <1>1, <1>4, <1>5, <1>6 DEF PagesInOrder

\* The oldest write leaves the queue only when what it writes is written.
Commits(d, k) ==
    k = 1 => LET w == queue[d][1] IN
             /\ w.op = "start" => order'[w.order].status \in {"inProgress", "cancelled"}
             /\ w.op = "choose" => order'[w.order].offerId # NoOffer

\* Orders do not move back.
NothingUndone ==
    \A o \in Orders : /\ Started(o) => Started(o)'
                      /\ order[o].offerId # NoOffer => order'[o].offerId # NoOffer
                      /\ order[o].status = "cancelled" => order'[o].status = "cancelled"

\* What was queued before a position still is, or is written.
LEMMA BeforeKept ==
    ASSUME DocsOK, DocsOK', NEW d \in Devices, NEW k \in {0, 1}, NEW N, QueueStep(d, k, N),
           Keeps(d, k), Commits(d, k), NothingUndone,
           NEW o \in Orders, NEW j \in Nat, j + k <= Len(queue[d]) + 1
    PROVE  /\ StartedBefore(d, j + k, o) => StartedBefore(d, j, o)'
           /\ \A f : ChosenBefore(d, j + k, o, f) => ChosenBefore(d, j, o, f)'
<1>1. /\ queue[d] \in Seq(Write) /\ (queue[d] \in Seq(Write))' /\ Len(queue[d]) \in Nat
      /\ Len(queue'[d]) \in Nat
  BY DEF DocsOK
<1>2. ASSUME NEW op, NEW i \in DOMAIN queue[d], i < j + k,
             queue[d][i].op = op, queue[d][i].order = o
      PROVE  Before(d, j, op, o)' \/ (k = 1 /\ i = 1)
  <2>1. SUFFICES ASSUME ~(k = 1 /\ i = 1) PROVE Before(d, j, op, o)'
    OBVIOUS
  <2>2. /\ i - k \in Nat \ {0} /\ i - k <= Len(queue'[d]) /\ i - k < j
        /\ (i - k) + k = i /\ i # Len(queue[d]) + 1
    BY <1>1, <1>2, <2>1 DEF Keeps
  <2>3. i - k \in DOMAIN queue'[d]
    BY <1>1, <2>2
  <2>4. SameCall(queue'[d][i - k], queue[d][i])
    BY <2>2, <2>3 DEF QueueStep
  <2>5. QED
    BY <1>2, <2>2, <2>3, <2>4 DEF Before, SameCall
<1>3. ASSUME StartedBefore(d, j + k, o)
      PROVE  StartedBefore(d, j, o)'
  <2>1. CASE Started(o)
    BY <2>1 DEF NothingUndone, StartedBefore
  <2>2. CASE ~Started(o)
    <3>1. PICK i \in DOMAIN queue[d] : i < j + k /\ queue[d][i].op = "start" /\ queue[d][i].order = o
      BY <1>3, <2>2 DEF StartedBefore, Before
    <3>2. CASE Before(d, j, "start", o)'
      BY <3>2 DEF StartedBefore
    <3>3. CASE k = 1 /\ i = 1
      BY <3>1, <3>3 DEF Commits, StartedBefore, Started
    <3>4. QED
      BY <1>2, <3>1, <3>2, <3>3
  <2>3. QED
    BY <2>1, <2>2
<1>4. ASSUME NEW f, ChosenBefore(d, j + k, o, f)
      PROVE  ChosenBefore(d, j, o, f)'
  BY <1>2, <1>4 DEF ChosenBefore, Before, Commits, NothingUndone
<1>5. QED
  BY <1>3, <1>4

\* A page or a write that may cancel order o, with offer f, is the next in line.
MayCancel(d, o, f) ==
    /\ StartedBefore(d, Len(queue[d]) + 1, o)
    /\ ChosenBefore(d, Len(queue[d]) + 1, o, f)

\* Cancellations stay in order when the new pages and writes may cancel.
LEMMA CancelsKept ==
    ASSUME DocsOK, DocsOK', OneDevice, CancelsInOrder, NEW d \in Devices,
           NEW k \in {0, 1}, NEW N, QueueStep(d, k, N), Keeps(d, k), Commits(d, k),
           NEW m \in Nat, NEW R, NavStep(d, m, R), NothingUndone,
           \A r \in R, o \in Orders : Cancelling(r, o) => MayCancel(d, o, r.snap.offerId),
           \A n \in N :
              /\ n.op = "cancel" => MayCancel(d, n.order, n.offer)
              /\ n.op = "withdraw" => /\ OrderOf[n.offer] = n.order
                                      /\ order'[n.order].status = "cancelled"
                                      /\ order'[n.order].offerId # NoOffer,
           \A f \in Offers : offer'[f] = "orderCancelled" =>
              \/ offer[f] = "orderCancelled"
              \/ /\ order'[OrderOf[f]].status = "cancelled"
                 /\ order'[OrderOf[f]].offerId # NoOffer
    PROVE  CancelsInOrder'
<1>1. \A e \in Devices : e = d
  BY DEF OneDevice
<1>2. /\ queue[d] \in Seq(Write) /\ (queue[d] \in Seq(Write))' /\ Len(queue[d]) \in Nat
      /\ Len(queue'[d]) \in Nat
  BY DEF DocsOK
<1>3. ASSUME NEW o \in Orders, NEW f, MayCancel(d, o, f)
      PROVE  MayCancel(d, o, f)'
  <2>0. PICK j : j = Len(queue[d]) + 1 - k
    OBVIOUS
  <2>1. j \in Nat /\ j + k = Len(queue[d]) + 1 /\ j <= Len(queue'[d]) + 1
    BY <1>2, <2>0 DEF Keeps
  <2>2. StartedBefore(d, j, o)' /\ ChosenBefore(d, j, o, f)'
    <3>1. StartedBefore(d, j + k, o) /\ ChosenBefore(d, j + k, o, f)
      BY <1>3, <2>1 DEF MayCancel
    <3>2. j + k <= Len(queue[d]) + 1
      BY <1>2, <2>1
    <3>3. QED
      BY <2>1, <3>1, <3>2, BeforeKept
  <2>3. \A i \in DOMAIN queue'[d] : i < j => i < Len(queue'[d]) + 1
    BY <1>2, <2>1
  <2>4. QED
    BY <2>2, <2>3 DEF MayCancel, StartedBefore, ChosenBefore, Before
<1>4. ASSUME NEW i \in DOMAIN nav'[d], NEW o \in Orders, Cancelling(nav[d][i], o)'
      PROVE  MayCancel(d, o, nav[d][i].snap.offerId)'
  <2>1. MayCancel(d, o, nav'[d][i].snap.offerId)
    <3>1. CASE i \in DOMAIN nav[d] /\ SamePage(nav'[d][i], nav[d][i])
      BY <1>4, <3>1 DEF SamePage, Cancelling, CancelsInOrder, MayCancel
    <3>2. CASE nav'[d][i] \in R
      BY <1>4, <3>2 DEF Cancelling
    <3>3. QED
      BY <1>4, <3>1, <3>2, PagesFrom DEF PlainPage, Cancelling
  <2>2. PICK f : f = nav'[d][i].snap.offerId
    OBVIOUS
  <2>3. MayCancel(d, o, f)'
    BY <1>3, <2>1, <2>2
  <2>4. QED
    BY <2>2, <2>3 DEF MayCancel, ChosenBefore
<1>5. ASSUME NEW j \in DOMAIN queue'[d], queue'[d][j].op = "cancel"
      PROVE  /\ StartedBefore(d, j, queue[d][j].order)'
             /\ ChosenBefore(d, j, queue[d][j].order, queue[d][j].offer)'
  <2>1. PICK o, f : o = queue'[d][j].order /\ f = queue'[d][j].offer
    OBVIOUS
  <2>2. /\ o \in Orders /\ j \in Nat /\ j + k <= Len(queue[d]) + 1
        /\ StartedBefore(d, j + k, o) /\ ChosenBefore(d, j + k, o, f)
    <3>1. CASE /\ j + k \in DOMAIN queue[d] /\ j + k < Len(queue[d]) + 1
               /\ queue[d][j + k].op = "cancel" /\ queue[d][j + k].order = o
               /\ queue[d][j + k].offer = f
      BY <1>2, <1>5, <2>1, <3>1, WritesFrom DEF CancelsInOrder
    <3>2. CASE /\ j + k = Len(queue[d]) + 1
               /\ \E n \in N : n.op = "cancel" /\ n.order = o /\ n.offer = f
      BY <1>2, <1>5, <2>1, <3>2, WritesFrom DEF MayCancel
    <3>3. QED
      BY <1>5, <2>1, <3>1, <3>2, WritesFrom
  <2>3. StartedBefore(d, j, o)' /\ ChosenBefore(d, j, o, f)'
    BY <2>2, BeforeKept
  <2>4. QED
    BY <2>1, <2>3 DEF StartedBefore, ChosenBefore, Before, Started
<1>6. ASSUME NEW j \in DOMAIN queue'[d], queue'[d][j].op = "withdraw"
      PROVE  /\ OrderOf[queue'[d][j].offer] = queue'[d][j].order
             /\ order'[queue'[d][j].order].status = "cancelled"
             /\ order'[queue'[d][j].order].offerId # NoOffer
  <2>1. PICK o, f : o = queue'[d][j].order /\ f = queue'[d][j].offer
    OBVIOUS
  <2>2. CASE /\ j + k \in DOMAIN queue[d]
             /\ queue[d][j + k].op = "withdraw" /\ queue[d][j + k].order = o
             /\ queue[d][j + k].offer = f
    BY <1>6, <2>1, <2>2, WritesFrom DEF CancelsInOrder, NothingUndone
  <2>3. CASE \E n \in N : n.op = "withdraw" /\ n.order = o /\ n.offer = f
    BY <2>1, <2>3
  <2>4. QED
    BY <1>6, <2>1, <2>2, <2>3, WritesFrom
<1>7. ASSUME NEW f \in Offers, offer'[f] = "orderCancelled"
      PROVE  order'[OrderOf[f]].status = "cancelled" /\ order'[OrderOf[f]].offerId # NoOffer
  BY <1>7, OrderOfAssumption DEF CancelsInOrder, NothingUndone
<1>8. QED
  BY <1>1, <1>4, <1>5, <1>6, <1>7 DEF CancelsInOrder, MayCancel

\* An acceptance of an electronic order may be queued or go on with write n.
MayAccept(d, k, n) ==
    /\ \A i \in DOMAIN queue[d] :
          i > k => ~(queue[d][i].order = n.order /\ queue[d][i].op \in Acceptance)
    /\ \A i \in DOMAIN nav'[d] : ~Choosing(nav'[d][i], n.order)
    /\ n.op \in {"start", "choose"} => order'[n.order].offerId = NoOffer
    /\ n.op = "accept" => /\ order'[n.order].offerId = n.offer /\ offer'[n.offer] = "pending"
                          /\ ~Awaits(d, "withdraw", n.order)

\* No acceptance of order o is on its way.
Unaccepted(d, o) == ~Started(o)' /\ \A op \in Acceptance : ~Awaits(d, op, o)

\* The updates of offers: a provider's, or those of the two service functions.
OfferMoves(d, k) ==
    \A f \in Offers : offer'[f] # offer[f] =>
        \/ offer[f] = "none" /\ offer'[f] = "pending"
        \/ /\ k = 1 /\ queue[d][1].offer = f
           /\ \/ queue[d][1].op = "accept" /\ offer'[f] = "accepted"
              \/ queue[d][1].op = "withdraw" /\ offer'[f] = "orderCancelled"

\* The updates of electronic orders.
OrderMoves(d, k, N, R) ==
    \A o \in Orders : Electronic(o)' =>
        /\ ~Electronic(o) => /\ Unaccepted(d, o) /\ N = {}
                             /\ \A f \in Offers : OrderOf[f] = o => offer'[f] # "accepted"
        /\ Started(o)' /\ ~Started(o) => NoneChoosing(d, o) /\ R = {}
        /\ order'[o].offerId # order[o].offerId =>
              ~Electronic(o) \/ (k = 1 /\ queue[d][1].op = "choose" /\ queue[d][1].order = o)

\* An electronic order keeps its one acceptance when new pages and writes may accept.
LEMMA AcceptedKept ==
    ASSUME IInv, DocsOK', OneDevice, CancelsInOrder, AcceptedOnce, NEW d \in Devices,
           NEW k \in {0, 1}, NEW N, QueueStep(d, k, N), k = 1 => queue[d] # <<>>,
           NEW m \in Nat, NEW R, NavStep(d, m, R), N = {} \/ R = {},
           OfferMoves(d, k), OrderMoves(d, k, N, R),
           \A n \in N : n.op \in Acceptance /\ Electronic(n.order)' => MayAccept(d, k, n),
           \A r \in R, o \in Orders : Choosing(r, o) /\ Electronic(o)' => Unaccepted(d, o)
    PROVE  AcceptedOnce'
<1>1. \A e \in Devices : e = d
  BY DEF OneDevice
<1>2. /\ DocsOK /\ queue[d] \in Seq(Write) /\ (queue[d] \in Seq(Write))' /\ Len(queue[d]) \in Nat
      /\ k = 1 => 1 \in DOMAIN queue[d]
  BY DEF IInv, DocsOK
<1>0. ASSUME NEW j \in DOMAIN queue'[d]
      PROVE  \/ /\ j + k \in DOMAIN queue[d]
                 /\ queue'[d][j].op = queue[d][j + k].op
                 /\ queue'[d][j].order = queue[d][j + k].order
              \/ j + k = Len(queue[d]) + 1
  BY <1>2, WritesFrom
<1> DEFINE Acc(i, o) == i \in DOMAIN queue[d] /\ queue[d][i].order = o /\ queue[d][i].op \in Acceptance
<1>3. ASSUME NEW o \in Orders, Electronic(o)', NEW i \in DOMAIN queue'[d],
             queue'[d][i].order = o, queue'[d][i].op \in Acceptance
      PROVE  \/ /\ Electronic(o) /\ i + k > k /\ i + k # Len(queue[d]) + 1 /\ Acc(i + k, o)
                /\ queue'[d][i].op = queue[d][i + k].op
                /\ queue'[d][i].offer = queue[d][i + k].offer
             \/ /\ i + k = Len(queue[d]) + 1 /\ N # {} /\ Electronic(o)
                /\ \E n \in N : /\ n.op = queue'[d][i].op /\ n.order = o
                                /\ n.offer = queue'[d][i].offer /\ MayAccept(d, k, n)
  <2>1. CASE /\ i + k \in DOMAIN queue[d] /\ i + k < Len(queue[d]) + 1
             /\ queue'[d][i].op = queue[d][i + k].op
             /\ queue'[d][i].order = queue[d][i + k].order
             /\ queue'[d][i].offer = queue[d][i + k].offer
    <3>1. Acc(i + k, o)
      BY <1>3, <2>1
    <3>2. Electronic(o)
      BY <1>3, <3>1 DEF OrderMoves, Unaccepted, Awaits
    <3>3. i + k > k /\ i + k # Len(queue[d]) + 1
      BY <1>2, <1>3, <2>1
    <3>4. QED
      BY <2>1, <3>1, <3>2, <3>3
  <2>2. CASE /\ i + k = Len(queue[d]) + 1
             /\ \E n \in N : /\ queue'[d][i].op = n.op /\ queue'[d][i].order = n.order
                             /\ queue'[d][i].offer = n.offer
    <3>1. PICK n \in N : n.op = queue'[d][i].op /\ n.order = o /\ n.offer = queue'[d][i].offer
      BY <1>3, <2>2
    <3>2. MayAccept(d, k, n)
      BY <1>3, <3>1 DEF Electronic
    <3>3. Electronic(o)
      BY <1>3, <3>1 DEF OrderMoves
    <3>4. QED
      BY <2>2, <3>1, <3>2, <3>3
  <2>3. QED
    BY <1>2, <2>1, <2>2, WritesFrom
<1>4. ASSUME NEW o \in Orders, Electronic(o)', ~NoneChoosing(d, o)'
      PROVE  ~Started(o)' /\ \A op \in Acceptance : ~Awaits(d, op, o)'
  <2>1. PICK i \in DOMAIN nav'[d] : Choosing(nav[d][i], o)'
    BY <1>4 DEF NoneChoosing
  <2>2. CASE i \in DOMAIN nav[d] /\ SamePage(nav'[d][i], nav[d][i])
    <3>1. ~NoneChoosing(d, o)
      BY <2>1, <2>2 DEF NoneChoosing, Choosing, SamePage
    <3>2. ~Started(o)'
      BY <1>4, <3>1 DEF OrderMoves, AcceptedOnce, Unaccepted
    <3>3. ASSUME NEW op \in Acceptance, NEW j \in DOMAIN queue'[d],
                 queue'[d][j].op = op, queue'[d][j].order = o
          PROVE  FALSE
      <4>1. CASE Electronic(o) /\ Acc(j + k, o)
        BY <3>1, <4>1 DEF AcceptedOnce, Awaits
      <4>2. CASE \E n \in N : n.order = o /\ MayAccept(d, k, n)
        BY <2>1, <4>2 DEF MayAccept, Choosing
      <4>3. QED
        BY <1>3, <1>4, <3>3, <4>1, <4>2
    <3>4. QED
      BY <3>2, <3>3 DEF Awaits
  <2>3. CASE nav'[d][i] \in R
    <3>1. N = {} /\ Unaccepted(d, o)
      BY <1>4, <2>1, <2>3 DEF Choosing
    <3>2. ASSUME NEW op \in Acceptance, NEW j \in DOMAIN queue'[d],
                 queue'[d][j].op = op, queue'[d][j].order = o
          PROVE  FALSE
      BY <1>3, <1>4, <3>1, <3>2 DEF Unaccepted, Awaits
    <3>3. QED
      BY <3>1, <3>2 DEF Unaccepted, Awaits
  <2>4. QED
    BY <2>1, <2>2, <2>3, PagesFrom DEF PlainPage, Choosing
<1>5. ASSUME NEW o \in Orders, Electronic(o)', NEW i \in DOMAIN queue'[d], NEW j \in DOMAIN queue'[d],
             queue'[d][i].order = o, queue'[d][i].op \in Acceptance,
             queue'[d][j].order = o, queue'[d][j].op \in Acceptance
      PROVE  i = j
  <2>1. i \in Nat /\ j \in Nat
    BY <1>2
  <2>2. /\ \/ Electronic(o) /\ i + k > k /\ Acc(i + k, o)
           \/ i + k = Len(queue[d]) + 1 /\ \E n \in N : n.order = o /\ MayAccept(d, k, n)
        /\ \/ Electronic(o) /\ j + k > k /\ Acc(j + k, o)
           \/ j + k = Len(queue[d]) + 1 /\ \E n \in N : n.order = o /\ MayAccept(d, k, n)
    BY <1>3, <1>5
  <2>3. (\E n \in N : n.order = o /\ MayAccept(d, k, n)) => \A l \in DOMAIN queue[d] : l > k => ~Acc(l, o)
    BY DEF MayAccept
  <2>4. CASE Electronic(o) /\ Acc(i + k, o) /\ Acc(j + k, o)
    <3>1. i + k = j + k
      BY <2>4 DEF AcceptedOnce
    <3>2. QED
      BY <2>1, <3>1
  <2>5. QED
    BY <2>1, <2>2, <2>3, <2>4
<1>6. ASSUME NEW o \in Orders, Electronic(o)', Electronic(o), NEW i \in Nat \ {0}, Acc(i + k, o)
      PROVE  /\ order'[o].offerId = order[o].offerId
             /\ ~(k = 1 /\ Acc(1, o))
  <2>1. ~(k = 1 /\ Acc(1, o))
    BY <1>6 DEF AcceptedOnce
  <2>2. QED
    BY <1>2, <1>6, <2>1 DEF OrderMoves, Acceptance
<1>7. ASSUME NEW o \in Orders, Electronic(o)', Awaits(d, "start", o)' \/ Awaits(d, "choose", o)'
      PROVE  order'[o].offerId = NoOffer
  <2>1. PICK i \in DOMAIN queue'[d] : queue'[d][i].op \in {"start", "choose"} /\ queue'[d][i].order = o
    BY <1>7 DEF Awaits
  <2>2. i \in Nat \ {0}
    BY <1>2
  <2>3. CASE Electronic(o) /\ Acc(i + k, o) /\ queue'[d][i].op = queue[d][i + k].op
    <3>1. order[o].offerId = NoOffer
      BY <2>1, <2>3 DEF AcceptedOnce, Awaits
    <3>2. QED
      BY <1>6, <1>7, <2>2, <2>3, <3>1
  <2>4. CASE \E n \in N : n.op = queue'[d][i].op /\ n.order = o /\ MayAccept(d, k, n)
    BY <2>1, <2>4 DEF MayAccept
  <2>5. QED
    BY <1>3, <1>7, <2>1, <2>3, <2>4 DEF Acceptance
<1>8. ASSUME NEW o \in Orders, Electronic(o)', NEW i \in DOMAIN queue'[d],
             queue'[d][i].op = "accept", queue'[d][i].order = o
      PROVE  /\ order'[o].offerId = queue'[d][i].offer /\ offer'[queue'[d][i].offer] = "pending"
             /\ ~Before(d, i, "withdraw", o)'
  <2>1. i \in Nat \ {0}
    BY <1>2
  <2>2. CASE /\ Electronic(o) /\ i + k # Len(queue[d]) + 1 /\ Acc(i + k, o)
             /\ queue[d][i + k].op = "accept" /\ queue'[d][i].offer = queue[d][i + k].offer
    <3>1. PICK f : f = queue[d][i + k].offer
      OBVIOUS
    <3>2. order[o].offerId = f /\ offer[f] = "pending" /\ ~Before(d, i + k, "withdraw", o)
      BY <2>2, <3>1 DEF AcceptedOnce
    <3>3. order'[o].offerId = f
      BY <1>6, <1>8, <2>1, <2>2, <3>2
    <3>4. f \in Offers /\ OrderOf[f] = o
      BY <1>2, <2>2, <3>1 DEF IInv, PendingWorkIsSound, SoundWrite, Write
    <3>5. offer'[f] = "pending"
      <4>1. SUFFICES ASSUME offer'[f] # "pending" PROVE FALSE
        OBVIOUS
      <4>2. k = 1 /\ queue[d][1].offer = f /\ queue[d][1].op \in {"accept", "withdraw"} /\ 1 \in DOMAIN queue[d]
        BY <1>2, <3>2, <3>4, <4>1 DEF OfferMoves
      <4>3. OrderOf[queue[d][1].offer] = queue[d][1].order
        BY <4>2 DEF CancelsInOrder, IInv, PendingWorkIsSound, SoundWrite
      <4>4. queue[d][1].order = o
        BY <3>4, <4>2, <4>3
      <4>5. queue[d][1].op = "withdraw"
        BY <1>6, <1>8, <2>1, <2>2, <4>2, <4>4 DEF Acceptance
      <4>6. 1 < i + k
        BY <2>1, <4>2
      <4>7. QED
        BY <3>2, <4>2, <4>4, <4>5, <4>6 DEF Before
    <3>6. ASSUME NEW j \in DOMAIN queue'[d], j < i, queue'[d][j].op = "withdraw", queue'[d][j].order = o
          PROVE  FALSE
      <4>1. /\ j \in Nat /\ j + k < i + k /\ i + k <= Len(queue[d])
            /\ j + k # Len(queue[d]) + 1
        BY SMTT(30), <1>2, <2>1, <2>2, <3>6
      <4>2. \/ /\ j + k \in DOMAIN queue[d]
               /\ queue'[d][j].op = queue[d][j + k].op
               /\ queue'[d][j].order = queue[d][j + k].order
            \/ j + k = Len(queue[d]) + 1
        BY <1>0
      <4>3. j + k \in DOMAIN queue[d] /\ queue[d][j + k].op = "withdraw" /\ queue[d][j + k].order = o
        BY <3>6, <4>1, <4>2
      <4>4. QED
        BY <3>2, <4>1, <4>3 DEF Before
    <3>7. QED
      BY <2>2, <3>1, <3>3, <3>5, <3>6 DEF Before
  <2>3. ASSUME i + k = Len(queue[d]) + 1,
               NEW n \in N, n.op = "accept", n.order = o, n.offer = queue'[d][i].offer,
               MayAccept(d, k, n)
        PROVE  /\ order'[o].offerId = queue'[d][i].offer /\ offer'[queue'[d][i].offer] = "pending"
               /\ ~Before(d, i, "withdraw", o)'
    <3>1. order'[o].offerId = n.offer /\ offer'[n.offer] = "pending" /\ ~Awaits(d, "withdraw", o)
      BY <2>3 DEF MayAccept
    <3>2. ASSUME NEW j \in DOMAIN queue'[d], j < i, queue'[d][j].op = "withdraw", queue'[d][j].order = o
          PROVE  FALSE
      <4>1. j \in Nat /\ j + k < Len(queue[d]) + 1 /\ j + k # Len(queue[d]) + 1
        BY <1>2, <2>1, <2>3, <3>2
      <4>2. \/ /\ j + k \in DOMAIN queue[d]
               /\ queue'[d][j].op = queue[d][j + k].op
               /\ queue'[d][j].order = queue[d][j + k].order
            \/ j + k = Len(queue[d]) + 1
        BY <1>0
      <4>3. j + k \in DOMAIN queue[d] /\ queue[d][j + k].op = "withdraw" /\ queue[d][j + k].order = o
        BY <3>2, <4>1, <4>2
      <4>4. QED
        BY <3>1, <4>3 DEF Awaits
    <3>3. QED
      BY <2>3, <3>1, <3>2 DEF Before
  <2>4. QED
    BY <1>3, <1>8, <2>2, <2>3 DEF Acceptance
<1>9. ASSUME NEW o \in Orders, Electronic(o)', NEW f \in Offers, OrderOf[f] = o, offer'[f] = "accepted"
      PROVE  order'[o].offerId = f
  <2>1. Electronic(o)
    BY <1>9 DEF OrderMoves
  <2>2. CASE offer[f] = "accepted"
    <3>1. order[o].offerId = f /\ f # NoOffer
      BY <1>9, <2>1, <2>2, SentinelAssumption DEF AcceptedOnce
    <3>2. order'[o].offerId = order[o].offerId
      <4>1. SUFFICES ASSUME k = 1, queue[d][1].op = "choose", queue[d][1].order = o PROVE FALSE
        BY <1>9, <2>1 DEF OrderMoves
      <4>2. Awaits(d, "choose", o)
        BY <1>2, <4>1 DEF Awaits
      <4>3. QED
        BY <2>1, <3>1, <4>2 DEF AcceptedOnce
    <3>3. QED
      BY <3>1, <3>2
  <2>3. CASE offer[f] # "accepted"
    <3>1. k = 1 /\ queue[d][1].offer = f /\ queue[d][1].op = "accept" /\ 1 \in DOMAIN queue[d]
      BY <1>2, <1>9, <2>3 DEF OfferMoves
    <3>2. queue[d][1].order = o
      BY <1>9, <3>1 DEF IInv, PendingWorkIsSound, SoundWrite
    <3>3. order[o].offerId = f
      BY <2>1, <3>1, <3>2 DEF AcceptedOnce
    <3>4. order'[o].offerId = order[o].offerId
      BY <1>9, <2>1, <3>1 DEF OrderMoves
    <3>5. QED
      BY <3>3, <3>4
  <2>4. QED
    BY <2>2, <2>3
<1>10. QED
  BY <1>1, <1>4, <1>5, <1>7, <1>8, <1>9 DEF AcceptedOnce

\* The orders and offers as the step leaves them keep one acceptance and one
\* cancellation at a time, if what it adds does.
DocsMove(d, k, N, R) ==
    /\ Commits(d, k) /\ NothingUndone /\ OfferMoves(d, k) /\ OrderMoves(d, k, N, R)
    /\ \A o \in Orders : Exists(o) => Exists(o)'
    /\ \A f \in Offers : offer'[f] = "orderCancelled" =>
          \/ offer[f] = "orderCancelled"
          \/ /\ order'[OrderOf[f]].status = "cancelled"
             /\ order'[OrderOf[f]].offerId # NoOffer

\* A page the step may open.
MayOpen(d, m, r) ==
    /\ Fits(d, m, r)
    /\ \A o \in Orders : /\ Cancelling(r, o) => MayCancel(d, o, r.snap.offerId)
                         /\ Choosing(r, o) /\ Electronic(o)' => Unaccepted(d, o)

\* A write the step may queue.
MayQueue(d, k, n) ==
    /\ n.op = "cancel" => MayCancel(d, n.order, n.offer)
    /\ n.op = "withdraw" => /\ OrderOf[n.offer] = n.order
                            /\ order'[n.order].status = "cancelled"
                            /\ order'[n.order].offerId # NoOffer
    /\ n.op \in Acceptance /\ Electronic(n.order)' => MayAccept(d, k, n)

\* No page of an order that does not exist is covered.
CoversExisting(d, m) ==
    \/ m = 0
    \/ m < Len(nav[d])
    \/ Len(nav'[d]) <= Len(nav[d])
    \/ Top(d).page = "order" => Exists(Top(d).order)

\* What a step has to show of its writes, its pages and its documents.
LEMMA OneKept ==
    ASSUME IInv, DocsOK', OneDevice, OneAtATime, NEW d \in Devices, NEW k \in {0, 1},
           k = 1 => queue[d] # <<>>,
           NEW N, QueueStep(d, k, N), Keeps(d, k),
           NEW m \in Nat, NEW R, NavStep(d, m, R), N = {} \/ R = {}, CoversExisting(d, m),
           DocsMove(d, k, N, R),
           \A r \in R : MayOpen(d, m, r), \A n \in N : MayQueue(d, k, n)
    PROVE  OneAtATime'
<1>1. DocsOK
  BY DEF IInv
<1>2. PagesInOrder'
  <2>1. \A r \in R : Fits(d, m, r)
    BY DEF MayOpen
  <2>2. QED
    BY <1>1, <2>1, PagesKept DEF OneAtATime, DocsMove, CoversExisting
<1>3. CancelsInOrder'
  <2>1. \A r \in R, o \in Orders : Cancelling(r, o) => MayCancel(d, o, r.snap.offerId)
    BY DEF MayOpen
  <2>2. \A n \in N :
           /\ n.op = "cancel" => MayCancel(d, n.order, n.offer)
           /\ n.op = "withdraw" => /\ OrderOf[n.offer] = n.order
                                   /\ order'[n.order].status = "cancelled"
                                   /\ order'[n.order].offerId # NoOffer
    BY DEF MayQueue
  <2>3. /\ CancelsInOrder /\ Commits(d, k) /\ NothingUndone
        /\ \A f \in Offers : offer'[f] = "orderCancelled" =>
              \/ offer[f] = "orderCancelled"
              \/ /\ order'[OrderOf[f]].status = "cancelled"
                 /\ order'[OrderOf[f]].offerId # NoOffer
    BY DEF OneAtATime, DocsMove
  <2>4. QED
    BY <1>1, <2>1, <2>2, <2>3, CancelsKept
<1>4. AcceptedOnce'
  <2>1. \A r \in R, o \in Orders : Choosing(r, o) /\ Electronic(o)' => Unaccepted(d, o)
    BY DEF MayOpen
  <2>2. \A n \in N : n.op \in Acceptance /\ Electronic(n.order)' => MayAccept(d, k, n)
    BY DEF MayQueue
  <2>3. CancelsInOrder /\ AcceptedOnce /\ OfferMoves(d, k) /\ OrderMoves(d, k, N, R)
    BY DEF OneAtATime, DocsMove
  <2>4. QED
    BY <2>1, <2>2, <2>3, AcceptedKept
<1>5. QED
  BY <1>2, <1>3, <1>4 DEF OneAtATime

\* Most steps leave the documents alone.
LEMMA QuietMove ==
    ASSUME UNCHANGED <<order, offer>>, NEW d \in Devices, NEW N, NEW R
    PROVE  DocsMove(d, 0, N, R)
BY DEF DocsMove, Commits, NothingUndone, OfferMoves, OrderMoves, Exists, Started, Electronic

\* What becomes of the length of a queue.
LEMMA ShowKeeps ==
    ASSUME DocsOK, DocsOK', NEW d \in Devices, NEW stack, NEW kept \in Nat,
           NEW q \in Seq(Write), Show(d, stack, kept, q)
    PROVE  /\ q = queue[d] => Keeps(d, 0)
           /\ queue[d] # <<>> /\ q = Tail(queue[d]) => Keeps(d, 1)
           /\ \A w \in Write : q = Append(queue[d], w) => Keeps(d, 0)
<1>1. /\ queue[d] \in Seq(Write) /\ (queue[d] \in Seq(Write))'
  BY DEF DocsOK
<1>2. DOMAIN queue'[d] = DOMAIN q
  BY ShowEffect
<1>3. Len(queue'[d]) = Len(q)
  BY <1>1, <1>2
<1>4. QED
  BY <1>1, <1>3 DEF Keeps

\* Popping, as seen by the queue.
LEMMA PopKeeps ==
    ASSUME DocsOK, DocsOK', NEW d \in Devices, NEW n \in Nat, NEW q \in Seq(Write), Pop(d, n, q)
    PROVE  /\ q = queue[d] => Keeps(d, 0)
           /\ queue[d] # <<>> /\ q = Tail(queue[d]) => Keeps(d, 1)
<1>1. Len(Popped(nav[d], n)) \in Nat
  BY PoppedPrefix DEF DocsOK
<1>2. QED
  BY <1>1, ShowKeeps DEF Pop

\* Queueing a call.
LEMMA EnqueueKeeps ==
    ASSUME DocsOK, NEW d \in Devices, NEW w, queue' = [queue EXCEPT ![d] = Append(@, w)]
    PROVE  Keeps(d, 0)
BY DEF DocsOK, Keeps

\* A call that goes on.
LEMMA ContinueKeeps ==
    ASSUME DocsOK, NEW d \in Devices, NEW w, queue[d] # <<>>, Continue(d, w)
    PROVE  Keeps(d, 1)
<1>1. /\ Tail(queue[d]) \in Seq(Write) /\ Len(Tail(queue[d])) = Len(queue[d]) - 1
      /\ Len(queue[d]) \in Nat
  BY DEF DocsOK
<1>2. PICK u : u = [w EXCEPT !.op = Following(w)]
  OBVIOUS
<1>3. Len(queue'[d]) = Len(queue[d]) - 1 \/ Len(queue'[d]) = Len(queue[d])
  <2>1. queue'[d] = Tail(queue[d]) \/ queue'[d] = Append(Tail(queue[d]), u)
    BY <1>2 DEF Continue, DocsOK
  <2>2. \A s \in Seq(Write) : Len(Append(s, u)) = Len(s) + 1
    OBVIOUS
  <2>3. CASE queue'[d] = Append(Tail(queue[d]), u)
    <3>1. Len(queue'[d]) = Len(Tail(queue[d])) + 1
      BY <1>1, <2>2, <2>3, Zenon
    <3>2. QED
      BY <1>1, <3>1
  <2>4. CASE queue'[d] = Tail(queue[d])
    BY <1>1, <2>4
  <2>5. QED
    BY <2>1, <2>3, <2>4
<1>4. QED
  BY <1>1, <1>3 DEF Keeps

\* An offer id an order shows is the document's, or is being written.
LEMMA ViewOfferIdIs ==
    ASSUME IInv, NEW d \in Devices, NEW o \in Orders, ViewOfferId(d, o) # NoOffer
    PROVE  ChosenBefore(d, Len(queue[d]) + 1, o, ViewOfferId(d, o))
<1> DEFINE last == Newest({i \in DOMAIN queue[d] : /\ queue[d][i].order = o
                                                   /\ queue[d][i].op = "choose"})
<1>1. CASE last = {}
  <2>1. ViewOfferId(d, o) = order[o].offerId
    BY <1>1 DEF ViewOfferId
  <2>2. OrderOf[order[o].offerId] = o
    BY <2>1 DEF IInv, ChosenOfferBelongs
  <2>3. QED
    BY <2>1, <2>2 DEF ChosenBefore
<1>2. CASE last # {}
  <2>1. PICK i : i = CHOOSE j \in last : TRUE
    OBVIOUS
  <2>2. /\ i \in DOMAIN queue[d] /\ queue[d][i].order = o /\ queue[d][i].op = "choose"
    BY <1>2, <2>1 DEF Newest
  <2>3. ViewOfferId(d, o) = queue[d][i].offer
    BY <1>2, <2>1 DEF ViewOfferId
  <2>4. OrderOf[queue[d][i].offer] = o
    BY <2>2 DEF IInv, PendingWorkIsSound, SoundWrite
  <2>5. i < Len(queue[d]) + 1
    BY <2>2 DEF IInv, DocsOK
  <2>6. QED
    BY <2>2, <2>3, <2>4, <2>5 DEF ChosenBefore, Before
<1>3. QED
  BY <1>1, <1>2

\* An order shown in progress was started, or is being started.
LEMMA ViewStarted ==
    ASSUME DocsOK, NEW d \in Devices, NEW o \in Orders, ViewStatus(d, o) = "inProgress"
    PROVE  StartedBefore(d, Len(queue[d]) + 1, o)
<1>1. CASE order[o].status = "inProgress"
  BY <1>1 DEF StartedBefore, Started
<1>2. ASSUME NEW j \in StatusWrites(d, o), StatusSet(queue[d][j].op) = "inProgress"
      PROVE  StartedBefore(d, Len(queue[d]) + 1, o)
  <2>1. j \in DOMAIN queue[d] /\ queue[d][j].order = o /\ queue[d][j].op = "start"
    BY <1>2 DEF StatusWrites, StatusSet
  <2>2. j < Len(queue[d]) + 1
    BY <2>1 DEF DocsOK
  <2>3. QED
    BY <2>1, <2>2 DEF StartedBefore, Before
<1>3. QED
  BY <1>1, <1>2, ViewStatusIs

\* Opening a page over the stack.
LEMMA OpenKept ==
    ASSUME IInv, DocsOK', OneDevice, OneAtATime, NEW d \in Devices, NEW r, Push(d, r),
           UNCHANGED <<order, offer>>, Top(d).page = "order" => Exists(Top(d).order),
           MayOpen(d, Len(nav[d]), r)
    PROVE  OneAtATime'
<1>1. /\ DocsOK /\ queue[d] \in Seq(Write) /\ Len(nav[d]) \in Nat
  BY DEF IInv, DocsOK
<1>2. QueueStep(d, 0, {}) /\ NavStep(d, Len(nav[d]), {r})
  BY <1>1, PushEffect
<1>3. Keeps(d, 0)
  BY <1>1, ShowKeeps DEF Push
<1>4. DocsMove(d, 0, {}, {r})
  BY QuietMove
<1>5. CoversExisting(d, Len(nav[d]))
  BY DEF CoversExisting
<1>6. QED
  BY <1>1, <1>2, <1>3, <1>4, <1>5, OneKept

\* Queueing a write over the same pages.
LEMMA QueueKept ==
    ASSUME IInv, DocsOK', OneDevice, OneAtATime, NEW d \in Devices, NEW N,
           QueueStep(d, 0, N), Keeps(d, 0), NavStep(d, Len(nav[d]), {}), Len(nav'[d]) <= Len(nav[d]),
           UNCHANGED <<order, offer>>, \A n \in N : MayQueue(d, 0, n)
    PROVE  OneAtATime'
<1>1. /\ DocsOK /\ Len(nav[d]) \in Nat
  BY DEF IInv, DocsOK
<1>2. DocsMove(d, 0, N, {})
  BY QuietMove
<1>3. CoversExisting(d, Len(nav[d]))
  BY DEF CoversExisting
<1>4. QED
  BY <1>1, <1>2, <1>3, OneKept

\* The page on top is the only one of its order that leads to an acceptance, but
\* for the order page under a sheet; nothing else accepts the order.
LEMMA TopChoosing ==
    ASSUME DocsOK, OneAtATime, NEW d \in Devices, nav[d] # <<>>,
           NEW o \in Orders, Choosing(Top(d), o)
    PROVE  /\ \A i \in DOMAIN nav[d] : i < Len(nav[d]) /\ Choosing(nav[d][i], o) =>
                 i = Len(nav[d]) - 1 /\ nav[d][i].page = "order" /\ Top(d).page = "sheet"
           /\ Electronic(o) =>
                 /\ ~Started(o) /\ \A op \in Acceptance : ~Awaits(d, op, o)
<1>1. Len(nav[d]) \in DOMAIN nav[d] /\ Len(nav[d]) \in Nat /\ Top(d) = nav[d][Len(nav[d])]
  BY TopType DEF Top
<1>2. ~NoneChoosing(d, o)
  BY <1>1 DEF NoneChoosing
<1>3. ASSUME NEW i \in DOMAIN nav[d], i < Len(nav[d]), Choosing(nav[d][i], o)
      PROVE  i = Len(nav[d]) - 1 /\ nav[d][i].page = "order" /\ Top(d).page = "sheet"
  <2>1. Len(nav[d]) = i + 1 /\ nav[d][i].page = "order" /\ nav[d][Len(nav[d])].page = "sheet"
    BY <1>1, <1>3 DEF OneAtATime, PagesInOrder
  <2>2. i \in Nat
    BY <1>3 DEF DocsOK
  <2>3. QED
    BY <1>1, <2>1, <2>2
<1>4. QED
  BY <1>2, <1>3 DEF OneAtATime, AcceptedOnce

\* The first page of the app.
LEMMA OpenFormKept ==
    ASSUME IInv, DocsOK', OneDevice, OneAtATime, NEW d \in Devices, OpenForm(d)
    PROVE  OneAtATime'
<1>1. PICK r : r = Plain("form")
  OBVIOUS
<1>2. r.page = "form"
  BY <1>1 DEF Plain, Screen
<1>3. Push(d, r) /\ UNCHANGED <<order, offer>> /\ Top(d).page = "home"
  BY <1>1 DEF OpenForm, Browse, On
<1>4. MayOpen(d, Len(nav[d]), r)
  BY <1>2 DEF MayOpen, Fits, Cancelling, Choosing
<1>5. QED
  BY <1>3, <1>4, OpenKept

\* An order page.
LEMMA OpenOrderKept ==
    ASSUME IInv, DocsOK', OneDevice, NothingReopens, OneAtATime, NEW d \in Devices,
           NEW p \in Orders, OpenOrder(d, p)
    PROVE  OneAtATime'
<1>1. PICK r : r = Screen("order", p, ViewOrder(d, p), NoOffer)
  OBVIOUS
<1>2. Push(d, r) /\ UNCHANGED <<order, offer>> /\ Top(d).page = "home" /\ On(d, "home")
  BY <1>1 DEF OpenOrder, Browse, On
<1>3. /\ r.page = "order" /\ r.order = p /\ r.snap.status = ViewStatus(d, p)
      /\ r.snap.offerId = ViewOfferId(d, p)
  BY <1>1 DEF Screen, ViewOrder
<1>4. DocsOK /\ \A o \in Orders : NoneChoosing(d, o)
  BY <1>2, HomeAlone DEF IInv
<1>5. Fits(d, Len(nav[d]), r)
  BY <1>3, <1>4 DEF Fits, NoneChoosing
<1>6. ViewStatus(d, p) = "inProgress" => MayCancel(d, p, r.snap.offerId)
  BY <1>3, <1>4, ViewStarted, ViewOfferIdIs DEF MayCancel, ChosenBefore
<1>7. ViewStatus(d, p) = "awaitingOffers" => Unaccepted(d, p)
  <2>1. SUFFICES ASSUME ViewStatus(d, p) = "awaitingOffers" PROVE Unaccepted(d, p)
    OBVIOUS
  <2>2. ~Awaits(d, "start", p) /\ ~Started(p)
    BY <2>1, ViewAwaits
  <2>3. ~Awaits(d, "choose", p) /\ ~Awaits(d, "accept", p)
    BY <2>2 DEF Awaits, IInv, PendingWorkIsSound, SoundWrite
  <2>4. ~Started(p)'
    BY <1>2, <2>2 DEF Started
  <2>5. QED
    BY <2>2, <2>3, <2>4 DEF Unaccepted, Acceptance
<1>8. MayOpen(d, Len(nav[d]), r)
  BY <1>3, <1>5, <1>6, <1>7 DEF MayOpen, Cancelling, Choosing
<1>9. QED
  BY <1>2, <1>8, OpenKept

\* An offer's sheet.
LEMMA ShowOfferKept ==
    ASSUME IInv, DocsOK', OneDevice, OneAtATime, NEW d \in Devices, NEW f \in Offers,
           ShowOffer(d, f)
    PROVE  OneAtATime'
<1>1. PICK r : r = Screen("sheet", Top(d).order, Top(d).snap, f)
  OBVIOUS
<1>2. /\ Push(d, r) /\ UNCHANGED <<order, offer>> /\ nav[d] # <<>>
      /\ Top(d).page = "order" /\ Top(d).snap.status = "awaitingOffers"
      /\ OrderOf[f] = Top(d).order /\ offer[f] = "pending"
  BY <1>1 DEF ShowOffer, Browse, On, Tappable, ListedForOrder
<1>3. r.page = "sheet" /\ r.order = Top(d).order /\ r.snap = Top(d).snap
  BY <1>1 DEF Screen
<1>4. /\ DocsOK /\ Len(nav[d]) \in DOMAIN nav[d] /\ nav[d] \in Seq(Route) /\ Len(nav[d]) \in Nat
      /\ Top(d) = nav[d][Len(nav[d])] /\ Top(d).order \in Orders
  <2>1. DocsOK
    BY DEF IInv
  <2>2. Top(d).order \in Orders
    BY <1>2, OrderOfAssumption
  <2>3. QED
    BY <1>2, <2>1, <2>2, TopType DEF Top
<1>5. Exists(Top(d).order)
  BY <1>2 DEF IInv, PendingWorkIsSound
<1>6. \A o \in Orders : Choosing(r, o) => o = Top(d).order /\ Choosing(Top(d), o)
  BY <1>2, <1>3 DEF Choosing
<1>7. Len(nav'[d]) = Len(nav[d]) + 1
  BY <1>2, <1>4, PushEffect
<1>8. Fits(d, Len(nav[d]), r)
  <2>1. ASSUME NEW o \in Orders, Choosing(r, o), NEW i \in DOMAIN nav[d], Choosing(nav[d][i], o)
        PROVE  i = Len(nav[d])
    <3>1. i \in Nat /\ (i < Len(nav[d]) \/ i = Len(nav[d]))
      BY <1>4
    <3>2. QED
      BY <1>2, <1>4, <1>6, <2>1, <3>1, TopChoosing
  <2>2. QED
    BY <1>2, <1>3, <1>4, <1>7, <2>1 DEF Fits
<1>9. \A o \in Orders : Choosing(r, o) /\ Electronic(o)' => Unaccepted(d, o)
  BY <1>2, <1>4, <1>6, TopChoosing DEF Electronic, Started, Unaccepted
<1>10. MayOpen(d, Len(nav[d]), r)
  BY <1>3, <1>8, <1>9 DEF MayOpen, Cancelling
<1>11. QED
  BY <1>2, <1>5, <1>10, OpenKept

\* The cancel dialog.
LEMMA AskCancelKept ==
    ASSUME IInv, DocsOK', OneDevice, OneAtATime, NEW d \in Devices, AskCancel(d)
    PROVE  OneAtATime'
<1>1. PICK r : r = Screen("dialog", Top(d).order, Top(d).snap, NoOffer)
  OBVIOUS
<1>2. /\ Push(d, r) /\ UNCHANGED <<order, offer>> /\ nav[d] # <<>>
      /\ Top(d).page = "order" /\ Top(d).snap.status = "inProgress"
  BY <1>1 DEF AskCancel, Browse, On, Cancellable
<1>3. r.page = "dialog" /\ r.order = Top(d).order /\ r.snap = Top(d).snap
  BY <1>1 DEF Screen
<1>4. /\ DocsOK /\ Len(nav[d]) \in DOMAIN nav[d] /\ Top(d) = nav[d][Len(nav[d])]
      /\ SoundRoute(Top(d))
  BY <1>2, TopSound DEF Top
<1>5. Exists(Top(d).order)
  BY <1>2, <1>4 DEF SoundRoute, SoundSnapshot
<1>6. \A o \in Orders : Cancelling(r, o) => Cancelling(nav[d][Len(nav[d])], o)
  BY <1>2, <1>3, <1>4 DEF Cancelling
<1>7. \A o \in Orders : Cancelling(r, o) => MayCancel(d, o, r.snap.offerId)
  BY <1>3, <1>4, <1>6 DEF OneAtATime, CancelsInOrder, MayCancel
<1>8. MayOpen(d, Len(nav[d]), r)
  BY <1>3, <1>7 DEF MayOpen, Fits, Choosing
<1>9. QED
  BY <1>2, <1>5, <1>8, OpenKept

\* The back button.
LEMMA BackKept ==
    ASSUME IInv, DocsOK', OneDevice, OneAtATime, NEW d \in Devices, Back(d)
    PROVE  OneAtATime'
<1>1. DocsOK /\ queue[d] \in Seq(Write) /\ Pop(d, 1, queue[d]) /\ UNCHANGED <<order, offer>>
  BY DEF Back, IInv, DocsOK
<1>2. /\ QueueStep(d, 0, {}) /\ Keeps(d, 0) /\ NavStep(d, Len(nav[d]), {})
      /\ Len(nav'[d]) <= Len(nav[d])
  BY <1>1, PopEffect, PopKeeps
<1>3. QED
  BY <1>1, <1>2, QueueKept

\* The payment page takes the place of the sheet and its order page.
LEMMA PayKept ==
    ASSUME IInv, DocsOK', OneDevice, OneAtATime, NEW d \in Devices, AcceptOfferElectronic(d)
    PROVE  OneAtATime'
<1>1. PICK r, m : /\ r = Screen("payment", NoOrder, NoDoc, Top(d).offer)
                  /\ m = IF Len(nav[d]) > 2 THEN Len(nav[d]) - 2 ELSE 0
  OBVIOUS
<1>2. /\ nav[d] # <<>> /\ Top(d).page = "sheet" /\ UNCHANGED <<order, offer>>
      /\ Show(d, Append(Popped(nav[d], 2), r), Len(Popped(nav[d], 2)), queue[d])
  BY <1>1 DEF AcceptOfferElectronic, On
<1>3. /\ DocsOK /\ Top(d) \in Route /\ SoundRoute(Top(d)) /\ Len(nav[d]) \in DOMAIN nav[d]
      /\ queue[d] \in Seq(Write) /\ nav[d] \in Seq(Route)
  <2>1. DocsOK /\ Top(d) \in Route /\ SoundRoute(Top(d)) /\ Len(nav[d]) \in DOMAIN nav[d]
    BY <1>2, TopSound
  <2>2. QED
    BY <2>1 DEF DocsOK
<1>4. r.page = "payment" /\ r.offer = Top(d).offer
  BY <1>1 DEF Screen
<1>5. QueueStep(d, 0, {}) /\ NavStep(d, m, {r}) /\ m \in Nat /\ Len(nav'[d]) = m + 1
  BY <1>1, <1>3, PayNav
<1>6. Len(nav[d]) - 1 \in DOMAIN nav[d]
  BY <1>2, <1>3 DEF OneAtATime, PagesInOrder, Top
<1>7. m = Len(nav[d]) - 2 /\ m < Len(nav[d])
  BY <1>1, <1>3, <1>6
<1>8. Keeps(d, 0)
  <2>1. Len(Popped(nav[d], 2)) \in Nat
    BY <1>3, PoppedPrefix
  <2>2. QED
    BY <1>2, <1>3, <2>1, ShowKeeps
<1>9. \A o \in Orders : Choosing(r, o) => Choosing(Top(d), o)
  BY <1>2, <1>3, <1>4 DEF Choosing, SoundRoute
<1>10. Fits(d, m, r)
  <2>1. SUFFICES ASSUME NEW o \in Orders, Choosing(r, o), NEW i \in DOMAIN nav[d], i <= m,
                        Choosing(nav[d][i], o)
                 PROVE  FALSE
    BY <1>4 DEF Fits
  <2>2. i < Len(nav[d]) /\ i # Len(nav[d]) - 1
    BY <1>3, <1>5, <1>7, <2>1
  <2>3. QED
    BY <1>2, <1>3, <1>9, <2>1, <2>2, TopChoosing
<1>11. \A o \in Orders : Choosing(r, o) /\ Electronic(o)' => Unaccepted(d, o)
  BY <1>2, <1>3, <1>9, TopChoosing DEF Electronic, Started, Unaccepted
<1>12. MayOpen(d, m, r)
  BY <1>4, <1>10, <1>11 DEF MayOpen, Cancelling
<1>13. DocsMove(d, 0, {}, {r})
  BY <1>2, QuietMove
<1>14. CoversExisting(d, m)
  BY <1>7 DEF CoversExisting
<1>15. QED
  BY <1>3, <1>5, <1>8, <1>12, <1>13, <1>14, OneKept

\* A cash order's acceptance.
LEMMA AcceptOfferCashKept ==
    ASSUME IInv, DocsOK', OneDevice, OneAtATime, NEW d \in Devices, AcceptOfferCash(d)
    PROVE  OneAtATime'
<1>1. PICK n : n = Call(AcceptsWith, Top(d).order, Top(d).offer, "cash", Len(nav[d]))
  OBVIOUS
<1>2. /\ nav[d] # <<>> /\ Top(d).page = "sheet" /\ UNCHANGED <<order, offer, nav>>
      /\ Top(d).snap.paymentOption # "electronic"
      /\ queue' = [queue EXCEPT ![d] = Append(@, n)]
  BY <1>1 DEF AcceptOfferCash, On
<1>3. /\ DocsOK /\ Top(d) \in Route /\ SoundRoute(Top(d)) /\ Len(nav[d]) \in Nat
      /\ Top(d).order \in Orders /\ Top(d).offer \in Offers
  <2>1. DocsOK /\ Top(d) \in Route /\ SoundRoute(Top(d)) /\ Len(nav[d]) \in Nat
    BY <1>2, TopSound, TopType
  <2>2. QED
    BY <1>2, <2>1 DEF Route
<1>4. n \in Write /\ n.op = "start" /\ n.order = Top(d).order
  BY <1>1, <1>3, CallType DEF AcceptsWith, Call, PaymentOption
<1>5. ~Electronic(n.order)'
  <2>1. Exists(Top(d).order)
    BY <1>2, <1>3 DEF SoundRoute, IInv, PendingWorkIsSound
  <2>2. QED
    BY <1>2, <1>3, <1>4, <2>1 DEF SoundRoute, SoundSnapshot, Electronic
<1>6. MayQueue(d, 0, n)
  BY <1>4, <1>5 DEF MayQueue
<1>7. QueueStep(d, 0, {n}) /\ Keeps(d, 0) /\ NavStep(d, Len(nav[d]), {})
  BY <1>2, <1>3, <1>4, EnqueueQueue, EnqueueKeeps, SameNav
<1>8. Len(nav'[d]) <= Len(nav[d])
  BY <1>2, <1>3
<1>9. QED
  BY <1>2, <1>6, <1>7, <1>8, QueueKept

\* A cancellation.
LEMMA CancelOrderKept ==
    ASSUME IInv, DocsOK', OneDevice, OneAtATime, NEW d \in Devices, CancelOrder(d)
    PROVE  OneAtATime'
<1>1. PICK n : n = Call("cancel", Top(d).order, Top(d).snap.offerId,
                        Top(d).snap.paymentOption, Len(nav[d]) - 1)
  OBVIOUS
<1>2. /\ nav[d] # <<>> /\ Top(d).page = "dialog" /\ UNCHANGED <<order, offer, nav>>
      /\ queue' = [queue EXCEPT ![d] = Append(@, n)]
  BY <1>1 DEF CancelOrder, On
<1>3. /\ DocsOK /\ Top(d) \in Route /\ Top(d).order \in Orders /\ Len(nav[d]) \in DOMAIN nav[d]
      /\ Top(d).snap \in OrderDoc /\ Top(d).snap.status = "inProgress" /\ Len(nav[d]) - 1 \in Nat
      /\ Len(nav[d]) \in Nat
  <2>1. DocsOK /\ Top(d) \in Route /\ SoundRoute(Top(d)) /\ Len(nav[d]) \in Nat \ {0}
        /\ Len(nav[d]) \in DOMAIN nav[d]
    BY <1>2, TopSound, TopType
  <2>2. QED
    BY <1>2, <2>1 DEF Route, SoundRoute
<1>4. n \in Write /\ n.op = "cancel" /\ n.order = Top(d).order /\ n.offer = Top(d).snap.offerId
  BY <1>1, <1>3, CallType DEF Call, OrderDoc
<1>5. MayCancel(d, n.order, n.offer)
  <2>1. Cancelling(nav[d][Len(nav[d])], n.order)
    BY <1>2, <1>3, <1>4 DEF Cancelling, Top
  <2>2. QED
    BY <1>3, <1>4, <2>1 DEF OneAtATime, CancelsInOrder, MayCancel, Top
<1>6. MayQueue(d, 0, n)
  BY <1>4, <1>5 DEF MayQueue, Acceptance
<1>7. QueueStep(d, 0, {n}) /\ Keeps(d, 0) /\ NavStep(d, Len(nav[d]), {})
  BY <1>2, <1>3, <1>4, EnqueueQueue, EnqueueKeeps, SameNav
<1>8. Len(nav'[d]) <= Len(nav[d])
  BY <1>2, <1>3
<1>9. QED
  BY <1>2, <1>6, <1>7, <1>8, QueueKept

\* A new order.
LEMMA SendOrderKept ==
    ASSUME IInv, DocsOK', OneDevice, OneAtATime, NEW d \in Devices,
           NEW o \in Orders, NEW p \in PaymentOption, SendOrder(d, o, p)
    PROVE  OneAtATime'
<1>1. PICK n : n = Call("create", o, NoOffer, p, Len(nav[d]))
  OBVIOUS
<1>2. /\ nav[d] # <<>> /\ UNCHANGED <<order, offer>> /\ DocsOK /\ Len(nav[d]) \in Nat
      /\ queue' = [queue EXCEPT ![d] = Append(@, n)]
      /\ nav' = [nav EXCEPT ![d][Len(nav[d])].busy = TRUE]
  BY <1>1 DEF SendOrder, On, IInv, DocsOK
<1>3. n \in Write /\ n.op = "create"
  BY <1>1, <1>2, CallType DEF Call
<1>4. MayQueue(d, 0, n)
  BY <1>3 DEF MayQueue, Acceptance
<1>5. QueueStep(d, 0, {n}) /\ Keeps(d, 0)
  BY <1>2, <1>3, EnqueueQueue, EnqueueKeeps
<1>6. NavStep(d, Len(nav[d]), {}) /\ Len(nav'[d]) <= Len(nav[d])
  <2>1. NavStep(d, Len(nav[d]), {}) /\ Len(nav'[d]) = Len(nav[d])
    BY <1>2, BusyNav
  <2>2. QED
    BY <1>2, <2>1
<1>7. QED
  BY <1>2, <1>4, <1>5, <1>6, QueueKept

\* What a tap does.
LEMMA TapKept ==
    ASSUME IInv, DocsOK', OneDevice, NothingReopens, OneAtATime, NEW d \in Devices, Tap(d)
    PROVE  OneAtATime'
BY OpenFormKept, AskCancelKept, BackKept, AcceptOfferCashKept, PayKept, CancelOrderKept,
   OpenOrderKept, ShowOfferKept, SendOrderKept DEF Tap

\* The gateway's answers.
LEMMA GatewayKept ==
    ASSUME IInv, DocsOK', OneDevice, OneAtATime, NEW d \in Devices, Gateway(d)
    PROVE  OneAtATime'
<1>1. /\ DocsOK /\ nav[d] \in Seq(Route) /\ queue[d] \in Seq(Write) /\ Len(nav[d]) \in Nat
      /\ UNCHANGED <<order, offer>>
  BY DEF IInv, DocsOK, Gateway, PaymentCaptured, OnPaymentPaid, OnPaymentOther
<1>2. CASE PaymentCaptured(d)
  <2>1. NavStep(d, Len(nav[d]), {}) /\ Len(nav'[d]) <= Len(nav[d])
    <3>1. NavStep(d, Len(nav[d]), {}) /\ Len(nav'[d]) = Len(nav[d])
      BY <1>1, <1>2, BusyNav DEF PaymentCaptured, On
    <3>2. QED
      BY <1>1, <3>1
  <2>2. QueueStep(d, 0, {}) /\ Keeps(d, 0)
    BY <1>1, <1>2 DEF PaymentCaptured, QueueStep, SameCall, Keeps
  <2>3. QED
    BY <1>1, <2>1, <2>2, QueueKept
<1>3. CASE OnPaymentPaid(d)
  <2>1. PICK n : n = Call(AcceptsWith, OrderOf[Top(d).offer], Top(d).offer, "electronic",
                          Len(nav[d]) - 1 + 1)
    OBVIOUS
  <2>2. /\ QueueStep(d, 0, {n}) /\ NavStep(d, Len(nav[d]) - 1, {}) /\ Len(nav[d]) - 1 \in Nat
        /\ Top(d).page = "payment" /\ nav[d] # <<>> /\ Top(d).offer \in Offers /\ n \in Write
        /\ n.op = "start" /\ n.order = OrderOf[Top(d).offer]
    BY <1>1, <1>3, <2>1, PaidNav
  <2>3. n.order \in Orders /\ Choosing(Top(d), n.order)
    BY <2>2, OrderOfAssumption DEF Choosing
  <2>4. Keeps(d, 0)
    <3>1. \E stack : Show(d, stack, Len(nav[d]) - 1, Append(queue[d], n))
      BY <2>1, <1>3 DEF OnPaymentPaid
    <3>2. Append(queue[d], n) \in Seq(Write)
      BY <1>1, <2>2
    <3>3. QED
      BY <1>1, <2>2, <3>1, <3>2, ShowKeeps
  <2>5. ASSUME Electronic(n.order)'
        PROVE  MayAccept(d, 0, n)
    <3>1. /\ Electronic(n.order) /\ ~Started(n.order)
          /\ \A op \in Acceptance : ~Awaits(d, op, n.order)
      <4>1. Electronic(n.order)
        BY <1>1, <2>5 DEF Electronic
      <4>2. QED
        BY <1>1, <2>2, <2>3, <4>1, TopChoosing
    <3>2. order'[n.order].offerId = NoOffer
      BY <1>1, <2>3, <3>1 DEF IInv, ChosenOfferBelongs
    <3>3. ASSUME NEW i \in DOMAIN nav'[d], Choosing(nav'[d][i], n.order)
          PROVE  FALSE
      <4>1. i \in DOMAIN nav[d] /\ i <= Len(nav[d]) - 1 /\ SamePage(nav'[d][i], nav[d][i])
        BY SMTT(30), <2>2, <3>3, PagesFrom DEF PlainPage, Choosing
      <4>2. Choosing(nav[d][i], n.order) /\ i < Len(nav[d])
        <5>1. Choosing(nav[d][i], n.order)
          BY <3>3, <4>1 DEF SamePage, Choosing
        <5>2. i \in Nat
          BY <1>1, <4>1
        <5>3. QED
          BY <1>1, <4>1, <5>1, <5>2
      <4>3. QED
        BY <1>1, <2>2, <2>3, <4>1, <4>2, TopChoosing
    <3>4. QED
      BY <2>2, <3>1, <3>2, <3>3 DEF MayAccept, Awaits
  <2>6. MayQueue(d, 0, n)
    BY <2>2, <2>5 DEF MayQueue
  <2>7. DocsMove(d, 0, {n}, {})
    BY <1>1, QuietMove
  <2>8. CoversExisting(d, Len(nav[d]) - 1)
    BY <1>1 DEF CoversExisting
  <2>9. QED
    BY <1>1, <2>2, <2>4, <2>6, <2>7, <2>8, OneKept
<1>4. CASE OnPaymentOther(d)
  <2>1. QueueStep(d, 0, {}) /\ NavStep(d, Len(nav[d]), {})
    BY <1>1, <1>4, OtherNav
  <2>2. Keeps(d, 0)
    BY <1>1, <1>4, ShowKeeps DEF OnPaymentOther
  <2>3. DocsMove(d, 0, {}, {})
    BY <1>1, QuietMove
  <2>4. CoversExisting(d, Len(nav[d]))
    BY <1>4 DEF OnPaymentOther, On, CoversExisting
  <2>5. QED
    BY <1>1, <2>1, <2>2, <2>3, <2>4, OneKept
<1>5. QED
  BY <1>2, <1>3, <1>4 DEF Gateway

-----------------------------------------------------------------------------
(* The acknowledged writes *)

\* Of one order alone.
SameButOne(o) == \A p \in Orders \ {o} : order'[p] = order[p]

\* A page of the new order appears when its create is acknowledged.
LEMMA AckCreateKept ==
    ASSUME IInv, DocsOK', OneDevice, OneAtATime, NEW d \in Devices, AckCreate(d)
    PROVE  OneAtATime'
<1>1. PICK w : w = Head(queue[d])
  OBVIOUS
<1>2. PICK r : r = Screen("order", w.order, NewOrder(w.paymentOption), NoOffer)
  OBVIOUS
<1>3. /\ queue[d] # <<>> /\ w.op = "create" /\ ShowSent(d, w) /\ UNCHANGED offer
      /\ order' = [order EXCEPT ![w.order] = NewOrder(w.paymentOption)]
  BY <1>1 DEF AckCreate, Ready
<1>4. /\ DocsOK /\ w \in Write /\ SoundWrite(w) /\ w = queue[d][1] /\ w.order \in Orders
      /\ order \in [Orders -> OrderDoc] /\ nav[d] \in Seq(Route) /\ Len(nav[d]) \in Nat
      /\ Tail(queue[d]) \in Seq(Write)
  BY <1>1, <1>3, HeadSound, HeadType DEF DocsOK
<1>5. r.page = "order" /\ r.order = w.order /\ r.snap.status = "awaitingOffers"
  BY <1>2 DEF Screen, NewOrder
<1>6. ~Exists(w.order)
  BY <1>3, <1>4 DEF SoundWrite
<1>7. /\ order'[w.order].status = "awaitingOffers" /\ order'[w.order].offerId = NoOffer
      /\ order[w.order].offerId = NoOffer /\ ~Started(w.order) /\ ~Started(w.order)'
      /\ Exists(w.order)' /\ SameButOne(w.order)
  <2>1. ~Started(w.order)
    BY <1>6 DEF Exists, Started
  <2>2. order[w.order].offerId = NoOffer
    BY <1>4, <2>1 DEF IInv, ChosenOfferBelongs
  <2>3. QED
    BY <1>3, <1>4, <2>1, <2>2 DEF NewOrder, Started, Exists, SameButOne
<1>8. \A f \in Offers : OrderOf[f] = w.order => offer[f] = "none"
  BY <1>6 DEF IInv, PendingWorkIsSound
<1>9. Unaccepted(d, w.order)
  BY <1>6, <1>7 DEF Unaccepted, Awaits, Acceptance, IInv, PendingWorkIsSound, SoundWrite
<1>10. DocsMove(d, 1, {}, {r}) /\ DocsMove(d, 1, {}, {})
  <2>1. Commits(d, 1) /\ OfferMoves(d, 1)
    BY <1>3, <1>4 DEF Commits, OfferMoves
  <2>2. NothingUndone /\ \A o \in Orders : Exists(o) => Exists(o)'
    BY <1>7 DEF NothingUndone, SameButOne, Started, Exists
  <2>3. \A R : OrderMoves(d, 1, {}, R)
    BY <1>3, <1>7, <1>8, <1>9 DEF OrderMoves, SameButOne, Started, Electronic
  <2>4. QED
    BY <1>3, <2>1, <2>2, <2>3 DEF DocsMove
<1>11. QueueStep(d, 1, {}) /\ Keeps(d, 1)
  <2>1. QueueStep(d, 1, {})
    BY <1>1, <1>2, <1>3, <1>4, SentNav
  <2>2. Keeps(d, 1)
    <3>1. \E stack : \E kept \in Nat : Show(d, stack, kept, Tail(queue[d]))
      <4>1. \A n \in Nat : Len(Popped(nav[d], n)) \in Nat
        BY <1>4, PoppedPrefix
      <4>2. QED
        BY <1>3, <4>1 DEF ShowSent, Pop
    <3>2. QED
      BY <1>3, <1>4, <3>1, ShowKeeps
  <2>3. QED
    BY <2>1, <2>2
<1>12. ASSUME NEW m \in Nat, m = Len(nav[d]) - 1
       PROVE  MayOpen(d, m, r)
  <2>1. ASSUME NEW i \in DOMAIN nav[d], i <= m
        PROVE  ~Choosing(nav[d][i], w.order)
    <3>1. i # Len(nav[d])
      BY <1>4, <1>12, <2>1
    <3>2. SoundRoute(nav[d][i]) /\ nav[d][i] \in Route
      BY <1>4 DEF IInv, PendingWorkIsSound
    <3>3. nav[d][i].page = "order" => nav[d][i].order # w.order
      BY <1>6, <3>1 DEF OneAtATime, PagesInOrder
    <3>4. nav[d][i].page \in {"sheet", "payment"} => OrderOf[nav[d][i].offer] # w.order
      BY <1>8, <3>2 DEF SoundRoute, Route
    <3>5. QED
      BY <3>2, <3>3, <3>4 DEF Choosing, SoundRoute
  <2>2. Fits(d, m, r)
    BY <1>5, <2>1 DEF Fits, Choosing
  <2>3. QED
    BY <1>5, <1>9, <2>2 DEF MayOpen, Choosing, Cancelling
<1>13. CASE NavStep(d, Len(nav[d]) - 1, {r}) /\ Len(nav'[d]) = Len(nav[d]) /\ nav[d] # <<>>
  <2>0. Len(nav[d]) - 1 \in Nat
    BY <1>4, <1>13
  <2>1. PICK m \in Nat : m = Len(nav[d]) - 1
    BY <2>0
  <2>2. CoversExisting(d, m)
    BY <1>4, <2>1 DEF CoversExisting
  <2>3. MayOpen(d, m, r)
    BY <1>12, <2>1
  <2>4. QED
    BY <1>3, <1>10, <1>11, <1>13, <2>1, <2>2, <2>3, OneKept
<1>14. CASE NavStep(d, Len(nav[d]), {}) /\ Len(nav'[d]) <= Len(nav[d])
  <2>1. CoversExisting(d, Len(nav[d]))
    BY <1>14 DEF CoversExisting
  <2>2. QED
    BY <1>3, <1>4, <1>10, <1>11, <1>14, <2>1, OneKept
<1>15. QED
  BY <1>1, <1>2, <1>3, <1>4, <1>13, <1>14, SentNav

\* A call that goes on under the pages it was started from.
LEMMA GoesOnKept ==
    ASSUME IInv, DocsOK', OneDevice, OneAtATime, NEW d \in Devices, queue[d] # <<>>,
           NEW w, w = Head(queue[d]), Continue(d, w), UNCHANGED nav,
           NEW n, n = [w EXCEPT !.op = Following(w)],
           NEW N, N = {x \in {n} : Following(w) # "end"},
           DocsMove(d, 1, N, {}), Following(w) # "end" => MayQueue(d, 1, n)
    PROVE  OneAtATime'
<1>1. DocsOK /\ Len(nav[d]) \in Nat
  BY DEF IInv, DocsOK
<1>2. QueueStep(d, 1, N) /\ Keeps(d, 1)
  BY <1>1, ContinueQueue, ContinueKeeps
<1>3. NavStep(d, Len(nav[d]), {})
  BY <1>1, SameNav
<1>4. CoversExisting(d, Len(nav[d]))
  BY <1>1 DEF CoversExisting
<1>5. \A x \in N : MayQueue(d, 1, x)
  OBVIOUS
<1>6. QED
  BY <1>1, <1>2, <1>3, <1>4, <1>5, OneKept

\* A call that ends with two pops.
LEMMA EndKept ==
    ASSUME IInv, DocsOK', OneDevice, OneAtATime, NEW d \in Devices, queue[d] # <<>>,
           PopBoth(d, Head(queue[d])), DocsMove(d, 1, {}, {})
    PROVE  OneAtATime'
<1>1. DocsOK /\ Len(nav[d]) \in Nat /\ Tail(queue[d]) \in Seq(Write)
  BY HeadType DEF IInv, DocsOK
<1>2. PICK k \in Nat : Pop(d, k, Tail(queue[d]))
  BY DEF PopBoth
<1>3. /\ QueueStep(d, 1, {}) /\ Keeps(d, 1) /\ NavStep(d, Len(nav[d]), {})
      /\ Len(nav'[d]) <= Len(nav[d])
  BY <1>1, <1>2, PopEffect, PopKeeps
<1>4. CoversExisting(d, Len(nav[d]))
  BY <1>3 DEF CoversExisting
<1>5. QED
  BY <1>1, <1>3, <1>4, OneKept

\* What the acknowledged write, and the one that follows it, are.
LEMMA HeadFacts ==
    ASSUME IInv, OneDevice, NEW d \in Devices, queue[d] # <<>>,
           NEW w, w = Head(queue[d]), NEW n, n = [w EXCEPT !.op = Following(w)]
    PROVE  /\ w \in Write /\ SoundWrite(w) /\ w.order \in Orders
           /\ w = queue[d][1] /\ 1 \in DOMAIN queue[d]
           /\ n.op = Following(w) /\ n.order = w.order /\ n.offer = w.offer
           /\ order \in [Orders -> OrderDoc] /\ offer \in [Offers -> OfferStatus]
           /\ \A op, o : ~Before(d, 1, op, o)
<1>1. w \in Write /\ SoundWrite(w) /\ w.order \in Orders /\ w = queue[d][1] /\ DocsOK
  BY HeadSound
<1>2. n.op = Following(w) /\ n.order = w.order /\ n.offer = w.offer
  BY <1>1 DEF Write
<1>3. queue[d] \in Seq(Write)
  BY <1>1 DEF DocsOK
<1>4. 1 \in DOMAIN queue[d]
  BY <1>3
<1>5. \A op, o : ~Before(d, 1, op, o)
  BY <1>3 DEF Before
<1>6. QED
  BY <1>1, <1>2, <1>4, <1>5 DEF DocsOK

\* The status an acceptance sets.
LEMMA AckStartKept ==
    ASSUME IInv, DocsOK', OneDevice, NothingReopens, OneAtATime, NEW d \in Devices, AckStart(d)
    PROVE  OneAtATime'
<1>1. PICK w : w = Head(queue[d])
  OBVIOUS
<1>2. PICK n : n = [w EXCEPT !.op = Following(w)]
  OBVIOUS
<1>3. PICK N : N = {x \in {n} : Following(w) # "end"}
  OBVIOUS
<1>4. /\ queue[d] # <<>> /\ w.op = "start" /\ Continue(d, w) /\ UNCHANGED <<offer, nav>>
      /\ order' = [order EXCEPT ![w.order].status = "inProgress"]
  BY <1>1 DEF AckStart, Ready
<1>5. /\ w.order \in Orders /\ w = queue[d][1] /\ 1 \in DOMAIN queue[d]
      /\ n.op = Following(w) /\ n.order = w.order
      /\ order \in [Orders -> OrderDoc]
  BY <1>1, <1>2, <1>4, HeadFacts
<1>6. /\ order'[w.order].status = "inProgress" /\ SameButOne(w.order)
      /\ \A o \in Orders : /\ order'[o].offerId = order[o].offerId
                           /\ order'[o].paymentOption = order[o].paymentOption
  BY <1>4, <1>5 DEF SameButOne, OrderDoc
<1>7. Awaits(d, "start", w.order)
  BY <1>4, <1>5 DEF Awaits
<1>8. order[w.order].status # "cancelled"
  BY <1>5, <1>7 DEF NothingReopens
<1>9. Electronic(w.order) => NoneChoosing(d, w.order) /\ order[w.order].offerId = NoOffer
  BY <1>5, <1>7 DEF OneAtATime, AcceptedOnce, Acceptance
<1>10. DocsMove(d, 1, N, {})
  <2>1. Commits(d, 1) /\ OfferMoves(d, 1)
    BY <1>4, <1>5, <1>6 DEF Commits, OfferMoves
  <2>2. NothingUndone /\ \A o \in Orders : Exists(o) => Exists(o)'
    BY <1>6, <1>8 DEF NothingUndone, SameButOne, Started, Exists
  <2>3. OrderMoves(d, 1, N, {})
    BY <1>6, <1>9 DEF OrderMoves, SameButOne, Started, Electronic
  <2>4. QED
    BY <1>4, <2>1, <2>2, <2>3 DEF DocsMove
<1>11. MayQueue(d, 1, n)
  <2>1. n.op = "choose"
    BY <1>4, <1>5 DEF Following
  <2>2. ASSUME Electronic(n.order)'
        PROVE  MayAccept(d, 1, n)
    <3>1. Electronic(w.order)
      BY <1>5, <1>6, <2>2 DEF Electronic
    <3>2. \A i \in DOMAIN queue[d] :
             queue[d][i].order = w.order /\ queue[d][i].op \in Acceptance => i = 1
      BY <1>4, <1>5, <3>1 DEF OneAtATime, AcceptedOnce, Acceptance
    <3>3. \A i \in DOMAIN nav'[d] : ~Choosing(nav'[d][i], n.order)
      BY <1>4, <1>5, <1>9, <3>1 DEF NoneChoosing
    <3>4. \A i \in DOMAIN queue[d] : i > 1 => ~(queue[d][i].order = n.order /\ queue[d][i].op \in Acceptance)
      BY <1>5, <3>2
    <3>5. QED
      BY <1>5, <1>6, <1>9, <2>1, <3>1, <3>3, <3>4 DEF MayAccept
  <2>3. QED
    BY <2>1, <2>2 DEF MayQueue
<1>12. QED
  BY <1>1, <1>2, <1>3, <1>4, <1>10, <1>11, GoesOnKept

\* The offerId an acceptance sets.
LEMMA AckChooseKept ==
    ASSUME IInv, DocsOK', OneDevice, OneAtATime, NEW d \in Devices, AckChoose(d)
    PROVE  OneAtATime'
<1>1. PICK w : w = Head(queue[d])
  OBVIOUS
<1>2. PICK n : n = [w EXCEPT !.op = Following(w)]
  OBVIOUS
<1>3. PICK N : N = {x \in {n} : Following(w) # "end"}
  OBVIOUS
<1>4. /\ queue[d] # <<>> /\ w.op = "choose" /\ Continue(d, w) /\ UNCHANGED <<offer, nav>>
      /\ order' = [order EXCEPT ![w.order].offerId = w.offer]
  BY <1>1 DEF AckChoose, Ready
<1>5. /\ w \in Write /\ SoundWrite(w) /\ w.order \in Orders /\ w = queue[d][1]
      /\ 1 \in DOMAIN queue[d] /\ n.op = Following(w) /\ n.order = w.order /\ n.offer = w.offer
      /\ order \in [Orders -> OrderDoc] /\ offer \in [Offers -> OfferStatus]
  BY <1>1, <1>2, <1>4, HeadFacts
<1>6. /\ w.offer \in Offers /\ w.offer # NoOffer /\ OrderOf[w.offer] = w.order
      /\ offer[w.offer] # "none" /\ Started(w.order)
  <2>1. w.offer \in Offers
    BY <1>4, <1>5 DEF Write
  <2>2. QED
    BY <1>4, <1>5, <2>1, SentinelAssumption DEF SoundWrite, Acceptable
<1>7. /\ order'[w.order].offerId = w.offer /\ SameButOne(w.order)
      /\ \A o \in Orders : /\ order'[o].status = order[o].status
                           /\ order'[o].paymentOption = order[o].paymentOption
  BY <1>4, <1>5 DEF SameButOne, OrderDoc
<1>8. Awaits(d, "choose", w.order)
  BY <1>4, <1>5 DEF Awaits
<1>9. Electronic(w.order) => NoneChoosing(d, w.order) /\ order[w.order].offerId = NoOffer
  BY <1>5, <1>8 DEF OneAtATime, AcceptedOnce, Acceptance
<1>10. DocsMove(d, 1, N, {})
  <2>1. Commits(d, 1) /\ OfferMoves(d, 1)
    BY <1>4, <1>5, <1>6, <1>7 DEF Commits, OfferMoves
  <2>2. NothingUndone /\ \A o \in Orders : Exists(o) => Exists(o)'
    BY <1>6, <1>7 DEF NothingUndone, SameButOne, Started, Exists
  <2>3. OrderMoves(d, 1, N, {})
    BY <1>4, <1>5, <1>7 DEF OrderMoves, SameButOne, Started, Electronic
  <2>4. QED
    BY <1>4, <2>1, <2>2, <2>3 DEF DocsMove
<1>11. MayQueue(d, 1, n)
  <2>1. n.op = "accept"
    BY <1>4, <1>5 DEF Following
  <2>2. ASSUME Electronic(n.order)'
        PROVE  MayAccept(d, 1, n)
    <3>1. Electronic(w.order)
      BY <1>5, <1>7, <2>2 DEF Electronic
    <3>2. \A i \in DOMAIN queue[d] :
             queue[d][i].order = w.order /\ queue[d][i].op \in Acceptance => i = 1
      BY <1>4, <1>5, <3>1 DEF OneAtATime, AcceptedOnce, Acceptance
    <3>3. \A i \in DOMAIN nav'[d] : ~Choosing(nav'[d][i], n.order)
      BY <1>4, <1>5, <1>9, <3>1 DEF NoneChoosing
    <3>4. \A i \in DOMAIN queue[d] : i > 1 => ~(queue[d][i].order = n.order /\ queue[d][i].op \in Acceptance)
      BY <1>5, <3>2
    <3>5. ~Awaits(d, "withdraw", w.order)
      BY <1>9, <3>1 DEF Awaits, OneAtATime, CancelsInOrder
    <3>6. offer[w.offer] # "accepted" /\ offer[w.offer] # "orderCancelled"
      BY <1>5, <1>6, <1>9, <3>1 DEF OneAtATime, CancelsInOrder, AcceptedOnce
    <3>7. offer[w.offer] = "pending"
      BY <1>5, <1>6, <3>6 DEF OfferStatus
    <3>8. QED
      BY <1>4, <1>5, <1>7, <2>1, <3>3, <3>4, <3>5, <3>7 DEF MayAccept
  <2>3. QED
    BY <2>1, <2>2 DEF MayQueue
<1>12. QED
  BY <1>1, <1>2, <1>3, <1>4, <1>10, <1>11, GoesOnKept

\* The status a cancellation sets.
LEMMA AckCancelKept ==
    ASSUME IInv, DocsOK', OneDevice, OneAtATime, NEW d \in Devices, AckCancel(d)
    PROVE  OneAtATime'
<1>1. PICK w : w = Head(queue[d])
  OBVIOUS
<1>2. PICK n : n = [w EXCEPT !.op = Following(w)]
  OBVIOUS
<1>3. PICK N : N = {x \in {n} : Following(w) # "end"}
  OBVIOUS
<1>4. /\ queue[d] # <<>> /\ w.op = "cancel" /\ Continue(d, w) /\ UNCHANGED <<offer, nav>>
      /\ order' = [order EXCEPT ![w.order].status = "cancelled"]
  BY <1>1 DEF AckCancel, Ready
<1>5. /\ w.order \in Orders /\ w = queue[d][1] /\ 1 \in DOMAIN queue[d]
      /\ n.op = Following(w) /\ n.order = w.order /\ n.offer = w.offer
      /\ order \in [Orders -> OrderDoc] /\ \A op, o : ~Before(d, 1, op, o)
  BY <1>1, <1>2, <1>4, HeadFacts
<1>6. /\ order'[w.order].status = "cancelled" /\ SameButOne(w.order)
      /\ \A o \in Orders : /\ order'[o].offerId = order[o].offerId
                           /\ order'[o].paymentOption = order[o].paymentOption
  BY <1>4, <1>5 DEF SameButOne, OrderDoc
<1>7. /\ Started(w.order)
      /\ w.offer # NoOffer => OrderOf[w.offer] = w.order /\ order[w.order].offerId # NoOffer
  BY <1>4, <1>5 DEF OneAtATime, CancelsInOrder, StartedBefore, ChosenBefore
<1>8. DocsMove(d, 1, N, {})
  <2>1. Commits(d, 1) /\ OfferMoves(d, 1)
    BY <1>4, <1>5 DEF Commits, OfferMoves
  <2>2. NothingUndone /\ \A o \in Orders : Exists(o) => Exists(o)'
    BY <1>6 DEF NothingUndone, SameButOne, Started, Exists
  <2>3. OrderMoves(d, 1, N, {})
    BY <1>6, <1>7 DEF OrderMoves, SameButOne, Started, Electronic
  <2>4. QED
    BY <1>4, <2>1, <2>2, <2>3 DEF DocsMove
<1>9. Following(w) # "end" => MayQueue(d, 1, n)
  <2>1. Following(w) # "end" => w.offer # NoOffer /\ n.op = "withdraw"
    BY <1>4, <1>5 DEF Following
  <2>2. QED
    BY <1>5, <1>6, <1>7, <2>1 DEF MayQueue, Acceptance
<1>10. QED
  BY <1>1, <1>2, <1>3, <1>4, <1>8, <1>9, GoesOnKept

\* The status of an offer, at the end of both functions.
LEMMA AckOfferKept ==
    ASSUME IInv, DocsOK', OneDevice, OneAtATime, NEW d \in Devices,
           AckAccept(d) \/ AckWithdraw(d)
    PROVE  OneAtATime'
<1>1. PICK w : w = Head(queue[d])
  OBVIOUS
<1>2. /\ queue[d] # <<>> /\ PopBoth(d, w) /\ UNCHANGED order
      /\ \/ w.op = "accept" /\ offer' = [offer EXCEPT ![w.offer] = "accepted"]
         \/ w.op = "withdraw" /\ offer' = [offer EXCEPT ![w.offer] = "orderCancelled"]
  BY <1>1 DEF AckAccept, AckWithdraw, Ready
<1>3. /\ w \in Write /\ w = queue[d][1] /\ 1 \in DOMAIN queue[d]
      /\ offer \in [Offers -> OfferStatus]
  BY <1>1, <1>2, HeadFacts
<1>4. w.op = "withdraw" => /\ OrderOf[w.offer] = w.order
                           /\ order[w.order].status = "cancelled"
                           /\ order[w.order].offerId # NoOffer
  BY <1>3 DEF OneAtATime, CancelsInOrder
<1>5. DocsMove(d, 1, {}, {})
  <2>1. Commits(d, 1) /\ NothingUndone /\ OrderMoves(d, 1, {}, {})
        /\ \A o \in Orders : Exists(o) => Exists(o)'
    BY <1>2, <1>3 DEF Commits, NothingUndone, OrderMoves, Exists, Started, Electronic
  <2>2. OfferMoves(d, 1)
    BY <1>2, <1>3 DEF OfferMoves
  <2>3. \A f \in Offers : offer'[f] = "orderCancelled" =>
           \/ offer[f] = "orderCancelled"
           \/ order'[OrderOf[f]].status = "cancelled" /\ order'[OrderOf[f]].offerId # NoOffer
    BY <1>2, <1>3, <1>4
  <2>4. QED
    BY <2>1, <2>2, <2>3 DEF DocsMove
<1>6. QED
  BY <1>1, <1>2, <1>5, EndKept

\* A restart.
LEMMA KillKept ==
    ASSUME IInv, DocsOK', OneDevice, OneAtATime, NEW d \in Devices, Kill(d)
    PROVE  OneAtATime'
<1>1. DocsOK /\ UNCHANGED <<order, offer>>
  BY DEF IInv, Kill
<1>2. QueueStep(d, 0, {}) /\ NavStep(d, 0, {}) /\ Len(nav'[d]) = 1
  BY <1>1, KillNav
<1>3. Keeps(d, 0)
  <2>1. /\ queue[d] \in Seq(Write) /\ (queue[d] \in Seq(Write))'
        /\ DOMAIN queue'[d] = DOMAIN queue[d]
    BY <1>1 DEF DocsOK, Kill
  <2>2. Len(queue'[d]) = Len(queue[d])
    BY <2>1
  <2>3. QED
    BY <2>1, <2>2 DEF Keeps
<1>4. CoversExisting(d, 0)
  BY DEF CoversExisting
<1>5. QED
  BY <1>1, <1>2, <1>3, <1>4, QuietMove, OneKept

\* A provider's offer.
LEMMA MakeOfferKept ==
    ASSUME IInv, DocsOK', OneDevice, OneAtATime, NEW f \in Offers, MakeOffer(f)
    PROVE  OneAtATime'
<1>1. PICK d \in Devices : TRUE
  BY DevicesAssumption
<1>2. /\ offer[f] = "none" /\ offer' = [offer EXCEPT ![f] = "pending"]
      /\ UNCHANGED <<order, queue, nav>>
  BY DEF MakeOffer
<1>3. /\ DocsOK /\ offer \in [Offers -> OfferStatus] /\ Len(nav[d]) \in Nat
      /\ queue[d] \in Seq(Write)
  BY DEF IInv, DocsOK
<1>4. DocsMove(d, 0, {}, {})
  <2>1. Commits(d, 0) /\ NothingUndone /\ OrderMoves(d, 0, {}, {})
        /\ \A o \in Orders : Exists(o) => Exists(o)'
    BY <1>2 DEF Commits, NothingUndone, OrderMoves, Exists, Started, Electronic
  <2>2. OfferMoves(d, 0)
    BY <1>2, <1>3 DEF OfferMoves
  <2>3. \A g \in Offers : offer'[g] = "orderCancelled" => offer[g] = "orderCancelled"
    BY <1>2, <1>3
  <2>4. QED
    BY <2>1, <2>2, <2>3 DEF DocsMove
<1>5. QueueStep(d, 0, {}) /\ Keeps(d, 0) /\ NavStep(d, Len(nav[d]), {})
  BY <1>2, <1>3, SameNav DEF QueueStep, SameCall, Keeps
<1>6. CoversExisting(d, Len(nav[d]))
  BY <1>2, <1>3 DEF CoversExisting
<1>7. QED
  BY <1>3, <1>4, <1>5, <1>6, OneKept

\* No write of the app is refused by a server that only refuses updates of
\* missing documents.
LEMMA NeverRejected ==
    ASSUME IInv, AnswersInTime, NoneRejected, ahead \in [Devices -> Nat], NEW d \in Devices
    PROVE  ~Reject(d)
<1>1. SUFFICES ASSUME Reject(d) PROVE FALSE
  OBVIOUS
<1>2. PICK w, j : j = ahead[d] + 1 /\ w = queue[d][j]
  OBVIOUS
<1>3. j \in DOMAIN queue[d] /\ ~TargetExists(w) /\ queue[d] \in Seq(Write)
  BY <1>1, <1>2 DEF Reject, Refusable, NoneRejected, IInv, DocsOK
<1>4. w \in Write /\ SoundWrite(w)
  BY <1>2, <1>3 DEF IInv, PendingWorkIsSound
<1>5. w.op \in {"accept", "withdraw"} => w.offer # NoOffer
  BY <1>4, SentinelAssumption DEF Write
<1>6. QED
  BY <1>3, <1>4, <1>5 DEF TargetExists, SoundWrite, Exists, Acceptable

\* Every step keeps one acceptance and one cancellation at a time.
LEMMA StepOneAtATime ==
    ASSUME AnswersInTime, OneDevice, NoneRejected
    PROVE  IInv /\ NothingReopens /\ OneAtATime /\ TypeOK /\ [Next]_vars => OneAtATime'
<1>1. SUFFICES ASSUME IInv, NothingReopens, OneAtATime, TypeOK, [Next]_vars PROVE OneAtATime'
  OBVIOUS
<1>2. DocsOK'
  BY <1>1, StepDocs
<1>3. CASE UNCHANGED vars
  BY SMTT(30), <1>1, <1>3 DEF vars, OneAtATime, PagesInOrder, CancelsInOrder, AcceptedOnce, Exists, Electronic,
     Started, Choosing, Cancelling, NoneChoosing, Awaits, StartedBefore, ChosenBefore, Before
<1>4. CASE \E f \in Offers : MakeOffer(f)
  BY <1>1, <1>2, <1>4, MakeOfferKept
<1>5. ASSUME NEW d \in Devices, Tap(d) \/ Gateway(d) \/ Ack(d) \/ Kill(d)
      PROVE  OneAtATime'
  BY <1>1, <1>2, <1>5, TapKept, GatewayKept, AckCreateKept, AckStartKept, AckChooseKept,
     AckCancelKept, AckOfferKept, KillKept DEF Ack
<1>6. \A d \in Devices : ~Unanswered(d) /\ ~Reject(d)
  BY <1>1, NeverRejected DEF Unanswered, AnswersInTime, TypeOK
<1>7. QED
  BY <1>1, <1>3, <1>4, <1>5, <1>6 DEF Next, Answered

\* And so it is when the app starts.
LEMMA InitOneAtATime == Init => OneAtATime
<1>1. SUFFICES ASSUME Init PROVE OneAtATime
  OBVIOUS
<1>2. PICK h : h = Plain("home")
  OBVIOUS
<1>3. h.page = "home"
  BY <1>2 DEF Plain, Screen
<1>4. ASSUME NEW d \in Devices
      PROVE  DOMAIN nav[d] = {1} /\ nav[d][1] = h /\ DOMAIN queue[d] = {}
  BY <1>1, <1>2 DEF Init
<1>5. \A d \in Devices : \A i \in DOMAIN nav[d], o \in Orders :
         ~Choosing(nav[d][i], o) /\ ~Cancelling(nav[d][i], o)
  BY <1>3, <1>4 DEF Choosing, Cancelling
<1>6. \A f \in Offers : offer[f] = "none"
  BY <1>1 DEF Init
<1>7. \A o \in Orders : order[o].offerId = NoOffer
  BY <1>1 DEF Init, NoDoc
<1>8. PagesInOrder
  BY <1>3, <1>4, <1>5 DEF PagesInOrder
<1>9. CancelsInOrder
  BY <1>4, <1>5, <1>6 DEF CancelsInOrder
<1>10. AcceptedOnce
  BY <1>4, <1>5, <1>6, <1>7 DEF AcceptedOnce, NoneChoosing, Awaits
<1>11. QED
  BY <1>8, <1>9, <1>10 DEF OneAtATime

\* One device accepts an electronic order once, and cancels an order after it
\* was started and its offer was chosen.
THEOREM OneAtATimeOrders ==
    ASSUME AnswersInTime, OneDevice, NoneRejected
    PROVE  Spec => []OneAtATime
<1>1. IInv /\ TypeOK /\ [Next]_vars => IInv'
  BY StepSafe
<1>2. IInv /\ NothingReopens /\ OneAtATime /\ TypeOK /\ [Next]_vars => OneAtATime'
  BY StepOneAtATime
<1>3. Spec => []NothingReopens
  BY NothingReopensOrders
<1>4. QED
  BY <1>1, <1>2, <1>3, InitSafe, InitOneAtATime, TypeCorrect, PTL DEF Spec

-----------------------------------------------------------------------------
(* One device implements the lifecycle *)

\* A new order.
LEMMA AckCreatePlaces ==
    ASSUME IInv, OneDevice, NEW d \in Devices, AckCreate(d)
    PROVE  \E o \in Orders, p \in {"cash", "electronic"} : Lifecycle!Place(o, p)
<1>1. PICK w : w = Head(queue[d])
  OBVIOUS
<1>2. /\ queue[d] # <<>> /\ w.op = "create" /\ UNCHANGED offer
      /\ order' = [order EXCEPT ![w.order] = NewOrder(w.paymentOption)]
  BY <1>1 DEF AckCreate, Ready
<1>3. /\ w \in Write /\ SoundWrite(w) /\ w.order \in Orders /\ order \in [Orders -> OrderDoc]
  BY <1>1, <1>2, HeadFacts
<1>4. w.paymentOption \in {"cash", "electronic"}
  BY <1>3 DEF Write, PaymentOption
<1>5. order[w.order].status = "none" /\ order[w.order].offerId = NoOffer
  BY <1>2, <1>3 DEF SoundWrite, Exists, Started, IInv, ChosenOfferBelongs
<1>6. /\ order'[w.order].status = "awaitingOffers" /\ order'[w.order].offerId = NoOffer
      /\ order'[w.order].paymentOption = w.paymentOption
      /\ \A o \in Orders \ {w.order} : order'[o] = order[o]
  BY <1>2, <1>3 DEF NewOrder
<1>7. Lifecycle!Place(w.order, w.paymentOption)
  BY <1>2, <1>3, <1>5, <1>6 DEF Lifecycle!Place
<1>8. QED
  BY <1>3, <1>4, <1>7

\* The first write of an acceptance starts the order, or finds it in progress.
LEMMA AckStartStarts ==
    ASSUME IInv, OneDevice, NothingReopens, NEW d \in Devices, AckStart(d)
    PROVE  \/ \E o \in Orders : Lifecycle!Start(o)
           \/ UNCHANGED Lifecycle!lifeVars
<1>1. PICK w : w = Head(queue[d])
  OBVIOUS
<1>2. /\ queue[d] # <<>> /\ w.op = "start" /\ UNCHANGED offer
      /\ order' = [order EXCEPT ![w.order].status = "inProgress"]
  BY <1>1 DEF AckStart, Ready
<1>3. /\ SoundWrite(w) /\ w.order \in Orders /\ order \in [Orders -> OrderDoc]
      /\ w = queue[d][1] /\ 1 \in DOMAIN queue[d]
  BY <1>1, <1>2, HeadFacts
<1>4. order[w.order].status # "none" /\ order[w.order].status # "cancelled"
  BY <1>2, <1>3 DEF SoundWrite, Exists, NothingReopens, Awaits
<1>5. order[w.order].status = "awaitingOffers" \/ order[w.order].status = "inProgress"
  BY <1>3, <1>4 DEF OrderDoc, OrderStatus
<1>6. /\ order'[w.order].status = "inProgress"
      /\ \A o \in Orders \ {w.order} : order'[o] = order[o]
      /\ \A o \in Orders : /\ order'[o].offerId = order[o].offerId
                           /\ order'[o].paymentOption = order[o].paymentOption
  BY <1>2, <1>3 DEF OrderDoc
<1>7. CASE order[w.order].status = "awaitingOffers"
  <2>1. Lifecycle!Start(w.order)
    BY SMTT(30), <1>2, <1>3, <1>6, <1>7 DEF Lifecycle!Start
  <2>2. QED
    BY <1>3, <2>1
<1>8. CASE order[w.order].status = "inProgress"
  BY <1>2, <1>3, <1>6, <1>8 DEF Lifecycle!lifeVars
<1>9. QED
  BY <1>5, <1>7, <1>8

\* Its second write chooses the offer.
LEMMA AckChooseChooses ==
    ASSUME IInv, OneDevice, OneAtATime, NEW d \in Devices, AckChoose(d)
    PROVE  \E f \in Offers : Lifecycle!Choose(f)
<1>1. PICK w : w = Head(queue[d])
  OBVIOUS
<1>2. /\ queue[d] # <<>> /\ w.op = "choose" /\ UNCHANGED offer
      /\ order' = [order EXCEPT ![w.order].offerId = w.offer]
  BY <1>1 DEF AckChoose, Ready
<1>3. /\ w \in Write /\ SoundWrite(w) /\ w.order \in Orders /\ order \in [Orders -> OrderDoc]
      /\ w = queue[d][1] /\ 1 \in DOMAIN queue[d]
  BY <1>1, <1>2, HeadFacts
<1>4. /\ w.offer \in Offers /\ OrderOf[w.offer] = w.order /\ offer[w.offer] # "none"
      /\ order[w.order].status \in {"inProgress", "cancelled"}
  BY <1>2, <1>3 DEF Write, SoundWrite, Acceptable, Started
<1>5. order[w.order].paymentOption = "electronic" => order[w.order].offerId = NoOffer
  BY <1>2, <1>3 DEF OneAtATime, AcceptedOnce, Awaits, Electronic
<1>6. /\ order'[w.order].offerId = w.offer
      /\ \A o \in Orders \ {w.order} : order'[o] = order[o]
      /\ \A o \in Orders : /\ order'[o].status = order[o].status
                           /\ order'[o].paymentOption = order[o].paymentOption
  BY <1>2, <1>3 DEF OrderDoc
<1>7. Lifecycle!Choose(w.offer)
  BY SMTT(30), <1>2, <1>3, <1>4, <1>5, <1>6 DEF Lifecycle!Choose
<1>8. QED
  BY <1>4, <1>7

\* Its third write tells the provider.
LEMMA AckAcceptAccepts ==
    ASSUME IInv, OneDevice, OneAtATime, NEW d \in Devices, AckAccept(d)
    PROVE  \E f \in Offers : Lifecycle!Accept(f)
<1>1. PICK w : w = Head(queue[d])
  OBVIOUS
<1>2. /\ queue[d] # <<>> /\ w.op = "accept" /\ UNCHANGED order
      /\ offer' = [offer EXCEPT ![w.offer] = "accepted"]
  BY <1>1 DEF AckAccept, Ready
<1>3. /\ w \in Write /\ SoundWrite(w) /\ w.order \in Orders
      /\ w = queue[d][1] /\ 1 \in DOMAIN queue[d]
  BY <1>1, <1>2, HeadFacts
<1>4. /\ w.offer \in Offers /\ OrderOf[w.offer] = w.order /\ order[w.order].offerId # NoOffer
  BY <1>2, <1>3 DEF Write, SoundWrite
<1>5. order[w.order].paymentOption = "electronic" =>
         order[w.order].offerId = w.offer /\ offer[w.offer] = "pending"
  BY <1>2, <1>3 DEF OneAtATime, AcceptedOnce, Electronic
<1>6. Lifecycle!Accept(w.offer)
  BY <1>2, <1>3, <1>4, <1>5 DEF Lifecycle!Accept
<1>7. QED
  BY <1>4, <1>6

\* The first write of a cancellation cancels the order, or finds it cancelled.
LEMMA AckCancelCancels ==
    ASSUME IInv, OneDevice, OneAtATime, NEW d \in Devices, AckCancel(d)
    PROVE  \/ \E o \in Orders : Lifecycle!Cancel(o)
           \/ UNCHANGED Lifecycle!lifeVars
<1>1. PICK w, n : w = Head(queue[d]) /\ n = [w EXCEPT !.op = Following(w)]
  OBVIOUS
<1>2. /\ queue[d] # <<>> /\ w.op = "cancel" /\ UNCHANGED offer
      /\ order' = [order EXCEPT ![w.order].status = "cancelled"]
  BY <1>1 DEF AckCancel, Ready
<1>3. /\ w.order \in Orders /\ order \in [Orders -> OrderDoc]
      /\ w = queue[d][1] /\ 1 \in DOMAIN queue[d] /\ \A op, o : ~Before(d, 1, op, o)
  BY <1>1, <1>2, HeadFacts
<1>4. order[w.order].status = "inProgress" \/ order[w.order].status = "cancelled"
  BY <1>2, <1>3 DEF OneAtATime, CancelsInOrder, StartedBefore, Started
<1>5. /\ order'[w.order].status = "cancelled"
      /\ \A o \in Orders \ {w.order} : order'[o] = order[o]
      /\ \A o \in Orders : /\ order'[o].offerId = order[o].offerId
                           /\ order'[o].paymentOption = order[o].paymentOption
  BY <1>2, <1>3 DEF OrderDoc
<1>6. CASE order[w.order].status = "inProgress"
  <2>1. Lifecycle!Cancel(w.order)
    BY <1>2, <1>3, <1>5, <1>6 DEF Lifecycle!Cancel
  <2>2. QED
    BY <1>3, <2>1
<1>7. CASE order[w.order].status = "cancelled"
  BY <1>2, <1>3, <1>5, <1>7 DEF Lifecycle!lifeVars
<1>8. QED
  BY <1>4, <1>6, <1>7

\* Its second write tells the chosen provider.
LEMMA AckWithdrawWithdraws ==
    ASSUME IInv, OneDevice, OneAtATime, NEW d \in Devices, AckWithdraw(d)
    PROVE  \E f \in Offers : Lifecycle!Withdraw(f)
<1>1. PICK w : w = Head(queue[d])
  OBVIOUS
<1>2. /\ queue[d] # <<>> /\ w.op = "withdraw" /\ UNCHANGED order
      /\ offer' = [offer EXCEPT ![w.offer] = "orderCancelled"]
  BY <1>1 DEF AckWithdraw, Ready
<1>3. /\ w \in Write /\ w.order \in Orders /\ w = queue[d][1] /\ 1 \in DOMAIN queue[d]
  BY <1>1, <1>2, HeadFacts
<1>4. w.offer \in Offers
  BY <1>2, <1>3 DEF Write
<1>5. /\ OrderOf[w.offer] = w.order /\ order[w.order].status = "cancelled"
      /\ order[w.order].offerId # NoOffer
  BY <1>2, <1>3 DEF OneAtATime, CancelsInOrder
<1>6. Lifecycle!Withdraw(w.offer)
  BY <1>2, <1>3, <1>4, <1>5 DEF Lifecycle!Withdraw
<1>7. QED
  BY <1>4, <1>6

\* Every step of one device is a step of the lifecycle, or none.
LEMMA LifecycleStep ==
    ASSUME AnswersInTime, OneDevice, NoneRejected
    PROVE  IInv /\ NothingReopens /\ OneAtATime /\ TypeOK /\ [Next]_vars
               => [Lifecycle!Next]_(Lifecycle!lifeVars)
<1>1. SUFFICES ASSUME IInv, NothingReopens, OneAtATime, TypeOK, [Next]_vars
               PROVE  Lifecycle!Next \/ UNCHANGED Lifecycle!lifeVars
  OBVIOUS
<1>2. ASSUME UNCHANGED <<order, offer>>
      PROVE  UNCHANGED Lifecycle!lifeVars
  BY <1>2 DEF Lifecycle!lifeVars
<1>3. ASSUME NEW d \in Devices, Tap(d) \/ Gateway(d) \/ Kill(d)
      PROVE  UNCHANGED <<order, offer>>
  BY <1>3 DEF Tap, OpenForm, AskCancel, Back, AcceptOfferCash, AcceptOfferElectronic, CancelOrder,
     OpenOrder, ShowOffer, SendOrder, Gateway, PaymentCaptured, OnPaymentPaid, OnPaymentOther,
     Kill, Browse
<1>4. ASSUME NEW d \in Devices, Ack(d)
      PROVE  Lifecycle!Next \/ UNCHANGED Lifecycle!lifeVars
  <2>1. CASE AckCreate(d)
    BY <1>1, <2>1, AckCreatePlaces, Zenon DEF Lifecycle!Next
  <2>2. CASE AckStart(d)
    BY <1>1, <2>2, AckStartStarts, Zenon DEF Lifecycle!Next
  <2>3. CASE AckChoose(d)
    BY <1>1, <2>3, AckChooseChooses, Zenon DEF Lifecycle!Next
  <2>4. CASE AckAccept(d)
    BY <1>1, <2>4, AckAcceptAccepts, Zenon DEF Lifecycle!Next
  <2>5. CASE AckCancel(d)
    BY <1>1, <2>5, AckCancelCancels, Zenon DEF Lifecycle!Next
  <2>6. CASE AckWithdraw(d)
    BY <1>1, <2>6, AckWithdrawWithdraws, Zenon DEF Lifecycle!Next
  <2>7. QED
    BY <1>4, <2>1, <2>2, <2>3, <2>4, <2>5, <2>6, Zenon DEF Ack
<1>5. ASSUME NEW f \in Offers, MakeOffer(f)
      PROVE  Lifecycle!Next
  <2>1. Lifecycle!Bid(f)
    BY <1>5, OrderOfAssumption DEF MakeOffer, Lifecycle!Bid
  <2>2. QED
    BY <2>1, Zenon DEF Lifecycle!Next
<1>6. \A d \in Devices : ~Unanswered(d) /\ ~Reject(d)
  BY <1>1, NeverRejected DEF Unanswered, AnswersInTime, TypeOK
<1>7. CASE UNCHANGED vars
  <2>1. UNCHANGED <<order, offer>>
    BY <1>7 DEF vars
  <2>2. QED
    BY <1>2, <2>1, Zenon
<1>8. CASE \E d \in Devices : Tap(d) \/ Gateway(d) \/ Kill(d)
  BY <1>2, <1>3, <1>8, Zenon
<1>9. CASE \/ \E d \in Devices : Ack(d)
           \/ \E f \in Offers : MakeOffer(f)
  BY <1>4, <1>5, <1>9, Zenon
<1>10. \/ UNCHANGED vars
       \/ \E d \in Devices : Tap(d) \/ Gateway(d) \/ Kill(d)
       \/ \E d \in Devices : Ack(d)
       \/ \E f \in Offers : MakeOffer(f)
  BY <1>1, <1>6, Zenon DEF Next, Answered
<1>11. QED
  BY <1>7, <1>8, <1>9, <1>10, Zenon

\* Before the first tap there is no order.
LEMMA LifecycleInit == Init => Lifecycle!Init
BY DEF Init, Lifecycle!Init, NoDoc

\* One device, with restarts and lost payment results but no refused write,
\* implements the lifecycle: the chains of awaited writes of send_order.dart move
\* an order and its offers one way, whatever is tapped between them.
THEOREM ImplementsTheLifecycle ==
    ASSUME AnswersInTime, OneDevice, NoneRejected
    PROVE  Spec => ImplementsLifecycle
<1>1. IInv /\ NothingReopens /\ OneAtATime /\ TypeOK /\ [Next]_vars
          => [Lifecycle!Next]_(Lifecycle!lifeVars)
  BY LifecycleStep
<1>2. IInv /\ TypeOK /\ [Next]_vars => IInv'
  BY StepSafe
<1>3. Spec => []NothingReopens /\ []OneAtATime
  BY NothingReopensOrders, OneAtATimeOrders, PTL
<1>4. QED
  BY <1>1, <1>2, <1>3, LifecycleInit, InitSafe, TypeCorrect, PTL
     DEF Spec, ImplementsLifecycle, Lifecycle!Spec

-----------------------------------------------------------------------------
(* An electronic order is charged once *)

\* A page of a charge was one before the step, which is device d's.
NoNewCharge(d) ==
    /\ \A e \in Devices \ {d} : nav'[e] = nav[e]
    /\ \A i \in DOMAIN nav'[d] : Charging(nav'[d][i]) =>
          i \in DOMAIN nav[d] /\ Charging(nav[d][i]) /\ nav'[d][i].offer = nav[d][i].offer

\* The pages of every action but the charge itself.
LEMMA PushCharges ==
    ASSUME DocsOK, NEW d \in Devices, NEW r, Push(d, r), ~Charging(r)
    PROVE  NoNewCharge(d)
<1>1. nav'[d] = Append(nav[d], r) /\ nav[d] \in Seq(Route)
  BY PushEffect DEF DocsOK
<1>2. \A i \in DOMAIN nav'[d] : (i \in DOMAIN nav[d] /\ nav'[d][i] = nav[d][i]) \/ nav'[d][i] = r
  BY <1>1
<1>3. \A e \in Devices \ {d} : nav'[e] = nav[e]
  BY DEF Push, Show, DocsOK
<1>4. QED
  BY <1>2, <1>3 DEF NoNewCharge

\* Popping pages.
LEMMA PopCharges ==
    ASSUME DocsOK, NEW d \in Devices, NEW n \in Nat, NEW q \in Seq(Write), Pop(d, n, q)
    PROVE  NoNewCharge(d)
<1>1. nav'[d] = Popped(nav[d], n) /\ nav[d] \in Seq(Route)
  BY PopNav DEF DocsOK
<1>2. \A i \in DOMAIN nav'[d] : i \in DOMAIN nav[d] /\ nav'[d][i] = nav[d][i]
  BY <1>1, PoppedPrefix
<1>3. \A e \in Devices \ {d} : nav'[e] = nav[e]
  BY DEF Pop, Show, DocsOK
<1>4. QED
  BY <1>2, <1>3 DEF NoNewCharge

\* Opening a page over a part of the old stack.
LEMMA ReplaceCharges ==
    ASSUME DocsOK, NEW d \in Devices, NEW n \in Nat, NEW r, ~Charging(r), NEW q \in Seq(Write),
           Show(d, Append(Popped(nav[d], n), r), Len(Popped(nav[d], n)), q)
    PROVE  NoNewCharge(d)
<1> DEFINE s == Popped(nav[d], n)
<1>1. /\ s \in Seq(Route) /\ Len(s) \in Nat
      /\ \A i \in DOMAIN s : i \in DOMAIN nav[d] /\ s[i] = nav[d][i]
  <2>1. nav[d] \in Seq(Route)
    BY DEF DocsOK
  <2>2. QED
    BY <2>1, PoppedPrefix
<1>2. nav'[d] = Append(s, r) /\ \A e \in Devices \ {d} : nav'[e] = nav[e]
  BY <1>1, ShowEffect
<1>3. \A i \in DOMAIN nav'[d] : (i \in DOMAIN s /\ nav'[d][i] = s[i]) \/ nav'[d][i] = r
  BY <1>1, <1>2
<1>4. QED
  BY <1>1, <1>2, <1>3 DEF NoNewCharge

\* The end of sendOrder.
LEMMA SentCharges ==
    ASSUME DocsOK, NEW d \in Devices, queue[d] # <<>>, NEW w, w = Head(queue[d]), ShowSent(d, w)
    PROVE  NoNewCharge(d)
<1>1. PICK r : r = Screen("order", w.order, NewOrder(w.paymentOption), NoOffer)
  OBVIOUS
<1>2. ~Charging(r)
  BY <1>1 DEF Charging, Screen
<1>3. Tail(queue[d]) \in Seq(Write)
  BY HeadType
<1>4. CASE Show(d, Append(Popped(nav[d], 1), r), Len(Popped(nav[d], 1)), Tail(queue[d]))
  BY <1>2, <1>3, <1>4, ReplaceCharges
<1>5. CASE Pop(d, 0, Tail(queue[d]))
  BY <1>3, <1>5, PopCharges
<1>6. QED
  BY <1>1, <1>4, <1>5 DEF ShowSent

\* A submitted form stays on top, busy.
LEMMA BusyFormCharges ==
    ASSUME DocsOK, NEW d \in Devices, NEW o, NEW p, SendOrder(d, o, p)
    PROVE  NoNewCharge(d)
<1>1. /\ nav[d] # <<>> /\ Top(d).page = "form"
      /\ nav' = [nav EXCEPT ![d][Len(nav[d])].busy = TRUE]
  BY DEF SendOrder, On
<1>2. /\ DOMAIN nav'[d] = DOMAIN nav[d] /\ \A e \in Devices \ {d} : nav'[e] = nav[e]
      /\ \A i \in DOMAIN nav[d] : /\ nav'[d][i].page = nav[d][i].page
                                  /\ i # Len(nav[d]) => nav'[d][i] = nav[d][i]
  BY <1>1, BusyEffect
<1>3. ASSUME NEW i \in DOMAIN nav'[d], Charging(nav'[d][i])
      PROVE  i \in DOMAIN nav[d] /\ Charging(nav[d][i]) /\ nav'[d][i].offer = nav[d][i].offer
  <2>1. i # Len(nav[d])
    BY <1>1, <1>2, <1>3 DEF Charging, Top
  <2>2. QED
    BY <1>2, <1>3, <2>1
<1>4. QED
  BY <1>2, <1>3 DEF NoNewCharge

\* The paid branch leaves the page of its charge.
LEMMA PaidCharges ==
    ASSUME DocsOK, NEW d \in Devices, OnPaymentPaid(d)
    PROVE  /\ NoNewCharge(d)
           /\ \A i \in DOMAIN nav'[d] : Charging(nav'[d][i]) => i # Len(nav[d])
<1>1. PICK n : n = Call(AcceptsWith, OrderOf[Top(d).offer], Top(d).offer, "electronic",
                        Len(nav[d]) - 1 + 1)
  OBVIOUS
<1>2. /\ nav[d] \in Seq(Route) /\ queue[d] \in Seq(Write) /\ nav[d] # <<>>
      /\ n \in Write /\ Len(nav[d]) - 1 \in Nat
  BY <1>1, PaidNav DEF DocsOK
<1>3. PICK s : s = Popped(nav[d], 1) \o <<Plain("result"), Plain("result")>>
  OBVIOUS
<1>4. Show(d, s, Len(nav[d]) - 1, Append(queue[d], n)) /\ Append(queue[d], n) \in Seq(Write)
  BY <1>1, <1>2, <1>3 DEF OnPaymentPaid
<1>5. nav'[d] = s /\ \A e \in Devices \ {d} : nav'[e] = nav[e]
  BY <1>2, <1>4, ShowEffect, Zenon
<1>6. PICK p : p = Popped(nav[d], 1)
  OBVIOUS
<1>7. /\ p \in Seq(Route) /\ Len(p) \in Nat
      /\ \A i \in DOMAIN p : i \in DOMAIN nav[d] /\ p[i] = nav[d][i]
  BY <1>2, <1>6, PoppedPrefix
<1>8. Len(p) = Len(nav[d]) - 1
  BY <1>2, <1>6 DEF Popped
<1>9. \A i \in DOMAIN p : i # Len(nav[d])
  BY <1>2, <1>7, <1>8
<1>10. PICK r : r = Plain("result")
  OBVIOUS
<1>11. nav'[d] = p \o <<r, r>>
  BY <1>3, <1>5, <1>6, <1>10
<1>12. \A i \in DOMAIN nav'[d] : (i \in DOMAIN p /\ nav'[d][i] = p[i]) \/ nav'[d][i] = r
  BY <1>7, <1>11
<1>13. ~Charging(r)
  BY <1>10 DEF Charging, Plain, Screen
<1>14. QED
  BY <1>5, <1>7, <1>9, <1>12, <1>13 DEF NoNewCharge

\* Another result: its page is not a page of a charge any more.
LEMMA OtherCharges ==
    ASSUME DocsOK, NEW d \in Devices, OnPaymentOther(d)
    PROVE  NoNewCharge(d)
<1> DEFINE l == Len(nav[d])
           s == [nav[d] EXCEPT ![l].busy = FALSE]
<1>1. /\ nav[d] # <<>> /\ queue[d] \in Seq(Write) /\ nav[d] \in Seq(Route) /\ l \in Nat
      /\ Show(d, Append(s, Plain("result")), l, queue[d])
  BY DEF OnPaymentOther, On, DocsOK
<1>2. nav'[d] = Append(s, Plain("result")) /\ \A e \in Devices \ {d} : nav'[e] = nav[e]
  BY <1>1, ShowEffect
<1>3. s \in Seq(Route) /\ DOMAIN s = DOMAIN nav[d] /\ l \in DOMAIN nav[d] /\ nav[d][l] \in Route
  <2>1. l \in DOMAIN nav[d] /\ nav[d][l] \in Route
    BY <1>1, TopType
  <2>2. s \in Seq(Route) /\ DOMAIN s = DOMAIN nav[d]
    BY <1>1, BusyType
  <2>3. QED
    BY <2>1, <2>2
<1>4. \A i \in DOMAIN s : Charging(s[i]) => s[i] = nav[d][i]
  <2>1. ~Charging(s[l])
    BY <1>1, <1>3 DEF Charging, Route
  <2>2. \A i \in DOMAIN s : i # l => s[i] = nav[d][i]
    BY <1>1, <1>3
  <2>3. QED
    BY <2>1, <2>2
<1>5. PICK r : r = Plain("result")
  OBVIOUS
<1>6. ~Charging(r)
  BY <1>5 DEF Charging, Plain, Screen
<1>7. \A i \in DOMAIN nav'[d] : (i \in DOMAIN s /\ nav'[d][i] = s[i]) \/ nav'[d][i] = r
  BY <1>2, <1>3, <1>5
<1>8. QED
  BY <1>2, <1>3, <1>4, <1>6, <1>7 DEF NoNewCharge

\* A started order stays so, a start write is kept until it is acknowledged, and a
\* page of a charge until its start write is queued.
StaysPaid(d, o) ==
    /\ Started(o) => Started(o)'
    /\ Awaits(d, "start", o) => Awaits(d, "start", o)' \/ Started(o)'
    /\ (\E i \in DOMAIN nav[d] : Charging(nav[d][i])) =>
          \/ nav'[d] = nav[d]
          \/ Awaits(d, "start", o)' /\ \A i \in DOMAIN nav'[d] : ~Charging(nav'[d][i])

\* A step that charges nothing.
LEMMA PaidKept ==
    ASSUME IInv, DocsOK', OneDevice, PaidOnce, UNCHANGED charges,
           \A f \in Offers : offer[f] # "none" => offer'[f] # "none",
           NEW d \in Devices, NoNewCharge(d),
           \A o \in Orders : Electronic(o)' /\ issued' = {o} =>
              \/ \A f \in Offers : offer[f] = "none"
              \/ Electronic(o) /\ issued = {o} /\ StaysPaid(d, o)
    PROVE  PaidOnce'
<1>1. \A e \in Devices : e = d
  BY DEF OneDevice
<1>2. \A f \in Offers : charges'[f] > 0 => offer'[f] # "none"
  BY DEF PaidOnce
<1>3. ASSUME NEW o \in Orders, Electronic(o)', issued' = {o}
      PROVE  /\ \A i \in DOMAIN nav'[d] : Charging(nav'[d][i]) => i = Len(nav'[d])
             /\ \A f, g \in Offers :
                   charges'[f] <= 1 /\ (charges'[f] > 0 /\ charges'[g] > 0 => f = g)
             /\ (\E f \in Offers : charges'[f] > 0) =>
                   \/ Started(o)' \/ Awaits(d, "start", o)'
                   \/ \E i \in DOMAIN nav'[d] : Charging(nav'[d][i])
  <2>1. CASE Electronic(o) /\ issued = {o} /\ StaysPaid(d, o)
    <3>1. \A i \in DOMAIN nav[d] : Charging(nav[d][i]) => i = Len(nav[d])
      BY <2>1 DEF PaidOnce
    <3>2. \A f, g \in Offers : charges[f] <= 1 /\ (charges[f] > 0 /\ charges[g] > 0 => f = g)
      BY <2>1 DEF PaidOnce
    <3>3. (\E f \in Offers : charges[f] > 0) =>
             \/ Started(o) \/ Awaits(d, "start", o) \/ \E i \in DOMAIN nav[d] : Charging(nav[d][i])
      BY <2>1 DEF PaidOnce
    <3>4. CASE \E i \in DOMAIN nav[d] : Charging(nav[d][i])
      BY <2>1, <3>1, <3>2, <3>4 DEF StaysPaid
    <3>5. CASE ~\E i \in DOMAIN nav[d] : Charging(nav[d][i])
      BY <2>1, <3>2, <3>3, <3>5 DEF NoNewCharge, StaysPaid
    <3>6. QED
      BY <3>4, <3>5
  <2>2. CASE \A f \in Offers : offer[f] = "none"
    <3>1. \A i \in DOMAIN nav[d] : ~Charging(nav[d][i])
      <4>1. ASSUME NEW i \in DOMAIN nav[d], nav[d][i].page = "payment"
            PROVE  FALSE
        <5>1. nav[d][i] \in Route /\ SoundRoute(nav[d][i])
          BY DEF IInv, DocsOK, PendingWorkIsSound
        <5>2. nav[d][i].offer \in Offers /\ offer[nav[d][i].offer] # "none"
          BY <4>1, <5>1 DEF Route, SoundRoute
        <5>3. QED
          BY <2>2, <5>2
      <4>2. QED
        BY <4>1 DEF Charging
    <3>2. \A f \in Offers : ~(charges[f] > 0)
      BY <2>2 DEF PaidOnce
    <3>3. \A f \in Offers : charges[f] = 0
      BY <3>2 DEF IInv, DocsOK
    <3>4. QED
      BY <3>1, <3>3 DEF NoNewCharge
  <2>3. QED
    BY <1>3, <2>1, <2>2
<1>4. QED
  BY <1>1, <1>2, <1>3 DEF PaidOnce, Charging

\* A start write stays queued until it is acknowledged.
LEMMA StartKept ==
    ASSUME DocsOK, DocsOK', NEW d \in Devices, NEW k \in {0, 1}, NEW N, QueueStep(d, k, N),
           Keeps(d, k), NEW o \in Orders,
           k = 1 /\ queue[d][1].op = "start" /\ queue[d][1].order = o => Started(o)'
    PROVE  Awaits(d, "start", o) => Awaits(d, "start", o)' \/ Started(o)'
<1>1. /\ queue[d] \in Seq(Write) /\ (queue[d] \in Seq(Write))' /\ Len(queue[d]) \in Nat
      /\ Len(queue'[d]) \in Nat
  BY DEF DocsOK
<1>2. ASSUME NEW i \in DOMAIN queue[d], queue[d][i].op = "start", queue[d][i].order = o,
             ~(k = 1 /\ i = 1)
      PROVE  Awaits(d, "start", o)'
  <2>1. /\ i - k \in Nat \ {0} /\ i - k <= Len(queue'[d])
        /\ (i - k) + k = i /\ i # Len(queue[d]) + 1
    BY <1>1, <1>2 DEF Keeps
  <2>2. i - k \in DOMAIN queue'[d]
    BY <1>1, <2>1
  <2>3. SameCall(queue'[d][i - k], queue[d][i])
    BY <2>1, <2>2 DEF QueueStep
  <2>4. QED
    BY <1>2, <2>2, <2>3 DEF Awaits, SameCall
<1>3. QED
  BY <1>2 DEF Awaits

\* The page of a charge for the only order is on top.
LEMMA ChargingTop ==
    ASSUME IInv, PaidOnce, NEW d \in Devices, NEW o \in Orders, Electronic(o), issued = {o},
           NEW i \in DOMAIN nav[d], Charging(nav[d][i])
    PROVE  /\ i = Len(nav[d]) /\ nav[d] # <<>> /\ Charging(Top(d)) /\ Top(d).offer \in Offers
           /\ Choosing(Top(d), o)
<1>1. i = Len(nav[d])
  BY DEF PaidOnce
<1>2. nav[d] \in Seq(Route)
  BY DEF IInv, DocsOK
<1>3. nav[d] # <<>> /\ Top(d) = nav[d][i]
  BY <1>1, <1>2 DEF Top
<1>4. Top(d) \in Route /\ SoundRoute(Top(d)) /\ Top(d).page = "payment"
  BY <1>3, TopSound DEF Charging
<1>5. Top(d).offer \in Offers /\ offer[Top(d).offer] # "none"
  BY <1>4 DEF Route, SoundRoute
<1>6. OrderOf[Top(d).offer] \in issued
  BY <1>5, OrderOfAssumption DEF IInv, PendingWorkIsSound
<1>7. QED
  BY <1>1, <1>3, <1>4, <1>5, <1>6 DEF Choosing

\* A step that charges nothing and leaves the page of a charge alone.
LEMMA CallsPaid ==
    ASSUME IInv, DocsOK', OneDevice, PaidOnce, UNCHANGED <<issued, charges>>,
           \A f \in Offers : offer[f] # "none" => offer'[f] # "none",
           NEW d \in Devices, NEW k \in {0, 1}, NEW N, QueueStep(d, k, N), Keeps(d, k),
           NoNewCharge(d),
           k = 1 /\ queue[d][1].op = "start" => order'[queue[d][1].order].status = "inProgress",
           \A o \in Orders : Started(o) => Started(o)',
           \A o \in Orders : Electronic(o)' /\ issued = {o} =>
              /\ Electronic(o)
              /\ nav'[d] = nav[d] \/ \A i \in DOMAIN nav[d] : ~Charging(nav[d][i])
    PROVE  PaidOnce'
<1>1. DocsOK
  BY DEF IInv
<1>2. ASSUME NEW o \in Orders, Electronic(o)', issued' = {o}
      PROVE  Electronic(o) /\ issued = {o} /\ StaysPaid(d, o)
  <2>1. k = 1 /\ queue[d][1].op = "start" /\ queue[d][1].order = o => Started(o)'
    BY DEF Started
  <2>2. Awaits(d, "start", o) => Awaits(d, "start", o)' \/ Started(o)'
    BY <1>1, <2>1, StartKept
  <2>3. QED
    BY <1>2, <2>2 DEF StaysPaid
<1>3. QED
  BY <1>2, PaidKept

\* A page opened over one that charges nothing.
LEMMA PushPaid ==
    ASSUME IInv, DocsOK', OneDevice, PaidOnce, NEW d \in Devices, NEW r, Browse(d, r),
           r.page # "payment", nav[d] # <<>>, Top(d).page # "payment"
    PROVE  PaidOnce'
<1>1. DocsOK /\ Push(d, r) /\ UNCHANGED <<order, offer, issued, charges>>
  BY DEF IInv, Browse
<1>2. QueueStep(d, 0, {}) /\ Keeps(d, 0) /\ NoNewCharge(d)
  <2>1. queue[d] \in Seq(Write) /\ Len(nav[d]) \in Nat
    BY <1>1 DEF DocsOK
  <2>2. Keeps(d, 0)
    BY <1>1, <2>1, ShowKeeps DEF Push
  <2>3. NoNewCharge(d)
    <3>1. ~Charging(r)
      BY DEF Charging
    <3>2. QED
      BY <1>1, <3>1, PushCharges
  <2>4. QED
    BY <1>1, <2>2, <2>3, PushEffect
<1>3. \A o \in Orders : Electronic(o)' /\ issued = {o} =>
         Electronic(o) /\ \A i \in DOMAIN nav[d] : ~Charging(nav[d][i])
  BY <1>1, ChargingTop DEF Electronic, Charging
<1>4. \A o \in Orders : Started(o) => Started(o)'
  BY <1>1 DEF Started
<1>5. QED
  BY <1>1, <1>2, <1>3, <1>4, CallsPaid

\* A call that is queued under the page on top.
LEMMA QueuedPaid ==
    ASSUME IInv, DocsOK', OneDevice, PaidOnce, NEW d \in Devices, NEW n \in Write,
           queue' = [queue EXCEPT ![d] = Append(@, n)],
           UNCHANGED <<order, offer, issued, nav, charges>>
    PROVE  PaidOnce'
<1>1. DocsOK
  BY DEF IInv
<1>2. QueueStep(d, 0, {n}) /\ Keeps(d, 0)
  BY <1>1, EnqueueQueue, EnqueueKeeps
<1>3. NoNewCharge(d)
  BY DEF NoNewCharge
<1>4. \A o \in Orders : (Started(o) => Started(o)') /\ (Electronic(o)' => Electronic(o))
  BY DEF Started, Electronic
<1>5. QED
  BY <1>2, <1>3, <1>4, CallsPaid

\* A new order: no other one had been placed, or one had.
LEMMA SendOrderPaid ==
    ASSUME IInv, DocsOK', OneDevice, PaidOnce, NEW d \in Devices,
           NEW o \in Orders, NEW p \in PaymentOption, SendOrder(d, o, p)
    PROVE  PaidOnce'
<1>1. /\ nav[d] # <<>> /\ Top(d).page = "form" /\ UNCHANGED <<order, offer, charges>> /\ DocsOK
      /\ nav' = [nav EXCEPT ![d][Len(nav[d])].busy = TRUE]
      /\ o \notin issued /\ issued' = issued \cup {o}
  BY DEF SendOrder, On, IInv
<1>2. NoNewCharge(d)
  BY <1>1, BusyFormCharges
<1>3. \A q \in Orders : issued' = {q} => \A f \in Offers : offer[f] = "none"
  <2>1. ASSUME NEW q \in Orders, issued' = {q}, NEW f \in Offers, offer[f] # "none"
        PROVE  FALSE
    <3>1. issued = {}
      BY <1>1, <2>1
    <3>2. OrderOf[f] \in issued
      BY <2>1, OrderOfAssumption DEF IInv, PendingWorkIsSound
    <3>3. QED
      BY <3>1, <3>2
  <2>2. QED
    BY <2>1
<1>4. QED
  BY <1>1, <1>2, <1>3, PaidKept

\* The payment page opens.
LEMMA PayPaid ==
    ASSUME IInv, DocsOK', OneDevice, PaidOnce, NEW d \in Devices, AcceptOfferElectronic(d)
    PROVE  PaidOnce'
<1>1. PICK r : r = Screen("payment", NoOrder, NoDoc, Top(d).offer)
  OBVIOUS
<1>2. /\ nav[d] # <<>> /\ Top(d).page = "sheet" /\ UNCHANGED <<order, offer, issued, charges>>
      /\ Show(d, Append(Popped(nav[d], 2), r), Len(Popped(nav[d], 2)), queue[d])
      /\ DocsOK /\ queue[d] \in Seq(Write) /\ nav[d] \in Seq(Route)
  BY <1>1 DEF AcceptOfferElectronic, On, IInv, DocsOK
<1>3. ~Charging(r)
  BY <1>1 DEF Charging, Screen
<1>4. NoNewCharge(d)
  BY <1>2, <1>3, ReplaceCharges
<1>5. QueueStep(d, 0, {}) /\ Keeps(d, 0)
  <2>1. Len(Popped(nav[d], 2)) \in Nat
    BY <1>2, PoppedPrefix
  <2>2. QED
    BY <1>2, <2>1, ShowKeeps, ShowQueue
<1>6. \A o \in Orders : Electronic(o)' /\ issued = {o} =>
         Electronic(o) /\ \A i \in DOMAIN nav[d] : ~Charging(nav[d][i])
  BY <1>2, ChargingTop DEF Electronic, Charging
<1>7. \A o \in Orders : Started(o) => Started(o)'
  BY <1>2 DEF Started
<1>8. QED
  BY <1>2, <1>4, <1>5, <1>6, <1>7, CallsPaid

\* Pops that find no page of a charge of the only order.
LEMMA PopPaid ==
    ASSUME IInv, DocsOK', OneDevice, PaidOnce, UNCHANGED <<order, issued, charges>>,
           \A f \in Offers : offer[f] # "none" => offer'[f] # "none",
           NEW d \in Devices, NEW n \in Nat, NEW q, Pop(d, n, q),
           \/ q = queue[d]
           \/ queue[d] # <<>> /\ q = Tail(queue[d]) /\ Head(queue[d]).op # "start",
           \A o \in Orders : Electronic(o) /\ issued = {o} =>
              \A i \in DOMAIN nav[d] : ~Charging(nav[d][i])
    PROVE  PaidOnce'
<1>1. /\ DocsOK /\ queue[d] \in Seq(Write)
      /\ queue[d] # <<>> => Tail(queue[d]) \in Seq(Write) /\ Head(queue[d]) = queue[d][1]
  BY HeadType DEF IInv, DocsOK
<1>2. q \in Seq(Write)
  BY <1>1
<1>3. NoNewCharge(d)
  BY <1>1, <1>2, PopCharges
<1>4. \A o \in Orders : (Started(o) => Started(o)') /\ (Electronic(o)' => Electronic(o))
  BY DEF Started, Electronic
<1>5. CASE q = queue[d]
  <2>1. QueueStep(d, 0, {}) /\ Keeps(d, 0)
    BY <1>1, <1>2, <1>5, PopEffect, PopKeeps
  <2>2. QED
    BY <1>3, <1>4, <2>1, CallsPaid
<1>6. CASE queue[d] # <<>> /\ q = Tail(queue[d]) /\ Head(queue[d]).op # "start"
  <2>1. QueueStep(d, 1, {}) /\ Keeps(d, 1)
    BY <1>1, <1>2, <1>6, PopEffect, PopKeeps
  <2>2. queue[d][1].op # "start"
    BY <1>1, <1>6
  <2>3. QED
    BY <1>3, <1>4, <2>1, <2>2, CallsPaid
<1>7. QED
  BY <1>5, <1>6

\* The back button leaves no page of a charge, unless its result may be lost.
LEMMA BackPaid ==
    ASSUME IInv, DocsOK', OneDevice, PaidOnce, "lostResult" \notin Faults,
           NEW d \in Devices, Back(d)
    PROVE  PaidOnce'
<1>1. /\ Pop(d, 1, queue[d]) /\ UNCHANGED <<order, offer, issued, charges>>
      /\ ~(Top(d).page = "payment" /\ Top(d).busy)
  BY DEF Back
<1>2. \A o \in Orders : Electronic(o) /\ issued = {o} =>
         \A i \in DOMAIN nav[d] : ~Charging(nav[d][i])
  BY <1>1, ChargingTop DEF Charging
<1>3. QED
  BY <1>1, <1>2, PopPaid

\* What a tap does.
LEMMA TapPaid ==
    ASSUME IInv, DocsOK', OneDevice, PaidOnce, "lostResult" \notin Faults,
           NEW d \in Devices, Tap(d)
    PROVE  PaidOnce'
<1>1. CASE OpenForm(d)
  <2>1. PICK r : r = Plain("form")
    OBVIOUS
  <2>2. Browse(d, r) /\ nav[d] # <<>> /\ Top(d).page = "home" /\ r.page = "form"
    BY <1>1, <2>1 DEF OpenForm, On, Plain, Screen
  <2>3. QED
    BY <2>2, PushPaid
<1>2. ASSUME NEW o \in Orders, OpenOrder(d, o)
      PROVE  PaidOnce'
  <2>1. PICK r : r = Screen("order", o, ViewOrder(d, o), NoOffer)
    OBVIOUS
  <2>2. Browse(d, r) /\ nav[d] # <<>> /\ Top(d).page = "home" /\ r.page = "order"
    BY <1>2, <2>1 DEF OpenOrder, On, Screen
  <2>3. QED
    BY <2>2, PushPaid
<1>3. ASSUME NEW f \in Offers, ShowOffer(d, f)
      PROVE  PaidOnce'
  <2>1. PICK r : r = Screen("sheet", Top(d).order, Top(d).snap, f)
    OBVIOUS
  <2>2. Browse(d, r) /\ nav[d] # <<>> /\ Top(d).page = "order" /\ r.page = "sheet"
    BY <1>3, <2>1 DEF ShowOffer, On, Screen
  <2>3. QED
    BY <2>2, PushPaid
<1>4. CASE AskCancel(d)
  <2>1. PICK r : r = Screen("dialog", Top(d).order, Top(d).snap, NoOffer)
    OBVIOUS
  <2>2. Browse(d, r) /\ nav[d] # <<>> /\ Top(d).page = "order" /\ r.page = "dialog"
    BY <1>4, <2>1 DEF AskCancel, On, Screen
  <2>3. QED
    BY <2>2, PushPaid
<1>5. CASE AcceptOfferCash(d)
  <2>1. PICK n : n = Call(AcceptsWith, Top(d).order, Top(d).offer, "cash", Len(nav[d]))
    OBVIOUS
  <2>2. /\ nav[d] # <<>> /\ Top(d).page = "sheet" /\ queue' = [queue EXCEPT ![d] = Append(@, n)]
        /\ UNCHANGED <<order, offer, issued, nav, charges>>
    BY <1>5, <2>1 DEF AcceptOfferCash, On
  <2>3. /\ Top(d) \in Route /\ SoundRoute(Top(d)) /\ Len(nav[d]) \in Nat
    BY <2>2, TopSound, TopType
  <2>4. n \in Write
    BY <2>1, <2>2, <2>3, CallType DEF AcceptsWith, Call, PaymentOption, Route
  <2>5. QED
    BY <2>2, <2>4, QueuedPaid
<1>6. CASE CancelOrder(d)
  <2>1. PICK n : n = Call("cancel", Top(d).order, Top(d).snap.offerId,
                          Top(d).snap.paymentOption, Len(nav[d]) - 1)
    OBVIOUS
  <2>2. /\ nav[d] # <<>> /\ Top(d).page = "dialog" /\ queue' = [queue EXCEPT ![d] = Append(@, n)]
        /\ UNCHANGED <<order, offer, issued, nav, charges>>
    BY <1>6, <2>1 DEF CancelOrder, On
  <2>3. Top(d) \in Route /\ Len(nav[d]) \in Nat \ {0}
    BY <2>2, TopSound, TopType
  <2>4. Top(d).order \in Orders /\ Top(d).snap \in OrderDoc /\ Len(nav[d]) - 1 \in Nat
    BY <2>2, <2>3 DEF Route
  <2>5. n \in Write
    BY <2>1, <2>4, CallType DEF OrderDoc, Call
  <2>6. QED
    BY <2>2, <2>5, QueuedPaid
<1>7. QED
  BY <1>1, <1>2, <1>3, <1>4, <1>5, <1>6, PayPaid, BackPaid, SendOrderPaid DEF Tap

\* The charge: no other one was made for the only order.
LEMMA CapturedPaid ==
    ASSUME IInv, DocsOK', OneDevice, OneAtATime, PaidOnce, NEW d \in Devices, PaymentCaptured(d)
    PROVE  PaidOnce'
<1>1. PICK g : g = Top(d).offer
  OBVIOUS
<1>2. /\ nav[d] # <<>> /\ Top(d).page = "payment" /\ ~Top(d).busy
      /\ charges' = [charges EXCEPT ![g] = charges[g] + 1]
      /\ nav' = [nav EXCEPT ![d][Len(nav[d])].busy = TRUE]
      /\ UNCHANGED <<order, offer, issued, queue>>
  BY <1>1 DEF PaymentCaptured, On
<1>3. /\ DocsOK /\ Top(d) \in Route /\ SoundRoute(Top(d)) /\ Len(nav[d]) \in DOMAIN nav[d]
      /\ g \in Offers /\ offer[g] # "none" /\ charges \in [Offers -> Nat]
  <2>1. /\ DocsOK /\ Top(d) \in Route /\ SoundRoute(Top(d)) /\ Len(nav[d]) \in DOMAIN nav[d]
    BY <1>2, TopSound
  <2>2. QED
    BY <1>1, <1>2, <2>1 DEF Route, SoundRoute, DocsOK
<1>4. \A f \in Offers : charges'[f] > 0 => offer'[f] # "none"
  BY <1>2, <1>3 DEF PaidOnce
<1>5. /\ \A e \in Devices : e = d /\ DOMAIN nav'[d] = DOMAIN nav[d]
      /\ \A i \in DOMAIN nav[d] : /\ nav'[d][i].page = nav[d][i].page
                                  /\ i # Len(nav[d]) => nav'[d][i] = nav[d][i]
  BY <1>2, <1>3, BusyEffect DEF OneDevice
<1>6. Len(nav'[d]) = Len(nav[d]) /\ Charging(nav'[d][Len(nav[d])])
  <2>1. nav[d] \in Seq(Route) /\ nav'[d] \in Seq(Route) /\ nav \in [Devices -> Seq(Route)]
    BY <1>3 DEF DocsOK
  <2>2. Len(nav'[d]) = Len(nav[d])
    BY <1>5, <2>1
  <2>3. nav'[d][Len(nav[d])] = [Top(d) EXCEPT !.busy = TRUE]
    BY <1>2, <1>3, <2>1 DEF Top
  <2>4. QED
    BY <1>2, <1>3, <2>2, <2>3 DEF Charging, Route
<1>7. ASSUME NEW o \in Orders, Electronic(o)', issued' = {o}
      PROVE  /\ \A i \in DOMAIN nav'[d] : Charging(nav'[d][i]) => i = Len(nav'[d])
             /\ \A f, h \in Offers :
                   charges'[f] <= 1 /\ (charges'[f] > 0 /\ charges'[h] > 0 => f = h)
             /\ \E i \in DOMAIN nav'[d] : Charging(nav'[d][i])
  <2>1. Electronic(o) /\ issued = {o}
    BY <1>2, <1>7 DEF Electronic
  <2>2. \A i \in DOMAIN nav[d] : ~Charging(nav[d][i])
    BY <1>2, <2>1, ChargingTop DEF Charging
  <2>3. OrderOf[g] = o
    BY <1>3, <2>1, OrderOfAssumption DEF IInv, PendingWorkIsSound
  <2>4. Choosing(Top(d), o)
    BY <1>1, <1>2, <2>3 DEF Choosing
  <2>5. ~Started(o) /\ ~Awaits(d, "start", o)
    BY <1>2, <1>3, <2>1, <2>4, TopChoosing DEF Acceptance
  <2>6. \A f \in Offers : ~(charges[f] > 0)
    BY <2>1, <2>2, <2>5 DEF PaidOnce
  <2>7. \A f \in Offers : charges[f] = 0
    BY <1>3, <2>6
  <2>8. \A f \in Offers : charges'[f] = IF f = g THEN 1 ELSE 0
    BY <1>2, <1>3, <2>7
  <2>9. \A i \in DOMAIN nav'[d] : Charging(nav'[d][i]) => i = Len(nav'[d])
    BY <1>5, <1>6, <2>2
  <2>10. QED
    BY <1>3, <1>5, <1>6, <2>8, <2>9
<1>8. QED
  BY <1>4, <1>5, <1>7 DEF PaidOnce, Charging

\* The paid branch: the start write takes the place of the page.
LEMMA PaidBranchPaid ==
    ASSUME IInv, DocsOK', OneDevice, PaidOnce, NEW d \in Devices, OnPaymentPaid(d)
    PROVE  PaidOnce'
<1>1. PICK n : n = Call(AcceptsWith, OrderOf[Top(d).offer], Top(d).offer, "electronic",
                        Len(nav[d]) - 1 + 1)
  OBVIOUS
<1>2. /\ DocsOK /\ nav[d] \in Seq(Route) /\ queue[d] \in Seq(Write)
      /\ UNCHANGED <<order, offer, issued, charges>>
  BY DEF IInv, DocsOK, OnPaymentPaid
<1>3. /\ QueueStep(d, 0, {n}) /\ NavStep(d, Len(nav[d]) - 1, {}) /\ Len(nav[d]) - 1 \in Nat
      /\ Top(d).page = "payment" /\ nav[d] # <<>> /\ Top(d).offer \in Offers /\ n \in Write
      /\ n.op = "start" /\ n.order = OrderOf[Top(d).offer]
  BY <1>1, <1>2, PaidNav
<1>4. PICK s : s = Popped(nav[d], 1) \o <<Plain("result"), Plain("result")>>
  OBVIOUS
<1>5. Show(d, s, Len(nav[d]) - 1, Append(queue[d], n)) /\ Append(queue[d], n) \in Seq(Write)
  BY <1>1, <1>2, <1>3, <1>4 DEF OnPaymentPaid
<1>6. /\ nav'[d] = s /\ DOMAIN queue'[d] = DOMAIN Append(queue[d], n)
      /\ \A i \in DOMAIN Append(queue[d], n) : SameCall(queue'[d][i], Append(queue[d], n)[i])
  <2>1. Len(nav[d]) - 1 \in Nat /\ Append(queue[d], n) \in Seq(Write) /\ DocsOK
    BY <1>2, <1>3, <1>5
  <2>2. Show(d, s, Len(nav[d]) - 1, Append(queue[d], n))
    BY <1>5
  <2>3. QED
    BY <2>1, <2>2, ShowEffect, Zenon
<1>7. Keeps(d, 0)
  BY <1>2, <1>3, <1>5, ShowKeeps
<1>8. Awaits(d, "start", n.order)'
  <2>1. /\ Len(queue[d]) + 1 \in DOMAIN Append(queue[d], n)
        /\ Append(queue[d], n)[Len(queue[d]) + 1] = n
    BY <1>2
  <2>2. SameCall(queue'[d][Len(queue[d]) + 1], n) /\ Len(queue[d]) + 1 \in DOMAIN queue'[d]
    BY <1>6, <2>1
  <2>3. QED
    BY <1>3, <2>2 DEF Awaits, SameCall
<1>9. \A i \in DOMAIN nav'[d] :
         Charging(nav'[d][i]) => i \in DOMAIN nav[d] /\ i # Len(nav[d]) /\ Charging(nav[d][i])
  BY <1>2, PaidCharges DEF NoNewCharge
<1>10. NoNewCharge(d)
  BY <1>2, PaidCharges
<1>11. ASSUME NEW o \in Orders, Electronic(o)', issued' = {o}
       PROVE  Electronic(o) /\ issued = {o} /\ StaysPaid(d, o)
  <2>1. Electronic(o) /\ issued = {o}
    BY <1>2, <1>11 DEF Electronic
  <2>2. Awaits(d, "start", o) => Awaits(d, "start", o)' \/ Started(o)'
    <3>1. 0 \in {0, 1} /\ ~(0 = 1)
      OBVIOUS
    <3>2. QED
      BY <1>2, <1>3, <1>7, <3>1, StartKept
  <2>3. ASSUME NEW i \in DOMAIN nav[d], Charging(nav[d][i])
        PROVE  Awaits(d, "start", o)' /\ \A j \in DOMAIN nav'[d] : ~Charging(nav'[d][j])
    <3>1. n.order = o
      <4>1. offer[Top(d).offer] # "none"
        BY <1>3, TopSound DEF SoundRoute
      <4>2. OrderOf[Top(d).offer] \in issued
        BY <1>3, <4>1, OrderOfAssumption DEF IInv, PendingWorkIsSound
      <4>3. QED
        BY <1>3, <2>1, <4>2
    <3>2. \A j \in DOMAIN nav[d] : Charging(nav[d][j]) => j = Len(nav[d])
      BY <2>1 DEF PaidOnce
    <3>3. QED
      BY <1>8, <1>9, <3>1, <3>2
  <2>4. Started(o) => Started(o)'
    BY <1>2 DEF Started
  <2>5. QED
    BY <2>1, <2>2, <2>3, <2>4 DEF StaysPaid
<1>12. QED
  BY <1>2, <1>10, <1>11, PaidKept

\* Another result: the page was not charged.
LEMMA OtherPaid ==
    ASSUME IInv, DocsOK', OneDevice, PaidOnce, "lostResult" \notin Faults,
           NEW d \in Devices, OnPaymentOther(d)
    PROVE  PaidOnce'
<1> DEFINE s == Append([nav[d] EXCEPT ![Len(nav[d])].busy = FALSE], Plain("result"))
<1>1. /\ nav[d] # <<>> /\ queue[d] \in Seq(Write) /\ Len(nav[d]) \in Nat /\ DocsOK
      /\ Show(d, s, Len(nav[d]), queue[d]) /\ ~Top(d).busy
      /\ UNCHANGED <<order, offer, issued, charges>>
  BY DEF OnPaymentOther, On, IInv, DocsOK
<1>2. NoNewCharge(d)
  BY <1>1, OtherCharges
<1>3. QueueStep(d, 0, {}) /\ Keeps(d, 0)
  BY <1>1, ShowKeeps, ShowQueue
<1>4. \A o \in Orders : Electronic(o)' /\ issued = {o} =>
         Electronic(o) /\ \A i \in DOMAIN nav[d] : ~Charging(nav[d][i])
  BY <1>1, ChargingTop DEF Electronic, Charging
<1>5. \A o \in Orders : Started(o) => Started(o)'
  BY <1>1 DEF Started
<1>6. QED
  BY <1>1, <1>2, <1>3, <1>4, <1>5, CallsPaid

\* What the gateway does.
LEMMA GatewayPaid ==
    ASSUME IInv, DocsOK', OneDevice, OneAtATime, PaidOnce, "lostResult" \notin Faults,
           NEW d \in Devices, Gateway(d)
    PROVE  PaidOnce'
BY CapturedPaid, PaidBranchPaid, OtherPaid DEF Gateway

\* The new order's create is acknowledged: there was no offer to pay for.
LEMMA AckCreatePaid ==
    ASSUME IInv, DocsOK', OneDevice, PaidOnce, NEW d \in Devices, AckCreate(d)
    PROVE  PaidOnce'
<1>1. PICK w : w = Head(queue[d])
  OBVIOUS
<1>2. /\ queue[d] # <<>> /\ w.op = "create" /\ ShowSent(d, w) /\ UNCHANGED <<offer, issued, charges>>
      /\ order' = [order EXCEPT ![w.order] = NewOrder(w.paymentOption)]
  BY <1>1 DEF AckCreate, Ready
<1>3. /\ DocsOK /\ SoundWrite(w) /\ w.order \in Orders /\ Tail(queue[d]) \in Seq(Write)
  BY <1>1, <1>2, HeadSound, HeadType DEF DocsOK
<1>4. NoNewCharge(d)
  BY <1>1, <1>2, <1>3, SentCharges
<1>5. ASSUME NEW o \in Orders, issued' = {o}, NEW f \in Offers, offer[f] # "none"
      PROVE  FALSE
  <2>1. w.order = o /\ ~Exists(w.order)
    BY <1>2, <1>3, <1>5 DEF SoundWrite
  <2>2. OrderOf[f] \in issued /\ Exists(OrderOf[f])
    BY <1>5, OrderOfAssumption DEF IInv, PendingWorkIsSound
  <2>3. QED
    BY <1>2, <1>5, <2>1, <2>2
<1>6. QED
  BY <1>2, <1>4, <1>5, PaidKept

\* An update of the order.
LEMMA AckOrderPaid ==
    ASSUME IInv, DocsOK', OneDevice, PaidOnce, NEW d \in Devices,
           AckStart(d) \/ AckChoose(d) \/ AckCancel(d)
    PROVE  PaidOnce'
<1>1. PICK w : w = Head(queue[d])
  OBVIOUS
<1>2. PICK n : n = [w EXCEPT !.op = Following(w)]
  OBVIOUS
<1>3. PICK N : N = {x \in {n} : Following(w) # "end"}
  OBVIOUS
<1>4. /\ queue[d] # <<>> /\ Continue(d, w) /\ UNCHANGED <<offer, issued, nav, charges>>
      /\ \/ w.op = "start" /\ order' = [order EXCEPT ![w.order].status = "inProgress"]
         \/ w.op = "choose" /\ order' = [order EXCEPT ![w.order].offerId = w.offer]
         \/ w.op = "cancel" /\ order' = [order EXCEPT ![w.order].status = "cancelled"]
  BY <1>1 DEF AckStart, AckChoose, AckCancel, Ready
<1>5. /\ DocsOK /\ w.order \in Orders /\ w = queue[d][1] /\ order \in [Orders -> OrderDoc]
  BY <1>1, <1>4, HeadSound DEF DocsOK
<1>6. QueueStep(d, 1, N) /\ Keeps(d, 1)
  BY <1>1, <1>2, <1>3, <1>4, <1>5, ContinueQueue, ContinueKeeps
<1>7. NoNewCharge(d)
  BY <1>4 DEF NoNewCharge
<1>8. \A o \in Orders : (Started(o) => Started(o)') /\ (Electronic(o)' => Electronic(o))
  BY <1>4, <1>5 DEF Started, Electronic, OrderDoc
<1>9. w.op = "start" => order'[w.order].status = "inProgress"
  BY <1>4, <1>5 DEF OrderDoc
<1>10. QED
  BY <1>4, <1>5, <1>6, <1>7, <1>8, <1>9, CallsPaid

\* An update of the offer: the two pops that follow find no page of a charge, for
\* the order's acceptance or cancellation leaves none.
LEMMA AckOfferPaid ==
    ASSUME IInv, DocsOK', OneDevice, NothingReopens, OneAtATime, PaidOnce, NEW d \in Devices,
           AckAccept(d) \/ AckWithdraw(d)
    PROVE  PaidOnce'
<1>1. PICK w : w = Head(queue[d])
  OBVIOUS
<1>2. /\ queue[d] # <<>> /\ w.op \in {"accept", "withdraw"} /\ PopBoth(d, w)
      /\ UNCHANGED <<order, issued, charges>>
      /\ \E s \in {"accepted", "orderCancelled"} : offer' = [offer EXCEPT ![w.offer] = s]
  BY <1>1 DEF AckAccept, AckWithdraw, Ready
<1>3. /\ DocsOK /\ SoundWrite(w) /\ w.order \in Orders /\ w = queue[d][1]
      /\ offer \in [Offers -> OfferStatus] /\ 1 \in DOMAIN queue[d]
  <2>1. DocsOK /\ SoundWrite(w) /\ w.order \in Orders /\ w = queue[d][1]
    BY <1>1, <1>2, HeadSound
  <2>2. queue[d] \in Seq(Write)
    BY <2>1 DEF DocsOK
  <2>3. QED
    BY <1>2, <2>1, <2>2 DEF DocsOK
<1>4. PICK k \in Nat : Pop(d, k, Tail(queue[d]))
  BY <1>2 DEF PopBoth
<1>5. ASSUME NEW o \in Orders, Electronic(o), issued = {o}, NEW i \in DOMAIN nav[d],
             Charging(nav[d][i])
      PROVE  FALSE
  <2>1. w.order = o
    BY <1>3, <1>5 DEF SoundWrite
  <2>2. ~NoneChoosing(d, o)
    <3>1. nav[d] # <<>> /\ Choosing(Top(d), o)
      BY <1>5, ChargingTop
    <3>2. Len(nav[d]) \in DOMAIN nav[d] /\ Top(d) = nav[d][Len(nav[d])]
      BY <1>3, <3>1, TopType DEF Top
    <3>3. QED
      BY <3>1, <3>2 DEF NoneChoosing
  <2>3. CASE w.op = "accept"
    <3>1. Awaits(d, "accept", o)
      BY <1>3, <2>1, <2>3 DEF Awaits
    <3>2. QED
      BY <1>5, <2>2, <3>1 DEF OneAtATime, AcceptedOnce, Acceptance
  <2>4. CASE w.op = "withdraw"
    <3>1. order[o].status = "cancelled"
      BY <1>3, <2>1, <2>4 DEF OneAtATime, CancelsInOrder
    <3>2. QED
      BY <2>2, <3>1 DEF NothingReopens
  <2>5. QED
    BY <1>2, <2>3, <2>4
<1>6. \A f \in Offers : offer[f] # "none" => offer'[f] # "none"
  BY <1>2, <1>3
<1>7. Head(queue[d]).op # "start"
  BY <1>1, <1>2
<1>8. QED
  BY <1>2, <1>4, <1>5, <1>6, <1>7, PopPaid

\* A provider's offer.
LEMMA MakeOfferPaid ==
    ASSUME IInv, DocsOK', OneDevice, PaidOnce, NEW f \in Offers, MakeOffer(f)
    PROVE  PaidOnce'
<1>1. PICK d \in Devices : TRUE
  BY DevicesAssumption
<1>2. /\ offer' = [offer EXCEPT ![f] = "pending"] /\ UNCHANGED <<order, issued, queue, nav, charges>>
  BY DEF MakeOffer
<1>3. DocsOK /\ offer \in [Offers -> OfferStatus] /\ queue[d] \in Seq(Write)
  BY DEF IInv, DocsOK
<1>4. QueueStep(d, 0, {}) /\ Keeps(d, 0) /\ NoNewCharge(d)
  BY <1>2, <1>3 DEF QueueStep, SameCall, Keeps, NoNewCharge
<1>5. \A o \in Orders : (Started(o) => Started(o)') /\ (Electronic(o)' => Electronic(o))
  BY <1>2 DEF Started, Electronic
<1>6. \A g \in Offers : offer[g] # "none" => offer'[g] # "none"
  BY <1>2, <1>3
<1>7. QED
  BY <1>2, <1>4, <1>5, <1>6, CallsPaid

\* Every step keeps the only order's charges.
LEMMA StepPaidOnce ==
    ASSUME Faults = {}, OneDevice
    PROVE  IInv /\ NothingReopens /\ OneAtATime /\ PaidOnce /\ TypeOK /\ [Next]_vars => PaidOnce'
<1>1. SUFFICES ASSUME IInv, NothingReopens, OneAtATime, PaidOnce, TypeOK, [Next]_vars
               PROVE  PaidOnce'
  OBVIOUS
<1>2. DocsOK' /\ AnswersInTime /\ NoneRejected
  BY <1>1, StepDocs DEF AnswersInTime, NoneRejected
<1>3. CASE UNCHANGED vars
  BY <1>1, <1>3 DEF vars, PaidOnce, Electronic, Started, Awaits
<1>4. CASE \E f \in Offers : MakeOffer(f)
  BY <1>1, <1>2, <1>4, MakeOfferPaid
<1>5. ASSUME NEW d \in Devices, Tap(d) \/ Gateway(d) \/ Ack(d)
      PROVE  PaidOnce'
  BY <1>1, <1>2, <1>5, TapPaid, GatewayPaid, AckCreatePaid, AckOrderPaid, AckOfferPaid DEF Ack
<1>6. \A d \in Devices : ~Unanswered(d) /\ ~Reject(d) /\ ~Kill(d)
  BY <1>1, <1>2, NeverRejected DEF Unanswered, Kill, TypeOK
<1>7. QED
  BY <1>1, <1>3, <1>4, <1>5, <1>6 DEF Next, Answered

\* And so it is when the app starts.
LEMMA InitPaidOnce == Init => PaidOnce
<1>1. SUFFICES ASSUME Init PROVE PaidOnce
  OBVIOUS
<1>2. issued = {} /\ \A f \in Offers : charges[f] = 0
  BY <1>1 DEF Init
<1>3. QED
  BY <1>2 DEF PaidOnce

\* One device charges for its only order once, and what it charged is answered by
\* a start write.
THEOREM PaidOnceOrders ==
    ASSUME Faults = {}, OneDevice
    PROVE  Spec => []PaidOnce
<1>1. AnswersInTime /\ NoneRejected
  BY DEF AnswersInTime, NoneRejected
<1>2. IInv /\ TypeOK /\ [Next]_vars => IInv'
  BY <1>1, StepSafe
<1>3. IInv /\ NothingReopens /\ OneAtATime /\ PaidOnce /\ TypeOK /\ [Next]_vars => PaidOnce'
  BY StepPaidOnce
<1>4. Spec => []NothingReopens
  BY <1>1, NothingReopensOrders
<1>5. Spec => []OneAtATime
  BY <1>1, OneAtATimeOrders
<1>6. QED
  BY <1>2, <1>3, <1>4, <1>5, InitSafe, InitPaidOnce, TypeCorrect, PTL DEF Spec

\* An electronic order is accepted once on one device without faults, and charged
\* once if it is the only order: ElectronicOnce.
THEOREM ElectronicOrdersOnce ==
    ASSUME Faults = {}, OneDevice
    PROVE  Spec => []ElectronicOnce
<1>1. OneAtATime /\ PaidOnce => ElectronicOnce
  <2>1. ASSUME OneAtATime, PaidOnce, NEW o \in Orders, Electronic(o), NEW f \in Offers,
               NEW g \in Offers, OrderOf[f] = o, OrderOf[g] = o
        PROVE  /\ issued = {o} => charges[f] <= 1
               /\ (issued = {o} /\ charges[f] > 0 /\ charges[g] > 0) => f = g
               /\ (offer[f] = "accepted" /\ offer[g] = "accepted") => f = g
    <3>1. PICK d \in Devices : TRUE
      BY DevicesAssumption
    <3>2. (offer[f] = "accepted" /\ offer[g] = "accepted") => f = g
      BY <2>1, <3>1 DEF OneAtATime, AcceptedOnce
    <3>3. issued = {o} => charges[f] <= 1 /\ (charges[f] > 0 /\ charges[g] > 0 => f = g)
      BY <2>1, <3>1 DEF PaidOnce
    <3>4. QED
      BY <3>2, <3>3
  <2>2. QED
    BY <2>1 DEF ElectronicOnce, Electronic
<1>2. AnswersInTime /\ NoneRejected
  BY DEF AnswersInTime, NoneRejected
<1>3. Spec => []OneAtATime
  BY <1>2, OneAtATimeOrders
<1>4. Spec => []PaidOnce
  BY PaidOnceOrders
<1>5. QED
  BY <1>1, <1>3, <1>4, PTL

-----------------------------------------------------------------------------
(* Any number of devices: a settled order stays cancelled *)

\* A step of a device leaves the stacks of the others alone.
LEMMA OnlyItsStack ==
    ASSUME DocsOK, NEW d \in Devices,
           Tap(d) \/ Gateway(d) \/ Ack(d) \/ Reject(d) \/ Kill(d) \/ Unanswered(d)
    PROVE  \A e \in Devices \ {d} : nav'[e] = nav[e]
<1>1. nav \in [Devices -> Seq(Route)]
  BY DEF DocsOK
<1>2. CASE \E s : nav' = [nav EXCEPT ![d] = s]
  BY <1>1, <1>2
<1>3. CASE nav' = nav
  BY <1>3
<1>4. CASE Tap(d)
  BY <1>1, <1>2, <1>3, <1>4
     DEF Tap, OpenForm, AskCancel, Back, AcceptOfferCash, AcceptOfferElectronic, CancelOrder,
         OpenOrder, ShowOffer, SendOrder, Browse, Push, Pop, Show
<1>5. CASE Gateway(d)
  BY <1>1, <1>2, <1>3, <1>5
     DEF Gateway, PaymentCaptured, OnPaymentPaid, OnPaymentOther, Show
<1>6. CASE Ack(d) \/ Reject(d) \/ Kill(d)
  BY <1>1, <1>2, <1>3, <1>6
     DEF Ack, AckCreate, AckStart, AckChoose, AckAccept, AckCancel, AckWithdraw, Reject, Kill,
         ShowSent, PopBoth, Pop, Show
<1>7. CASE Unanswered(d)
  BY <1>1, <1>2, <1>3, <1>7
     DEF Unanswered, ApplyAhead, Answer, Reconnect, ShowSent, PopBoth, Pop, Show
<1>. QED BY <1>4, <1>5, <1>6, <1>7

\* The page on top and the oldest write of a device.
LEMMA TopApart ==
    ASSUME DocsOK, NEW T, Apart(T), NEW d \in Devices
    PROVE  /\ nav[d] # <<>> => PageApart(Top(d), T) /\ Top(d) \in Route
           /\ queue[d] # <<>> => /\ Head(queue[d]).order \in issued \ T
                                 /\ Head(queue[d]).order \in Orders /\ Head(queue[d]) \in Write
<1>1. nav[d] # <<>> => Len(nav[d]) \in DOMAIN nav[d] /\ Top(d) \in Route
  BY TopType
<1>2. queue[d] # <<>> => /\ 1 \in DOMAIN queue[d] /\ Head(queue[d]) = queue[d][1]
                         /\ Head(queue[d]) \in Write /\ Head(queue[d]).order \in Orders
  <2>1. queue[d] \in Seq(Write)
    BY DEF DocsOK
  <2>. QED BY <2>1 DEF Write
<1>. QED BY <1>1, <1>2 DEF Apart, Top

\* What keeps the orders T apart: new writes and pages of other orders.
LEMMA ApartKept ==
    ASSUME DocsOK, DocsOK', NEW T \in SUBSET Orders, Apart(T), issued \subseteq issued',
           NEW d \in Devices, \A e \in Devices \ {d} : nav'[e] = nav[e],
           NEW k \in {0, 1}, NEW N, QueueStep(d, k, N),
           \A n \in N : n.order \in issued' \ T,
           NEW m \in Nat, NEW R, NavStep(d, m, R), \A r \in R : PageApart(r, T)',
           \A o \in Orders : order'[o] = order[o] \/ o \in issued \ T
    PROVE  Apart(T)'
<1>1. \A o \in Orders : Exists(o)' => o \in issued'
  BY DEF Apart, Exists
<1>2. \A o \in T : order'[o].status = "cancelled"
  BY DEF Apart
<1>3. ASSUME NEW e \in Devices, NEW i \in DOMAIN queue'[e]
      PROVE  queue'[e][i].order \in issued' \ T
  <2>1. CASE e = d
    BY <1>3, <2>1 DEF QueueStep, SameCall, Apart
  <2>2. CASE e # d
    BY <1>3, <2>2 DEF QueueStep, Apart
  <2>. QED BY <2>1, <2>2
<1>4. \A r, s : PageApart(r, T) /\ SamePage(s, r) => PageApart(s, T)'
  BY DEF PageApart, SamePage
<1>5. ASSUME NEW e \in Devices, NEW i \in DOMAIN nav'[e]
      PROVE  PageApart(nav[e][i], T)'
  <2>1. PICK r : r = nav'[e][i]
    OBVIOUS
  <2>2. PageApart(r, T)'
    <3>1. CASE i \in DOMAIN nav[e] /\ SamePage(r, nav[e][i])
      BY <1>4, <3>1 DEF Apart
    <3>2. CASE r.page \in {"form", "result", "home"}
      BY <3>2 DEF PageApart
    <3>3. CASE r \in R
      BY <3>3
    <3>4. e # d => i \in DOMAIN nav[e] /\ SamePage(r, nav[e][i])
      BY <1>5, <2>1 DEF SamePage
    <3>5. e = d => \/ i \in DOMAIN nav[e] /\ SamePage(r, nav[e][i])
                   \/ r.page \in {"form", "result", "home"}
                   \/ r \in R
      <4>1. i \in Nat /\ (m \in Nat => i <= m \/ i > m)
        BY <1>5 DEF DocsOK
      <4>. QED BY <1>5, <2>1, <4>1 DEF NavStep
    <3>. QED BY <3>1, <3>2, <3>3, <3>4, <3>5
  <2>. QED BY <2>1, <2>2 DEF PageApart
<1>. QED BY <1>1, <1>2, <1>3, <1>5 DEF Apart

\* A step that adds no write and no page of an order.
LEMMA ApartStill ==
    ASSUME DocsOK, DocsOK', NEW T \in SUBSET Orders, Apart(T), UNCHANGED issued,
           NEW d \in Devices, \A e \in Devices \ {d} : nav'[e] = nav[e],
           NEW k \in {0, 1}, QueueStep(d, k, {}), NEW m \in Nat, NavStep(d, m, {}),
           \A o \in Orders : order'[o] = order[o] \/ o \in issued \ T
    PROVE  Apart(T)'
BY ApartKept

\* A tap: a cancelled order that nothing is pending for is shown as cancelled,
\* and such a page leads nowhere.
LEMMA TapApart ==
    ASSUME DocsOK, DocsOK', NEW T \in SUBSET Orders, Apart(T), NEW d \in Devices, Tap(d)
    PROVE  Apart(T)'
<1>1. /\ \A e \in Devices \ {d} : nav'[e] = nav[e]
      /\ Len(nav[d]) \in Nat /\ order' = order /\ issued \subseteq issued'
  <2>1. \A e \in Devices \ {d} : nav'[e] = nav[e]
    BY OnlyItsStack
  <2>2. Len(nav[d]) \in Nat
    BY DEF DocsOK
  <2>3. order' = order /\ issued \subseteq issued'
    BY DEF Tap, OpenForm, AskCancel, Back, AcceptOfferCash, AcceptOfferElectronic,
           CancelOrder, OpenOrder, ShowOffer, SendOrder, Browse
  <2>. QED BY <2>1, <2>2, <2>3
<1>2. nav[d] # <<>> => PageApart(Top(d), T) /\ Top(d) \in Route
  BY TopApart
<1>3. \A o \in T : Exists(o) /\ o \in issued
  BY DEF Apart, Exists
<1>4. ASSUME NEW r, Browse(d, r), PageApart(r, T) PROVE Apart(T)'
  <2>1. Push(d, r) /\ UNCHANGED issued
    BY <1>4 DEF Browse
  <2>2. QueueStep(d, 0, {}) /\ NavStep(d, Len(nav[d]), {r})
    BY <2>1, PushEffect
  <2>3. \A s \in {r} : PageApart(s, T)'
    BY <1>4, <2>1 DEF PageApart
  <2>. QED BY <1>1, <2>2, <2>3, ApartKept
<1>5. ASSUME NEW n \in Write, queue' = [queue EXCEPT ![d] = Append(@, n)],
             n.order \in issued' \ T, NavStep(d, Len(nav[d]), {})
      PROVE  Apart(T)'
  <2>1. QueueStep(d, 0, {n})
    BY <1>5, EnqueueQueue
  <2>2. \A s \in {n} : s.order \in issued' \ T
    BY <1>5
  <2>. QED BY <1>1, <1>5, <2>1, <2>2, ApartKept
<1>6. CASE OpenForm(d)
  <2>1. PICK r : r = Plain("form")
    OBVIOUS
  <2>2. Browse(d, r) /\ PageApart(r, T)
    BY <1>6, <2>1 DEF OpenForm, PageApart, Plain, Screen
  <2>. QED BY <1>4, <2>2
<1>7. CASE AskCancel(d)
  <2>1. PICK r : r = Screen("dialog", Top(d).order, Top(d).snap, NoOffer)
    OBVIOUS
  <2>2. /\ Browse(d, r) /\ nav[d] # <<>> /\ Top(d).page = "order"
        /\ Top(d).snap.status = "inProgress"
    BY <1>7, <2>1 DEF AskCancel, On, Cancellable
  <2>3. PageApart(r, T)
    BY <1>2, <2>1, <2>2 DEF PageApart, Screen
  <2>. QED BY <1>4, <2>2, <2>3
<1>8. ASSUME NEW o \in Orders, OpenOrder(d, o) PROVE Apart(T)'
  <2>1. PICK r : r = Screen("order", o, ViewOrder(d, o), NoOffer)
    OBVIOUS
  <2>2. Browse(d, r) /\ ViewStatus(d, o) # "none"
    BY <1>8, <2>1 DEF OpenOrder
  <2>3. StatusWrites(d, o) = {} => ViewStatus(d, o) = order[o].status
    BY DEF ViewStatus, Newest
  <2>4. StatusWrites(d, o) # {} => o \in issued \ T
    BY DEF StatusWrites, Apart
  <2>5. o \in T \/ o \in issued \ T
    BY <2>2, <2>3, <2>4 DEF Apart, Exists
  <2>6. o \in T => ViewStatus(d, o) = "cancelled"
    BY <2>3, <2>4 DEF Apart
  <2>7. /\ r.page = "order" /\ r.order = o /\ r.snap = ViewOrder(d, o)
    BY <2>1 DEF Screen
  <2>8. r.snap.status = ViewStatus(d, o)
    BY <2>7 DEF ViewOrder
  <2>9. PageApart(r, T)
    BY <2>5, <2>6, <2>7, <2>8 DEF PageApart
  <2>. QED BY <1>4, <2>2, <2>9
<1>9. ASSUME NEW f \in Offers, ShowOffer(d, f) PROVE Apart(T)'
  <2>1. PICK r : r = Screen("sheet", Top(d).order, Top(d).snap, f)
    OBVIOUS
  <2>2. /\ Browse(d, r) /\ nav[d] # <<>> /\ Top(d).page = "order"
        /\ Top(d).snap.status = "awaitingOffers" /\ OrderOf[f] = Top(d).order
    BY <1>9, <2>1 DEF ShowOffer, On, Tappable, ListedForOrder
  <2>3. PageApart(r, T)
    BY <1>2, <2>1, <2>2 DEF PageApart, Screen
  <2>. QED BY <1>4, <2>2, <2>3
<1>10. CASE AcceptOfferElectronic(d)
  <2>1. PICK r : r = Screen("payment", NoOrder, NoDoc, Top(d).offer)
    OBVIOUS
  <2>2. PICK m : m = IF Len(nav[d]) > 2 THEN Len(nav[d]) - 2 ELSE 0
    OBVIOUS
  <2>3. nav[d] # <<>> /\ Top(d).page = "sheet" /\ UNCHANGED issued
    BY <1>10 DEF AcceptOfferElectronic, On
  <2>4. QueueStep(d, 0, {}) /\ NavStep(d, m, {r}) /\ m \in Nat
    BY <1>10, <2>1, <2>2, PayNav
  <2>5. \A s \in {r} : PageApart(s, T)'
    BY <1>2, <2>1, <2>3 DEF PageApart, Screen
  <2>. QED BY <1>1, <2>4, <2>5, ApartKept
<1>11. CASE AcceptOfferCash(d)
  <2>1. PICK n : n = Call(AcceptsWith, Top(d).order, Top(d).offer, "cash", Len(nav[d]))
    OBVIOUS
  <2>2. /\ nav[d] # <<>> /\ Top(d).page = "sheet" /\ UNCHANGED <<issued, nav>>
        /\ queue' = [queue EXCEPT ![d] = Append(@, n)]
    BY <1>11, <2>1 DEF AcceptOfferCash, On
  <2>3. Top(d).order \in Orders /\ Top(d).offer \in Offers /\ Top(d).order \in issued \ T
    BY <1>2, <2>2 DEF Route, PageApart
  <2>4. n \in Write /\ n.order = Top(d).order
    BY <1>1, <2>1, <2>3, CallType DEF AcceptsWith, Call, PaymentOption
  <2>. QED BY <1>5, <2>2, <2>3, <2>4, SameNav
<1>12. CASE CancelOrder(d)
  <2>1. PICK n : n = Call("cancel", Top(d).order, Top(d).snap.offerId,
                          Top(d).snap.paymentOption, Len(nav[d]) - 1)
    OBVIOUS
  <2>2. /\ nav[d] # <<>> /\ Top(d).page = "dialog" /\ UNCHANGED <<issued, nav>>
        /\ queue' = [queue EXCEPT ![d] = Append(@, n)]
    BY <1>12, <2>1 DEF CancelOrder, On
  <2>3. /\ Top(d).order \in Orders /\ Top(d).snap \in OrderDoc /\ Top(d).order \in issued \ T
        /\ Len(nav[d]) - 1 \in Nat
    BY <1>2, <2>2, TopType DEF Route, PageApart
  <2>4. n \in Write /\ n.order = Top(d).order
    BY <2>1, <2>3, CallType DEF OrderDoc, Call
  <2>. QED BY <1>5, <2>2, <2>3, <2>4, SameNav
<1>13. ASSUME NEW o \in Orders, NEW p \in PaymentOption, SendOrder(d, o, p) PROVE Apart(T)'
  <2>1. PICK n : n = Call("create", o, NoOffer, p, Len(nav[d]))
    OBVIOUS
  <2>2. /\ nav[d] # <<>> /\ issued' = issued \cup {o} /\ o \notin issued
        /\ queue' = [queue EXCEPT ![d] = Append(@, n)]
        /\ nav' = [nav EXCEPT ![d][Len(nav[d])].busy = TRUE]
    BY <1>13, <2>1 DEF SendOrder, On
  <2>3. n \in Write /\ n.order = o
    BY <1>1, <2>1, CallType DEF Call
  <2>4. n.order \in issued' \ T
    BY <1>3, <2>2, <2>3
  <2>. QED BY <1>5, <2>2, <2>3, <2>4, BusyNav
<1>14. CASE Back(d)
  <2>1. Pop(d, 1, queue[d]) /\ UNCHANGED issued /\ queue[d] \in Seq(Write)
    BY <1>14 DEF Back, DocsOK
  <2>2. QueueStep(d, 0, {}) /\ NavStep(d, Len(nav[d]), {})
    BY <2>1, PopEffect
  <2>. QED BY <1>1, <2>1, <2>2, ApartStill
<1>. QED BY <1>6, <1>7, <1>8, <1>9, <1>10, <1>11, <1>12, <1>13, <1>14 DEF Tap

\* The gateway.
LEMMA GatewayApart ==
    ASSUME DocsOK, DocsOK', NEW T \in SUBSET Orders, Apart(T), NEW d \in Devices, Gateway(d)
    PROVE  Apart(T)'
<1>1. /\ \A e \in Devices \ {d} : nav'[e] = nav[e]
      /\ Len(nav[d]) \in Nat /\ order' = order /\ issued' = issued
  <2>1. \A e \in Devices \ {d} : nav'[e] = nav[e]
    BY OnlyItsStack
  <2>2. Len(nav[d]) \in Nat
    BY DEF DocsOK
  <2>3. order' = order /\ issued' = issued
    BY DEF Gateway, PaymentCaptured, OnPaymentPaid, OnPaymentOther
  <2>. QED BY <2>1, <2>2, <2>3
<1>2. CASE PaymentCaptured(d)
  <2>1. QueueStep(d, 0, {})
    BY <1>2 DEF PaymentCaptured, QueueStep, SameCall, DocsOK
  <2>2. NavStep(d, Len(nav[d]), {})
    BY <1>2, BusyNav DEF PaymentCaptured, On
  <2>. QED BY <1>1, <2>1, <2>2, ApartStill
<1>3. CASE OnPaymentPaid(d)
  <2>1. PICK n : n = Call(AcceptsWith, OrderOf[Top(d).offer], Top(d).offer, "electronic",
                          Len(nav[d]) - 1 + 1)
    OBVIOUS
  <2>2. /\ QueueStep(d, 0, {n}) /\ NavStep(d, Len(nav[d]) - 1, {}) /\ Len(nav[d]) - 1 \in Nat
        /\ Top(d).page = "payment" /\ nav[d] # <<>> /\ n.order = OrderOf[Top(d).offer]
    BY <1>3, <2>1, PaidNav
  <2>3. PageApart(Top(d), T)
    BY <2>2, TopApart
  <2>4. \A s \in {n} : s.order \in issued' \ T
    BY <1>1, <2>2, <2>3 DEF PageApart
  <2>. QED BY <1>1, <2>2, <2>4, ApartKept
<1>4. CASE OnPaymentOther(d)
  <2>1. QueueStep(d, 0, {}) /\ NavStep(d, Len(nav[d]), {})
    BY <1>4, OtherNav
  <2>. QED BY <1>1, <2>1, ApartStill
<1>. QED BY <1>2, <1>3, <1>4 DEF Gateway

\* The end of sendOrder.
LEMMA SentApart ==
    ASSUME DocsOK, DocsOK', NEW T \in SUBSET Orders, Apart(T), NEW d \in Devices,
           queue[d] # <<>>, ShowSent(d, Head(queue[d])), UNCHANGED issued,
           \A e \in Devices \ {d} : nav'[e] = nav[e],
           \A o \in Orders : order'[o] = order[o] \/ o \in issued \ T
    PROVE  Apart(T)'
<1>1. PICK w : w = Head(queue[d])
  OBVIOUS
<1>2. PICK r : r = Screen("order", w.order, NewOrder(w.paymentOption), NoOffer)
  OBVIOUS
<1>3. /\ QueueStep(d, 1, {}) /\ Len(nav[d]) \in Nat
      /\ \/ NavStep(d, Len(nav[d]) - 1, {r}) /\ nav[d] # <<>>
         \/ NavStep(d, Len(nav[d]), {})
  <2>1. Len(nav[d]) \in Nat
    BY DEF DocsOK
  <2>2. ShowSent(d, w)
    BY <1>1
  <2>. QED BY <1>1, <1>2, <2>1, <2>2, SentNav
<1>4. \A s \in {r} : PageApart(s, T)'
  <2>1. w.order \in issued \ T
    BY <1>1, TopApart
  <2>. QED BY <1>2, <2>1 DEF PageApart, Screen
<1>5. nav[d] # <<>> => Len(nav[d]) - 1 \in Nat
  BY TopType
<1>6. CASE NavStep(d, Len(nav[d]) - 1, {r}) /\ nav[d] # <<>>
  BY <1>3, <1>4, <1>5, <1>6, ApartKept
<1>7. CASE NavStep(d, Len(nav[d]), {})
  BY <1>3, <1>7, ApartStill
<1>. QED BY <1>3, <1>6, <1>7

\* The end of an answered write whose function pops.
LEMMA PopApart ==
    ASSUME DocsOK, DocsOK', NEW T \in SUBSET Orders, Apart(T), NEW d \in Devices,
           queue[d] # <<>>, NEW n \in Nat, Pop(d, n, Tail(queue[d])), UNCHANGED issued,
           \A e \in Devices \ {d} : nav'[e] = nav[e],
           \A o \in Orders : order'[o] = order[o] \/ o \in issued \ T
    PROVE  Apart(T)'
<1>1. Tail(queue[d]) \in Seq(Write) /\ Len(nav[d]) \in Nat
  BY HeadType DEF DocsOK
<1>2. QueueStep(d, 1, {}) /\ NavStep(d, Len(nav[d]), {})
  BY <1>1, PopEffect
<1>. QED BY <1>1, <1>2, ApartStill

\* A call that goes on.
LEMMA ContinueApart ==
    ASSUME DocsOK, DocsOK', NEW T \in SUBSET Orders, Apart(T), NEW d \in Devices,
           queue[d] # <<>>, Continue(d, Head(queue[d])), UNCHANGED <<issued, nav>>,
           \A o \in Orders : order'[o] = order[o] \/ o \in issued \ T
    PROVE  Apart(T)'
<1>1. PICK n : n = [Head(queue[d]) EXCEPT !.op = Following(Head(queue[d]))]
  OBVIOUS
<1>2. PICK N : N = {m \in {n} : Following(Head(queue[d])) # "end"}
  OBVIOUS
<1>3. QueueStep(d, 1, N)
  BY <1>1, <1>2, ContinueQueue
<1>4. NavStep(d, Len(nav[d]), {}) /\ Len(nav[d]) \in Nat
  BY SameNav DEF DocsOK
<1>5. n.order \in issued \ T
  <2>1. Head(queue[d]) \in Write /\ Head(queue[d]).order \in issued \ T
    BY TopApart
  <2>. QED BY <1>1, <2>1 DEF Write
<1>. QED BY <1>2, <1>3, <1>4, <1>5, ApartKept

\* An acknowledgement.
LEMMA AckApart ==
    ASSUME DocsOK, DocsOK', NEW T \in SUBSET Orders, Apart(T), NEW d \in Devices, Ack(d)
    PROVE  Apart(T)'
<1>1. PICK w : w = Head(queue[d])
  OBVIOUS
<1>2. queue[d] # <<>> /\ issued' = issued
  BY DEF Ack, AckCreate, AckStart, AckChoose, AckAccept, AckCancel, AckWithdraw, Ready
<1>3. w.order \in issued \ T
  BY <1>1, <1>2, TopApart
<1>4. \A e \in Devices \ {d} : nav'[e] = nav[e]
  BY OnlyItsStack
<1>5. \A o \in Orders \ {w.order} : order'[o] = order[o]
  BY <1>1 DEF Ack, AckCreate, AckStart, AckChoose, AckAccept, AckCancel, AckWithdraw, DocsOK
<1>6. \A o \in Orders : order'[o] = order[o] \/ o \in issued \ T
  BY <1>3, <1>5
<1>7. CASE AckCreate(d)
  <2>1. ShowSent(d, Head(queue[d]))
    BY <1>7 DEF AckCreate
  <2>. QED BY <1>2, <1>4, <1>6, <2>1, SentApart
<1>8. CASE AckStart(d) \/ AckChoose(d) \/ AckCancel(d)
  <2>1. Continue(d, Head(queue[d])) /\ nav' = nav
    BY <1>8 DEF AckStart, AckChoose, AckCancel
  <2>. QED BY <1>2, <1>6, <2>1, ContinueApart
<1>9. CASE AckAccept(d) \/ AckWithdraw(d)
  <2>1. PopBoth(d, Head(queue[d]))
    BY <1>9 DEF AckAccept, AckWithdraw
  <2>2. PICK n \in Nat : Pop(d, n, Tail(queue[d]))
    BY <2>1 DEF PopBoth
  <2>. QED BY <1>2, <1>4, <1>6, <2>2, PopApart
<1>. QED BY <1>7, <1>8, <1>9 DEF Ack

\* A refused write and a restart.
LEMMA RejectKillApart ==
    ASSUME DocsOK, DocsOK', NEW T \in SUBSET Orders, Apart(T), NEW d \in Devices,
           Reject(d) \/ Kill(d)
    PROVE  Apart(T)'
<1>1. order' = order /\ issued' = issued
  BY DEF Reject, Kill
<1>2. \A e \in Devices \ {d} : nav'[e] = nav[e]
  BY OnlyItsStack
<1>3. \A o \in Orders : order'[o] = order[o] \/ o \in issued \ T
  BY <1>1
<1>4. CASE Kill(d)
  <2>1. QueueStep(d, 0, {}) /\ NavStep(d, 0, {})
    BY <1>4, KillNav
  <2>. QED BY <1>1, <1>2, <1>3, <2>1, ApartStill
<1>5. CASE Reject(d) /\ Ready(d, "create")
  <2>1. queue[d] # <<>> /\ ShowSent(d, Head(queue[d]))
    BY <1>5 DEF Reject
  <2>. QED BY <1>1, <1>2, <1>3, <2>1, SentApart
<1>6. CASE Reject(d) /\ ~Ready(d, "create")
  <2>1. queue[d] # <<>> /\ Pop(d, 0, Tail(queue[d]))
    BY <1>6 DEF Reject
  <2>. QED BY <1>1, <1>2, <1>3, <2>1, PopApart
<1>. QED BY <1>4, <1>5, <1>6

\* A write that is applied, answered or sent again.
LEMMA UnansweredApart ==
    ASSUME TypeOK, DocsOK', NEW T \in SUBSET Orders, Apart(T), NEW d \in Devices, Unanswered(d)
    PROVE  Apart(T)'
<1>1. DocsOK /\ ahead[d] \in Nat
  BY DEF TypeOK
<1>2. issued' = issued
  BY DEF Unanswered, ApplyAhead, Answer, Reconnect
<1>3. \A e \in Devices \ {d} : nav'[e] = nav[e]
  BY <1>1, OnlyItsStack
<1>4. CASE ApplyAhead(d)
  <2>1. PICK w : w = queue[d][ahead[d] + 1]
    OBVIOUS
  <2>2. /\ ahead[d] + 1 \in DOMAIN queue[d] /\ queue' = queue /\ nav' = nav
        /\ order' = [order EXCEPT ![w.order] = UpdatedOrder(w)]
    BY <1>1, <1>4, <2>1 DEF ApplyAhead, DocsOK
  <2>3. w.order \in issued \ T
    BY <2>1, <2>2 DEF Apart
  <2>4. \A o \in Orders : order'[o] = order[o] \/ o \in issued \ T
    BY <1>1, <2>2, <2>3 DEF DocsOK
  <2>5. NavStep(d, Len(nav[d]), {})
    BY <1>1, <2>2, SameNav
  <2>6. QueueStep(d, 0, {})
    BY <1>1, <2>2 DEF QueueStep, SameCall, DocsOK
  <2>7. Len(nav[d]) \in Nat
    BY <1>1 DEF DocsOK
  <2>. QED BY <1>1, <1>2, <1>3, <2>4, <2>5, <2>6, <2>7, ApartStill
<1>5. CASE Answer(d)
  <2>1. queue[d] # <<>> /\ order' = order
    BY <1>5 DEF Answer
  <2>2. \A o \in Orders : order'[o] = order[o] \/ o \in issued \ T
    BY <2>1
  <2>3. CASE ShowSent(d, Head(queue[d]))
    BY <1>1, <1>2, <1>3, <2>1, <2>2, <2>3, SentApart
  <2>4. CASE PopBoth(d, Head(queue[d]))
    <3>1. PICK n \in Nat : Pop(d, n, Tail(queue[d]))
      BY <2>4 DEF PopBoth
    <3>. QED BY <1>1, <1>2, <1>3, <2>1, <2>2, <3>1, PopApart
  <2>5. CASE Continue(d, Head(queue[d])) /\ nav' = nav
    BY <1>1, <1>2, <2>1, <2>2, <2>5, ContinueApart
  <2>. QED BY <1>5, <2>3, <2>4, <2>5 DEF Answer
<1>6. CASE Reconnect(d)
  BY <1>6 DEF Reconnect, Apart, PageApart, Exists
<1>. QED BY <1>4, <1>5, <1>6 DEF Unanswered

\* Every step keeps the orders T apart.
LEMMA StepApart ==
    ASSUME TypeOK, NEW T \in SUBSET Orders, Apart(T), [Next]_vars
    PROVE  Apart(T)'
<1>1. DocsOK /\ DocsOK'
  BY StepDocs DEF TypeOK
<1>2. ASSUME NEW d \in Devices, (Tap(d) \/ Gateway(d) \/ Answered(d)) /\ UNCHANGED ahead
      PROVE  Apart(T)'
  BY <1>1, <1>2, TapApart, GatewayApart, AckApart DEF Answered
<1>3. ASSUME NEW d \in Devices, Reject(d) \/ Kill(d)
      PROVE  Apart(T)'
  BY <1>1, <1>3, RejectKillApart
<1>4. ASSUME NEW d \in Devices, Unanswered(d)
      PROVE  Apart(T)'
  BY <1>1, <1>4, UnansweredApart
<1>5. ASSUME NEW f \in Offers, MakeOffer(f)
      PROVE  Apart(T)'
  BY <1>5 DEF MakeOffer, Apart, PageApart, Exists
<1>6. CASE UNCHANGED vars
  BY <1>6 DEF vars, Apart, PageApart, Exists
<1>. QED BY <1>2, <1>3, <1>4, <1>5, <1>6 DEF Next

\* At first nothing is pending and only the home pages are open.
LEMMA InitApart == Init => Apart({})
BY DEF Init, Apart, PageApart, Exists, Plain, Screen, NoDoc

\* A settled cancelled order is apart.
LEMMA SettledApart ==
    ASSUME Apart({}), NEW o \in Orders, order[o].status = "cancelled", Settled(o)
    PROVE  Apart({o})
BY DEF Apart, PageApart, Settled

\* A cancelled order stays cancelled once its writes are answered and its pages
\* are closed: a start that is queued, awaited, applied but unanswered or sent
\* again is a pending write, and no page of another order and no page opened on
\* the cancelled one leads to a write of it. With any number of devices, any
\* restarts, refused writes, lost payment results and lost answers.
THEOREM SettledStaysCancelled == Spec => SettledIsFinal
<1>1. TypeOK /\ Apart({}) /\ [Next]_vars => Apart({})'
  BY StepApart
<1>2. Spec => []TypeOK /\ []Apart({})
  BY <1>1, InitApart, TypeCorrect, PTL DEF Spec
<1>3. ASSUME NEW o \in Orders
      PROVE  Spec => []((order[o].status = "cancelled" /\ Settled(o))
                            => [](order[o].status = "cancelled"))
  <2>1. TypeOK /\ Apart({o}) /\ [Next]_vars => Apart({o})'
    BY StepApart
  <2>2. Apart({}) /\ order[o].status = "cancelled" /\ Settled(o) => Apart({o})
    BY SettledApart
  <2>3. Apart({o}) => order[o].status = "cancelled"
    BY DEF Apart
  <2>. QED BY <1>2, <2>1, <2>2, <2>3, PTL DEF Spec
<1>. QED BY <1>3 DEF SettledIsFinal

-----------------------------------------------------------------------------
(* One device, writes applied again and answered late *)

\* The part of LateWorkIsSound about calls and pages needs of a step that what
\* they rely on is not taken away from orders whose create is answered.
LateForward ==
    /\ issued \subseteq issued'
    /\ \A f \in Offers : /\ offer[f] # "none" => offer'[f] # "none"
                         /\ charges[f] > 0 => charges'[f] > 0
    /\ \A o \in issued : Electronic(o)' => ToBePaid(o)
    /\ \A o \in Orders : ~Creating(o) =>
          /\ Started(o) => Started(o)'
          /\ order[o].offerId # NoOffer => order'[o].offerId # NoOffer

\* No order that was issued before is created by a new write.
OldOrders(N) == \A n \in N : n.op = "create" => n.order \notin issued

\* The pending writes of the one device after a step.
LEMMA LateQueue ==
    ASSUME OneDevice, DocsOK, NEW d \in Devices, NEW k \in {0, 1}, NEW N, QueueStep(d, k, N),
           NEW e \in Devices, NEW i \in DOMAIN queue'[e]
    PROVE  /\ e = d
           /\ \/ i + k \in DOMAIN queue[d] /\ SameCall(queue'[e][i], queue[d][i + k])
              \/ i + k = Len(queue[d]) + 1 /\ \E n \in N : SameCall(queue'[e][i], n)
<1>1. e = d
  BY DEF OneDevice
<1>. QED BY <1>1 DEF QueueStep

\* An order that was issued is not to be paid or being created if it was not.
LEMMA ToBePaidKept ==
    ASSUME OneDevice, DocsOK, NEW d \in Devices, NEW k \in {0, 1}, NEW N, QueueStep(d, k, N),
           OldOrders(N), NEW o \in issued, Electronic(o)' => ToBePaid(o)
    PROVE  /\ ToBePaid(o)' => ToBePaid(o)
           /\ Creating(o)' => Creating(o)
<1>1. ASSUME NEW e \in Devices, NEW i \in DOMAIN queue'[e],
             queue'[e][i].op = "create", queue'[e][i].order = o
      PROVE  \E j \in DOMAIN queue[d] : /\ queue[d][j].op = "create" /\ queue[d][j].order = o
                                        /\ queue[d][j].paymentOption = queue'[e][i].paymentOption
  <2>1. \/ i + k \in DOMAIN queue[d] /\ SameCall(queue'[e][i], queue[d][i + k])
        \/ \E n \in N : SameCall(queue'[e][i], n)
    BY <1>1, LateQueue
  <2>2. ~\E n \in N : SameCall(queue'[e][i], n)
    BY <1>1 DEF OldOrders, SameCall
  <2>. QED BY <1>1, <2>1, <2>2 DEF SameCall
<1>2. ToBePaid(o)' => ToBePaid(o)
  BY <1>1 DEF ToBePaid
<1>3. Creating(o)' => Creating(o)
  BY <1>1 DEF Creating, Awaits
<1>. QED BY <1>2, <1>3

\* What an old call relies on still holds.
LEMMA LateCallKept ==
    ASSUME DocsOK, DocsOK', LateForward, NEW w \in Write, w.order \in issued, LateCall(w),
           ToBePaid(w.order)' => ToBePaid(w.order),
           Creating(w.order)' => Creating(w.order),
           w.op = "create" /\ Electronic(w.order)' => w.paymentOption = "electronic"
    PROVE  LateCall(w)'
<1>1. PaidSomehow(w.order) => PaidSomehow(w.order)'
  BY DEF PaidSomehow, LateForward
<1>2. w.order \in Orders /\ (w.op \in Acceptance => w.offer \in Offers)
  BY DEF Write, Acceptance
<1>3. w.op \in Acceptance => /\ OrderOf[w.offer] = w.order /\ offer'[w.offer] # "none"
                             /\ ToBePaid(w.order)' => charges'[w.offer] > 0
  BY <1>2 DEF LateCall, LateForward
<1>4. w.op \in {"choose", "accept"} => Started(w.order)' /\ ~Creating(w.order)'
  BY <1>2 DEF LateCall, LateForward
<1>5. w.op = "accept" => order'[w.order].offerId # NoOffer
  BY <1>2 DEF LateCall, LateForward
<1>6. w.op = "cancel" /\ ToBePaid(w.order)' => PaidSomehow(w.order)'
  BY <1>1 DEF LateCall
<1>. QED BY <1>3, <1>4, <1>5, <1>6 DEF LateCall

\* What an old page relies on still holds.
LEMMA LatePageKept ==
    ASSUME LateForward, NEW r \in Route, LatePage(r), NEW s \in Route, SamePage(s, r),
           Charging(s) => charges'[s.offer] > 0,
           r.page \in {"order", "sheet", "dialog"} =>
               (ToBePaid(r.order)' => ToBePaid(r.order))
    PROVE  LatePage(s)'
<1>1. r.page \in {"order", "sheet", "dialog"} =>
         (PaidSomehow(r.order) => PaidSomehow(r.order)')
  BY DEF PaidSomehow, LateForward
<1>2. r.page \in {"sheet", "payment"} => r.offer \in Offers
  BY DEF Route
<1>. QED BY <1>1, <1>2 DEF LatePage, SamePage, LateForward, Charging

\* A pending create carries the payment option of an order that is to be paid.
LEMMA CreatesAgree ==
    ASSUME OneDevice, DocsOK, LateWorkIsSound, NEW d \in Devices, NEW i \in DOMAIN queue[d],
           queue[d][i].op = "create", ToBePaid(queue[d][i].order)
    PROVE  queue[d][i].paymentOption = "electronic"
<1>1. CASE Electronic(queue[d][i].order)
  BY <1>1 DEF LateWorkIsSound, LateCall
<1>2. ASSUME NEW e \in Devices, NEW j \in DOMAIN queue[e], queue[e][j].op = "create",
             queue[e][j].order = queue[d][i].order, queue[e][j].paymentOption = "electronic"
      PROVE  queue[d][i].paymentOption = "electronic"
  <2>1. e = d
    BY DEF OneDevice
  <2>2. i <= j /\ j <= i
    BY <1>2, <2>1 DEF LateWorkIsSound, CreatesFirst
  <2>3. i \in Nat /\ j \in Nat
    BY <1>2, <2>1 DEF DocsOK
  <2>. QED BY <1>2, <2>1, <2>2, <2>3
<1>. QED BY <1>1, <1>2 DEF ToBePaid

\* The creates stay first: a new one is of an order that has no other write.
LEMMA CreatesStayFirst ==
    ASSUME OneDevice, DocsOK, DocsOK', Apart({}), CreatesFirst,
           NEW d \in Devices, NEW k \in {0, 1}, NEW N, QueueStep(d, k, N), OldOrders(N)
    PROVE  CreatesFirst'
<1>1. SUFFICES ASSUME NEW e \in Devices, NEW i \in DOMAIN queue'[e], NEW j \in DOMAIN queue'[e],
                      queue'[e][i].op = "create", queue'[e][j].order = queue'[e][i].order
               PROVE  i <= j
  BY DEF CreatesFirst
<1>2. /\ e = d /\ i \in Nat /\ j \in Nat /\ Len(queue[d]) \in Nat
      /\ DOMAIN queue[d] = 1..Len(queue[d])
  BY LateQueue DEF DocsOK
<1>3. \/ i + k \in DOMAIN queue[d] /\ SameCall(queue'[e][i], queue[d][i + k])
      \/ i + k = Len(queue[d]) + 1 /\ queue'[e][i].order \notin issued
  BY <1>1, LateQueue DEF OldOrders, SameCall
<1>4. \/ j + k \in DOMAIN queue[d] /\ SameCall(queue'[e][j], queue[d][j + k])
      \/ j + k = Len(queue[d]) + 1
  BY LateQueue
<1>5. CASE i + k \in DOMAIN queue[d] /\ j + k \in DOMAIN queue[d]
           /\ SameCall(queue'[e][i], queue[d][i + k]) /\ SameCall(queue'[e][j], queue[d][j + k])
  <2>1. i + k <= j + k
    BY <1>1, <1>5 DEF CreatesFirst, SameCall
  <2>. QED BY <1>2, <2>1
<1>6. CASE i + k \in DOMAIN queue[d] /\ j + k = Len(queue[d]) + 1
  BY <1>2, <1>6
<1>7. CASE i + k = Len(queue[d]) + 1 /\ queue'[e][i].order \notin issued
  <2>1. j + k \in DOMAIN queue[d] => queue[d][j + k].order \in issued
    BY DEF Apart
  <2>2. j + k = Len(queue[d]) + 1
    BY <1>1, <1>4, <1>7, <2>1 DEF SameCall
  <2>. QED BY <1>2, <1>7, <2>2
<1>. QED BY <1>3, <1>4, <1>5, <1>6, <1>7

\* What keeps the pending work of the one device sound.
LEMMA LateKept ==
    ASSUME OneDevice, DocsOK, DocsOK', Apart({}), LateWorkIsSound, LateForward,
           AheadFits', LateDocs', AppliedShows',
           NEW d \in Devices, NEW k \in {0, 1}, NEW N, QueueStep(d, k, N), OldOrders(N),
           \A n \in N : LateCall(n)',
           NEW m \in Nat, NEW R, NavStep(d, m, R), \A r \in R : LatePage(r)',
           \A i \in DOMAIN nav'[d] :
               Charging(nav'[d][i]) => charges'[nav'[d][i].offer] > 0
    PROVE  LateWorkIsSound'
<1>1. \A o \in issued : /\ ToBePaid(o)' => ToBePaid(o)
                        /\ Creating(o)' => Creating(o)
  BY ToBePaidKept DEF LateForward
<1>2. CreatesFirst'
  BY CreatesStayFirst DEF LateWorkIsSound
<1>3. \A u, v : SameCall(u, v) /\ LateCall(v)' => LateCall(u)'
  BY DEF SameCall, LateCall
<1>4. ASSUME NEW e \in Devices, NEW i \in DOMAIN queue'[e]
      PROVE  LateCall(queue[e][i])'
  <2>1. PICK w : w = queue'[e][i]
    OBVIOUS
  <2>2. LateCall(w)'
    <3>1. CASE i + k \in DOMAIN queue[d] /\ SameCall(w, queue[d][i + k])
      <4>1. PICK v : v = queue[d][i + k]
        OBVIOUS
      <4>2. v \in Write /\ v.order \in issued /\ LateCall(v)
        BY <3>1, <4>1 DEF DocsOK, Apart, LateWorkIsSound
      <4>3. v.op = "create" /\ Electronic(v.order)' => v.paymentOption = "electronic"
        BY <3>1, <4>1, <4>2, CreatesAgree DEF LateForward
      <4>4. LateCall(v)'
        BY <1>1, <4>2, <4>3, LateCallKept
      <4>. QED BY <1>3, <3>1, <4>1, <4>4
    <3>2. CASE \E n \in N : SameCall(w, n)
      BY <1>3, <3>2
    <3>. QED BY <2>1, <3>1, <3>2, LateQueue
  <2>. QED BY <2>1, <2>2 DEF LateCall
<1>5. ASSUME NEW e \in Devices, NEW i \in DOMAIN nav'[e]
      PROVE  LatePage(nav[e][i])'
  <2>1. PICK s : s = nav'[e][i]
    OBVIOUS
  <2>2. e = d /\ s \in Route /\ i \in Nat
    BY <2>1 DEF OneDevice, DocsOK
  <2>3. \/ i \in DOMAIN nav[d] /\ SamePage(s, nav[d][i])
        \/ s.page \in {"form", "result", "home"}
        \/ s \in R
    <3>1. i <= m \/ i > m
      BY <2>2
    <3>. QED BY <2>1, <2>2, <3>1 DEF NavStep
  <2>4. LatePage(s)'
    <3>1. CASE i \in DOMAIN nav[d] /\ SamePage(s, nav[d][i])
      <4>1. PICK r : r = nav[d][i]
        OBVIOUS
      <4>2. r \in Route /\ LatePage(r) /\ PageApart(r, {})
        BY <3>1, <4>1 DEF DocsOK, LateWorkIsSound, Apart
      <4>3. r.page \in {"order", "sheet", "dialog"} => r.order \in issued
        BY <4>2 DEF PageApart
      <4>. QED BY <1>1, <2>1, <2>2, <3>1, <4>1, <4>2, <4>3, LatePageKept
    <3>2. CASE s.page \in {"form", "result", "home"}
      BY <3>2 DEF LatePage, Charging
    <3>. QED BY <2>3, <3>1, <3>2
  <2>. QED BY <2>1, <2>4 DEF LatePage, Charging
<1>. QED BY <1>2, <1>4, <1>5 DEF LateWorkIsSound

\* The length of a queue after its device shows a stack.
LEMMA ShowLength ==
    ASSUME DocsOK, DocsOK', NEW d \in Devices, NEW stack, NEW kept \in Nat, NEW q \in Seq(Write),
           Show(d, stack, kept, q)
    PROVE  Len(queue'[d]) = Len(q)
<1>1. DOMAIN queue'[d] = DOMAIN q
  BY ShowEffect
<1>2. queue'[d] \in Seq(Write)
  BY DEF DocsOK
<1>. QED BY <1>1, <1>2

\* The length of a queue after its device pops pages.
LEMMA PopLength ==
    ASSUME DocsOK, DocsOK', NEW d \in Devices, NEW n \in Nat, NEW q \in Seq(Write), Pop(d, n, q)
    PROVE  Len(queue'[d]) = Len(q)
<1>1. Len(Popped(nav[d], n)) \in Nat
  BY PoppedPrefix DEF DocsOK
<1>. QED BY <1>1, ShowLength DEF Pop

\* A tap and the gateway only add to a queue.
LEMMA TapLength ==
    ASSUME DocsOK, DocsOK', NEW d \in Devices, Tap(d) \/ Gateway(d)
    PROVE  Len(queue'[d]) >= Len(queue[d])
<1>1. queue \in [Devices -> Seq(Write)] /\ queue[d] \in Seq(Write) /\ Len(nav[d]) \in Nat
      /\ Len(queue[d]) \in Nat
  BY DEF DocsOK
<1>2. ASSUME NEW r, Push(d, r) PROVE Len(queue'[d]) >= Len(queue[d])
  BY <1>1, <1>2, ShowLength DEF Push
<1>3. ASSUME NEW w, queue' = [queue EXCEPT ![d] = Append(@, w)]
      PROVE  Len(queue'[d]) >= Len(queue[d])
  BY <1>1, <1>3
<1>4. CASE \/ OpenForm(d) \/ AskCancel(d) \/ \E o \in Orders : OpenOrder(d, o)
           \/ \E f \in Offers : ShowOffer(d, f)
  BY <1>2, <1>4 DEF OpenForm, AskCancel, OpenOrder, ShowOffer, Browse
<1>5. CASE \/ AcceptOfferCash(d) \/ CancelOrder(d)
           \/ \E o \in Orders, p \in PaymentOption : SendOrder(d, o, p)
  BY <1>3, <1>5 DEF AcceptOfferCash, CancelOrder, SendOrder
<1>6. CASE Back(d)
  BY <1>1, <1>6, PopLength DEF Back
<1>7. CASE AcceptOfferElectronic(d)
  <2>1. Len(Popped(nav[d], 2)) \in Nat
    BY PoppedPrefix DEF DocsOK
  <2>. QED BY <1>1, <1>7, <2>1, ShowLength DEF AcceptOfferElectronic
<1>8. CASE PaymentCaptured(d)
  BY <1>1, <1>8 DEF PaymentCaptured
<1>9. CASE OnPaymentPaid(d)
  <2>1. PICK w : w = Call(AcceptsWith, OrderOf[Top(d).offer], Top(d).offer, "electronic",
                          Len(nav[d]) - 1 + 1)
    OBVIOUS
  <2>2. w \in Write /\ Len(nav[d]) - 1 \in Nat
    BY <1>9, <2>1, PaidNav
  <2>3. /\ Show(d, Popped(nav[d], 1) \o <<Plain("result"), Plain("result")>>, Len(nav[d]) - 1,
                Append(queue[d], w))
        /\ Append(queue[d], w) \in Seq(Write)
    BY <1>1, <1>9, <2>1, <2>2 DEF OnPaymentPaid
  <2>4. Len(queue'[d]) = Len(Append(queue[d], w))
    BY <2>2, <2>3, ShowLength
  <2>. QED BY <1>1, <2>2, <2>4
<1>10. CASE OnPaymentOther(d)
  BY <1>1, <1>10, ShowLength DEF OnPaymentOther
<1>. QED BY <1>4, <1>5, <1>6, <1>7, <1>8, <1>9, <1>10 DEF Tap, Gateway

\* The end of sendOrder and of the closing pops, and a call that goes on, take
\* one write from the queue.
LEMMA AnswerLength ==
    ASSUME DocsOK, DocsOK', NEW d \in Devices, queue[d] # <<>>,
           \/ ShowSent(d, Head(queue[d])) \/ PopBoth(d, Head(queue[d]))
           \/ Continue(d, Head(queue[d]))
    PROVE  Len(queue'[d]) >= Len(queue[d]) - 1
<1>0. PICK q : q = Tail(queue[d])
  OBVIOUS
<1>1. /\ queue \in [Devices -> Seq(Write)] /\ queue[d] \in Seq(Write)
      /\ q \in Seq(Write) /\ Len(q) = Len(queue[d]) - 1
      /\ Len(queue[d]) \in Nat
  BY <1>0, HeadType DEF DocsOK
<1>2. ASSUME NEW n \in Nat, Pop(d, n, q)
      PROVE  Len(queue'[d]) >= Len(queue[d]) - 1
  <2>1. Len(queue'[d]) = Len(q)
    BY <1>0, <1>1, <1>2, PopLength
  <2>. QED BY <1>1, <2>1
<1>3. CASE PopBoth(d, Head(queue[d]))
  BY <1>0, <1>2, <1>3 DEF PopBoth
<1>4. CASE ShowSent(d, Head(queue[d]))
  <2>1. Len(Popped(nav[d], 1)) \in Nat
    BY PoppedPrefix DEF DocsOK
  <2>2. ASSUME NEW r, Show(d, Append(Popped(nav[d], 1), r), Len(Popped(nav[d], 1)), q)
        PROVE  Len(queue'[d]) >= Len(queue[d]) - 1
    <3>1. Len(queue'[d]) = Len(q)
      BY <1>0, <1>1, <2>1, <2>2, ShowLength
    <3>. QED BY <1>1, <3>1
  <2>. QED BY <1>0, <1>2, <1>4, <2>2 DEF ShowSent
<1>5. CASE Continue(d, Head(queue[d]))
  <2>1. \E w : queue'[d] = Append(q, w) \/ queue'[d] = q
    BY <1>0, <1>1, <1>5 DEF Continue
  <2>. QED BY <1>1, <2>1
<1>. QED BY <1>3, <1>4, <1>5

\* No device waits for the answers of more writes than it has.
LEMMA StepFits ==
    ASSUME OneDevice, TypeOK, DocsOK', AheadFits, [Next]_vars
    PROVE  AheadFits'
<1>1. /\ DocsOK /\ ahead \in [Devices -> Nat]
      /\ \A d \in Devices : ahead[d] \in Nat /\ Len(queue[d]) \in Nat /\ Len(queue'[d]) \in Nat
  BY DEF TypeOK, DocsOK
<1>2. ASSUME NEW d \in Devices, ahead'[d] <= Len(queue'[d])
      PROVE  AheadFits'
  BY <1>2 DEF AheadFits, OneDevice
<1>3. ASSUME NEW d \in Devices, Tap(d) \/ Gateway(d), UNCHANGED ahead
      PROVE  AheadFits'
  <2>1. Len(queue'[d]) >= Len(queue[d])
    BY <1>1, <1>3, TapLength
  <2>2. ahead'[d] <= Len(queue'[d])
    BY <1>1, <1>3, <2>1 DEF AheadFits
  <2>. QED BY <1>2, <2>2
<1>4. ASSUME NEW d \in Devices, ahead'[d] = 0 PROVE AheadFits'
  BY <1>1, <1>2, <1>4
<1>5. ASSUME NEW d \in Devices, Answered(d), UNCHANGED ahead PROVE AheadFits'
  BY <1>4, <1>5 DEF Answered
<1>6. ASSUME NEW d \in Devices, Reject(d) \/ Kill(d), ahead' = [ahead EXCEPT ![d] = 0]
      PROVE  AheadFits'
  BY <1>1, <1>4, <1>6
<1>7. ASSUME NEW d \in Devices, Unanswered(d) PROVE AheadFits'
  <2>1. CASE ApplyAhead(d)
    BY <1>1, <1>2, <2>1 DEF ApplyAhead
  <2>2. CASE Answer(d)
    <3>1. queue[d] # <<>> /\ ahead[d] > 0 /\ ahead' = [ahead EXCEPT ![d] = @ - 1]
      BY <2>2 DEF Answer
    <3>2. Len(queue'[d]) >= Len(queue[d]) - 1
      BY <1>1, <2>2, <3>1, AnswerLength DEF Answer
    <3>3. ahead'[d] <= Len(queue'[d])
      BY <1>1, <3>1, <3>2 DEF AheadFits
    <3>. QED BY <1>2, <3>3
  <2>3. CASE Reconnect(d)
    BY <1>1, <1>4, <2>3 DEF Reconnect
  <2>. QED BY <1>7, <2>1, <2>2, <2>3 DEF Unanswered
<1>8. ASSUME NEW f \in Offers, MakeOffer(f), UNCHANGED ahead PROVE AheadFits'
  BY <1>8 DEF MakeOffer, AheadFits
<1>9. CASE UNCHANGED vars
  BY <1>9 DEF vars, AheadFits
<1>. QED BY <1>3, <1>5, <1>6, <1>7, <1>8, <1>9 DEF Next

\* A new write that knows what it relies on.
LateNew(n) ==
    /\ n \in Write
    /\ IF n.op = "create" THEN n.order \notin issued ELSE n.order \in issued /\ LateCall(n)

\* A new page that knows what it relies on.
LateOpen(r) ==
    /\ r \in Route /\ LatePage(r)
    /\ r.page \in {"order", "sheet", "dialog"} => r.order \in issued

\* A step that changes no order document.
LEMMA LateStill ==
    ASSUME OneDevice, DocsOK, DocsOK', Apart({}), LateWorkIsSound, AheadFits',
           UNCHANGED order, issued \subseteq issued',
           \A f \in Offers : /\ offer[f] # "none" => offer'[f] # "none"
                             /\ offer'[f] = "accepted" => offer[f] = "accepted"
                             /\ charges[f] > 0 => charges'[f] > 0,
           NEW d \in Devices, ahead[d] \in Nat, ahead'[d] \in Nat,
           NEW k \in {0, 1}, NEW N, QueueStep(d, k, N), \A n \in N : LateNew(n),
           NEW m \in Nat, NEW R, NavStep(d, m, R), \A r \in R : LateOpen(r),
           \A i \in DOMAIN nav'[d] :
               Charging(nav'[d][i]) => charges'[nav'[d][i].offer] > 0,
           ahead'[d] = 0 \/ ahead'[d] + k <= ahead[d]
    PROVE  LateWorkIsSound'
<1>1. LateForward
  <2>1. \A o \in issued : Electronic(o)' => ToBePaid(o)
    BY DEF Electronic, ToBePaid
  <2>2. \A o \in Orders : /\ Started(o) => Started(o)'
                          /\ order[o].offerId # NoOffer => order'[o].offerId # NoOffer
    BY DEF Started
  <2>. QED BY <2>1, <2>2 DEF LateForward
<1>2. OldOrders(N)
  BY DEF OldOrders, LateNew
<1>3. \A o \in issued : /\ ToBePaid(o)' => ToBePaid(o)
                        /\ Creating(o)' => Creating(o)
  BY <1>1, <1>2, ToBePaidKept DEF LateForward
<1>4. \A o \in Orders : Electronic(o) => o \in issued
  BY DEF LateWorkIsSound, LateDocs, Apart
<1>5. ASSUME NEW n \in N PROVE LateCall(n)'
  <2>1. CASE n.op = "create"
    BY <1>4, <1>5, <2>1 DEF LateNew, LateCall, Electronic, Acceptance, Write
  <2>2. CASE n.op # "create"
    BY <1>1, <1>3, <1>5, <2>2, LateCallKept DEF LateNew
  <2>. QED BY <2>1, <2>2
<1>6. ASSUME NEW r \in R PROVE LatePage(r)'
  <2>1. SamePage(r, r)
    BY DEF SamePage
  <2>2. r \in Route /\ LatePage(r)
        /\ (r.page \in {"order", "sheet", "dialog"} => r.order \in issued)
    BY <1>6 DEF LateOpen
  <2>3. Charging(r) => charges'[r.offer] > 0
    BY <1>1, <2>2 DEF LatePage, LateForward, Charging, Route
  <2>. QED BY <1>1, <1>3, <2>1, <2>2, <2>3, LatePageKept
<1>7. LateDocs'
  <2>1. LateDocs
    BY DEF LateWorkIsSound
  <2>2. \A o \in Orders : Exists(o) => o \in issued
    BY DEF Apart
  <2>3. \A o \in Orders : order'[o].offerId # NoOffer =>
           /\ Started(o)' /\ ~Creating(o)'
           /\ OrderOf[order'[o].offerId] = o /\ offer'[order'[o].offerId] # "none"
           /\ Electronic(o)' => charges'[order'[o].offerId] > 0
    <3>1. SUFFICES ASSUME NEW o \in Orders, order[o].offerId # NoOffer
                   PROVE  /\ Started(o)' /\ ~Creating(o)'
                          /\ OrderOf[order[o].offerId] = o /\ offer'[order[o].offerId] # "none"
                          /\ Electronic(o) => charges'[order[o].offerId] > 0
      BY DEF Electronic
    <3>2. order[o].offerId \in Offers
      BY <3>1 DEF DocsOK, OrderDoc
    <3>3. Started(o)' /\ o \in issued
      BY <2>1, <2>2, <3>1 DEF LateDocs, Started, Exists
    <3>. QED BY <1>1, <1>3, <2>1, <3>1, <3>2, <3>3 DEF LateDocs, LateForward
  <2>4. \A f \in Offers : offer'[f] = "accepted" =>
           /\ order'[OrderOf[f]].offerId # NoOffer
           /\ Electronic(OrderOf[f])' => charges'[f] > 0
    BY <2>1 DEF LateDocs, Electronic
  <2>5. \A o \in Orders : /\ Electronic(o)' => Exists(o)'
                          /\ Started(o)' /\ ToBePaid(o)' => PaidSomehow(o)'
    <3>1. ASSUME NEW o \in Orders, Started(o)', ToBePaid(o)' PROVE PaidSomehow(o)'
      <4>1. Started(o) /\ o \in issued
        BY <2>2, <3>1 DEF Started, Exists
      <4>2. PaidSomehow(o)
        BY <1>3, <2>1, <3>1, <4>1 DEF LateDocs
      <4>. QED BY <1>1, <4>2 DEF PaidSomehow, LateForward
    <3>2. \A o \in Orders : Electronic(o)' => Exists(o)'
      BY <2>1 DEF LateDocs, Electronic, Exists
    <3>. QED BY <3>1, <3>2
  <2>. QED BY <2>3, <2>4, <2>5 DEF LateDocs
<1>8. AppliedShows'
  <2>1. ASSUME NEW e \in Devices, NEW i \in DOMAIN queue'[e], i <= ahead'[e],
               NEW v, v = queue'[e][i]
        PROVE  /\ v.op = "start" => Started(v.order)'
               /\ v.op = "choose" => order'[v.order].offerId # NoOffer
    <3>1. /\ e = d /\ i \in Nat /\ Len(queue[d]) \in Nat /\ i > 0
          /\ \/ i + k \in DOMAIN queue[d] /\ SameCall(v, queue[d][i + k])
             \/ i + k = Len(queue[d]) + 1
      <4>1. queue[d] \in Seq(Write) /\ queue'[e] \in Seq(Write)
        BY DEF DocsOK
      <4>. QED BY <2>1, <4>1, LateQueue
    <3>2. i + k <= ahead[d] /\ ahead[d] <= Len(queue[d])
      BY <2>1, <3>1 DEF LateWorkIsSound, AheadFits
    <3>3. i + k \in DOMAIN queue[d] /\ SameCall(v, queue[d][i + k])
      BY <3>1, <3>2
    <3>4. PICK w : w = queue[d][i + k]
      OBVIOUS
    <3>5. /\ w.op = "start" => Started(w.order)
          /\ w.op = "choose" => order[w.order].offerId # NoOffer
      <4>1. AppliedShows
        BY DEF LateWorkIsSound
      <4>2. PICK j : j = i + k
        OBVIOUS
      <4>. QED BY <3>2, <3>3, <3>4, <4>1, <4>2 DEF AppliedShows
    <3>. QED BY <3>3, <3>4, <3>5 DEF SameCall, Started
  <2>. QED BY <2>1 DEF AppliedShows, Started
<1>. QED BY <1>1, <1>2, <1>5, <1>6, <1>7, <1>8, LateKept

\* A step that makes no charge keeps its pages of charges paid for.
LEMMA LateCharges ==
    ASSUME DocsOK, LateWorkIsSound, NEW d \in Devices, NoNewCharge(d), UNCHANGED charges
    PROVE  \A i \in DOMAIN nav'[d] :
               Charging(nav'[d][i]) => charges'[nav'[d][i].offer] > 0
BY DEF NoNewCharge, LateWorkIsSound, LatePage

\* A page opened on an order that is to be paid shows it as electronic, and as
\* in progress only if it is paid.
LEMMA LateView ==
    ASSUME OneDevice, DocsOK, Apart({}), LateWorkIsSound, NEW d \in Devices, NEW o \in Orders,
           ToBePaid(o)
    PROVE  /\ ViewPayment(d, o) = "electronic"
           /\ ViewStatus(d, o) = "inProgress" => PaidSomehow(o)
<1>1. PICK C : C = {i \in DOMAIN queue[d] : queue[d][i].order = o /\ queue[d][i].op = "create"}
  OBVIOUS
<1>2. ViewPayment(d, o) = "electronic"
  <2>1. CASE C = {}
    <3>1. Electronic(o)
      BY <1>1, <2>1 DEF ToBePaid, OneDevice
    <3>2. ViewPayment(d, o) = order[o].paymentOption
      BY <1>1, <2>1 DEF ViewPayment
    <3>. QED BY <3>1, <3>2 DEF Electronic
  <2>2. CASE C # {}
    <3>1. PICK c : c = CHOOSE i \in C : TRUE
      OBVIOUS
    <3>2. c \in C
      BY <2>2, <3>1
    <3>3. ViewPayment(d, o) = queue[d][c].paymentOption
      BY <1>1, <2>2, <3>1 DEF ViewPayment
    <3>. QED BY <1>1, <3>2, <3>3, CreatesAgree
  <2>. QED BY <2>1, <2>2
<1>3. ASSUME ViewStatus(d, o) = "inProgress" PROVE PaidSomehow(o)
  <2>1. CASE order[o].status = "inProgress"
    BY <2>1 DEF LateWorkIsSound, LateDocs, Started
  <2>2. ASSUME NEW j \in StatusWrites(d, o), StatusSet(queue[d][j].op) = "inProgress"
        PROVE  PaidSomehow(o)
    <3>1. PICK w : w = queue[d][j]
      OBVIOUS
    <3>2. j \in DOMAIN queue[d] /\ w.op = "start" /\ w.order = o /\ w \in Write
      BY <2>2, <3>1 DEF StatusWrites, StatusSet, DocsOK
    <3>3. LateCall(w) /\ w.offer \in Offers
      BY <3>1, <3>2 DEF LateWorkIsSound, Write
    <3>. QED BY <3>2, <3>3 DEF LateCall, PaidSomehow, Acceptance
  <2>. QED BY <1>3, <2>1, <2>2, ViewStatusIs
<1>. QED BY <1>2, <1>3

\* A tap.
LEMMA TapLate ==
    ASSUME OneDevice, TypeOK, DocsOK', Apart({}), LateWorkIsSound, AheadFits',
           NEW d \in Devices, Tap(d), UNCHANGED ahead
    PROVE  LateWorkIsSound'
<1>1. /\ DocsOK /\ ahead[d] \in Nat /\ ahead'[d] = ahead[d] /\ Len(nav[d]) \in Nat
      /\ UNCHANGED <<order, offer, charges>> /\ issued \subseteq issued'
  <2>1. DocsOK /\ ahead[d] \in Nat /\ Len(nav[d]) \in Nat
    BY DEF TypeOK, DocsOK
  <2>2. UNCHANGED <<order, offer, charges>> /\ issued \subseteq issued'
    BY DEF Tap, OpenForm, AskCancel, Back, AcceptOfferCash, AcceptOfferElectronic,
           CancelOrder, OpenOrder, ShowOffer, SendOrder, Browse
  <2>. QED BY <2>1, <2>2
<1>2. ASSUME NEW N, QueueStep(d, 0, N), \A n \in N : LateNew(n),
             NEW m \in Nat, NEW R, NavStep(d, m, R), \A r \in R : LateOpen(r), NoNewCharge(d)
      PROVE  LateWorkIsSound'
  <2>1. \A i \in DOMAIN nav'[d] : Charging(nav'[d][i]) => charges'[nav'[d][i].offer] > 0
    BY <1>1, <1>2, LateCharges
  <2>2. ahead'[d] + 0 <= ahead[d] /\ ahead'[d] \in Nat
    BY <1>1
  <2>. QED BY <1>1, <1>2, <2>1, <2>2, LateStill
<1>3. nav[d] # <<>> => LateOpen(Top(d)) /\ PageApart(Top(d), {})
  <2>1. nav[d] # <<>> => Len(nav[d]) \in DOMAIN nav[d]
    BY <1>1, TopType
  <2>. QED BY <1>1, <2>1, TopApart DEF LateWorkIsSound, LateOpen, PageApart, Top
<1>4. ASSUME NEW r, Browse(d, r), LateOpen(r), ~Charging(r) PROVE LateWorkIsSound'
  <2>1. Push(d, r)
    BY <1>4 DEF Browse
  <2>2. QueueStep(d, 0, {}) /\ NavStep(d, Len(nav[d]), {r}) /\ NoNewCharge(d)
    BY <1>1, <1>4, <2>1, PushEffect, PushCharges
  <2>. QED BY <1>1, <1>2, <1>4, <2>2
<1>5. ASSUME NEW n, LateNew(n), queue' = [queue EXCEPT ![d] = Append(@, n)],
             NavStep(d, Len(nav[d]), {}), NoNewCharge(d)
      PROVE  LateWorkIsSound'
  <2>1. QueueStep(d, 0, {n})
    BY <1>1, <1>5, EnqueueQueue DEF LateNew
  <2>. QED BY <1>1, <1>2, <1>5, <2>1
<1>6. nav' = nav => NavStep(d, Len(nav[d]), {}) /\ NoNewCharge(d)
  BY <1>1, SameNav DEF NoNewCharge
<1>7. CASE OpenForm(d)
  <2>1. PICK r : r = Plain("form")
    OBVIOUS
  <2>2. r \in Route
    BY <2>1, PlainType DEF Page
  <2>3. LateOpen(r) /\ ~Charging(r)
    BY <2>1, <2>2 DEF LateOpen, LatePage, Charging, Plain, Screen
  <2>4. Browse(d, r)
    BY <1>7, <2>1 DEF OpenForm
  <2>. QED BY <1>4, <2>3, <2>4
<1>8. CASE AskCancel(d)
  <2>1. PICK r : r = Screen("dialog", Top(d).order, Top(d).snap, NoOffer)
    OBVIOUS
  <2>2. /\ Browse(d, r) /\ nav[d] # <<>> /\ Top(d).page = "order"
        /\ Top(d).snap.status = "inProgress"
    BY <1>8, <2>1 DEF AskCancel, On, Cancellable
  <2>3. LateOpen(r) /\ ~Charging(r)
    BY <1>3, <2>1, <2>2 DEF LateOpen, LatePage, Charging, Screen, Route, Page
  <2>. QED BY <1>4, <2>2, <2>3
<1>9. ASSUME NEW o \in Orders, OpenOrder(d, o) PROVE LateWorkIsSound'
  <2>1. PICK s : s = ViewOrder(d, o)
    OBVIOUS
  <2>2. PICK r : r = Screen("order", o, s, NoOffer)
    OBVIOUS
  <2>3. Browse(d, r) /\ ViewStatus(d, o) # "none"
    BY <1>9, <2>1, <2>2 DEF OpenOrder
  <2>4. s \in OrderDoc
    BY <1>1, <2>1, ViewType
  <2>5. r \in Route
    BY <2>2, <2>4 DEF Screen, Route, Page
  <2>6. o \in issued
    <3>1. StatusWrites(d, o) = {} => ViewStatus(d, o) = order[o].status
      BY DEF ViewStatus, Newest
    <3>. QED BY <2>3, <3>1 DEF StatusWrites, Apart, Exists
  <2>7. ToBePaid(o) => /\ s.paymentOption = "electronic"
                       /\ s.status = "inProgress" => PaidSomehow(o)
    BY <1>1, <2>1, LateView DEF ViewOrder
  <2>8. LateOpen(r) /\ ~Charging(r)
    BY <2>2, <2>5, <2>6, <2>7 DEF LateOpen, LatePage, Charging, Screen
  <2>. QED BY <1>4, <2>3, <2>8
<1>10. ASSUME NEW f \in Offers, ShowOffer(d, f) PROVE LateWorkIsSound'
  <2>1. PICK r : r = Screen("sheet", Top(d).order, Top(d).snap, f)
    OBVIOUS
  <2>2. Browse(d, r) /\ nav[d] # <<>> /\ Top(d).page = "order" /\ offer[f] = "pending"
    BY <1>10, <2>1 DEF ShowOffer, On, ListedForOrder
  <2>3. LateOpen(r) /\ ~Charging(r)
    BY <1>3, <2>1, <2>2 DEF LateOpen, LatePage, Charging, Screen, Route, Page
  <2>. QED BY <1>4, <2>2, <2>3
<1>11. CASE AcceptOfferElectronic(d)
  <2>1. PICK r : r = Screen("payment", NoOrder, NoDoc, Top(d).offer)
    OBVIOUS
  <2>2. PICK m : m = IF Len(nav[d]) > 2 THEN Len(nav[d]) - 2 ELSE 0
    OBVIOUS
  <2>3. nav[d] # <<>> /\ Top(d).page = "sheet"
    BY <1>11 DEF AcceptOfferElectronic, On
  <2>4. QueueStep(d, 0, {}) /\ NavStep(d, m, {r}) /\ m \in Nat
    BY <1>1, <1>11, <2>1, <2>2, PayNav
  <2>5. r \in Route
    BY <1>3, <2>1, <2>3, DocTypes DEF LateOpen, Screen, Route, Page
  <2>6. LateOpen(r) /\ ~Charging(r)
    BY <1>3, <2>1, <2>3, <2>5 DEF LateOpen, LatePage, Charging, Screen
  <2>7. NoNewCharge(d)
    <3>1. queue[d] \in Seq(Write)
      BY <1>1 DEF DocsOK
    <3>2. Show(d, Append(Popped(nav[d], 2), r), Len(Popped(nav[d], 2)), queue[d])
      BY <1>11, <2>1 DEF AcceptOfferElectronic
    <3>. QED BY <1>1, <2>6, <3>1, <3>2, ReplaceCharges
  <2>. QED BY <1>2, <2>4, <2>6, <2>7
<1>12. CASE AcceptOfferCash(d)
  <2>1. PICK n : n = Call(AcceptsWith, Top(d).order, Top(d).offer, "cash", Len(nav[d]))
    OBVIOUS
  <2>2. /\ nav[d] # <<>> /\ Top(d).page = "sheet" /\ nav' = nav
        /\ Top(d).snap.paymentOption # "electronic"
        /\ queue' = [queue EXCEPT ![d] = Append(@, n)]
    BY <1>12, <2>1 DEF AcceptOfferCash, On
  <2>3. /\ Top(d).order \in Orders /\ Top(d).offer \in Offers /\ Top(d).order \in issued
        /\ OrderOf[Top(d).offer] = Top(d).order /\ offer[Top(d).offer] # "none"
        /\ ~ToBePaid(Top(d).order)
    BY <1>3, <2>2 DEF LateOpen, LatePage, Route, PageApart
  <2>4. n \in Write /\ n.op = "start" /\ n.order = Top(d).order /\ n.offer = Top(d).offer
    BY <1>1, <2>1, <2>3, CallType DEF AcceptsWith, Call, PaymentOption
  <2>5. LateNew(n)
    BY <2>3, <2>4 DEF LateNew, LateCall
  <2>. QED BY <1>5, <1>6, <2>2, <2>5
<1>13. CASE CancelOrder(d)
  <2>1. PICK n : n = Call("cancel", Top(d).order, Top(d).snap.offerId,
                          Top(d).snap.paymentOption, Len(nav[d]) - 1)
    OBVIOUS
  <2>2. /\ nav[d] # <<>> /\ Top(d).page = "dialog" /\ nav' = nav
        /\ queue' = [queue EXCEPT ![d] = Append(@, n)]
    BY <1>13, <2>1 DEF CancelOrder, On
  <2>3. /\ Top(d).order \in Orders /\ Top(d).snap \in OrderDoc /\ Top(d).order \in issued
        /\ Len(nav[d]) - 1 \in Nat
        /\ ToBePaid(Top(d).order) => PaidSomehow(Top(d).order)
    BY <1>1, <1>3, <2>2, TopType DEF LateOpen, LatePage, Route
  <2>4. n \in Write /\ n.op = "cancel" /\ n.order = Top(d).order
    BY <2>1, <2>3, CallType DEF OrderDoc, Call
  <2>5. LateNew(n)
    BY <2>3, <2>4 DEF LateNew, LateCall, Acceptance
  <2>. QED BY <1>5, <1>6, <2>2, <2>5
<1>14. ASSUME NEW o \in Orders, NEW p \in PaymentOption, SendOrder(d, o, p)
       PROVE  LateWorkIsSound'
  <2>1. PICK n : n = Call("create", o, NoOffer, p, Len(nav[d]))
    OBVIOUS
  <2>2. /\ nav[d] # <<>> /\ o \notin issued
        /\ queue' = [queue EXCEPT ![d] = Append(@, n)]
        /\ nav' = [nav EXCEPT ![d][Len(nav[d])].busy = TRUE]
    BY <1>14, <2>1 DEF SendOrder, On
  <2>3. n \in Write /\ n.order = o /\ n.op = "create"
    BY <1>1, <2>1, CallType DEF Call
  <2>4. LateNew(n)
    BY <2>2, <2>3 DEF LateNew
  <2>5. NavStep(d, Len(nav[d]), {}) /\ NoNewCharge(d)
    BY <1>1, <1>14, <2>2, BusyNav, BusyFormCharges
  <2>. QED BY <1>5, <2>2, <2>4, <2>5
<1>15. CASE Back(d)
  <2>1. Pop(d, 1, queue[d]) /\ queue[d] \in Seq(Write)
    BY <1>1, <1>15 DEF Back, DocsOK
  <2>2. QueueStep(d, 0, {}) /\ NavStep(d, Len(nav[d]), {}) /\ NoNewCharge(d)
    BY <1>1, <2>1, PopEffect, PopCharges
  <2>. QED BY <1>1, <1>2, <2>2
<1>. QED BY <1>7, <1>8, <1>9, <1>10, <1>11, <1>12, <1>13, <1>14, <1>15 DEF Tap

\* The gateway: only a page whose charge was made calls acceptOffer.
LEMMA GatewayLate ==
    ASSUME OneDevice, TypeOK, DocsOK', Apart({}), LateWorkIsSound, AheadFits',
           NEW d \in Devices, Gateway(d), UNCHANGED ahead
    PROVE  LateWorkIsSound'
<1>1. /\ DocsOK /\ ahead[d] \in Nat /\ ahead'[d] = ahead[d] /\ Len(nav[d]) \in Nat
      /\ UNCHANGED <<order, offer, issued>>
      /\ \A f \in Offers : charges[f] > 0 => charges'[f] > 0
  <2>1. DocsOK /\ ahead[d] \in Nat /\ Len(nav[d]) \in Nat
    BY DEF TypeOK, DocsOK
  <2>2. UNCHANGED <<order, offer, issued>>
    BY DEF Gateway, PaymentCaptured, OnPaymentPaid, OnPaymentOther
  <2>3. \A f \in Offers : charges[f] > 0 => charges'[f] > 0
    <3>1. ASSUME PaymentCaptured(d) PROVE \A f \in Offers : charges[f] > 0 => charges'[f] > 0
      BY <2>1, <3>1 DEF PaymentCaptured, DocsOK
    <3>2. CASE OnPaymentPaid(d) \/ OnPaymentOther(d)
      BY <3>2 DEF OnPaymentPaid, OnPaymentOther
    <3>. QED BY <3>1, <3>2 DEF Gateway
  <2>. QED BY <2>1, <2>2, <2>3
<1>2. ASSUME NEW N, QueueStep(d, 0, N), \A n \in N : LateNew(n), NEW m \in Nat, NavStep(d, m, {}),
             \A i \in DOMAIN nav'[d] :
                 Charging(nav'[d][i]) => charges'[nav'[d][i].offer] > 0
      PROVE  LateWorkIsSound'
  <2>1. ahead'[d] + 0 <= ahead[d] /\ ahead'[d] \in Nat
    BY <1>1
  <2>. QED BY <1>1, <1>2, <2>1, LateStill
<1>3. CASE PaymentCaptured(d)
  <2>1. QueueStep(d, 0, {})
    BY <1>1, <1>3 DEF PaymentCaptured, QueueStep, SameCall, DocsOK
  <2>2. /\ nav[d] # <<>> /\ nav' = [nav EXCEPT ![d][Len(nav[d])].busy = TRUE]
        /\ Top(d).page = "payment"
        /\ charges' = [charges EXCEPT ![Top(d).offer] = @ + 1]
    BY <1>3 DEF PaymentCaptured, On
  <2>3. NavStep(d, Len(nav[d]), {})
    BY <1>1, <2>2, BusyNav
  <2>4. /\ Top(d) \in Route /\ Len(nav[d]) \in DOMAIN nav[d] /\ nav[d] \in Seq(Route)
    BY <1>1, <2>2, TopType
  <2>5. charges'[Top(d).offer] > 0
    BY <1>1, <2>2, <2>4 DEF Route, DocsOK
  <2>6. /\ DOMAIN nav'[d] = DOMAIN nav[d]
        /\ \A i \in DOMAIN nav[d] : /\ nav'[d][i].page = nav[d][i].page
                                    /\ nav'[d][i].offer = nav[d][i].offer
                                    /\ i # Len(nav[d]) => nav'[d][i] = nav[d][i]
    BY <1>1, <2>2, BusyEffect
  <2>7. ASSUME NEW i \in DOMAIN nav'[d], NEW r, r = nav'[d][i], Charging(r)
        PROVE  charges'[r.offer] > 0
    <3>1. CASE i = Len(nav[d])
      BY <2>4, <2>5, <2>6, <2>7, <3>1 DEF Top
    <3>2. CASE i # Len(nav[d])
      <4>1. i \in DOMAIN nav[d] /\ nav[d][i] = r
        BY <2>6, <2>7, <3>2
      <4>2. LatePage(r) /\ r \in Route
        BY <2>4, <4>1 DEF LateWorkIsSound
      <4>. QED BY <1>1, <2>7, <4>2 DEF LatePage, Charging, Route
    <3>. QED BY <3>1, <3>2
  <2>. QED BY <1>1, <1>2, <2>1, <2>3, <2>7
<1>4. CASE OnPaymentPaid(d)
  <2>1. PICK n : n = Call(AcceptsWith, OrderOf[Top(d).offer], Top(d).offer, "electronic",
                          Len(nav[d]) - 1 + 1)
    OBVIOUS
  <2>2. /\ QueueStep(d, 0, {n}) /\ NavStep(d, Len(nav[d]) - 1, {}) /\ Len(nav[d]) - 1 \in Nat
        /\ Top(d).page = "payment" /\ nav[d] # <<>> /\ Top(d).offer \in Offers /\ n \in Write
        /\ n.op = "start" /\ n.order = OrderOf[Top(d).offer] /\ n.offer = Top(d).offer
    BY <1>1, <1>4, <2>1, PaidNav
  <2>3. Top(d).busy
    BY <1>4 DEF OnPaymentPaid, IsPaid
  <2>4. PageApart(Top(d), {}) /\ LatePage(Top(d))
    <3>1. Len(nav[d]) \in DOMAIN nav[d]
      BY <1>1, <2>2, TopType
    <3>. QED BY <1>1, <2>2, <3>1, TopApart DEF LateWorkIsSound, Top
  <2>5. LateNew(n)
    BY <2>2, <2>3, <2>4 DEF LateNew, LateCall, LatePage, PageApart, Charging
  <2>6. NoNewCharge(d) /\ UNCHANGED charges
    BY <1>1, <1>4, PaidCharges DEF OnPaymentPaid
  <2>. QED BY <1>1, <1>2, <2>2, <2>5, <2>6, LateCharges
<1>5. CASE OnPaymentOther(d)
  <2>1. QueueStep(d, 0, {}) /\ NavStep(d, Len(nav[d]), {}) /\ NoNewCharge(d)
    BY <1>1, <1>5, OtherNav, OtherCharges
  <2>2. UNCHANGED charges
    BY <1>5 DEF OnPaymentOther
  <2>. QED BY <1>1, <1>2, <2>1, <2>2, LateCharges
<1>. QED BY <1>3, <1>4, <1>5 DEF Gateway

\* The oldest write of a device: what its call relies on, and the page that the
\* end of sendOrder opens.
LEMMA HeadLate ==
    ASSUME OneDevice, DocsOK, Apart({}), LateWorkIsSound, NEW d \in Devices, queue[d] # <<>>,
           NEW w, w = Head(queue[d])
    PROVE  /\ w \in Write /\ w.order \in Orders /\ w.order \in issued /\ LateCall(w)
           /\ 1 \in DOMAIN queue[d] /\ queue[d][1] = w
           /\ w.op # "create" => ~Creating(w.order)
           /\ w.op = "create" /\ ToBePaid(w.order) => w.paymentOption = "electronic"
<1>1. /\ queue[d] \in Seq(Write) /\ 1 \in DOMAIN queue[d] /\ queue[d][1] = w
      /\ \A i \in DOMAIN queue[d] : i >= 1 /\ i \in Nat
  BY DEF DocsOK
<1>2. w \in Write /\ w.order \in Orders /\ w.order \in issued
  BY TopApart
<1>3. LateCall(w)
  BY <1>1 DEF LateWorkIsSound
<1>4. ASSUME Creating(w.order) PROVE w.op = "create"
  <2>1. PICK i \in DOMAIN queue[d] : queue[d][i].op = "create" /\ queue[d][i].order = w.order
    BY <1>4 DEF Creating, Awaits, OneDevice
  <2>2. i <= 1
    BY <1>1, <2>1 DEF LateWorkIsSound, CreatesFirst
  <2>. QED BY <1>1, <2>1, <2>2
<1>5. w.op = "create" /\ ToBePaid(w.order) => w.paymentOption = "electronic"
  BY <1>1, CreatesAgree
<1>. QED BY <1>1, <1>2, <1>3, <1>4, <1>5

\* A write that is answered, and the pages and the write that follow, in a step
\* that leaves the documents alone.
LEMMA AnswerLate ==
    ASSUME OneDevice, DocsOK, DocsOK', Apart({}), LateWorkIsSound, AheadFits',
           UNCHANGED <<order, offer, issued, charges>>,
           NEW d \in Devices, ahead[d] \in Nat, ahead'[d] \in Nat, queue[d] # <<>>,
           ahead'[d] = 0 \/ ahead'[d] + 1 <= ahead[d],
           \/ Head(queue[d]).op = "create" /\ ShowSent(d, Head(queue[d]))
           \/ \E n \in Nat : Pop(d, n, Tail(queue[d]))
           \/ ahead[d] >= 1 /\ Continue(d, Head(queue[d])) /\ UNCHANGED nav
    PROVE  LateWorkIsSound'
<1>1. PICK w : w = Head(queue[d])
  OBVIOUS
<1>2. /\ w \in Write /\ w.order \in Orders /\ w.order \in issued /\ LateCall(w)
      /\ 1 \in DOMAIN queue[d] /\ queue[d][1] = w
      /\ w.op # "create" => ~Creating(w.order)
      /\ w.op = "create" /\ ToBePaid(w.order) => w.paymentOption = "electronic"
  BY <1>1, HeadLate
<1>3. /\ Len(nav[d]) \in Nat /\ Tail(queue[d]) \in Seq(Write)
      /\ nav[d] # <<>> => Len(nav[d]) - 1 \in Nat
  BY HeadType, TopType DEF DocsOK
<1>4. ASSUME NEW N, QueueStep(d, 1, N), \A n \in N : LateNew(n),
             NEW m \in Nat, NEW R, NavStep(d, m, R), \A r \in R : LateOpen(r), NoNewCharge(d)
      PROVE  LateWorkIsSound'
  <2>1. \A i \in DOMAIN nav'[d] : Charging(nav'[d][i]) => charges'[nav'[d][i].offer] > 0
    BY <1>4, LateCharges
  <2>. QED BY <1>4, <2>1, LateStill
<1>5. CASE w.op = "create" /\ ShowSent(d, w)
  <2>1. PICK r : r = Screen("order", w.order, NewOrder(w.paymentOption), NoOffer)
    OBVIOUS
  <2>2. /\ QueueStep(d, 1, {})
        /\ \/ NavStep(d, Len(nav[d]) - 1, {r}) /\ nav[d] # <<>>
           \/ NavStep(d, Len(nav[d]), {})
    BY <1>1, <1>5, <2>1, SentNav
  <2>3. r \in Route
    <3>1. NewOrder(w.paymentOption) \in OrderDoc
      BY <1>2, DocTypes DEF Write
    <3>. QED BY <1>2, <2>1, <3>1 DEF Screen, Route, Page
  <2>4. LateOpen(r)
    BY <1>2, <1>5, <2>1, <2>3 DEF LateOpen, LatePage, Charging, Screen, NewOrder
  <2>5. NoNewCharge(d)
    BY <1>1, <1>5, SentCharges
  <2>6. CASE NavStep(d, Len(nav[d]) - 1, {r}) /\ nav[d] # <<>>
    BY <1>3, <1>4, <2>2, <2>4, <2>5, <2>6
  <2>7. CASE NavStep(d, Len(nav[d]), {})
    BY <1>3, <1>4, <2>2, <2>5, <2>7
  <2>. QED BY <2>2, <2>6, <2>7
<1>6. ASSUME NEW n \in Nat, Pop(d, n, Tail(queue[d])) PROVE LateWorkIsSound'
  <2>1. QueueStep(d, 1, {}) /\ NavStep(d, Len(nav[d]), {}) /\ NoNewCharge(d)
    BY <1>3, <1>6, PopEffect, PopCharges
  <2>. QED BY <1>3, <1>4, <2>1
<1>7. CASE ahead[d] >= 1 /\ Continue(d, w) /\ UNCHANGED nav
  <2>1. PICK n : n = [w EXCEPT !.op = Following(w)]
    OBVIOUS
  <2>2. PICK N : N = {x \in {n} : Following(w) # "end"}
    OBVIOUS
  <2>3. QueueStep(d, 1, N)
    BY <1>1, <1>7, <2>1, <2>2, ContinueQueue
  <2>4. NavStep(d, Len(nav[d]), {}) /\ NoNewCharge(d)
    BY <1>7, SameNav DEF NoNewCharge
  <2>5. /\ w.op = "start" => Started(w.order)
        /\ w.op = "choose" => order[w.order].offerId # NoOffer
    BY <1>2, <1>7 DEF LateWorkIsSound, AppliedShows
  <2>6. ASSUME Following(w) # "end" PROVE LateNew(n)
    <3>1. /\ n.op = Following(w) /\ n.order = w.order /\ n.offer = w.offer
      BY <1>2, <2>1 DEF Write
    <3>2. n \in Write
      BY <1>2, <2>1, <2>6 DEF Write, Following, Op
    <3>. QED BY <1>2, <2>5, <2>6, <3>1, <3>2 DEF LateNew, LateCall, Following, Acceptance
  <2>. QED BY <1>3, <1>4, <2>2, <2>3, <2>4, <2>6
<1>. QED BY <1>1, <1>5, <1>6, <1>7

\* The server applies write w.
Applied(w) ==
    /\ order' = [order EXCEPT ![w.order] = UpdatedOrder(w)]
    /\ w.offer = NoOffer => offer' = offer
    /\ w.offer # NoOffer => offer' = [offer EXCEPT ![w.offer] = UpdatedOffer(w)]
    /\ UNCHANGED <<issued, charges>>

\* The documents after a write was applied.
LEMMA AppliedEffect ==
    ASSUME DocsOK, NEW w \in Write, Applied(w)
    PROVE  /\ \A o \in Orders : o # w.order => order'[o] = order[o]
           /\ w.op = "create" => order'[w.order] = NewOrder(w.paymentOption)
           /\ w.op # "create" => order'[w.order].paymentOption = order[w.order].paymentOption
           /\ w.op \in {"start", "cancel"} => /\ Started(w.order)'
                                              /\ order'[w.order].offerId = order[w.order].offerId
           /\ w.op = "choose" => /\ order'[w.order].status = order[w.order].status
                                 /\ order'[w.order].offerId = w.offer
           /\ w.op \in {"accept", "withdraw"} => order'[w.order] = order[w.order]
           /\ \A f \in Offers :
                 \/ offer'[f] = offer[f]
                 \/ f = w.offer /\ w.op = "accept" /\ offer'[f] = "accepted"
                 \/ f = w.offer /\ w.op = "withdraw" /\ offer'[f] = "orderCancelled"
<1>1. w.order \in Orders /\ order \in [Orders -> OrderDoc] /\ offer \in [Offers -> OfferStatus]
      /\ w.op \in Op
  BY DEF DocsOK, Write
<1>2. order' = [order EXCEPT ![w.order] = UpdatedOrder(w)]
  BY DEF Applied
<1>3. order'[w.order] = UpdatedOrder(w) /\ \A o \in Orders : o # w.order => order'[o] = order[o]
  BY <1>1, <1>2
<1>4. order[w.order] \in OrderDoc
  BY <1>1
<1>5. /\ w.op = "create" => UpdatedOrder(w) = NewOrder(w.paymentOption)
      /\ w.op = "choose" => UpdatedOrder(w) = [order[w.order] EXCEPT !.offerId = w.offer]
      /\ w.op = "start" => UpdatedOrder(w) = [order[w.order] EXCEPT !.status = "inProgress"]
      /\ w.op = "cancel" => UpdatedOrder(w) = [order[w.order] EXCEPT !.status = "cancelled"]
      /\ w.op \in {"accept", "withdraw"} => UpdatedOrder(w) = order[w.order]
  BY DEF UpdatedOrder, StatusSet
<1>6. \A f \in Offers :
         \/ offer'[f] = offer[f]
         \/ f = w.offer /\ w.op = "accept" /\ offer'[f] = "accepted"
         \/ f = w.offer /\ w.op = "withdraw" /\ offer'[f] = "orderCancelled"
  <2>1. \/ UpdatedOffer(w) = offer[w.offer]
        \/ w.op = "accept" /\ UpdatedOffer(w) = "accepted"
        \/ w.op = "withdraw" /\ UpdatedOffer(w) = "orderCancelled"
    BY DEF UpdatedOffer
  <2>2. CASE w.offer = NoOffer
    BY <2>2 DEF Applied
  <2>3. CASE w.offer # NoOffer
    <3>1. offer' = [offer EXCEPT ![w.offer] = UpdatedOffer(w)]
      BY <2>3 DEF Applied
    <3>. QED BY <1>1, <2>1, <3>1
  <2>. QED BY <2>2, <2>3
<1>7. w.op # "create" => order'[w.order].paymentOption = order[w.order].paymentOption
  BY <1>1, <1>3, <1>4, <1>5 DEF Op, OrderDoc
<1>8. w.op \in {"start", "cancel"} => /\ Started(w.order)'
                                      /\ order'[w.order].offerId = order[w.order].offerId
  BY <1>3, <1>4, <1>5 DEF OrderDoc, Started
<1>9. w.op = "choose" => /\ order'[w.order].status = order[w.order].status
                         /\ order'[w.order].offerId = w.offer
  BY <1>3, <1>4, <1>5 DEF OrderDoc
<1>. QED BY <1>3, <1>5, <1>6, <1>7, <1>8, <1>9

\* Applying a write takes nothing away from an order that is not being created.
LEMMA AppliedForward ==
    ASSUME OneDevice, DocsOK, LateWorkIsSound, NEW d \in Devices, NEW p \in DOMAIN queue[d],
           NEW w \in Write, w = queue[d][p], Applied(w)
    PROVE  /\ LateForward
           /\ \A o \in Orders : ~(o = w.order /\ w.op = "create") =>
                 /\ Started(o) => Started(o)'
                 /\ order[o].offerId # NoOffer => order'[o].offerId # NoOffer
<1>1. w.order \in Orders /\ (w.op = "choose" => w.offer \in Offers)
  BY DEF Write
<1>2. w.op = "create" => Creating(w.order)
  BY DEF Creating, Awaits
<1>3. \A f \in Offers : /\ offer[f] # "none" => offer'[f] # "none"
                        /\ charges[f] > 0 => charges'[f] > 0
  <2>1. charges' = charges
    BY DEF Applied
  <2>. QED BY <2>1, AppliedEffect
<1>4. ASSUME NEW o \in issued, Electronic(o)' PROVE ToBePaid(o)
  <2>1. o \in Orders
    BY DEF DocsOK
  <2>2. CASE o = w.order /\ w.op = "create"
    <3>1. order'[o] = NewOrder(w.paymentOption)
      BY <2>2, AppliedEffect
    <3>2. w.paymentOption = "electronic"
      BY <1>4, <3>1 DEF Electronic, NewOrder
    <3>. QED BY <2>2, <3>2 DEF ToBePaid
  <2>3. CASE ~(o = w.order /\ w.op = "create")
    <3>1. order'[o].paymentOption = order[o].paymentOption
      BY <2>1, <2>3, AppliedEffect
    <3>. QED BY <1>4, <3>1 DEF ToBePaid, Electronic
  <2>. QED BY <2>2, <2>3
<1>5. ASSUME NEW o \in Orders, ~(o = w.order /\ w.op = "create")
      PROVE  /\ Started(o) => Started(o)'
             /\ order[o].offerId # NoOffer => order'[o].offerId # NoOffer
  <2>1. CASE o # w.order
    <3>1. order'[o] = order[o]
      BY <2>1, AppliedEffect
    <3>. QED BY <3>1 DEF Started
  <2>2. CASE o = w.order
    <3>1. w.op \in {"start", "choose", "accept", "cancel", "withdraw"}
      BY <1>5, <2>2 DEF Write, Op
    <3>2. Started(o) => Started(o)'
      <4>1. CASE w.op \in {"start", "cancel"}
        BY <2>2, <4>1, AppliedEffect
      <4>2. CASE w.op \in {"choose", "accept", "withdraw"}
        <5>1. order'[o].status = order[o].status
          BY <2>2, <4>2, AppliedEffect
        <5>. QED BY <5>1 DEF Started
      <4>. QED BY <3>1, <4>1, <4>2
    <3>3. order[o].offerId # NoOffer => order'[o].offerId # NoOffer
      BY <1>1, <2>2, <3>1, AppliedEffect, SentinelAssumption
    <3>. QED BY <3>2, <3>3
  <2>. QED BY <2>1, <2>2
<1>. QED BY <1>2, <1>3, <1>4, <1>5 DEF LateForward, Applied

\* The documents agree with each other after a write was applied.
LEMMA AppliedDocs ==
    ASSUME OneDevice, DocsOK, DocsOK', Apart({}), LateWorkIsSound, LateForward,
           NEW d \in Devices, NEW p \in DOMAIN queue[d],
           NEW w \in Write, w = queue[d][p], Applied(w),
           \A o \in issued : /\ ToBePaid(o)' => ToBePaid(o)
                             /\ Creating(o)' => Creating(o)
    PROVE  LateDocs'
<1>1. /\ LateDocs /\ LateCall(w) /\ w.order \in issued /\ w.order \in Orders
      /\ w.op \in Op /\ w.offer \in Offers \cup {NoOffer}
      /\ w.op \in {"start", "choose", "accept", "withdraw"} => w.offer \in Offers
  BY DEF LateWorkIsSound, Apart, Write
<1>2. /\ charges' = charges
      /\ \A o \in issued : PaidSomehow(o) => PaidSomehow(o)'
  BY DEF Applied, PaidSomehow
<1>3. w.op = "create" => Creating(w.order)
  BY DEF Creating, Awaits
<1>4. \A o \in Orders : Exists(o) => o \in issued
  BY DEF Apart
<1>5. ASSUME NEW o \in Orders, order'[o].offerId # NoOffer
      PROVE  /\ Started(o)' /\ ~Creating(o)'
             /\ OrderOf[order'[o].offerId] = o /\ offer'[order'[o].offerId] # "none"
             /\ Electronic(o)' => charges'[order'[o].offerId] > 0
  <2>1. CASE o = w.order /\ w.op = "choose"
    <3>1. order'[o].offerId = w.offer /\ Started(o)'
      <4>1. order'[o].status = order[o].status /\ order'[o].offerId = w.offer
        BY <2>1, AppliedEffect
      <4>2. Started(o)
        BY <1>1, <2>1 DEF LateCall
      <4>. QED BY <4>1, <4>2 DEF Started
    <3>2. ~Creating(o)' /\ OrderOf[w.offer] = o /\ offer'[w.offer] # "none"
      BY <1>1, <2>1 DEF LateCall, Acceptance, LateForward
    <3>3. Electronic(o)' => charges'[w.offer] > 0
      BY <1>1, <1>2, <2>1 DEF LateCall, Acceptance, LateForward
    <3>. QED BY <3>1, <3>2, <3>3
  <2>2. CASE ~(o = w.order /\ w.op = "choose")
    <3>1. ~(o = w.order /\ w.op = "create")
      <4>1. NewOrder(w.paymentOption).offerId = NoOffer
        BY DEF NewOrder
      <4>. QED BY <1>5, <4>1, AppliedEffect
    <3>2. order'[o].offerId = order[o].offerId /\ order'[o].paymentOption = order[o].paymentOption
      BY <1>1, <2>2, <3>1, AppliedEffect DEF Op
    <3>3. /\ Started(o) /\ ~Creating(o)
          /\ OrderOf[order[o].offerId] = o /\ offer[order[o].offerId] # "none"
          /\ Electronic(o) => charges[order[o].offerId] > 0
      BY <1>1, <1>5, <3>2 DEF LateDocs
    <3>4. Started(o)' /\ ~Creating(o)'
      BY <1>4, <3>3 DEF LateForward, Started, Exists
    <3>5. order[o].offerId \in Offers
      BY <1>5, <3>2 DEF DocsOK, OrderDoc
    <3>. QED BY <1>2, <3>2, <3>3, <3>4, <3>5 DEF LateForward, Electronic
  <2>. QED BY <2>1, <2>2
<1>6. ASSUME NEW f \in Offers, offer'[f] = "accepted"
      PROVE  /\ order'[OrderOf[f]].offerId # NoOffer
             /\ Electronic(OrderOf[f])' => charges'[f] > 0
  <2>1. OrderOf[f] \in Orders
    BY OrderOfAssumption
  <2>2. /\ order[OrderOf[f]].offerId # NoOffer
        /\ ToBePaid(OrderOf[f]) => charges[f] > 0
    <3>1. CASE offer[f] = "accepted"
      <4>1. /\ order[OrderOf[f]].offerId # NoOffer
            /\ Electronic(OrderOf[f]) => charges[f] > 0
        BY <1>1, <3>1 DEF LateDocs
      <4>2. ~Creating(OrderOf[f])
        BY <1>1, <2>1, <4>1 DEF LateDocs
      <4>3. ToBePaid(OrderOf[f]) => Electronic(OrderOf[f])
        BY <4>2 DEF ToBePaid, Creating, Awaits
      <4>. QED BY <4>1, <4>3
    <3>2. CASE f = w.offer /\ w.op = "accept"
      BY <1>1, <3>2 DEF LateCall, Acceptance
    <3>. QED BY <1>6, <3>1, <3>2, AppliedEffect
  <2>3. Started(OrderOf[f]) /\ ~Creating(OrderOf[f])
    BY <1>1, <2>1, <2>2 DEF LateDocs
  <2>4. OrderOf[f] \in issued
    BY <1>4, <2>1, <2>3 DEF Started, Exists
  <2>. QED BY <1>2, <2>1, <2>2, <2>3, <2>4 DEF LateForward
<1>7. ASSUME NEW o \in Orders, Electronic(o)' PROVE Exists(o)'
  <2>1. CASE o # w.order
    <3>1. order'[o] = order[o]
      BY <2>1, AppliedEffect
    <3>. QED BY <1>1, <1>7, <3>1 DEF LateDocs, Electronic, Exists
  <2>2. CASE o = w.order /\ w.op = "create"
    <3>1. order'[o] = NewOrder(w.paymentOption)
      BY <2>2, AppliedEffect
    <3>. QED BY <3>1 DEF Exists, NewOrder
  <2>3. CASE o = w.order /\ w.op \in {"start", "cancel"}
    <3>1. Started(o)'
      BY <2>3, AppliedEffect
    <3>. QED BY <3>1 DEF Started, Exists
  <2>4. CASE o = w.order /\ w.op \in {"choose", "accept", "withdraw"}
    <3>1. order'[o].status = order[o].status /\ order'[o].paymentOption = order[o].paymentOption
      BY <2>4, AppliedEffect
    <3>. QED BY <1>1, <1>7, <3>1 DEF LateDocs, Electronic, Exists
  <2>. QED BY <1>1, <2>1, <2>2, <2>3, <2>4 DEF Op
<1>8. ASSUME NEW o \in Orders, Started(o)', ToBePaid(o)' PROVE PaidSomehow(o)'
  <2>1. o \in issued
    <3>1. CASE o = w.order
      BY <1>1, <3>1
    <3>2. CASE o # w.order
      <4>1. order'[o] = order[o]
        BY <3>2, AppliedEffect
      <4>. QED BY <1>4, <1>8, <4>1 DEF Started, Exists
    <3>. QED BY <3>1, <3>2
  <2>2. ToBePaid(o)
    BY <1>8, <2>1
  <2>3. CASE Started(o)
    BY <1>1, <1>2, <2>1, <2>2, <2>3 DEF LateDocs
  <2>4. CASE o = w.order /\ w.op = "start"
    <3>1. charges[w.offer] > 0 /\ OrderOf[w.offer] = o
      BY <1>1, <2>2, <2>4 DEF LateCall, Acceptance
    <3>2. PaidSomehow(o)
      BY <1>1, <2>4, <3>1 DEF PaidSomehow
    <3>. QED BY <1>2, <2>1, <3>2
  <2>5. CASE o = w.order /\ w.op = "cancel"
    BY <1>1, <1>2, <2>1, <2>2, <2>5 DEF LateCall
  <2>6. ~Started(o) => o = w.order /\ w.op \in {"start", "cancel"}
    <3>1. o # w.order => order'[o] = order[o]
      BY AppliedEffect
    <3>2. o = w.order /\ w.op \in {"choose", "accept", "withdraw"} =>
             order'[o].status = order[o].status
      BY AppliedEffect
    <3>3. o = w.order /\ w.op = "create" => order'[o].status = "awaitingOffers"
      <4>1. o = w.order /\ w.op = "create" => order'[o] = NewOrder(w.paymentOption)
        BY AppliedEffect
      <4>. QED BY <4>1 DEF NewOrder
    <3>. QED BY <1>1, <1>8, <3>1, <3>2, <3>3 DEF Started, Op
  <2>. QED BY <2>3, <2>4, <2>5, <2>6
<1>. QED BY <1>5, <1>6, <1>7, <1>8 DEF LateDocs

\* A write is applied, and perhaps answered at once.
LEMMA AppliedLate ==
    ASSUME OneDevice, DocsOK, DocsOK', Apart({}), LateWorkIsSound, AheadFits',
           NEW d \in Devices, ahead[d] \in Nat, ahead'[d] \in Nat,
           NEW p \in DOMAIN queue[d], p = ahead[d] + 1,
           NEW w \in Write, w = queue[d][p], Applied(w),
           NEW k \in {0, 1}, ahead'[d] = 0 \/ ahead'[d] + k <= ahead[d] + 1,
           NEW N, QueueStep(d, k, N), \A n \in N : n.op # "create" /\ LateCall(n)',
           NEW m \in Nat, NEW R, NavStep(d, m, R), \A r \in R : LatePage(r)', NoNewCharge(d)
    PROVE  LateWorkIsSound'
<1>1. /\ LateForward
      /\ \A o \in Orders : ~(o = w.order /\ w.op = "create") =>
            /\ Started(o) => Started(o)'
            /\ order[o].offerId # NoOffer => order'[o].offerId # NoOffer
  BY AppliedForward
<1>2. OldOrders(N)
  BY DEF OldOrders
<1>3. \A o \in issued : /\ ToBePaid(o)' => ToBePaid(o)
                        /\ Creating(o)' => Creating(o)
  BY <1>1, <1>2, ToBePaidKept DEF LateForward
<1>4. LateDocs'
  BY <1>1, <1>3, AppliedDocs
<1>5. \A i \in DOMAIN nav'[d] : Charging(nav'[d][i]) => charges'[nav'[d][i].offer] > 0
  <2>1. UNCHANGED charges
    BY DEF Applied
  <2>. QED BY <2>1, LateCharges
<1>6. AppliedShows'
  <2>1. ASSUME NEW e \in Devices, NEW i \in DOMAIN queue'[e], i <= ahead'[e],
               NEW u, u = queue'[e][i]
        PROVE  /\ u.op = "start" => Started(u.order)'
               /\ u.op = "choose" => order'[u.order].offerId # NoOffer
    <3>1. /\ e = d /\ i \in Nat /\ Len(queue[d]) \in Nat /\ i > 0
          /\ \/ i + k \in DOMAIN queue[d] /\ SameCall(u, queue[d][i + k])
             \/ i + k = Len(queue[d]) + 1
          /\ DOMAIN queue[d] = 1..Len(queue[d])
      <4>1. queue[d] \in Seq(Write) /\ queue'[e] \in Seq(Write)
        BY DEF DocsOK
      <4>2. /\ i \in Nat /\ i > 0 /\ Len(queue[d]) \in Nat
            /\ DOMAIN queue[d] = 1..Len(queue[d])
        BY <4>1
      <4>3. /\ e = d
            /\ \/ i + k \in DOMAIN queue[d] /\ SameCall(u, queue[d][i + k])
               \/ i + k = Len(queue[d]) + 1
        BY <2>1, LateQueue
      <4>. QED BY <4>2, <4>3
    <3>2. PICK j : j = i + k
      OBVIOUS
    <3>3. /\ j \in DOMAIN queue[d] /\ SameCall(u, queue[d][j]) /\ j \in Nat /\ p \in Nat
          /\ (j = p \/ (j <= ahead[d] /\ j < p))
      <4>0. j \in Nat /\ p \in Nat /\ i <= ahead'[d] /\ i \in Nat /\ i > 0
        BY <2>1, <3>1, <3>2
      <4>1. j <= ahead[d] + 1 /\ j \in Nat /\ p \in Nat
        BY <3>2, <4>0
      <4>2. j \in DOMAIN queue[d] /\ j # Len(queue[d]) + 1
        BY <3>1, <3>2, <4>1
      <4>3. SameCall(u, queue[d][j])
        BY <3>1, <3>2, <4>2
      <4>4. j = p \/ (j <= ahead[d] /\ j < p)
        BY <4>1
      <4>. QED BY <4>1, <4>2, <4>3, <4>4
    <3>4. PICK v : v = queue[d][j]
      OBVIOUS
    <3>5. CASE j = p
      <4>1. SameCall(u, w)
        BY <3>3, <3>5
      <4>2. w.op = "start" => Started(w.order)'
        BY AppliedEffect
      <4>3. w.op = "choose" => order'[w.order].offerId # NoOffer
        BY AppliedEffect, SentinelAssumption DEF Write
      <4>. QED BY <4>1, <4>2, <4>3 DEF SameCall
    <3>6. CASE j <= ahead[d] /\ j < p
      <4>1. /\ v.op = "start" => Started(v.order)
            /\ v.op = "choose" => order[v.order].offerId # NoOffer
        <5>1. AppliedShows
          BY DEF LateWorkIsSound
        <5>. QED BY <3>3, <3>4, <3>6, <5>1 DEF AppliedShows
      <4>2. ~(v.order = w.order /\ w.op = "create")
        <5>1. CreatesFirst
          BY DEF LateWorkIsSound
        <5>. QED BY <3>3, <3>4, <3>6, <5>1 DEF CreatesFirst
      <4>3. v.order \in Orders
        <5>1. v \in Write
          BY <3>3, <3>4 DEF DocsOK
        <5>. QED BY <5>1 DEF Write
      <4>. QED BY <1>1, <3>3, <3>4, <4>1, <4>2, <4>3 DEF SameCall, Started
    <3>. QED BY <3>3, <3>5, <3>6
  <2>. QED BY <2>1 DEF AppliedShows, Started
<1>. QED BY <1>1, <1>2, <1>4, <1>5, <1>6, LateKept

\* An acknowledgement applies the oldest write.
LEMMA AckApplies ==
    ASSUME DocsOK, NEW d \in Devices, Ack(d), NEW w, w = Head(queue[d])
    PROVE  queue[d] # <<>> /\ Applied(w)
<1>1. queue[d] # <<>>
  BY DEF Ack, AckCreate, AckStart, AckChoose, AckAccept, AckCancel, AckWithdraw, Ready
<1>2. w \in Write /\ order \in [Orders -> OrderDoc] /\ offer \in [Offers -> OfferStatus]
  BY <1>1, HeadType DEF DocsOK
<1>3. /\ w.order \in Orders /\ [order EXCEPT ![w.order] = order[w.order]] = order
      /\ w.op \in {"accept", "withdraw"} => w.offer # NoOffer
  BY <1>2, SentinelAssumption DEF Write
<1>4. w.offer # NoOffer => [offer EXCEPT ![w.offer] = offer[w.offer]] = offer
  BY <1>2
<1>5. CASE AckCreate(d) \/ AckStart(d) \/ AckChoose(d) \/ AckCancel(d)
  <2>1. order' = [order EXCEPT ![w.order] = UpdatedOrder(w)] /\ w.op \notin {"accept", "withdraw"}
    BY <1>2, <1>5
       DEF AckCreate, AckStart, AckChoose, AckCancel, Ready, UpdatedOrder, StatusSet
  <2>2. UpdatedOffer(w) = offer[w.offer]
    BY <2>1 DEF UpdatedOffer
  <2>3. UNCHANGED <<offer, issued, charges>>
    BY <1>5 DEF AckCreate, AckStart, AckChoose, AckCancel
  <2>4. w.offer # NoOffer => offer' = [offer EXCEPT ![w.offer] = UpdatedOffer(w)]
    BY <1>2, <2>2, <2>3
  <2>. QED BY <1>1, <2>1, <2>3, <2>4 DEF Applied
<1>6. CASE AckAccept(d) \/ AckWithdraw(d)
  <2>1. /\ offer' = [offer EXCEPT ![w.offer] = UpdatedOffer(w)]
        /\ w.op \in {"accept", "withdraw"} /\ UNCHANGED <<order, issued, charges>>
    BY <1>6 DEF AckAccept, AckWithdraw, Ready, UpdatedOffer
  <2>2. UpdatedOrder(w) = order[w.order]
    BY <2>1 DEF UpdatedOrder
  <2>3. order' = [order EXCEPT ![w.order] = UpdatedOrder(w)]
    BY <1>2, <1>3, <2>1, <2>2
  <2>. QED BY <1>1, <1>3, <2>1, <2>3 DEF Applied
<1>. QED BY <1>1, <1>5, <1>6 DEF Ack

\* An acknowledgement.
LEMMA AckLate ==
    ASSUME OneDevice, TypeOK, DocsOK', Apart({}), LateWorkIsSound, AheadFits',
           NEW d \in Devices, Answered(d), UNCHANGED ahead
    PROVE  LateWorkIsSound'
<1>1. PICK w : w = Head(queue[d])
  OBVIOUS
<1>2. /\ DocsOK /\ Ack(d) /\ ahead[d] = 0 /\ ahead'[d] = 0
  BY DEF TypeOK, Answered
<1>3. queue[d] # <<>> /\ Applied(w)
  BY <1>1, <1>2, AckApplies
<1>4. /\ w \in Write /\ w.order \in Orders /\ w.order \in issued /\ LateCall(w)
      /\ 1 \in DOMAIN queue[d] /\ queue[d][1] = w
      /\ w.op # "create" => ~Creating(w.order)
      /\ w.op = "create" /\ ToBePaid(w.order) => w.paymentOption = "electronic"
  BY <1>1, <1>2, <1>3, HeadLate
<1>5. /\ Len(nav[d]) \in Nat /\ Tail(queue[d]) \in Seq(Write)
      /\ nav[d] # <<>> => Len(nav[d]) - 1 \in Nat
  BY <1>2, <1>3, HeadType, TopType DEF DocsOK
<1>6. LateForward
  BY <1>2, <1>3, <1>4, AppliedForward
<1>7. ASSUME NEW N, QueueStep(d, 1, N), OldOrders(N)
      PROVE  /\ ToBePaid(w.order)' => ToBePaid(w.order)
             /\ Creating(w.order)' => Creating(w.order)
  <2>1. Electronic(w.order)' => ToBePaid(w.order)
    BY <1>4, <1>6 DEF LateForward
  <2>. QED BY <1>2, <1>4, <1>7, <2>1, ToBePaidKept
<1>8. ASSUME NEW N, QueueStep(d, 1, N), \A n \in N : n.op # "create" /\ LateCall(n)',
             NEW m \in Nat, NEW R, NavStep(d, m, R), \A r \in R : LatePage(r)', NoNewCharge(d)
      PROVE  LateWorkIsSound'
  <2>1. ahead[d] \in Nat /\ ahead'[d] \in Nat /\ 1 = ahead[d] + 1
    BY <1>2
  <2>. QED BY <1>2, <1>3, <1>4, <1>8, <2>1, AppliedLate
<1>9. CASE AckCreate(d)
  <2>1. PICK r : r = Screen("order", w.order, NewOrder(w.paymentOption), NoOffer)
    OBVIOUS
  <2>2. ShowSent(d, w) /\ w.op = "create"
    BY <1>1, <1>9 DEF AckCreate, Ready
  <2>3. /\ QueueStep(d, 1, {})
        /\ \/ NavStep(d, Len(nav[d]) - 1, {r}) /\ nav[d] # <<>>
           \/ NavStep(d, Len(nav[d]), {})
    BY <1>1, <1>2, <1>3, <2>1, <2>2, SentNav
  <2>4. ToBePaid(w.order)' => w.paymentOption = "electronic"
    BY <1>4, <1>7, <2>2, <2>3 DEF OldOrders
  <2>5. LatePage(r)'
    BY <2>1, <2>4 DEF LatePage, Charging, Screen, NewOrder
  <2>6. NoNewCharge(d)
    BY <1>1, <1>2, <1>3, <2>2, SentCharges
  <2>7. CASE NavStep(d, Len(nav[d]) - 1, {r}) /\ nav[d] # <<>>
    BY <1>5, <1>8, <2>3, <2>5, <2>6, <2>7
  <2>8. CASE NavStep(d, Len(nav[d]), {})
    BY <1>5, <1>8, <2>3, <2>6, <2>8
  <2>. QED BY <2>3, <2>7, <2>8
<1>10. CASE AckStart(d) \/ AckChoose(d) \/ AckCancel(d)
  <2>1. Continue(d, w) /\ nav' = nav /\ w.op \in {"start", "choose", "cancel"}
    BY <1>1, <1>10 DEF AckStart, AckChoose, AckCancel, Ready
  <2>2. PICK n : n = [w EXCEPT !.op = Following(w)]
    OBVIOUS
  <2>3. PICK N : N = {x \in {n} : Following(w) # "end"}
    OBVIOUS
  <2>4. QueueStep(d, 1, N)
    BY <1>1, <1>2, <1>3, <2>1, <2>2, <2>3, ContinueQueue
  <2>5. NavStep(d, Len(nav[d]), {}) /\ NoNewCharge(d)
    BY <1>2, <2>1, SameNav DEF NoNewCharge
  <2>6. /\ n.op = Following(w) /\ n.order = w.order /\ n.offer = w.offer
        /\ Following(w) # "create"
    BY <1>4, <2>2 DEF Write, Following
  <2>7. OldOrders(N)
    BY <2>3, <2>6 DEF OldOrders
  <2>8. /\ ToBePaid(w.order)' => ToBePaid(w.order)
        /\ Creating(w.order)' => Creating(w.order)
    BY <1>7, <2>4, <2>7
  <2>9. CASE w.op = "start"
    <3>1. Started(w.order)' /\ ~Creating(w.order)'
      BY <1>2, <1>3, <1>4, <2>8, <2>9, AppliedEffect
    <3>2. /\ OrderOf[w.offer] = w.order /\ offer'[w.offer] # "none"
          /\ ToBePaid(w.order)' => charges'[w.offer] > 0
      BY <1>4, <1>6, <2>8, <2>9 DEF LateCall, LateForward, Acceptance, Write
    <3>3. n.op = "choose"
      BY <2>6, <2>9 DEF Following
    <3>. QED BY <2>6, <3>1, <3>2, <3>3, <1>5, <1>8, <2>3, <2>4, <2>5 DEF LateCall
  <2>10. CASE w.op = "choose"
    <3>1. Started(w.order)' /\ ~Creating(w.order)'
      BY <1>4, <1>6, <2>8, <2>10 DEF LateCall, LateForward
    <3>2. /\ OrderOf[w.offer] = w.order /\ offer'[w.offer] # "none"
          /\ ToBePaid(w.order)' => charges'[w.offer] > 0
      BY <1>4, <1>6, <2>8, <2>10 DEF LateCall, LateForward, Acceptance, Write
    <3>3. order'[w.order].offerId # NoOffer
      <4>1. order'[w.order].offerId = w.offer
        BY <1>2, <1>3, <1>4, <2>10, AppliedEffect
      <4>. QED BY <1>4, <2>10, <4>1, SentinelAssumption DEF Write
    <3>4. n.op = "accept"
      BY <2>6, <2>10 DEF Following
    <3>. QED BY <2>6, <3>1, <3>2, <3>3, <3>4, <1>5, <1>8, <2>3, <2>4, <2>5 DEF LateCall
  <2>11. CASE w.op = "cancel"
    <3>1. \A x \in N : x.op = "withdraw"
      BY <2>3, <2>6, <2>11 DEF Following
    <3>2. \A x \in N : LateCall(x)'
      BY <3>1 DEF LateCall, Acceptance
    <3>. QED BY <1>5, <1>8, <2>4, <2>5, <3>1, <3>2
  <2>. QED BY <2>1, <2>9, <2>10, <2>11
<1>11. CASE AckAccept(d) \/ AckWithdraw(d)
  <2>1. PopBoth(d, Head(queue[d]))
    BY <1>11 DEF AckAccept, AckWithdraw
  <2>2. PICK n \in Nat : Pop(d, n, Tail(queue[d]))
    BY <2>1 DEF PopBoth
  <2>3. QueueStep(d, 1, {}) /\ NavStep(d, Len(nav[d]), {}) /\ NoNewCharge(d)
    BY <1>2, <1>3, <1>5, <2>2, PopEffect, PopCharges
  <2>. QED BY <1>5, <1>8, <2>3
<1>. QED BY <1>2, <1>9, <1>10, <1>11 DEF Ack

\* A refused write and a restart.
LEMMA RejectKillLate ==
    ASSUME OneDevice, TypeOK, DocsOK', Apart({}), LateWorkIsSound, AheadFits',
           NEW d \in Devices, Reject(d) \/ Kill(d), ahead' = [ahead EXCEPT ![d] = 0]
    PROVE  LateWorkIsSound'
<1>1. /\ DocsOK /\ ahead[d] \in Nat /\ ahead'[d] = 0
      /\ UNCHANGED <<order, offer, issued, charges>>
  BY DEF TypeOK, Reject, Kill
<1>2. CASE Kill(d)
  <2>1. QueueStep(d, 0, {}) /\ NavStep(d, 0, {})
    BY <1>1, <1>2, KillNav
  <2>2. nav'[d] = <<Plain("home")>>
    BY <1>1, <1>2 DEF Kill, DocsOK
  <2>3. \A i \in DOMAIN nav'[d] : ~Charging(nav'[d][i])
    <3>1. PICK h : h = Plain("home")
      OBVIOUS
    <3>2. ~Charging(h)
      BY <3>1 DEF Charging, Plain, Screen
    <3>3. \A x : \A i \in DOMAIN <<x>> : <<x>>[i] = x
      OBVIOUS
    <3>4. nav'[d] = <<h>>
      BY <2>2, <3>1
    <3>5. \A i \in DOMAIN nav'[d] : nav'[d][i] = h
      BY <3>3, <3>4, Zenon
    <3>. QED BY <3>2, <3>5
  <2>. QED BY <1>1, <2>1, <2>3, LateStill
<1>3. CASE Reject(d)
  <2>1. queue[d] # <<>>
    BY <1>3 DEF Reject
  <2>2. \/ Head(queue[d]).op = "create" /\ ShowSent(d, Head(queue[d]))
        \/ \E n \in Nat : Pop(d, n, Tail(queue[d]))
    BY <1>3 DEF Reject, Ready
  <2>. QED BY <1>1, <2>1, <2>2, AnswerLate
<1>. QED BY <1>2, <1>3

\* A write that is applied, answered or sent again.
LEMMA UnansweredLate ==
    ASSUME OneDevice, TypeOK, DocsOK', Apart({}), LateWorkIsSound, AheadFits',
           NEW d \in Devices, Unanswered(d)
    PROVE  LateWorkIsSound'
<1>1. /\ DocsOK /\ ahead \in [Devices -> Nat] /\ ahead[d] \in Nat /\ Len(nav[d]) \in Nat
  BY DEF TypeOK, DocsOK
<1>2. CASE ApplyAhead(d)
  <2>1. PICK p : p = ahead[d] + 1
    OBVIOUS
  <2>2. PICK w : w = queue[d][p]
    OBVIOUS
  <2>3. p \in DOMAIN queue[d] /\ w \in Write
    BY <1>1, <1>2, <2>1, <2>2 DEF ApplyAhead, DocsOK
  <2>4. Applied(w) /\ nav' = nav /\ queue' = queue /\ ahead'[d] = ahead[d] + 1
    BY <1>1, <1>2, <2>1, <2>2 DEF ApplyAhead, Applied
  <2>5. QueueStep(d, 0, {})
    BY <1>1, <2>4 DEF QueueStep, SameCall, DocsOK
  <2>6. NavStep(d, Len(nav[d]), {}) /\ NoNewCharge(d)
    BY <1>1, <2>4, SameNav DEF NoNewCharge
  <2>7. ahead'[d] \in Nat /\ ahead'[d] + 0 <= ahead[d] + 1
    BY <1>1, <2>4
  <2>. QED BY <1>1, <2>1, <2>2, <2>3, <2>4, <2>5, <2>6, <2>7, AppliedLate
<1>3. CASE Answer(d)
  <2>1. /\ queue[d] # <<>> /\ ahead[d] >= 1 /\ UNCHANGED <<order, offer, issued, charges>>
        /\ ahead'[d] \in Nat /\ ahead'[d] + 1 <= ahead[d]
    BY <1>1, <1>3 DEF Answer
  <2>2. \/ Head(queue[d]).op = "create" /\ ShowSent(d, Head(queue[d]))
        \/ \E n \in Nat : Pop(d, n, Tail(queue[d]))
        \/ Continue(d, Head(queue[d])) /\ UNCHANGED nav
    BY <1>3 DEF Answer, PopBoth
  <2>. QED BY <1>1, <2>1, <2>2, AnswerLate
<1>4. CASE Reconnect(d)
  <2>1. QueueStep(d, 0, {})
    BY <1>1, <1>4 DEF Reconnect, QueueStep, SameCall, DocsOK
  <2>2. nav' = nav /\ UNCHANGED <<order, offer, issued, charges>> /\ ahead'[d] = 0
    BY <1>1, <1>4 DEF Reconnect
  <2>3. NavStep(d, Len(nav[d]), {}) /\ NoNewCharge(d)
    BY <1>1, <2>2, SameNav DEF NoNewCharge
  <2>4. \A i \in DOMAIN nav'[d] : Charging(nav'[d][i]) => charges'[nav'[d][i].offer] > 0
    BY <1>1, <2>2, <2>3, LateCharges
  <2>. QED BY <1>1, <2>1, <2>2, <2>3, <2>4, LateStill
<1>. QED BY <1>2, <1>3, <1>4 DEF Unanswered

\* A provider's offer.
LEMMA OfferLate ==
    ASSUME OneDevice, TypeOK, DocsOK', Apart({}), LateWorkIsSound, AheadFits',
           NEW f \in Offers, MakeOffer(f), UNCHANGED ahead
    PROVE  LateWorkIsSound'
<1>1. PICK d \in Devices : TRUE
  BY DevicesAssumption
<1>2. /\ DocsOK /\ ahead[d] \in Nat /\ ahead'[d] = ahead[d] /\ Len(nav[d]) \in Nat
      /\ nav' = nav /\ queue' = queue /\ UNCHANGED <<order, issued, charges>>
  BY DEF TypeOK, DocsOK, MakeOffer
<1>3. \A g \in Offers : /\ offer[g] # "none" => offer'[g] # "none"
                        /\ offer'[g] = "accepted" => offer[g] = "accepted"
  BY <1>2 DEF MakeOffer, DocsOK
<1>4. QueueStep(d, 0, {})
  BY <1>2 DEF QueueStep, SameCall, DocsOK
<1>5. NavStep(d, Len(nav[d]), {}) /\ NoNewCharge(d)
  BY <1>2, SameNav DEF NoNewCharge
<1>6. \A i \in DOMAIN nav'[d] : Charging(nav'[d][i]) => charges'[nav'[d][i].offer] > 0
  BY <1>2, <1>5, LateCharges
<1>7. ahead'[d] + 0 <= ahead[d]
  BY <1>2
<1>. QED BY <1>2, <1>3, <1>4, <1>5, <1>6, <1>7, LateStill

\* Every step of one device keeps the pending work sound.
LEMMA StepLate ==
    ASSUME OneDevice, TypeOK, Apart({}), LateWorkIsSound, [Next]_vars
    PROVE  LateWorkIsSound'
<1>1. DocsOK /\ DocsOK'
  BY StepDocs DEF TypeOK
<1>2. AheadFits'
  BY <1>1, StepFits DEF LateWorkIsSound
<1>3. ASSUME NEW d \in Devices, (Tap(d) \/ Gateway(d) \/ Answered(d)) /\ UNCHANGED ahead
      PROVE  LateWorkIsSound'
  BY <1>1, <1>2, <1>3, TapLate, GatewayLate, AckLate
<1>4. ASSUME NEW d \in Devices, Reject(d) \/ Kill(d), ahead' = [ahead EXCEPT ![d] = 0]
      PROVE  LateWorkIsSound'
  BY <1>1, <1>2, <1>4, RejectKillLate
<1>5. ASSUME NEW d \in Devices, Unanswered(d) PROVE LateWorkIsSound'
  BY <1>1, <1>2, <1>5, UnansweredLate
<1>6. ASSUME NEW f \in Offers, MakeOffer(f), UNCHANGED ahead PROVE LateWorkIsSound'
  BY <1>1, <1>2, <1>6, OfferLate
<1>7. CASE UNCHANGED vars
  BY <1>7, SMTT(30)
     DEF vars, LateWorkIsSound, AheadFits, LateDocs, CreatesFirst, AppliedShows, LateCall,
         LatePage, ToBePaid, Creating, Awaits, Electronic, Exists, Started, PaidSomehow
<1>. QED BY <1>3, <1>4, <1>5, <1>6, <1>7 DEF Next

\* At first no order is placed and only the home pages are open.
LEMMA InitLate == Init => LateWorkIsSound
<1>1. SUFFICES ASSUME Init PROVE LateWorkIsSound
  OBVIOUS
<1>2. /\ \A o \in Orders : order[o] = NoDoc
      /\ \A f \in Offers : offer[f] = "none" /\ charges[f] = 0
      /\ \A d \in Devices : /\ queue[d] = <<>> /\ ahead[d] = 0
                            /\ nav[d] = <<Plain("home")>>
  BY <1>1 DEF Init
<1>3. LateDocs
  BY <1>2 DEF LateDocs, NoDoc, Electronic, Started
<1>4. AheadFits /\ CreatesFirst /\ AppliedShows
      /\ \A d \in Devices : \A i \in DOMAIN queue[d] : LateCall(queue[d][i])
  BY <1>2 DEF AheadFits, CreatesFirst, AppliedShows
<1>5. \A d \in Devices : \A i \in DOMAIN nav[d] : LatePage(nav[d][i])
  <2>1. PICK h : h = Plain("home")
    OBVIOUS
  <2>2. LatePage(h)
    BY <2>1 DEF LatePage, Charging, Plain, Screen
  <2>3. \A x : \A i \in DOMAIN <<x>> : <<x>>[i] = x
    OBVIOUS
  <2>4. \A d \in Devices : nav[d] = <<h>>
    BY <1>2, <2>1
  <2>5. \A d \in Devices : \A i \in DOMAIN nav[d] : nav[d][i] = h
    BY <2>3, <2>4, Zenon
  <2>. QED BY <2>2, <2>5
<1>. QED BY <1>3, <1>4, <1>5 DEF LateWorkIsSound

\* The pending work of one device stays sound when its writes are refused,
\* applied again or answered late, its payment results are lost and its process
\* is killed.
THEOREM LateWorkStaysSound ==
    ASSUME OneDevice
    PROVE  Spec => []LateWorkIsSound
<1>1. TypeOK /\ Apart({}) /\ [Next]_vars => Apart({})'
  BY StepApart
<1>2. TypeOK /\ Apart({}) /\ LateWorkIsSound /\ [Next]_vars => LateWorkIsSound'
  BY StepLate
<1>. QED BY <1>1, <1>2, InitApart, InitLate, TypeCorrect, PTL DEF Spec

\* On one device a provider is told of acceptance last, whatever is lost or sent
\* again: a create that is sent again resets its order, and is ahead of every
\* acceptance of that order.
THEOREM LateAcceptancesAreStarted ==
    ASSUME OneDevice
    PROVE  Spec => []AcceptedOfferMeansStarted
<1>1. LateWorkIsSound => AcceptedOfferMeansStarted
  BY OrderOfAssumption DEF LateWorkIsSound, LateDocs, AcceptedOfferMeansStarted
<1>2. Spec => []LateWorkIsSound
  BY LateWorkStaysSound
<1>. QED BY <1>1, <1>2, PTL

\* On one device the offerId of an order is an offer made for it, whatever is
\* lost or sent again.
THEOREM LateChoicesBelong ==
    ASSUME OneDevice
    PROVE  Spec => []ChosenOfferBelongs
<1>1. LateWorkIsSound => ChosenOfferBelongs
  BY DEF LateWorkIsSound, LateDocs, ChosenOfferBelongs
<1>2. Spec => []LateWorkIsSound
  BY LateWorkStaysSound
<1>. QED BY <1>1, <1>2, PTL

\* On one device an electronic order is charged before acceptOffer runs for it,
\* whatever is lost or sent again.
THEOREM LateElectronicIsPaidFirst ==
    ASSUME OneDevice
    PROVE  Spec => []ElectronicPaidFirst
<1>1. LateWorkIsSound => ElectronicPaidFirst
  BY DEF LateWorkIsSound, LateDocs, ElectronicPaidFirst, Electronic, ToBePaid, PaidSomehow
<1>2. Spec => []LateWorkIsSound
  BY LateWorkStaysSound
<1>. QED BY <1>1, <1>2, PTL
=============================================================================
