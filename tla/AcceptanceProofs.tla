--------------------------- MODULE AcceptanceProofs ---------------------------
(***************************************************************************)
(* Proofs about Acceptance: what a push message says stays true, for every *)
(* number of phones, orders, offers and providers.                         *)
(*                                                                         *)
(* OrderFlowProofs says that an offer is accepted only on a started,       *)
(* paid order. The function runs later, so these facts must also be ones   *)
(* that no step of the app takes back (Announceable is stable).            *)
(***************************************************************************)
EXTENDS Acceptance, OrderFlowProofs

\* What the message for offer f says.
Announceable(f) ==
    /\ Started(OrderOf[f]) /\ order[OrderOf[f]].offerId # NoOffer
    /\ Electronic(OrderOf[f]) => charges[f] > 0

\* Every offer the function is told of, reads for or has sent a message for.
NoticesAreTrue ==
    \A f \in Offers : f \in notices \cup sending \cup pushed => Announceable(f)

AcceptanceInv == /\ TypeOK /\ IInv
                 /\ pushed \subseteq Offers
                 /\ NoticesAreTrue

-----------------------------------------------------------------------------
(* The app *)

\* The step of a write updates its order as its operation says.
LEMMA OrderUpdates ==
    ASSUME IInv, NEW d \in Devices, Ack(d)
    PROVE  \E o \in Orders :
              /\ \A q \in Orders \ {o} : order'[q] = order[q]
              /\ order'[o] = order[o]
                   \/ ~Exists(o)
                   \/ /\ Exists(o)
                      /\ order'[o].paymentOption = order[o].paymentOption
                      /\ \/ order'[o].status \in {"inProgress", "cancelled"}
                              /\ order'[o].offerId = order[o].offerId
                         \/ order'[o].status = order[o].status
                              /\ order'[o].offerId \in Offers
<1>1. PICK w : w = Head(queue[d])
  OBVIOUS
<1>2. queue[d] # <<>>
  BY DEF Ack, AckCreate, AckStart, AckChoose, AckAccept, AckCancel, AckWithdraw, Ready
<1>3. DocsOK /\ w \in Write /\ SoundWrite(w) /\ w.order \in Orders
  BY <1>1, <1>2, HeadSound
<1>4. order \in [Orders -> OrderDoc]
  BY <1>3 DEF DocsOK
<1>5. CASE AckCreate(d)
  <2>1. w.op = "create" /\ order' = [order EXCEPT ![w.order] = NewOrder(w.paymentOption)]
    BY <1>1, <1>5 DEF AckCreate, Ready
  <2>2. ~Exists(w.order)
    BY <1>3, <2>1 DEF SoundWrite
  <2>. QED BY <1>3, <1>4, <2>1, <2>2
<1>6. CASE AckStart(d) \/ AckCancel(d)
  <2>1. w.op # "create" /\ \E s \in {"inProgress", "cancelled"} :
            order' = [order EXCEPT ![w.order].status = s]
    BY <1>1, <1>6 DEF AckStart, AckCancel, Ready
  <2>2. Exists(w.order)
    BY <1>3, <2>1 DEF SoundWrite
  <2>. QED BY <1>3, <1>4, <2>1, <2>2 DEF OrderDoc
<1>7. CASE AckChoose(d)
  <2>1. w.op = "choose" /\ order' = [order EXCEPT ![w.order].offerId = w.offer]
    BY <1>1, <1>7 DEF AckChoose, Ready
  <2>2. Exists(w.order) /\ w.offer \in Offers
    BY <1>3, <2>1 DEF SoundWrite, Write
  <2>. QED BY <1>3, <1>4, <2>1, <2>2 DEF OrderDoc
<1>8. CASE AckAccept(d) \/ AckWithdraw(d)
  BY <1>3, <1>8 DEF AckAccept, AckWithdraw
<1>. QED BY <1>5, <1>6, <1>7, <1>8 DEF Ack

\* No step of the app takes back what a message said.
LEMMA AnnounceableIsStable ==
    ASSUME AnswersInTime, IInv, [Next]_vars, NEW f \in Offers, Announceable(f)
    PROVE  Announceable(f)'
<1>1. OrderOf[f] \in Orders /\ DocsOK /\ charges \in [Offers -> Nat]
  BY OrderOfAssumption DEF IInv, DocsOK
<1>2. CASE UNCHANGED <<order, charges>>
  BY <1>2 DEF Announceable, Started, Electronic
<1>3. ASSUME NEW d \in Devices, Ack(d) PROVE Announceable(f)'
  <2>1. charges' = charges
    BY <1>3 DEF Ack, AckCreate, AckStart, AckChoose, AckAccept, AckCancel, AckWithdraw
  <2>2. Exists(OrderOf[f])
    BY DEF Announceable, Started, Exists
  <2>. QED BY <1>1, <1>3, <2>1, <2>2, OrderUpdates, SentinelAssumption
           DEF Announceable, Started, Electronic
<1>4. ASSUME NEW d \in Devices, Gateway(d) PROVE Announceable(f)'
  <2>1. order' = order
    BY <1>4 DEF Gateway, PaymentCaptured, OnPaymentPaid, OnPaymentOther
  <2>2. charges' = charges \/ \E g : charges' = [charges EXCEPT ![g] = @ + 1]
    BY <1>4 DEF Gateway, PaymentCaptured, OnPaymentPaid, OnPaymentOther
  <2>3. charges[f] > 0 => charges'[f] > 0
    BY <1>1, <2>2
  <2>. QED BY <2>1, <2>3 DEF Announceable, Started, Electronic
<1>5. ASSUME NEW d \in Devices, Tap(d) PROVE UNCHANGED <<order, charges>>
  BY <1>5 DEF Tap, OpenForm, AskCancel, Back, AcceptOfferCash, AcceptOfferElectronic,
     CancelOrder, OpenOrder, ShowOffer, SendOrder, Browse
<1>6. ASSUME NEW d \in Devices, Reject(d) \/ Kill(d) PROVE UNCHANGED <<order, charges>>
  BY <1>6 DEF Reject, Kill
<1>7. ASSUME NEW d \in Devices PROVE ~Unanswered(d)
  BY DEF Unanswered, AnswersInTime
<1>8. ASSUME NEW g \in Offers, MakeOffer(g) PROVE UNCHANGED <<order, charges>>
  BY <1>8 DEF MakeOffer
<1>. QED BY <1>2, <1>3, <1>4, <1>5, <1>6, <1>7, <1>8 DEF Next, Answered, vars

-----------------------------------------------------------------------------
(* The composition *)

\* Every step is one of the app, or leaves its documents alone.
LEMMA AppStep ==
    [AcceptanceNext]_acceptanceVars => [Next]_vars
  BY DEF AcceptanceNext, acceptanceVars

\* A notice that is new is of an offer that is now accepted.
LEMMA NewNotices ==
    ASSUME AcceptanceInv, [AcceptanceNext]_acceptanceVars
    PROVE  /\ pushed' \subseteq Offers
           /\ \A f \in Offers : f \in notices' \cup sending' \cup pushed' =>
                 f \in notices \cup sending \cup pushed \/ offer'[f] = "accepted"
<1>1. CASE Next /\ OfferTrigger
  BY <1>1 DEF AcceptanceInv, OfferTrigger, Notify!Notice, Notify!BecomesAccepted
<1>2. CASE Notify!NotificationNext
  BY <1>2 DEF AcceptanceInv, Notify!NotificationNext, Notify!Invocations, Notify!GetProvider,
     Notify!Send, Notify!RegisterProvider, Notify!StoreToken
<1>3. CASE UNCHANGED acceptanceVars
  BY <1>3 DEF acceptanceVars, AcceptanceInv
<1>. QED BY <1>1, <1>2, <1>3 DEF AcceptanceNext

\* A step of the app or of the function keeps the notices true.
LEMMA AcceptanceStep ==
    ASSUME AnswersInTime
    PROVE  AcceptanceInv /\ [AcceptanceNext]_acceptanceVars => AcceptanceInv'
<1>. SUFFICES ASSUME AcceptanceInv, [AcceptanceNext]_acceptanceVars PROVE AcceptanceInv'
  OBVIOUS
<1>1. [Next]_vars
  BY AppStep
<1>2. IInv' /\ TypeOK'
  BY <1>1, StepSafe, StepDocs, StepAhead DEF AcceptanceInv, TypeOK
<1>3. ASSUME NEW f \in Offers, f \in notices' \cup sending' \cup pushed' PROVE Announceable(f)'
  <2>1. CASE f \in notices \cup sending \cup pushed
    BY <1>1, <2>1, AnnounceableIsStable DEF AcceptanceInv, NoticesAreTrue
  <2>2. CASE offer'[f] = "accepted"
    <3>1. AcceptedOfferMeansStarted' /\ ElectronicPaidFirst' /\ OrderOf[f] \in Orders
      BY <1>2, OrderOfAssumption DEF IInv
    <3>. QED BY <2>2, <3>1 DEF AcceptedOfferMeansStarted, ElectronicPaidFirst, Announceable,
                               Electronic
  <2>. QED BY <1>3, <2>1, <2>2, NewNotices
<1>4. NoticesAreTrue'
  BY <1>3 DEF NoticesAreTrue
<1>. QED BY <1>2, <1>4, NewNotices DEF AcceptanceInv

\* Nobody is told of anything at first.
LEMMA AcceptanceInit ==
    Init /\ Notify!NotificationInit => AcceptanceInv
<1>. SUFFICES ASSUME Init, Notify!NotificationInit PROVE AcceptanceInv
  OBVIOUS
<1>1. TypeOK /\ IInv
  BY InitSafe, InitType DEF IInv, Init, TypeOK
<1>. QED BY <1>1 DEF Notify!NotificationInit, AcceptanceInv, NoticesAreTrue

\* A push message is true when it is read, however late the function runs: the
\* provider's order is started, names an offer and, if electronic, was paid.
THEOREM AnnouncementsAreTrue ==
    ASSUME AnswersInTime
    PROVE  AcceptanceSpec => []AnnouncedIsTrue
<1>1. AcceptanceInv => AnnouncedIsTrue
  BY DEF AcceptanceInv, NoticesAreTrue, Announceable, AnnouncedIsTrue
<1>2. AcceptanceInv /\ [AcceptanceNext]_acceptanceVars => AcceptanceInv'
  BY AcceptanceStep
<1>. QED BY <1>1, <1>2, AcceptanceInit, PTL DEF AcceptanceSpec
=============================================================================
