----------------------- MODULE CancellationRefundProofs -----------------------
(***************************************************************************)
(* Proofs about CancellationRefund: for every set of orders and offers and *)
(* every number of events, deliveries and attempts.                        *)
(***************************************************************************)
EXTENDS CancellationRefund, SumTheorems, TLAPS

Assumptions == /\ Price \in [Offers -> Nat] /\ NoOffer \notin Offers
               /\ MaxDeliveries \in Nat \ {0} /\ MaxAttempts \in Nat \ {0}
               /\ Faults \subseteq AllFaults

\* The assumptions on the constants under one name.
LEMMA Assumed == Assumptions
  BY PriceAssumption, EmptyIdAssumption, DeliveryAssumption, RefundFaultsAssumption DEF Assumptions

\* A run that got past the offer has one.
RunsHaveOffers == \A r \in runs : r.pc # "getOffer" => r.offerId \in Offers

\* For OneEntryPerDelivery: an event's remaining deliveries are numbered below
\* those that were made of it, every delivery has one invocation, and an
\* invocation in progress has not refunded unless a reply was lost.
DeliveriesAreApart ==
    /\ \A x \in inbox \cup runs \cup ledger : x.id <= sent
    /\ \A e, g \in inbox : e.id = g.id => e = g
    /\ \A e \in inbox, x \in runs \cup ledger : e.id = x.id => e.left < x.delivery
    /\ \A r, s \in runs : SameDelivery(r, s) => r = s
    /\ "lostReply" \notin happened => \A r \in runs, t \in ledger : ~SameDelivery(r, t)

IInv == /\ TypeOK /\ order \in [Orders -> Doc]
        /\ RunsHaveOffers /\ DeliveriesAreApart /\ OneEntryPerDelivery

\* Nothing has been delivered at first.
LEMMA InitInv == Init => IInv
<1>. SUFFICES ASSUME Init PROVE IInv
  OBVIOUS
<1>1. order \in [Orders -> Doc]
  BY DEF Init
<1>2. user \in [exists : BOOLEAN, balance : Nat]
  BY DEF Init, FunctionInit
<1>3. TypeOK
  BY <1>2 DEF Init, FunctionInit, TypeOK
<1>4. RunsHaveOffers /\ DeliveriesAreApart /\ OneEntryPerDelivery
  BY DEF Init, FunctionInit, RunsHaveOffers, DeliveriesAreApart, OneEntryPerDelivery
<1>. QED BY <1>1, <1>3, <1>4 DEF IInv

-----------------------------------------------------------------------------
(* Steps that replace, drop or mark runs *)

\* Each run of the new set continues one run of the old, and different ones
\* continue different ones.
Continues == /\ runs' \subseteq Run
             /\ \A n \in runs' : \E r \in runs : SameDelivery(r, n)
             /\ \A n, m \in runs' : SameDelivery(n, m) => n = m

\* Runs whose read is out of date are the same otherwise.
LEMMA StaleRun ==
  ASSUME NEW S \in SUBSET Run
  PROVE  /\ Stale(S) \subseteq Run
         /\ \A n \in Stale(S) : \E r \in S : /\ n = [r EXCEPT !.fresh = FALSE]
                                            /\ n.id = r.id /\ n.delivery = r.delivery
                                            /\ n.pc = r.pc /\ n.offerId = r.offerId
  BY DEF Stale, Run

\* When the user document is written, each run goes on with its delivery.
LEMMA StaleContinues ==
  ASSUME IInv, NEW S \in SUBSET runs, runs' = Stale(S)
  PROVE  Continues /\ RunsHaveOffers'
         /\ \A n \in runs' : \E r \in S : SameDelivery(r, n)
<1>1. S \in SUBSET Run
  BY DEF IInv, TypeOK
<1>2. runs' \subseteq Run
  BY <1>1, StaleRun
<1>3. \A n \in runs' : \E r \in S : /\ n = [r EXCEPT !.fresh = FALSE]
                                    /\ n.id = r.id /\ n.delivery = r.delivery
                                    /\ n.pc = r.pc /\ n.offerId = r.offerId
  BY <1>1, StaleRun
<1>4. \A n \in runs' : \E r \in S : SameDelivery(r, n)
  BY <1>3 DEF SameDelivery
<1>5. ASSUME NEW n \in runs', NEW m \in runs', SameDelivery(n, m) PROVE n = m
  <2>1. PICK r \in S : n = [r EXCEPT !.fresh = FALSE] /\ n.id = r.id /\ n.delivery = r.delivery
    BY <1>3
  <2>2. PICK s \in S : m = [s EXCEPT !.fresh = FALSE] /\ m.id = s.id /\ m.delivery = s.delivery
    BY <1>3
  <2>3. SameDelivery(r, s)
    BY <1>5, <2>1, <2>2 DEF SameDelivery
  <2>4. r = s
    BY <2>3 DEF IInv, DeliveriesAreApart
  <2>. QED BY <2>1, <2>2, <2>4
<1>6. RunsHaveOffers'
  BY <1>3 DEF IInv, RunsHaveOffers
<1>. QED BY <1>2, <1>4, <1>5, <1>6 DEF Continues

\* A step of one run leaves the others alone and goes on with its delivery.
LEMMA StepContinues ==
  ASSUME IInv, NEW r \in runs, NEW next \in Run, Step(r, next), SameDelivery(r, next),
         next.pc # "getOffer" => next.offerId \in Offers
  PROVE  Continues /\ RunsHaveOffers'
<1>1. runs' \subseteq Run /\ RunsHaveOffers'
  BY DEF Step, IInv, TypeOK, RunsHaveOffers
<1>2. \A n \in runs' : \E s \in runs : SameDelivery(s, n) /\ (n # next => s = n) /\ (n = next => s = r)
  BY DEF Step, SameDelivery
<1>3. ASSUME NEW n \in runs', NEW m \in runs', SameDelivery(n, m) PROVE n = m
  <2>1. ASSUME NEW s \in runs \ {r}, SameDelivery(s, next) \/ SameDelivery(next, s) PROVE FALSE
    <3>1. SameDelivery(s, r)
      BY <2>1 DEF SameDelivery
    <3>. QED BY <3>1 DEF IInv, DeliveriesAreApart
  <2>2. CASE n = next /\ m = next
    BY <2>2
  <2>3. CASE n = next /\ m \in runs \ {r}
    BY <1>3, <2>1, <2>3
  <2>4. CASE m = next /\ n \in runs \ {r}
    BY <1>3, <2>1, <2>4
  <2>5. CASE n \in runs /\ m \in runs
    BY <1>3, <2>5 DEF IInv, DeliveriesAreApart
  <2>. QED BY <2>2, <2>3, <2>4, <2>5 DEF Step
<1>. QED BY <1>1, <1>2, <1>3 DEF Continues

\* A run that ends leaves the others alone.
LEMMA EndContinues ==
  ASSUME IInv, NEW r, End(r) PROVE Continues /\ RunsHaveOffers'
  BY DEF End, IInv, TypeOK, RunsHaveOffers, DeliveriesAreApart, Continues, SameDelivery

\* Such a step keeps the deliveries apart when it writes no entry.
LEMMA ContinuesApart ==
  ASSUME IInv, Continues, UNCHANGED <<sent, inbox, ledger>>,
         "lostReply" \in happened => "lostReply" \in happened'
  PROVE  DeliveriesAreApart' /\ OneEntryPerDelivery'
<1>1. \A n \in runs' : \E r \in runs : r.id = n.id /\ r.delivery = n.delivery
  BY DEF Continues, SameDelivery
<1>2. \A x \in inbox' \cup runs' \cup ledger' : x.id <= sent'
  BY <1>1 DEF IInv, DeliveriesAreApart
<1>3. \A e \in inbox', x \in runs' \cup ledger' : e.id = x.id => e.left < x.delivery
  BY <1>1 DEF IInv, DeliveriesAreApart
<1>4. "lostReply" \notin happened' => \A r \in runs', t \in ledger' : ~SameDelivery(r, t)
  BY <1>1 DEF IInv, DeliveriesAreApart, SameDelivery
<1>5. OneEntryPerDelivery'
  BY DEF IInv, OneEntryPerDelivery
<1>. QED BY <1>2, <1>3, <1>4, <1>5 DEF IInv, DeliveriesAreApart, Continues

\* ... and the invariant, when it leaves the documents alone.
LEMMA ContinuesInv ==
  ASSUME IInv, Continues, RunsHaveOffers', UNCHANGED <<order, sent, inbox, user, ledger>>,
         happened' \subseteq AllFaults, "lostReply" \in happened => "lostReply" \in happened'
  PROVE  IInv'
<1>1. TypeOK'
  BY DEF IInv, TypeOK, Continues
<1>2. DeliveriesAreApart' /\ OneEntryPerDelivery'
  BY ContinuesApart
<1>. QED BY <1>1, <1>2 DEF IInv

LEMMA GetOfferInv == ASSUME IInv, NEW r \in runs, GetOffer(r) PROVE IInv'
<1>1. r \in Run /\ UNCHANGED <<order, sent, inbox, user, ledger, happened>>
  BY DEF GetOffer, IInv, TypeOK
<1>2. Continues /\ RunsHaveOffers'
  <2>1. CASE OfferExists(r.offerId)
    <3>. DEFINE next == [r EXCEPT !.pc = "getUser", !.price = Price[r.offerId]]
    <3>1. r.offerId \in Offers /\ Price[r.offerId] \in Nat
      BY <1>1, <2>1, Assumed DEF OfferExists, Run, Assumptions
    <3>2. next \in Run /\ next.offerId = r.offerId /\ next.id = r.id /\ next.delivery = r.delivery
      BY <1>1, <3>1 DEF Run
    <3>3. Step(r, next)
      BY <2>1 DEF GetOffer
    <3>. HIDE DEF next
    <3>. QED BY <3>1, <3>2, <3>3, StepContinues DEF SameDelivery
  <2>2. CASE ~OfferExists(r.offerId)
    BY <2>2, EndContinues DEF GetOffer
  <2>. QED BY <2>1, <2>2
<1>. QED BY <1>1, <1>2, ContinuesInv DEF IInv, TypeOK

LEMMA GetUserInv == ASSUME IInv, NEW r \in runs, GetUser(r) PROVE IInv'
<1>1. r \in Run /\ UNCHANGED <<order, sent, inbox, user, ledger, happened>>
      /\ r.offerId \in Offers /\ user.balance \in Nat
  BY DEF GetUser, IInv, TypeOK, RunsHaveOffers
<1>2. Continues /\ RunsHaveOffers'
  <2>1. CASE user.exists
    <3>. DEFINE next == [r EXCEPT !.pc = "commit", !.balance = user.balance, !.fresh = TRUE]
    <3>2. next \in Run /\ next.offerId = r.offerId /\ next.id = r.id /\ next.delivery = r.delivery
      BY <1>1 DEF Run
    <3>3. Step(r, next)
      BY <2>1 DEF GetUser
    <3>. HIDE DEF next
    <3>. QED BY <1>1, <3>2, <3>3, StepContinues DEF SameDelivery
  <2>2. CASE ~user.exists
    BY <2>2, EndContinues DEF GetUser
  <2>. QED BY <2>1, <2>2
<1>. QED BY <1>1, <1>2, ContinuesInv DEF IInv, TypeOK

LEMMA RetryInv == ASSUME IInv, NEW r \in runs, Retry(r) PROVE IInv'
<1>1. r \in Run /\ UNCHANGED <<order, sent, inbox, user, ledger, happened>>
      /\ r.offerId \in Offers
  BY DEF Retry, IInv, TypeOK, RunsHaveOffers
<1>2. Continues /\ RunsHaveOffers'
  <2>1. CASE MayRetry(r)
    <3>. DEFINE next == [r EXCEPT !.pc = "getUser", !.attempt = @ + 1]
    <3>1. r.attempt + 1 \in 1..MaxAttempts
      BY <1>1, <2>1, Assumed DEF Run, MayRetry, Assumptions
    <3>2. next \in Run /\ next.offerId = r.offerId /\ next.id = r.id /\ next.delivery = r.delivery
      BY <1>1, <3>1 DEF Run
    <3>3. Step(r, next)
      BY <2>1 DEF Retry
    <3>. HIDE DEF next
    <3>. QED BY <1>1, <3>2, <3>3, StepContinues DEF SameDelivery
  <2>2. CASE ~MayRetry(r)
    BY <2>2, EndContinues DEF Retry
  <2>. QED BY <2>1, <2>2
<1>. QED BY <1>1, <1>2, ContinuesInv DEF IInv, TypeOK

\* A fault that happens is recorded.
LEMMA HappensType ==
  ASSUME IInv, NEW fault, Happens(fault)
  PROVE  happened' \subseteq AllFaults /\ fault \in happened' /\ happened \subseteq happened'
  BY Assumed DEF Happens, IInv, TypeOK, Assumptions

LEMMA CrashInv == ASSUME IInv, NEW r \in runs, Crash(r) PROVE IInv'
  BY EndContinues, HappensType, ContinuesInv DEF Crash

LEMMA TouchUserInv == ASSUME IInv, TouchUser PROVE IInv'
<1>1. Continues /\ RunsHaveOffers'
  BY StaleContinues DEF TouchUser
<1>. QED BY <1>1, HappensType, ContinuesInv DEF TouchUser

-----------------------------------------------------------------------------
(* The commit *)

LEMMA CommitInv == ASSUME IInv, NEW r \in runs, Commit(r) PROVE IInv'
<1>. DEFINE new == [id |-> r.id, delivery |-> r.delivery, attempt |-> r.attempt,
                    order |-> r.order, offer |-> r.offerId, amount |-> r.price]
<1>1. r \in Run /\ r.offerId \in Offers /\ UNCHANGED <<order, sent, inbox>>
      /\ ledger' = ledger \cup {new} /\ user' = [user EXCEPT !.balance = r.balance + r.price]
  BY DEF Commit, IInv, TypeOK, RunsHaveOffers
<1>2. new \in Entry /\ new.id = r.id /\ new.delivery = r.delivery
  BY <1>1 DEF Run, Entry
<1>. HIDE DEF new
<1>3. user' \in [exists : BOOLEAN, balance : Nat]
  BY <1>1 DEF IInv, TypeOK, Run
<1>4. PICK S \in SUBSET runs : /\ runs' = Stale(S)
                               /\ \/ S = runs \ {r} /\ happened' = happened
                                  \/ Happens("lostReply")
  BY DEF Commit, Committed
<1>5. /\ Continues /\ RunsHaveOffers'
      /\ \A n \in runs' : \E s \in S : s.id = n.id /\ s.delivery = n.delivery
  BY <1>4, StaleContinues DEF SameDelivery
<1>6. happened' \subseteq AllFaults /\ happened \subseteq happened'
  BY <1>4, HappensType DEF IInv, TypeOK
<1>7. TypeOK'
  BY <1>1, <1>2, <1>3, <1>5, <1>6 DEF IInv, TypeOK, Continues
<1>8. /\ \A x \in inbox' \cup runs' \cup ledger' : x.id <= sent'
      /\ \A e \in inbox', x \in runs' \cup ledger' : e.id = x.id => e.left < x.delivery
  BY <1>1, <1>2, <1>4, <1>5 DEF IInv, DeliveriesAreApart
<1>9. ASSUME "lostReply" \notin happened'
      PROVE  /\ \A n \in runs', t \in ledger' : ~SameDelivery(n, t)
             /\ \A s, t \in ledger' : SameDelivery(s, t) => s = t
  <2>1. S = runs \ {r} /\ "lostReply" \notin happened
    BY <1>4, <1>6, <1>9, HappensType
  <2>2. \A t \in ledger : ~(t.id = r.id /\ t.delivery = r.delivery)
    BY <2>1 DEF IInv, DeliveriesAreApart, SameDelivery
  <2>3. \A n \in runs' : ~(n.id = r.id /\ n.delivery = r.delivery)
    BY <1>5, <2>1 DEF IInv, DeliveriesAreApart, SameDelivery
  <2>4. \A n \in runs', t \in ledger : ~SameDelivery(n, t)
    BY <1>5, <2>1 DEF IInv, DeliveriesAreApart, SameDelivery
  <2>5. \A s, t \in ledger : SameDelivery(s, t) => s = t
    BY <2>1 DEF IInv, OneEntryPerDelivery
  <2>. QED BY <1>1, <1>2, <2>2, <2>3, <2>4, <2>5 DEF SameDelivery
<1>10. DeliveriesAreApart' /\ OneEntryPerDelivery'
  BY <1>1, <1>5, <1>8, <1>9 DEF IInv, DeliveriesAreApart, OneEntryPerDelivery, Continues
<1>. QED BY <1>1, <1>5, <1>7, <1>10 DEF IInv

-----------------------------------------------------------------------------
(* Events *)

LEMMA InvokeInv == ASSUME IInv, NEW e \in inbox, Invoke(e) PROVE IInv'
<1>. DEFINE run == [id |-> e.id, delivery |-> e.left, order |-> e.order,
                    offerId |-> e.after.offerId, pc |-> "getOffer",
                    price |-> 0, balance |-> 0, fresh |-> FALSE, attempt |-> 1]
            rest == [e EXCEPT !.left = @ - 1]
<1>1. e \in Event /\ UNCHANGED <<order, sent, user, ledger, happened>>
      /\ runs' \in {runs, runs \cup {run}}
  BY DEF Invoke, IInv, TypeOK
<1>2. /\ run \in Run /\ run.id = e.id /\ run.delivery = e.left /\ run.pc = "getOffer"
  BY <1>1, Assumed DEF Event, Doc, Run, Assumptions
<1>3. inbox' \subseteq Event
      /\ \A g \in inbox' : \/ g \in inbox \ {e}
                           \/ g = rest /\ g.id = e.id /\ g.left < e.left
  <2>1. CASE e.left > 1
    <3>1. rest \in Event /\ rest.id = e.id /\ rest.left < e.left
      BY <1>1, <2>1, Assumed DEF Event, Assumptions
    <3>2. inbox' = (inbox \ {e}) \cup {rest}
      BY <2>1 DEF Invoke
    <3>. HIDE DEF rest
    <3>. QED BY <3>1, <3>2 DEF IInv, TypeOK
  <2>2. CASE ~(e.left > 1)
    BY <2>2 DEF Invoke, IInv, TypeOK
  <2>. QED BY <2>1, <2>2
<1>. HIDE DEF run, rest
<1>4. TypeOK' /\ RunsHaveOffers'
  BY <1>1, <1>2, <1>3 DEF IInv, TypeOK, RunsHaveOffers
<1>5. \A x \in inbox' \cup runs' \cup ledger' : x.id <= sent'
  BY <1>1, <1>2, <1>3 DEF IInv, DeliveriesAreApart
<1>6. \A g, h \in inbox' : g.id = h.id => g = h
  BY <1>3 DEF IInv, DeliveriesAreApart
<1>7. ASSUME NEW x \in runs \cup ledger, x.id = e.id PROVE e.left < x.delivery
  BY <1>7 DEF IInv, DeliveriesAreApart
<1>8. \A g \in inbox', x \in runs' \cup ledger' : g.id = x.id => g.left < x.delivery
  <2>. SUFFICES ASSUME NEW g \in inbox', NEW x \in runs' \cup ledger', g.id = x.id
                PROVE  g.left < x.delivery
    OBVIOUS
  <2>1. CASE g \in inbox \ {e}
    <3>1. g.id # e.id
      BY <2>1 DEF IInv, DeliveriesAreApart
    <3>. QED BY <1>1, <1>2, <2>1, <3>1 DEF IInv, DeliveriesAreApart
  <2>2. CASE g.id = e.id /\ g.left < e.left
    <3>1. CASE x = run
      BY <1>2, <2>2, <3>1
    <3>2. CASE x \in runs \cup ledger
      <4>1. e.left < x.delivery
        BY <1>7, <2>2, <3>2
      <4>2. g.left \in Nat /\ e.left \in Nat /\ x.delivery \in Nat
        BY <1>1, <1>3, <3>2, Assumed DEF Event, Run, Entry, IInv, TypeOK, Assumptions
      <4>. QED BY <2>2, <4>1, <4>2
    <3>. QED BY <1>1, <3>1, <3>2
  <2>. QED BY <1>3, <2>1, <2>2
<1>9. ASSUME NEW x \in runs \cup ledger PROVE ~(x.id = e.id /\ x.delivery = e.left)
  BY <1>1, <1>7 DEF Event
<1>10. /\ \A r, s \in runs' : SameDelivery(r, s) => r = s
       /\ "lostReply" \notin happened' => \A r \in runs', t \in ledger' : ~SameDelivery(r, t)
  BY <1>1, <1>2, <1>9 DEF IInv, DeliveriesAreApart, SameDelivery
<1>11. DeliveriesAreApart' /\ OneEntryPerDelivery'
  BY <1>1, <1>5, <1>6, <1>8, <1>10 DEF IInv, DeliveriesAreApart, OneEntryPerDelivery
<1>. QED BY <1>1, <1>4, <1>11 DEF IInv

LEMMA UpdateOrderInv == ASSUME IInv, NEW o \in Orders, UpdateOrder(o) PROVE IInv'
<1>1. PICK s \in Status \ {"none"}, f \in Offers \cup {NoOffer} :
        LET after == [order[o] EXCEPT !.status = s, !.offerId = f]
        IN  order' = [order EXCEPT ![o] = after] /\ Emit(o, order[o], after)
  BY DEF UpdateOrder
<1>. DEFINE after == [order[o] EXCEPT !.status = s, !.offerId = f]
<1>2. order[o] \in Doc /\ after \in Doc /\ order[o].status \in Status
  BY DEF IInv, Doc
<1>3. order' \in [Orders -> Doc]
  BY <1>1, <1>2 DEF IInv
<1>. HIDE DEF after
<1>4. sent' = sent + 1 /\ sent \in Nat /\ UNCHANGED <<runs, user, ledger, happened>>
  BY <1>1 DEF UpdateOrder, Emit, IInv, TypeOK
<1>5. PICK new \in Event : new.id = sent + 1 /\ inbox' \in {inbox, inbox \cup {new}}
  <2>1. CASE Deployed
    <3>1. PICK n \in 1..MaxDeliveries :
             inbox' = inbox \cup {[id |-> sent + 1, order |-> o, before |-> order[o].status,
                                   after |-> after, left |-> n]}
      BY <1>1, <2>1, Assumed DEF Emit, Assumptions, after
    <3>. DEFINE e == [id |-> sent + 1, order |-> o, before |-> order[o].status,
                      after |-> after, left |-> n]
    <3>2. e \in Event /\ e.id = sent + 1
      BY <1>2, <1>4 DEF Event
    <3>. HIDE DEF e
    <3>3. inbox' = inbox \cup {e}
      BY <3>1 DEF e
    <3>. QED BY <3>2, <3>3
  <2>2. CASE ~Deployed
    <3>1. inbox' = inbox
      BY <1>1, <2>2 DEF Emit
    <3>2. [id |-> sent + 1, order |-> o, before |-> order[o].status,
           after |-> after, left |-> 1] \in Event
      BY <1>2, <1>4, Assumed DEF Event, Assumptions
    <3>. QED BY <3>1, <3>2
  <2>. QED BY <2>1, <2>2
<1>6. TypeOK' /\ RunsHaveOffers'
  BY <1>4, <1>5 DEF IInv, TypeOK, RunsHaveOffers
<1>7. \A x \in inbox \cup runs \cup ledger : x.id <= sent /\ x.id \in Nat
  BY DEF IInv, DeliveriesAreApart, TypeOK, Event, Run, Entry
<1>8. /\ \A x \in inbox' \cup runs' \cup ledger' : x.id <= sent'
      /\ \A e, g \in inbox' : e.id = g.id => e = g
      /\ \A e \in inbox', x \in runs' \cup ledger' : e.id = x.id => e.left < x.delivery
  BY <1>4, <1>5, <1>7 DEF IInv, DeliveriesAreApart
<1>9. DeliveriesAreApart' /\ OneEntryPerDelivery'
  BY <1>4, <1>8 DEF IInv, DeliveriesAreApart, OneEntryPerDelivery
<1>. QED BY <1>3, <1>6, <1>9 DEF IInv

LEMMA StutterInv == ASSUME IInv, UNCHANGED refundVars PROVE IInv'
  BY DEF refundVars, functionVars, IInv, TypeOK, RunsHaveOffers, DeliveriesAreApart,
     OneEntryPerDelivery

\* Every step keeps the invariant.
LEMMA StepInv == IInv /\ [Next]_refundVars => IInv'
<1>. SUFFICES ASSUME IInv, [Next]_refundVars PROVE IInv'
  OBVIOUS
<1>. QED BY InvokeInv, GetOfferInv, GetUserInv, CommitInv, RetryInv, CrashInv, TouchUserInv,
            UpdateOrderInv, StutterInv DEF Next, Functions, Handle

\* The inductive invariant behind the two theorems below.
THEOREM InductiveInvariant == Spec => []IInv
  BY InitInv, StepInv, PTL DEF Spec

\* Every variable of the platform and the handler keeps its type; in particular
\* every entry names an offer and no transaction exceeds its attempts.
THEOREM TypeCorrect == Spec => []TypeOK
<1>1. IInv => TypeOK
  BY DEF IInv
<1>. QED BY <1>1, InductiveInvariant, PTL

\* However events, deliveries, conflicts, crashes and retries interleave, a
\* delivery leaves one entry in the ledger unless a commit's reply was lost.
THEOREM DeliveryRefundsOnce == Spec => []OneEntryPerDelivery
<1>1. IInv => OneEntryPerDelivery
  BY DEF IInv
<1>. QED BY <1>1, InductiveInvariant, PTL

-----------------------------------------------------------------------------
(* The balance *)

\* A transaction whose commit can succeed has read the balance that is stored.
FreshIsCurrent ==
    \A r \in runs : r.fresh => r.pc = "commit" /\ r.balance = user.balance

\* A run whose commit took effect without its knowing runs the transaction again
\* under a higher attempt, so it never writes the same entry.
EntriesBeforeRuns ==
    \A r \in runs, t \in ledger : SameDelivery(r, t) =>
        \/ t.attempt < r.attempt
        \/ t.attempt = r.attempt /\ r.pc = "commit" /\ ~r.fresh

MoneyInv == FreshIsCurrent /\ EntriesBeforeRuns

\* The ledger is empty at first and the balance 0.
LEMMA InitMoney == Init => MoneyInv
  BY DEF Init, FunctionInit, MoneyInv, FreshIsCurrent, EntriesBeforeRuns

\* What a stale copy keeps of its run.
LEMMA StaleFields ==
  ASSUME NEW S \in SUBSET Run, NEW n \in Stale(S)
  PROVE  \E r \in S : /\ n.id = r.id /\ n.delivery = r.delivery /\ n.attempt = r.attempt
                      /\ n.pc = r.pc /\ ~n.fresh
  BY DEF Stale, Run

\* The run r is replaced by `next`, with the documents as they were.
LEMMA StepMoney ==
  ASSUME IInv, MoneyInv, NEW r \in runs, NEW next, Step(r, next),
         UNCHANGED <<user, ledger>>, next.id = r.id, next.delivery = r.delivery,
         next.fresh => next.pc = "commit" /\ next.balance = user.balance,
         \A t \in ledger : SameDelivery(r, t) => t.attempt < next.attempt
  PROVE  MoneyInv'
<1>1. \A n \in runs' : n \in runs \/ n = next
  BY DEF Step
<1>2. FreshIsCurrent'
  BY <1>1 DEF MoneyInv, FreshIsCurrent
<1>3. EntriesBeforeRuns'
  BY <1>1 DEF MoneyInv, EntriesBeforeRuns, SameDelivery
<1>. QED BY <1>2, <1>3 DEF MoneyInv

\* A step that ends runs and moves no money.
LEMMA FewerMoney ==
  ASSUME MoneyInv, runs' \subseteq runs, UNCHANGED <<user, ledger>>
  PROVE  MoneyInv'
  BY DEF MoneyInv, FreshIsCurrent, EntriesBeforeRuns

\* The code between the reads moves no money.
LEMMA HandleMoney ==
  ASSUME IInv, MoneyInv, NEW r \in runs, GetOffer(r) \/ GetUser(r) \/ Retry(r)
  PROVE  MoneyInv'
<1>1. r \in Run /\ UNCHANGED <<user, ledger>> /\ ledger \subseteq Entry
  BY DEF GetOffer, GetUser, Retry, IInv, TypeOK
<1>2. \A t \in ledger : SameDelivery(r, t) =>
         \/ t.attempt < r.attempt
         \/ t.attempt = r.attempt /\ r.pc = "commit" /\ ~r.fresh
  BY DEF MoneyInv, EntriesBeforeRuns
<1>3. CASE End(r)
  BY <1>1, <1>3, FewerMoney DEF End
<1>4. CASE GetOffer(r) /\ ~End(r)
  <2>. DEFINE next == [r EXCEPT !.pc = "getUser", !.price = Price[r.offerId]]
  <2>1. Step(r, next) /\ r.pc = "getOffer"
    BY <1>4 DEF GetOffer
  <2>2. r.fresh = FALSE
    BY <1>1, <2>1 DEF MoneyInv, FreshIsCurrent, Run
  <2>3. next.id = r.id /\ next.delivery = r.delivery /\ next.attempt = r.attempt
        /\ next.fresh = r.fresh
    BY <1>1 DEF Run
  <2>. HIDE DEF next
  <2>. QED BY <1>1, <1>2, <2>1, <2>2, <2>3, StepMoney
<1>5. CASE GetUser(r) /\ ~End(r)
  <2>. DEFINE next == [r EXCEPT !.pc = "commit", !.balance = user.balance, !.fresh = TRUE]
  <2>1. Step(r, next) /\ r.pc = "getUser"
    BY <1>5 DEF GetUser
  <2>2. next.id = r.id /\ next.delivery = r.delivery /\ next.attempt = r.attempt
        /\ next.pc = "commit" /\ next.balance = user.balance
    BY <1>1 DEF Run
  <2>. HIDE DEF next
  <2>. QED BY <1>1, <1>2, <2>1, <2>2, StepMoney
<1>6. CASE Retry(r) /\ ~End(r)
  <2>. DEFINE next == [r EXCEPT !.pc = "getUser", !.attempt = @ + 1]
  <2>1. Step(r, next) /\ ~r.fresh
    BY <1>6 DEF Retry
  <2>2. next.id = r.id /\ next.delivery = r.delivery /\ next.attempt = r.attempt + 1
        /\ next.fresh = r.fresh
    BY <1>1 DEF Run
  <2>. HIDE DEF next
  <2>3. \A t \in ledger : SameDelivery(r, t) => t.attempt < next.attempt
    BY <1>1, <1>2, <2>2, Assumed DEF Run, Entry, Assumptions
  <2>. QED BY <1>1, <2>1, <2>2, <2>3, StepMoney
<1>. QED BY <1>3, <1>4, <1>5, <1>6

\* A new invocation has read nothing and written nothing.
LEMMA InvokeMoney == ASSUME IInv, MoneyInv, NEW e \in inbox, Invoke(e) PROVE MoneyInv'
<1>. DEFINE run == [id |-> e.id, delivery |-> e.left, order |-> e.order,
                    offerId |-> e.after.offerId, pc |-> "getOffer",
                    price |-> 0, balance |-> 0, fresh |-> FALSE, attempt |-> 1]
<1>1. /\ e \in Event /\ UNCHANGED <<user, ledger>> /\ runs' \in {runs, runs \cup {run}}
      /\ run.id = e.id /\ run.delivery = e.left /\ ~run.fresh
  BY DEF Invoke, IInv, TypeOK
<1>. HIDE DEF run
<1>2. \A t \in ledger : ~(run.id = t.id /\ run.delivery = t.delivery)
  BY <1>1 DEF IInv, DeliveriesAreApart, Event
<1>. QED BY <1>1, <1>2 DEF MoneyInv, FreshIsCurrent, EntriesBeforeRuns, SameDelivery

\* A write of the user document by the app leaves no read fresh.
LEMMA StaleMoney ==
  ASSUME IInv, MoneyInv, runs' = Stale(runs), UNCHANGED <<user, ledger>>
  PROVE  MoneyInv'
<1>1. \A n \in runs' : \E r \in runs : /\ n.id = r.id /\ n.delivery = r.delivery
                                        /\ n.attempt = r.attempt /\ n.pc = r.pc /\ ~n.fresh
  BY StaleFields DEF IInv, TypeOK
<1>. QED BY <1>1 DEF MoneyInv, FreshIsCurrent, EntriesBeforeRuns, SameDelivery

\* A commit that takes effect writes a new entry and adds to the stored balance.
LEMMA CommitAdds ==
  ASSUME IInv, MoneyInv, NEW r \in runs, Commit(r)
  PROVE  /\ MoneyInv'
         /\ \E t \in ledger' \ ledger : /\ ledger' = ledger \cup {t}
                                        /\ user'.balance = user.balance + t.amount
<1>. DEFINE new == [id |-> r.id, delivery |-> r.delivery, attempt |-> r.attempt,
                    order |-> r.order, offer |-> r.offerId, amount |-> r.price]
<1>1. /\ r \in Run /\ r.fresh /\ runs \subseteq Run /\ ledger \subseteq Entry
      /\ user \in [exists : BOOLEAN, balance : Nat]
      /\ ledger' = ledger \cup {new} /\ user' = [user EXCEPT !.balance = r.balance + r.price]
  BY DEF Commit, Serializable, IInv, TypeOK
<1>2. r.pc = "commit" /\ r.balance = user.balance
  BY <1>1 DEF MoneyInv, FreshIsCurrent
<1>3. new.id = r.id /\ new.delivery = r.delivery /\ new.attempt = r.attempt /\ new.amount = r.price
  OBVIOUS
<1>. HIDE DEF new
<1>4. new \notin ledger
  BY <1>1, <1>3, Assumed DEF MoneyInv, EntriesBeforeRuns, SameDelivery, Run, Assumptions
<1>5. user'.balance = user.balance + new.amount
  BY <1>1, <1>2, <1>3
<1>6. \A n \in runs' : \E s \in runs : /\ n.id = s.id /\ n.delivery = s.delivery
                                        /\ n.attempt = s.attempt /\ n.pc = s.pc /\ ~n.fresh
  <2>1. \E S \in SUBSET runs : runs' = Stale(S)
    BY DEF Commit, Committed
  <2>. QED BY <1>1, <2>1, StaleFields
<1>7. FreshIsCurrent'
  BY <1>6 DEF FreshIsCurrent
<1>8. EntriesBeforeRuns'
  <2>. SUFFICES ASSUME NEW n \in runs', NEW t \in ledger', SameDelivery(n, t)
                PROVE  \/ t.attempt < n.attempt
                       \/ t.attempt = n.attempt /\ n.pc = "commit" /\ ~n.fresh
    BY DEF EntriesBeforeRuns
  <2>1. PICK s \in runs : /\ n.id = s.id /\ n.delivery = s.delivery
                          /\ n.attempt = s.attempt /\ n.pc = s.pc /\ ~n.fresh
    BY <1>6
  <2>2. CASE t \in ledger
    BY <2>1, <2>2 DEF MoneyInv, EntriesBeforeRuns, SameDelivery
  <2>3. CASE t = new
    <3>1. s = r
      BY <1>3, <2>1, <2>3 DEF IInv, DeliveriesAreApart, SameDelivery
    <3>. QED BY <1>2, <1>3, <2>1, <2>3, <3>1
  <2>. QED BY <1>1, <2>2, <2>3
<1>. QED BY <1>1, <1>4, <1>5, <1>7, <1>8 DEF MoneyInv

\* Every step keeps what is known of the money, and adds an entry's amount or nothing.
LEMMA StepMoneyInv ==
  IInv /\ MoneyInv /\ [Next]_refundVars =>
     /\ MoneyInv'
     /\ \/ user'.balance = user.balance /\ ledger' = ledger
        \/ \E t \in ledger' \ ledger : /\ ledger' = ledger \cup {t}
                                       /\ user'.balance = user.balance + t.amount
<1>. SUFFICES ASSUME IInv, MoneyInv, [Next]_refundVars
              PROVE  /\ MoneyInv'
                     /\ \/ user'.balance = user.balance /\ ledger' = ledger
                        \/ \E t \in ledger' \ ledger :
                                 /\ ledger' = ledger \cup {t}
                                 /\ user'.balance = user.balance + t.amount
  OBVIOUS
<1>1. CASE \E r \in runs : Commit(r)
  BY <1>1, CommitAdds
<1>2. CASE \E e \in inbox : Invoke(e)
  BY <1>2, InvokeMoney DEF Invoke
<1>3. CASE \E r \in runs : GetOffer(r) \/ GetUser(r) \/ Retry(r)
  BY <1>3, HandleMoney DEF GetOffer, GetUser, Retry
<1>4. CASE \E r \in runs : Crash(r)
  BY <1>4, FewerMoney DEF Crash, End
<1>5. CASE TouchUser
  BY <1>5, StaleMoney DEF TouchUser
<1>6. CASE \E o \in Orders : UpdateOrder(o)
  BY <1>6, FewerMoney DEF UpdateOrder
<1>7. CASE UNCHANGED refundVars
  BY <1>7, FewerMoney DEF refundVars, functionVars
<1>. QED BY <1>1, <1>2, <1>3, <1>4, <1>5, <1>6, <1>7 DEF Next, Functions, Handle

\* However invocations, conflicts, lost replies and writes of the app interleave,
\* a transaction of the function adds its price to the balance that is stored
\* when it takes effect, together with exactly one new entry: no refund is lost
\* and none is added without a record.
THEOREM BalanceIsAddedTo == Spec => BalanceFollowsLedger
<1>1. /\ Init => IInv /\ MoneyInv
      /\ IInv /\ MoneyInv /\ [Next]_refundVars => (IInv /\ MoneyInv)'
  BY InitInv, InitMoney, StepInv, StepMoneyInv
<1>2. IInv /\ MoneyInv /\ [Next]_refundVars =>
         [\/ user'.balance = user.balance /\ ledger' = ledger
          \/ \E t \in ledger' \ ledger : /\ ledger' = ledger \cup {t}
                                         /\ user'.balance = user.balance + t.amount]_refundVars
  BY StepMoneyInv
<1>. QED BY <1>1, <1>2, PTL DEF Spec, BalanceFollowsLedger

\* The sum of a finite ledger grows by the amount of an entry added to it.
LEMMA TotalAdds ==
  ASSUME NEW S \in SUBSET Entry, IsFiniteSet(S), NEW t \in Entry \ S
  PROVE  Total(S \cup {t}) = Total(S) + t.amount
<1>1. PICK v : v = [u \in S \cup {t} |-> u.amount]
  OBVIOUS
<1>2. PICK w : w = [u \in S |-> u.amount]
  OBVIOUS
<1>3. /\ \A u \in S \cup {t} : v[u] \in Nat
      /\ \A u \in S : v[u] = w[u]
      /\ v[t] = t.amount /\ t \notin S
  BY <1>1, <1>2 DEF Entry
<1>4. SumFunctionOnSet(v, S \cup {t}) = SumFunctionOnSet(v, S) + v[t]
  BY <1>3, SumAdd
<1>5. SumFunctionOnSet(v, S) = SumFunctionOnSet(w, S)
  BY <1>3, SumSame
<1>. QED BY <1>1, <1>2, <1>3, <1>4, <1>5 DEF Total

FiniteLedger == IsFiniteSet(ledger)

\* The wallet balance is the sum of the recorded transactions: the
\* read-modify-write of the balance loses no refund, in every interleaving of
\* invocations, conflicts and writes of the app.
THEOREM BalanceIsTotal == Spec => []BalanceMatchesLedger
<1>1. Init => FiniteLedger /\ BalanceMatchesLedger
  <2>. SUFFICES ASSUME Init PROVE FiniteLedger /\ BalanceMatchesLedger
    OBVIOUS
  <2>1. ledger = {} /\ user.balance = 0
    BY DEF Init, FunctionInit
  <2>2. Total({}) = 0
    BY SumUnfolds, FS_EmptySet DEF Total
  <2>. QED BY <2>1, <2>2, FS_EmptySet DEF FiniteLedger, BalanceMatchesLedger
<1>2. IInv /\ MoneyInv /\ FiniteLedger /\ BalanceMatchesLedger /\ [Next]_refundVars
         => FiniteLedger' /\ BalanceMatchesLedger'
  <2>. SUFFICES ASSUME IInv, MoneyInv, FiniteLedger, BalanceMatchesLedger, [Next]_refundVars
                PROVE  FiniteLedger' /\ BalanceMatchesLedger'
    OBVIOUS
  <2>1. CASE user'.balance = user.balance /\ ledger' = ledger
    BY <2>1 DEF FiniteLedger, BalanceMatchesLedger, Total
  <2>2. ASSUME NEW t \in ledger' \ ledger, ledger' = ledger \cup {t},
               user'.balance = user.balance + t.amount
        PROVE  FiniteLedger' /\ BalanceMatchesLedger'
    <3>1. ledger \in SUBSET Entry /\ ledger' \in SUBSET Entry
      BY StepInv DEF IInv, TypeOK
    <3>2. PICK T : T = ledger'
      OBVIOUS
    <3>3. Total(T) = Total(ledger) + t.amount /\ IsFiniteSet(T)
      BY <2>2, <3>1, <3>2, TotalAdds, FS_AddElement DEF FiniteLedger
    <3>. QED BY <2>2, <3>2, <3>3 DEF FiniteLedger, BalanceMatchesLedger, Total
  <2>. QED BY <2>1, <2>2, StepMoneyInv
<1>3. /\ Init => IInv /\ MoneyInv
      /\ IInv /\ MoneyInv /\ [Next]_refundVars => (IInv /\ MoneyInv)'
  BY InitInv, InitMoney, StepInv, StepMoneyInv
<1>. QED BY <1>1, <1>2, <1>3, PTL DEF Spec
=============================================================================
