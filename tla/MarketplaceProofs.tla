--------------------------- MODULE MarketplaceProofs ---------------------------
(***************************************************************************)
(* What is paid out meets what was charged, for every number of orders,    *)
(* offers, deliveries and attempts.                                        *)
(*                                                                         *)
(* A step of the app is a step of OrderFlow, so its invariants hold here;  *)
(* an event copies the order document as the step leaves it, and charges   *)
(* only grow, so what ElectronicPaidFirst says of the document stays true  *)
(* of the event, the invocation and the entry that follow from it.         *)
(*                                                                         *)
(* On one device an order is cancelled once, so there is one refund, of    *)
(* the price of a charged offer. On several a charge is passed on, from    *)
(* the payment page to the start write, the document in progress, the      *)
(* event of its cancellation, the invocation and the entry: no step makes  *)
(* more of these claims than there are charges (StepClaims).               *)
(***************************************************************************)
EXTENDS Marketplace, OrderFlowProofs

\* Nothing goes wrong in the function here.
LEMMA NothingHappens == \A fault : ~Refund!Happens(fault)
BY DEF Refund!Happens

-----------------------------------------------------------------------------
(* Types *)

\* Runs that are marked stale are the same otherwise.
LEMMA StaleRuns ==
    ASSUME NEW S \in SUBSET Refund!Run
    PROVE  /\ Refund!Stale(S) \subseteq Refund!Run
           /\ \A n \in Refund!Stale(S) : \E r \in S :
                 /\ n = [r EXCEPT !.fresh = FALSE] /\ n.order = r.order
                 /\ n.offerId = r.offerId /\ n.pc = r.pc /\ n.price = r.price
BY DEF Refund!Stale, Refund!Run

\* The step gives run r its next state, in which it knows the price of its offer.
Goes(r, n) ==
    /\ n \in Refund!Run /\ n.order = r.order /\ n.offerId = r.offerId
    /\ n.pc # "getOffer" /\ n.offerId # NoOffer /\ n.price = Price[n.offerId]

\* What the function's steps between its awaits do to the runs.
LEMMA HandleEffect ==
    ASSUME Refund!TypeOK, RefundsFollowCharges, NEW r \in runs,
           Refund!GetOffer(r) \/ Refund!GetUser(r) \/ Refund!Retry(r)
    PROVE  /\ UNCHANGED <<sent, inbox, user, ledger>>
           /\ \/ runs' = runs \ {r}
              \/ \E n : Goes(r, n) /\ runs' = (runs \ {r}) \cup {n}
<1>1. /\ r \in Refund!Run /\ UNCHANGED <<sent, inbox, user, ledger>> /\ user.balance \in Nat
      /\ r.offerId \in Offers \cup {NoOffer}
  BY DEF Refund!GetOffer, Refund!GetUser, Refund!Retry, Refund!TypeOK, Refund!Run
<1>2. r.pc # "getOffer" => r.offerId # NoOffer /\ r.price = Price[r.offerId]
  BY DEF RefundsFollowCharges
<1>3. CASE Refund!GetOffer(r)
  <2>1. CASE Refund!OfferExists(r.offerId)
    <3>1. PICK n : n = [r EXCEPT !.pc = "getUser", !.price = Price[r.offerId]]
      OBVIOUS
    <3>2. r.offerId # NoOffer /\ Price[r.offerId] \in Nat
      BY <1>1, <2>1, MarketAssumption DEF Refund!OfferExists
    <3>3. Goes(r, n)
      BY <1>1, <3>1, <3>2 DEF Goes, Refund!Run
    <3>4. runs' = (runs \ {r}) \cup {n}
      BY <1>3, <2>1, <3>1 DEF Refund!GetOffer, Refund!Step
    <3>5. QED
      BY <1>1, <3>3, <3>4
  <2>2. CASE ~Refund!OfferExists(r.offerId)
    BY <1>1, <1>3, <2>2 DEF Refund!GetOffer, Refund!End
  <2>3. QED
    BY <2>1, <2>2
<1>4. CASE Refund!GetUser(r)
  <2>1. CASE user.exists
    <3>1. PICK n : n = [r EXCEPT !.pc = "commit", !.balance = user.balance, !.fresh = TRUE]
      OBVIOUS
    <3>2. Goes(r, n)
      BY <1>1, <1>2, <1>4, <3>1 DEF Goes, Refund!Run, Refund!GetUser
    <3>3. runs' = (runs \ {r}) \cup {n}
      BY <1>4, <2>1, <3>1 DEF Refund!GetUser, Refund!Step
    <3>4. QED
      BY <1>1, <3>2, <3>3
  <2>2. CASE ~user.exists
    BY <1>1, <1>4, <2>2 DEF Refund!GetUser, Refund!End
  <2>3. QED
    BY <2>1, <2>2
<1>5. CASE Refund!Retry(r)
  <2>1. CASE Refund!MayRetry(r)
    <3>1. PICK n : n = [r EXCEPT !.pc = "getUser", !.attempt = r.attempt + 1]
      OBVIOUS
    <3>2. r.attempt + 1 \in 1..MaxAttempts
      BY <1>1, <2>1, MarketAssumption DEF Refund!Run, Refund!MayRetry
    <3>3. Goes(r, n)
      BY <1>1, <1>2, <1>5, <3>1, <3>2 DEF Goes, Refund!Run, Refund!Retry
    <3>4. runs' = (runs \ {r}) \cup {n}
      BY <1>5, <2>1, <3>1 DEF Refund!Retry, Refund!Step
    <3>5. QED
      BY <1>1, <3>3, <3>4
  <2>2. CASE ~Refund!MayRetry(r)
    BY <1>1, <1>5, <2>2 DEF Refund!Retry, Refund!End
  <2>3. QED
    BY <2>1, <2>2
<1>6. QED
  BY <1>3, <1>4, <1>5

\* What a commit does.
LEMMA CommitEffect ==
    ASSUME Refund!TypeOK, RefundsFollowCharges, NEW r \in runs, Refund!Commit(r)
    PROVE  /\ UNCHANGED <<sent, inbox>> /\ runs' = Refund!Stale(runs \ {r})
           /\ user' = [user EXCEPT !.balance = r.balance + r.price]
           /\ r \in Refund!Run /\ r.offerId # NoOffer /\ r.price = Price[r.offerId]
           /\ \E t \in Refund!Entry : /\ t.order = r.order /\ t.offer = r.offerId
                                      /\ t.amount = r.price /\ ledger' = ledger \cup {t}
<1>1. /\ r \in Refund!Run /\ r.pc = "commit" /\ UNCHANGED <<sent, inbox>>
      /\ user' = [user EXCEPT !.balance = r.balance + r.price]
  BY DEF Refund!Commit, Refund!TypeOK
<1>2. r.offerId # NoOffer /\ r.price = Price[r.offerId]
  BY <1>1 DEF RefundsFollowCharges
<1>3. runs' = Refund!Stale(runs \ {r})
  BY NothingHappens DEF Refund!Commit, Refund!Committed
<1>4. PICK t : t = [id |-> r.id, delivery |-> r.delivery, attempt |-> r.attempt,
                    order |-> r.order, offer |-> r.offerId, amount |-> r.price]
  OBVIOUS
<1>5. /\ t \in Refund!Entry /\ t.order = r.order /\ t.offer = r.offerId /\ t.amount = r.price
  BY <1>1, <1>2, <1>4 DEF Refund!Entry, Refund!Run
<1>6. ledger' = ledger \cup {t}
  BY <1>4 DEF Refund!Commit
<1>7. QED
  BY <1>1, <1>2, <1>3, <1>5, <1>6

\* What a delivery does.
LEMMA InvokeEffect ==
    ASSUME Refund!TypeOK, NEW e \in inbox, Refund!Invoke(e)
    PROVE  /\ UNCHANGED <<sent, user, ledger>> /\ e \in Refund!Event
           /\ \A x \in inbox' : /\ x \in Refund!Event
                                /\ \/ x \in inbox \ {e}
                                   \/ x.order = e.order /\ x.after = e.after
           /\ MaxDeliveries = 1 => inbox' = inbox \ {e}
           /\ \/ runs' = runs
              \/ /\ Refund!Becomes(e, "cancelled") /\ Refund!PaidByCard(e)
                 /\ \E n \in Refund!Run : /\ n.order = e.order /\ n.offerId = e.after.offerId
                                          /\ n.pc = "getOffer" /\ runs' = runs \cup {n}
<1>1. e \in Refund!Event /\ UNCHANGED <<sent, user, ledger>>
  BY DEF Refund!Invoke, Refund!TypeOK
<1>2. PICK m : m = [e EXCEPT !.left = e.left - 1]
  OBVIOUS
<1>3. inbox' = (inbox \ {e}) \cup (IF e.left > 1 THEN {m} ELSE {})
  BY <1>2 DEF Refund!Invoke
<1>4. e.left > 1 => m \in Refund!Event
  BY <1>1, <1>2, MarketAssumption DEF Refund!Event
<1>5. m.order = e.order /\ m.after = e.after
  BY <1>1, <1>2 DEF Refund!Event
<1>6. MaxDeliveries = 1 => ~(e.left > 1)
  BY <1>1 DEF Refund!Event
<1>7. /\ \A x \in inbox' : /\ x \in Refund!Event
                           /\ \/ x \in inbox \ {e}
                              \/ x.order = e.order /\ x.after = e.after
      /\ MaxDeliveries = 1 => inbox' = inbox \ {e}
  BY <1>3, <1>4, <1>5, <1>6 DEF Refund!TypeOK
<1>8. PICK n : n = [id |-> e.id, delivery |-> e.left, order |-> e.order,
                    offerId |-> e.after.offerId, pc |-> "getOffer",
                    price |-> 0, balance |-> 0, fresh |-> FALSE, attempt |-> 1]
  OBVIOUS
<1>9. n \in Refund!Run /\ n.order = e.order /\ n.offerId = e.after.offerId /\ n.pc = "getOffer"
  <2>1. /\ e.id \in Nat /\ e.left \in 1..MaxDeliveries /\ e.order \in Orders
        /\ e.after.offerId \in Offers \cup {NoOffer} /\ 1 \in 1..MaxAttempts
    BY <1>1, MarketAssumption DEF Refund!Event, Refund!Doc
  <2>2. QED
    BY <1>8, <2>1 DEF Refund!Run
<1>10. \/ runs' = runs
       \/ Refund!Becomes(e, "cancelled") /\ Refund!PaidByCard(e) /\ runs' = runs \cup {n}
  BY <1>8 DEF Refund!Invoke
<1>11. QED
  BY <1>1, <1>7, <1>9, <1>10

\* What the trigger makes of a step of the app.
LEMMA TriggerEffect ==
    ASSUME Refund!TypeOK, DocsOK, DocsOK', Trigger
    PROVE  /\ UNCHANGED <<runs, user, ledger>> /\ sent' \in Nat
           /\ \/ inbox' = inbox
              \/ \E o \in Orders : \E e \in Refund!Event :
                    /\ Exists(o) /\ e.order = o /\ e.before = order[o].status /\ e.after = order'[o]
                    /\ inbox' = inbox \cup {e}
<1>1. CASE \A o \in Orders : ~Updated(o)
  BY <1>1 DEF Trigger, Refund!TypeOK
<1>2. ASSUME NEW o \in Orders, Updated(o), Refund!Emit(o, order[o], order'[o]),
             UNCHANGED <<runs, user, ledger>>
      PROVE  /\ UNCHANGED <<runs, user, ledger>> /\ sent' \in Nat
             /\ \/ inbox' = inbox
                \/ \E e \in Refund!Event :
                      /\ Exists(o) /\ e.order = o
                      /\ e.before = order[o].status /\ e.after = order'[o]
                      /\ inbox' = inbox \cup {e}
  <2>1. sent' = sent + 1 /\ sent + 1 \in Nat
    BY <1>2 DEF Refund!Emit, Refund!TypeOK
  <2>2. order[o] \in OrderDoc /\ order'[o] \in OrderDoc
    BY <1>2 DEF DocsOK
  <2>3. order[o].status \in Refund!Status /\ order'[o] \in Refund!Doc
    BY <2>2 DEF OrderDoc, OrderStatus, PaymentOption, Refund!Doc, Refund!Status
  <2>4. Exists(o)
    BY <1>2 DEF Updated, Exists
  <2>5. CASE Deployed
    <3>1. PICK n \in 1..MaxDeliveries :
             inbox' = inbox \cup {[id |-> sent + 1, order |-> o, before |-> order[o].status,
                                   after |-> order'[o], left |-> n]}
      BY <1>2, <2>1, <2>5, MarketAssumption DEF Refund!Emit
    <3>2. PICK e : e = [id |-> sent + 1, order |-> o, before |-> order[o].status,
                        after |-> order'[o], left |-> n]
      OBVIOUS
    <3>3. /\ e \in Refund!Event /\ e.order = o /\ e.before = order[o].status
          /\ e.after = order'[o]
      BY <1>2, <2>1, <2>3, <3>2 DEF Refund!Event
    <3>4. QED
      BY <1>2, <2>1, <2>4, <3>1, <3>2, <3>3
  <2>6. CASE ~Deployed
    BY <1>2, <2>1, <2>6 DEF Refund!Emit
  <2>7. QED
    BY <2>5, <2>6
<1>3. QED
  BY <1>1, <1>2 DEF Trigger

\* The types of the function.
LEMMA StepMarketTypes ==
    ASSUME Refund!TypeOK, RefundsFollowCharges, DocsOK, DocsOK', [MarketNext]_marketVars
    PROVE  Refund!TypeOK'
<1>1. CASE UNCHANGED marketVars
  BY <1>1 DEF marketVars, Refund!TypeOK
<1>2. CASE Trigger
  BY <1>2, TriggerEffect DEF Refund!TypeOK
<1>3. ASSUME NEW e \in inbox, Refund!Invoke(e)
      PROVE  Refund!TypeOK'
  BY <1>3, InvokeEffect DEF Refund!TypeOK
<1>4. ASSUME NEW r \in runs, Refund!GetOffer(r) \/ Refund!GetUser(r) \/ Refund!Retry(r)
      PROVE  Refund!TypeOK'
  BY <1>4, HandleEffect DEF Refund!TypeOK, Goes
<1>5. ASSUME NEW r \in runs, Refund!Commit(r)
      PROVE  Refund!TypeOK'
  <2>1. /\ UNCHANGED <<sent, inbox>> /\ runs' = Refund!Stale(runs \ {r})
        /\ user' = [user EXCEPT !.balance = r.balance + r.price] /\ r \in Refund!Run
        /\ \E t \in Refund!Entry : ledger' = ledger \cup {t}
    BY <1>5, CommitEffect
  <2>2. runs' \subseteq Refund!Run
    <3>1. runs \ {r} \in SUBSET Refund!Run
      BY DEF Refund!TypeOK
    <3>2. QED
      BY <2>1, <3>1, StaleRuns
  <2>3. user' \in [exists : BOOLEAN, balance : Nat]
    <3>1. r.balance + r.price \in Nat
      BY <2>1 DEF Refund!Run
    <3>2. user \in [exists : BOOLEAN, balance : Nat]
      BY DEF Refund!TypeOK
    <3>3. QED
      BY <2>1, <3>1, <3>2
  <2>4. QED
    BY <2>1, <2>2, <2>3 DEF Refund!TypeOK
<1>6. QED
  BY <1>1, <1>2, <1>3, <1>4, <1>5, NothingHappens
     DEF MarketNext, Refund!Functions, Refund!Handle, Refund!Crash, Refund!TouchUser

-----------------------------------------------------------------------------
(* What is paid out was charged *)

\* A charge is not taken back.
LEMMA ChargesGrow ==
    ASSUME DocsOK, [Next]_vars
    PROVE  \A o, f : Charged(o, f) => Charged(o, f)'
<1>1. charges \in [Offers -> Nat]
  BY DEF DocsOK
<1>2. CASE \E d \in Devices : PaymentCaptured(d)
  BY <1>1, <1>2 DEF PaymentCaptured, Charged
<1>3. CASE UNCHANGED charges
  BY <1>3 DEF Charged
<1>4. \A d \in Devices : Tap(d) \/ OnPaymentPaid(d) \/ OnPaymentOther(d) \/ Ack(d) \/ Reject(d)
                            \/ Kill(d) \/ Unanswered(d) => UNCHANGED charges
  BY ZenonT(60) DEF Tap, OpenForm, AskCancel, Back, AcceptOfferCash, AcceptOfferElectronic, CancelOrder,
         OpenOrder, ShowOffer, SendOrder, OnPaymentPaid, OnPaymentOther, Reject, Kill, Browse,
         Ack, AckCreate, AckStart, AckChoose, AckAccept, AckCancel, AckWithdraw,
         Unanswered, ApplyAhead, Answer, Reconnect
<1>5. QED
  BY <1>2, <1>3, <1>4 DEF Next, vars, Gateway, Answered, MakeOffer

\* What is paid out follows what was charged, step by step.
LEMMA StepFollows ==
    ASSUME IInv, IInv', Refund!TypeOK, RefundsFollowCharges, [MarketNext]_marketVars
    PROVE  RefundsFollowCharges'
<1>1. DocsOK /\ DocsOK' /\ [Next]_vars
  BY DEF IInv, MarketNext, marketVars
<1>2. \A o, f : Charged(o, f) => Charged(o, f)'
  BY <1>1, ChargesGrow
<1>3. CASE UNCHANGED <<inbox, runs, ledger>>
  BY <1>2, <1>3 DEF RefundsFollowCharges
<1>4. CASE Trigger
  <2>1. UNCHANGED <<runs, ledger>>
    BY <1>1, <1>4, TriggerEffect
  <2>2. ASSUME NEW e \in inbox', e.after.paymentOption = "electronic", e.after.offerId # NoOffer
        PROVE  Charged(e.order, e.after.offerId)'
    <3>1. CASE e \in inbox
      BY <1>2, <2>2, <3>1 DEF RefundsFollowCharges
    <3>2. CASE e \notin inbox
      <4>1. PICK o \in Orders : e.order = o /\ e.after = order'[o]
        BY <1>1, <1>4, <2>2, <3>2, TriggerEffect
      <4>2. Charged(o, order[o].offerId)'
        <5>1. Electronic(o)' /\ order'[o].offerId # NoOffer
          BY <2>2, <4>1 DEF Electronic
        <5>2. order'[o].offerId \in Offers
          BY <5>1 DEF IInv, DocsOK, OrderDoc
        <5>3. OrderOf[order'[o].offerId] = o
          BY <5>1 DEF IInv, ChosenOfferBelongs
        <5>4. charges'[order'[o].offerId] > 0
          BY <5>1, <5>2, <5>3 DEF IInv, ElectronicPaidFirst, Electronic
        <5>5. QED
          BY <5>2, <5>3, <5>4 DEF Charged
      <4>3. QED
        BY <4>1, <4>2
    <3>3. QED
      BY <3>1, <3>2
  <2>3. QED
    BY <1>2, <2>1, <2>2 DEF RefundsFollowCharges
<1>5. ASSUME NEW e \in inbox, Refund!Invoke(e)
      PROVE  RefundsFollowCharges'
  <2>1. /\ UNCHANGED ledger
        /\ \A x \in inbox' : x \in inbox \/ (x.order = e.order /\ x.after = e.after)
        /\ \/ runs' = runs
           \/ /\ Refund!PaidByCard(e)
              /\ \E n : /\ n.order = e.order /\ n.offerId = e.after.offerId
                        /\ n.pc = "getOffer" /\ runs' = runs \cup {n}
    BY <1>5, InvokeEffect
  <2>2. Refund!PaidByCard(e) /\ e.after.offerId # NoOffer => Charged(e.order, e.after.offerId)
    BY DEF Refund!PaidByCard, RefundsFollowCharges
  <2>3. QED
    BY <1>2, <2>1, <2>2 DEF RefundsFollowCharges
<1>6. ASSUME NEW r \in runs, Refund!GetOffer(r) \/ Refund!GetUser(r) \/ Refund!Retry(r)
      PROVE  RefundsFollowCharges'
  <2>1. /\ UNCHANGED <<inbox, ledger>>
        /\ \/ runs' = runs \ {r}
           \/ \E n : Goes(r, n) /\ runs' = (runs \ {r}) \cup {n}
    BY <1>6, HandleEffect
  <2>2. r.offerId # NoOffer => Charged(r.order, r.offerId)
    BY DEF RefundsFollowCharges
  <2>3. QED
    BY <1>2, <2>1, <2>2 DEF RefundsFollowCharges, Goes
<1>7. ASSUME NEW r \in runs, Refund!Commit(r)
      PROVE  RefundsFollowCharges'
  <2>1. /\ UNCHANGED inbox /\ runs' = Refund!Stale(runs \ {r})
        /\ r.offerId # NoOffer /\ r.price = Price[r.offerId]
        /\ \E t : /\ t.order = r.order /\ t.offer = r.offerId
                  /\ t.amount = r.price /\ ledger' = ledger \cup {t}
    BY <1>7, CommitEffect
  <2>2. \A n \in runs' : \E s \in runs :
           n.order = s.order /\ n.offerId = s.offerId /\ n.pc = s.pc /\ n.price = s.price
    <3>1. runs \ {r} \in SUBSET Refund!Run
      BY DEF Refund!TypeOK
    <3>2. QED
      BY <2>1, <3>1, StaleRuns
  <2>3. Charged(r.order, r.offerId)
    BY <2>1 DEF RefundsFollowCharges
  <2>4. \A t \in ledger' : Charged(t.order, t.offer)' /\ t.amount = Price[t.offer]
    <3>1. ASSUME NEW t \in ledger PROVE Charged(t.order, t.offer)' /\ t.amount = Price[t.offer]
      BY <1>2 DEF RefundsFollowCharges
    <3>2. PICK t : /\ t.order = r.order /\ t.offer = r.offerId
                   /\ t.amount = r.price /\ ledger' = ledger \cup {t}
      BY <2>1
    <3>3. Charged(t.order, t.offer)' /\ t.amount = Price[t.offer]
      BY <1>2, <2>1, <2>3, <3>2
    <3>4. QED
      BY <3>1, <3>2, <3>3
  <2>5. \A n \in runs' : /\ n.offerId # NoOffer => Charged(n.order, n.offerId)'
                         /\ n.pc # "getOffer" => n.offerId # NoOffer /\ n.price = Price[n.offerId]
    BY <1>2, <2>2 DEF RefundsFollowCharges
  <2>6. \A e \in inbox' : e.after.paymentOption = "electronic" /\ e.after.offerId # NoOffer =>
           Charged(e.order, e.after.offerId)'
    BY <1>2, <2>1 DEF RefundsFollowCharges
  <2>7. QED
    BY <2>4, <2>5, <2>6 DEF RefundsFollowCharges
<1>8. QED
  BY <1>3, <1>4, <1>5, <1>6, <1>7, NothingHappens
     DEF MarketNext, marketVars, Refund!Functions, Refund!Handle, Refund!Crash, Refund!TouchUser

-----------------------------------------------------------------------------
(* One device has one refund to come *)

\* An order that is not cancelled becomes so with one event.
LEMMA TriggerOnce ==
    ASSUME IInv, IInv', Refund!TypeOK, OneRefund, Trigger,
           \A o \in Orders : order[o].status = "cancelled" => order'[o].status = "cancelled"
    PROVE  OneRefund'
<1>1. /\ UNCHANGED <<runs, ledger>>
      /\ \/ inbox' = inbox
         \/ \E o \in Orders : \E e \in Refund!Event :
               /\ e.order = o /\ e.before = order[o].status /\ e.after = order'[o]
               /\ inbox' = inbox \cup {e}
  BY TriggerEffect DEF IInv
<1>2. \A o : RunsFor(o)' = RunsFor(o) /\ Entries(o)' = Entries(o)
  BY <1>1 DEF RunsFor, Entries
<1>3. CASE inbox' = inbox
  <2>1. \A o : Cancellations(o)' = Cancellations(o)
    BY <1>3 DEF Cancellations
  <2>. QED BY <1>2, <2>1 DEF OneRefund
<1>4. ASSUME NEW e, e.order \in Orders, e.before = order[e.order].status,
             e.after = order'[e.order], inbox' = inbox \cup {e}
      PROVE  OneRefund'
  <2>1. \A o : \/ Refund!Becomes(e, "cancelled") /\ e.order = o
               \/ Cancellations(o)' = Cancellations(o)
    BY <1>4 DEF Cancellations
  <2>2. CASE Refund!Becomes(e, "cancelled")
    <3>1. order[e.order].status # "cancelled" /\ order'[e.order].status = "cancelled"
      BY <1>4, <2>2 DEF Refund!Becomes
    <3>2. Cancellations(e.order) = {} /\ RunsFor(e.order) = {} /\ Entries(e.order) = {}
      BY <1>4, <3>1 DEF OneRefund
    <3>3. Cancellations(e.order)' = {e}
      BY <1>4, <2>2, <3>2 DEF Cancellations
    <3>4. ASSUME NEW o \in Orders
          PROVE  /\ (Cancellations(o) # {} \/ RunsFor(o) # {} \/ Entries(o) # {})' =>
                       order'[o].status = "cancelled"
                 /\ Single(Cancellations(o)') /\ Single(RunsFor(o)') /\ Single(Entries(o)')
                 /\ Cancellations(o)' = {} \/ RunsFor(o)' = {}
                 /\ Entries(o)' = {} \/ (Cancellations(o)' = {} /\ RunsFor(o)' = {})
      <4>1. CASE o = e.order
        BY <1>2, <3>1, <3>2, <3>3, <4>1 DEF Single
      <4>2. CASE o # e.order
        <5>1. Cancellations(o)' = Cancellations(o)
          BY <2>1, <4>2
        <5>. QED BY <1>2, <5>1 DEF OneRefund
      <4>. QED BY <4>1, <4>2
    <3>. QED BY <3>4 DEF OneRefund, Single
  <2>3. CASE ~Refund!Becomes(e, "cancelled")
    <3>1. \A o : Cancellations(o)' = Cancellations(o)
      BY <2>1, <2>3
    <3>. QED BY <1>2, <3>1 DEF OneRefund
  <2>. QED BY <2>2, <2>3
<1>. QED BY <1>1, <1>3, <1>4

\* A delivery moves the refund to an invocation.
LEMMA InvokeOnce ==
    ASSUME Refund!TypeOK, OneRefund, MaxDeliveries = 1, UNCHANGED order,
           NEW e \in inbox, Refund!Invoke(e)
    PROVE  OneRefund'
<1>1. /\ UNCHANGED ledger /\ inbox' = inbox \ {e}
      /\ \/ runs' = runs
         \/ /\ Refund!Becomes(e, "cancelled")
            /\ \E n : n.order = e.order /\ runs' = runs \cup {n}
  BY InvokeEffect
<1>2. \A o : Entries(o)' = Entries(o) /\ Cancellations(o)' = Cancellations(o) \ {e}
  BY <1>1 DEF Entries, Cancellations
<1>3. CASE runs' = runs
  <2>1. \A o : RunsFor(o)' = RunsFor(o)
    BY <1>3 DEF RunsFor
  <2>. QED BY <1>2, <2>1 DEF OneRefund, Single
<1>4. ASSUME NEW n, n.order = e.order, runs' = runs \cup {n}, Refund!Becomes(e, "cancelled")
      PROVE  OneRefund'
  <2>1. e \in Cancellations(e.order)
    BY <1>4 DEF Cancellations
  <2>2. ASSUME NEW o \in Orders
        PROVE  /\ (Cancellations(o) # {} \/ RunsFor(o) # {} \/ Entries(o) # {})' =>
                     order'[o].status = "cancelled"
               /\ Single(Cancellations(o)') /\ Single(RunsFor(o)') /\ Single(Entries(o)')
               /\ Cancellations(o)' = {} \/ RunsFor(o)' = {}
               /\ Entries(o)' = {} \/ (Cancellations(o)' = {} /\ RunsFor(o)' = {})
    <3>1. CASE o = e.order
      <4>1. /\ order[o].status = "cancelled" /\ Cancellations(o) = {e}
            /\ RunsFor(o) = {} /\ Entries(o) = {}
        BY <2>1, <3>1 DEF OneRefund, Single
      <4>2. Cancellations(o)' = {} /\ Entries(o)' = {}
        BY <1>2, <4>1
      <4>3. RunsFor(o)' = {n}
        BY <1>4, <3>1, <4>1 DEF RunsFor
      <4>. QED BY <4>1, <4>2, <4>3 DEF Single
    <3>2. CASE o # e.order
      <4>1. RunsFor(o)' = RunsFor(o)
        BY <1>4, <3>2 DEF RunsFor
      <4>. QED BY <1>2, <4>1 DEF OneRefund, Single
    <3>. QED BY <3>1, <3>2
  <2>. QED BY <2>2 DEF OneRefund, Single
<1>. QED BY <1>1, <1>3, <1>4

\* Between its awaits an invocation stays the one of its order.
LEMMA HandleOnce ==
    ASSUME Refund!TypeOK, RefundsFollowCharges, OneRefund, UNCHANGED order,
           NEW r \in runs, Refund!GetOffer(r) \/ Refund!GetUser(r) \/ Refund!Retry(r)
    PROVE  OneRefund'
<1>1. /\ UNCHANGED <<inbox, ledger>>
      /\ \/ runs' = runs \ {r}
         \/ \E n : n.order = r.order /\ runs' = (runs \ {r}) \cup {n}
  BY HandleEffect DEF Goes
<1>2. \A o : Entries(o)' = Entries(o) /\ Cancellations(o)' = Cancellations(o)
  BY <1>1 DEF Entries, Cancellations
<1>3. CASE runs' = runs \ {r}
  <2>1. \A o : RunsFor(o)' = RunsFor(o) \ {r}
    BY <1>3 DEF RunsFor
  <2>. QED BY <1>2, <2>1 DEF OneRefund, Single
<1>4. ASSUME NEW n, n.order = r.order, runs' = (runs \ {r}) \cup {n}
      PROVE  OneRefund'
  <2>1. \A o : \/ RunsFor(o)' = RunsFor(o)
               \/ RunsFor(o) # {} /\ RunsFor(o)' = (RunsFor(o) \ {r}) \cup {n} /\ r \in RunsFor(o)
    <3>1. ASSUME NEW o, o # r.order PROVE RunsFor(o)' = RunsFor(o)
      BY <1>4, <3>1 DEF RunsFor
    <3>2. RunsFor(r.order)' = (RunsFor(r.order) \ {r}) \cup {n} /\ r \in RunsFor(r.order)
      BY <1>4 DEF RunsFor
    <3>. QED BY <3>1, <3>2
  <2>. QED BY <1>2, <2>1 DEF OneRefund, Single
<1>. QED BY <1>1, <1>3, <1>4

\* A commit makes the refund of its order.
LEMMA CommitOnce ==
    ASSUME Refund!TypeOK, RefundsFollowCharges, OneRefund, UNCHANGED order,
           NEW r \in runs, Refund!Commit(r)
    PROVE  OneRefund'
<1>1. PICK t : /\ UNCHANGED inbox /\ runs' = Refund!Stale(runs \ {r})
               /\ r \in Refund!Run /\ t.order = r.order /\ ledger' = ledger \cup {t}
  BY CommitEffect
<1>2. \A o : Cancellations(o)' = Cancellations(o)
  BY <1>1 DEF Cancellations
<1>3. /\ r \in RunsFor(r.order) /\ r.order \in Orders
  BY <1>1 DEF RunsFor, Refund!Run
<1>4. /\ order[r.order].status = "cancelled" /\ RunsFor(r.order) = {r}
      /\ Cancellations(r.order) = {} /\ Entries(r.order) = {}
  BY <1>3 DEF OneRefund, Single
<1>5. \A n \in runs' : \E s \in runs \ {r} : n = [s EXCEPT !.fresh = FALSE] /\ n.order = s.order
  <2>1. runs \ {r} \in SUBSET Refund!Run
    BY DEF Refund!TypeOK
  <2>. QED BY <1>1, <2>1, StaleRuns
<1>6. ASSUME NEW o \in Orders
      PROVE  /\ (Cancellations(o) # {} \/ RunsFor(o) # {} \/ Entries(o) # {})' =>
                   order'[o].status = "cancelled"
             /\ Single(Cancellations(o)') /\ Single(RunsFor(o)') /\ Single(Entries(o)')
             /\ Cancellations(o)' = {} \/ RunsFor(o)' = {}
             /\ Entries(o)' = {} \/ (Cancellations(o)' = {} /\ RunsFor(o)' = {})
  <2>1. CASE o = r.order
    <3>1. RunsFor(o)' = {}
      BY <1>4, <1>5, <2>1 DEF RunsFor
    <3>2. Entries(o)' = {t}
      BY <1>1, <1>4, <2>1 DEF Entries
    <3>. QED BY <1>2, <1>4, <2>1, <3>1, <3>2 DEF Single
  <2>2. CASE o # r.order
    <3>1. Entries(o)' = Entries(o)
      BY <1>1, <2>2 DEF Entries
    <3>2. \A n \in RunsFor(o)' : \E s \in RunsFor(o) : n = [s EXCEPT !.fresh = FALSE]
      BY <1>5 DEF RunsFor
    <3>3. Single(RunsFor(o)) => Single(RunsFor(o)')
      BY <3>2 DEF Single
    <3>4. RunsFor(o)' # {} => RunsFor(o) # {}
      BY <3>2
    <3>. QED BY <1>2, <3>1, <3>3, <3>4 DEF OneRefund
  <2>. QED BY <2>1, <2>2
<1>. QED BY <1>6 DEF OneRefund, Single

\* One refund to come, step by step.
LEMMA StepOneRefund ==
    ASSUME AnswersInTime, MaxDeliveries = 1, IInv, IInv', NothingReopens, Refund!TypeOK,
           RefundsFollowCharges, OneRefund, [MarketNext]_marketVars
    PROVE  OneRefund'
<1>1. CASE UNCHANGED marketVars
  BY <1>1 DEF marketVars, vars, OneRefund, Cancellations, RunsFor, Entries
<1>2. CASE Next /\ Trigger
  <2>1. \A o \in Orders : order[o].status = "cancelled" => order'[o].status = "cancelled"
    BY <1>2, StaysCancelled
  <2>. QED BY <1>2, <2>1, TriggerOnce
<1>3. CASE Refund!Functions /\ UNCHANGED vars
  <2>1. UNCHANGED order
    BY <1>3 DEF vars
  <2>. QED BY <1>3, <2>1, InvokeOnce, HandleOnce, CommitOnce, NothingHappens
         DEF Refund!Functions, Refund!Handle, Refund!Crash, Refund!TouchUser
<1>. QED BY <1>1, <1>2, <1>3 DEF MarketNext

-----------------------------------------------------------------------------
(* The theorems *)

\* At first nothing is charged, delivered or refunded.
LEMMA InitMarket ==
    MarketInit => /\ Init /\ Refund!TypeOK /\ RefundsFollowCharges /\ OneRefund
<1>. SUFFICES ASSUME MarketInit
              PROVE  Init /\ Refund!TypeOK /\ RefundsFollowCharges /\ OneRefund
  OBVIOUS
<1>1. /\ sent = 0 /\ inbox = {} /\ runs = {} /\ ledger = {}
      /\ user \in [exists : BOOLEAN, balance : {0}]
  BY DEF MarketInit, Refund!FunctionInit
<1>2. Refund!TypeOK
  BY <1>1 DEF Refund!TypeOK
<1>3. RefundsFollowCharges
  BY <1>1 DEF RefundsFollowCharges
<1>4. OneRefund
  BY <1>1 DEF OneRefund, Cancellations, RunsFor, Entries, Single
<1>. QED BY <1>2, <1>3, <1>4 DEF MarketInit

\* The app's part of the composition is the app.
THEOREM MarketRunsTheApp == MarketSpec => Spec
<1>1. MarketInit => Init
  BY DEF MarketInit
<1>2. [MarketNext]_marketVars => [Next]_vars
  BY DEF MarketNext, marketVars
<1>. QED BY <1>1, <1>2, PTL DEF MarketSpec, Spec

\* What the function has recorded, and what its events and invocations are about
\* to pay out, is the price of an offer whose payment page charged the order's
\* customer, on any number of devices and with any deliveries and attempts.
THEOREM RefundsAreOfCharges ==
    ASSUME AnswersInTime
    PROVE  MarketSpec => [](Refund!TypeOK /\ RefundsFollowCharges)
<1>1. Init => IInv
  BY InitSafe
<1>2. IInv /\ TypeOK /\ [Next]_vars => IInv'
  BY StepSafe
<1>3. MarketSpec => []TypeOK
  BY MarketRunsTheApp, TypeCorrect, PTL
<1>4. [MarketNext]_marketVars => [Next]_vars
  BY DEF MarketNext, marketVars
<1>5. IInv /\ IInv' /\ Refund!TypeOK /\ RefundsFollowCharges /\ [MarketNext]_marketVars
         => (Refund!TypeOK /\ RefundsFollowCharges)'
  BY StepMarketTypes, StepFollows DEF IInv
<1>. QED BY <1>1, <1>2, <1>3, <1>4, <1>5, InitMarket, PTL DEF MarketSpec

\* One device cancels an order once and the function is invoked once for it, so
\* every order has at most one refund, to come or made, and stays cancelled.
THEOREM OneRefundAtMost ==
    ASSUME AnswersInTime, OneDevice, MaxDeliveries = 1
    PROVE  MarketSpec => []OneRefund
<1>1. Init => IInv
  BY InitSafe
<1>2. IInv /\ TypeOK /\ [Next]_vars => IInv'
  BY StepSafe
<1>3. MarketSpec => []TypeOK /\ []NothingReopens /\ [](Refund!TypeOK /\ RefundsFollowCharges)
  BY MarketRunsTheApp, TypeCorrect, NothingReopensOrders, RefundsAreOfCharges, PTL
<1>4. [MarketNext]_marketVars => [Next]_vars
  BY DEF MarketNext, marketVars
<1>5. IInv /\ IInv' /\ NothingReopens /\ Refund!TypeOK /\ RefundsFollowCharges /\ OneRefund
         /\ [MarketNext]_marketVars => OneRefund'
  BY StepOneRefund
<1>. QED BY <1>1, <1>2, <1>3, <1>4, <1>5, InitMarket, PTL DEF MarketSpec

\* A refunded order is not served: nothing the app still had queued starts again
\* an order whose cancellation the function has refunded.
THEOREM RefundedOrdersAreCancelled ==
    ASSUME AnswersInTime, OneDevice, MaxDeliveries = 1
    PROVE  MarketSpec => []RefundedIsCancelled
<1>1. Refund!TypeOK /\ OneRefund => RefundedIsCancelled
  <2>. SUFFICES ASSUME Refund!TypeOK, OneRefund, NEW t \in ledger
                PROVE  order[t.order].status = "cancelled"
    BY DEF RefundedIsCancelled
  <2>1. t.order \in Orders
    BY DEF Refund!TypeOK, Refund!Entry
  <2>2. t \in Entries(t.order)
    BY DEF Entries
  <2>. QED BY <2>1, <2>2 DEF OneRefund
<1>. QED BY <1>1, OneRefundAtMost, RefundsAreOfCharges, PTL

-----------------------------------------------------------------------------
(* What one refund comes to *)

\* PaymentPage rounds a price up.
LEMMA PaidCoversPrice == \A f \in Offers : Paid(f) \in Nat /\ Price[f] <= Paid(f)
BY MarketAssumption DEF Paid

\* What was charged for an order is no less than one charge of one of its offers.
LEMMA PaidForCovers ==
    ASSUME DocsOK, IsFiniteSet(Offers), NEW o
    PROVE  /\ PaidFor(o) \in Nat
           /\ \A f : Charged(o, f) => Paid(f) <= PaidFor(o)
<1> DEFINE amount == [f \in Offers |-> charges[f] * Paid(f)]
<1>1. /\ IsFiniteSet(OffersFor(o)) /\ OffersFor(o) \subseteq Offers
      /\ \A f : IsFiniteSet(OffersFor(o) \ {f})
  BY FS_Subset DEF OffersFor
<1>2. \A f \in OffersFor(o) : amount[f] = charges[f] * Paid(f) /\ charges[f] \in Nat
  BY <1>1 DEF DocsOK
<1>3. \A f \in OffersFor(o) : amount[f] \in Nat
  BY <1>1, <1>2, PaidCoversPrice
<1>4. PaidFor(o) = SumFunctionOnSet(amount, OffersFor(o))
  BY DEF PaidFor
<1>. HIDE DEF amount
<1>5. /\ SumFunctionOnSet(amount, OffersFor(o)) \in Nat
      /\ \A f \in OffersFor(o) : SumFunctionOnSet(amount, OffersFor(o)) =
            amount[f] + SumFunctionOnSet(amount, OffersFor(o) \ {f})
  BY <1>1, <1>3, SumWithout
<1>6. ASSUME NEW f, Charged(o, f) PROVE Paid(f) <= PaidFor(o)
  <2>1. f \in OffersFor(o) /\ charges[f] \in Nat /\ charges[f] > 0 /\ Paid(f) \in Nat
    BY <1>2, <1>6, PaidCoversPrice DEF Charged, OffersFor
  <2>2. Paid(f) <= amount[f]
    <3>1. PICK n \in Nat, p \in Nat : n = charges[f] /\ p = Paid(f) /\ n > 0
      BY <2>1
    <3>2. p <= n * p
      BY <3>1
    <3>. QED BY <1>2, <2>1, <3>1, <3>2
  <2>3. SumFunctionOnSet(amount, OffersFor(o) \ {f}) \in Nat
    BY <1>1, <1>3, SumWithout
  <2>. QED BY <1>3, <1>4, <1>5, <2>1, <2>2, <2>3
<1>. QED BY <1>4, <1>5, <1>6

\* The function's sums are those of SumTheorems.
LEMMA SameSums == \A val, S : Refund!SumFunctionOnSet(val, S) = SumFunctionOnSet(val, S)
BY DEF SumFunctionOnSet, FoldFunctionOnSet, MapThenFoldSet,
       Refund!SumFunctionOnSet, Refund!FoldFunctionOnSet, Refund!MapThenFoldSet

\* The total of one entry, or of none.
LEMMA TotalOfOne ==
    /\ Refund!Total({}) = 0
    /\ \A t : t.amount \in Nat => Refund!Total({t}) = t.amount
<1>1. Refund!Total({}) = 0
  BY SameSums, SumUnfolds, FS_EmptySet DEF Refund!Total
<1>2. ASSUME NEW t, t.amount \in Nat PROVE Refund!Total({t}) = t.amount
  <2>1. PICK g : g = [x \in {t} |-> x.amount]
    OBVIOUS
  <2>2. IsFiniteSet({t}) /\ IsFiniteSet({}) /\ {t} \ {t} = {}
    BY FS_Singleton, FS_EmptySet
  <2>3. SumFunctionOnSet(g, {t}) = g[t] + SumFunctionOnSet(g, {t} \ {t})
    BY <1>2, <2>1, <2>2, SumWithout
  <2>4. SumFunctionOnSet(g, {}) = 0
    BY <2>2, SumUnfolds
  <2>5. SumFunctionOnSet(g, {t}) = t.amount
    BY <1>2, <2>1, <2>2, <2>3, <2>4
  <2>6. Refund!Total({t}) = SumFunctionOnSet(g, {t})
    BY <2>1, SameSums DEF Refund!Total
  <2>. QED BY <2>5, <2>6
<1>. QED BY <1>1, <1>2

\* The wallet never gets back more for an order than was charged for it: there
\* is one refund, of the price of an offer that was charged at least once, and
\* the payment page charges the price rounded up.
THEOREM RefundsStayWithinPayment ==
    ASSUME AnswersInTime, OneDevice, MaxDeliveries = 1, IsFiniteSet(Offers)
    PROVE  MarketSpec => []RefundWithinPayment
<1>1. TypeOK /\ Refund!TypeOK /\ RefundsFollowCharges /\ OneRefund => RefundWithinPayment
  <2>. SUFFICES ASSUME DocsOK, Refund!TypeOK, RefundsFollowCharges, OneRefund, NEW o \in Orders
                PROVE  Refunded(o) <= PaidFor(o)
    BY DEF RefundWithinPayment, TypeOK
  <2>1. PaidFor(o) \in Nat /\ \A f : Charged(o, f) => Paid(f) <= PaidFor(o)
    BY PaidForCovers
  <2>2. CASE Entries(o) = {}
    BY <2>1, <2>2, TotalOfOne DEF Refunded
  <2>3. ASSUME NEW t \in Entries(o) PROVE Refunded(o) <= PaidFor(o)
    <3>1. Entries(o) = {t}
      BY DEF OneRefund, Single
    <3>2. t \in ledger /\ t.order = o
      BY DEF Entries
    <3>3. Charged(o, t.offer) /\ t.amount = Price[t.offer]
      BY <3>2 DEF RefundsFollowCharges
    <3>4. t.offer \in Offers
      BY <3>3 DEF Charged
    <3>5. Price[t.offer] \in Nat
      BY <3>4, MarketAssumption
    <3>6. Refunded(o) = Price[t.offer]
      BY <3>1, <3>3, <3>5, TotalOfOne DEF Refunded
    <3>. QED BY <2>1, <3>3, <3>4, <3>5, <3>6, PaidCoversPrice
  <2>. QED BY <2>2, <2>3
<1>2. MarketSpec => /\ []TypeOK /\ []OneRefund
                    /\ [](Refund!TypeOK /\ RefundsFollowCharges)
  BY MarketRunsTheApp, TypeCorrect, OneRefundAtMost, RefundsAreOfCharges, PTL
<1>. QED BY <1>1, <1>2, PTL

-----------------------------------------------------------------------------
(* Several devices: what a step of the app does to charges and start writes *)

\* A set whose members come from those of a finite set is finite and no larger.
LEMMA Fewer ==
    ASSUME NEW S, NEW T, IsFiniteSet(T), NEW h, \A x \in S : \E y \in T : x = h[y]
    PROVE  IsFiniteSet(S) /\ Cardinality(S) <= Cardinality(T)
<1>1. PICK g : g = [x \in S |-> CHOOSE y \in T : x = h[y]]
  OBVIOUS
<1>2. \A x \in S : g[x] \in T /\ x = h[g[x]]
  BY <1>1
<1>3. g \in Injection(S, T)
  BY <1>1, <1>2 DEF Injection, IsInjective
<1>. QED BY <1>3, FS_Injection

\* No new page of a charge.
LEMMA PagesMove ==
    ASSUME NEW d \in Devices, NoNewCharge(d), NEW o
    PROVE  ChargePages(o)' \subseteq ChargePages(o)
<1>1. SUFFICES ASSUME NEW x \in ChargePages(o)' PROVE x \in ChargePages(o)
  OBVIOUS
<1>2. PICK e \in Devices : \E i \in DOMAIN nav'[e] :
         x = <<e, i>> /\ Charging(nav'[e][i]) /\ OrderOf[nav'[e][i].offer] = o
  BY DEF ChargePages
<1>3. PICK i \in DOMAIN nav'[e] :
         x = <<e, i>> /\ Charging(nav'[e][i]) /\ OrderOf[nav'[e][i].offer] = o
  BY <1>2
<1>4. i \in DOMAIN nav[e] /\ Charging(nav[e][i]) /\ OrderOf[nav[e][i].offer] = o
  <2>1. CASE e = d
    BY <1>3, <2>1 DEF NoNewCharge
  <2>2. CASE e # d
    BY <1>3, <2>2 DEF NoNewCharge
  <2>. QED BY <2>1, <2>2
<1>. QED BY <1>3, <1>4 DEF ChargePages

\* Answers and calls that do not start the order leave no more start writes of
\* it, and one less when the answer is the oldest one's.
LEMMA StartsMove ==
    ASSUME DocsOK, DocsOK', NEW d \in Devices, NEW k \in {0, 1}, NEW N, QueueStep(d, k, N),
           NEW o, IsFiniteSet(StartWrites(o)), \A n \in N : n.op = "start" => n.order # o,
           k = 1 => queue[d] # <<>>
    PROVE  /\ IsFiniteSet(StartWrites(o)')
           /\ Cardinality(StartWrites(o)') <= Cardinality(StartWrites(o))
           /\ k = 1 /\ queue[d][1].op = "start" /\ queue[d][1].order = o =>
                 Cardinality(StartWrites(o)') + 1 <= Cardinality(StartWrites(o))
<1>1. PICK S : S = StartWrites(o)'
  OBVIOUS
<1>2. PICK T : T = IF k = 1 THEN StartWrites(o) \ {<<d, 1>>} ELSE StartWrites(o)
  OBVIOUS
<1>3. PICK h : h = [y \in T |-> IF y[1] = d THEN <<d, y[2] - k>> ELSE y]
  OBVIOUS
<1>4. ASSUME NEW x \in S PROVE \E y \in T : x = h[y]
  <2>1. PICK e \in Devices : \E i \in DOMAIN queue'[e] :
           x = <<e, i>> /\ queue'[e][i].op = "start" /\ queue'[e][i].order = o
    BY <1>1, <1>4 DEF StartWrites
  <2>2. PICK i \in DOMAIN queue'[e] :
           x = <<e, i>> /\ queue'[e][i].op = "start" /\ queue'[e][i].order = o
    BY <2>1
  <2>3. i \in Nat \ {0}
    BY DEF DocsOK
  <2>4. CASE e = d
    <3>1. i + k \in DOMAIN queue[d] /\ SameCall(queue'[d][i], queue[d][i + k])
      BY <2>2, <2>4 DEF QueueStep, SameCall
    <3>2. <<d, i + k>> \in StartWrites(o)
      BY <2>2, <2>4, <3>1 DEF StartWrites, SameCall
    <3>3. k = 1 => <<d, i + k>> # <<d, 1>>
      BY <2>3
    <3>4. PICK y \in T : y = <<d, i + k>>
      BY <1>2, <3>2, <3>3
    <3>5. h[y] = <<d, i>>
      BY <1>3, <2>3, <3>4
    <3>. QED BY <2>2, <2>4, <3>4, <3>5
  <2>5. CASE e # d
    <3>1. x \in StartWrites(o)
      BY <2>2, <2>5 DEF QueueStep, StartWrites
    <3>2. x \in T
      BY <1>2, <2>2, <2>5, <3>1
    <3>3. h[x] = x
      BY <1>3, <2>2, <2>5, <3>2
    <3>. QED BY <3>2, <3>3
  <2>. QED BY <2>4, <2>5
<1>5. /\ IsFiniteSet(T) /\ Cardinality(T) <= Cardinality(StartWrites(o))
      /\ Cardinality(StartWrites(o)) \in Nat /\ Cardinality(T) \in Nat
  BY <1>2, FS_Subset, FS_CardinalityType
<1>6. IsFiniteSet(S) /\ Cardinality(S) <= Cardinality(T)
  BY <1>4, <1>5, Fewer
<1>7. Cardinality(S) \in Nat
  BY <1>6, FS_CardinalityType
<1>8. k = 1 /\ queue[d][1].op = "start" /\ queue[d][1].order = o =>
         Cardinality(T) + 1 = Cardinality(StartWrites(o))
  <2>. SUFFICES ASSUME k = 1, queue[d][1].op = "start", queue[d][1].order = o
                PROVE  Cardinality(T) + 1 = Cardinality(StartWrites(o))
    OBVIOUS
  <2>1. 1 \in DOMAIN queue[d]
    <3>1. queue[d] \in Seq(Write)
      BY DEF DocsOK
    <3>. QED BY <3>1
  <2>2. <<d, 1>> \in StartWrites(o)
    BY <2>1 DEF StartWrites
  <2>. QED BY <1>2, <1>5, <2>2, FS_RemoveElement
<1>. QED BY <1>1, <1>5, <1>6, <1>7, <1>8

\* A call adds at most one.
LEMMA StartsGrow ==
    ASSUME DocsOK, DocsOK', NEW d \in Devices, NEW n, QueueStep(d, 0, {n}),
           NEW o, IsFiniteSet(StartWrites(o))
    PROVE  /\ IsFiniteSet(StartWrites(o)')
           /\ Cardinality(StartWrites(o)') <= Cardinality(StartWrites(o)) + 1
<1>1. PICK S : S = StartWrites(o)'
  OBVIOUS
<1>2. PICK T : T = StartWrites(o) \cup {<<d, Len(queue[d]) + 1>>}
  OBVIOUS
<1>3. S \subseteq T
  <2>1. SUFFICES ASSUME NEW x \in S PROVE x \in T
    OBVIOUS
  <2>2. PICK e \in Devices : \E i \in DOMAIN queue'[e] :
           x = <<e, i>> /\ queue'[e][i].op = "start" /\ queue'[e][i].order = o
    BY <1>1, <2>1 DEF StartWrites
  <2>3. PICK i \in DOMAIN queue'[e] :
           x = <<e, i>> /\ queue'[e][i].op = "start" /\ queue'[e][i].order = o
    BY <2>2
  <2>4. i + 0 = i
    BY DEF DocsOK
  <2>5. CASE e = d
    BY <1>2, <2>3, <2>4, <2>5 DEF QueueStep, SameCall, StartWrites
  <2>6. CASE e # d
    BY <1>2, <2>3, <2>6 DEF QueueStep, StartWrites
  <2>. QED BY <2>5, <2>6
<1>4. IsFiniteSet(T) /\ Cardinality(T) <= Cardinality(StartWrites(o)) + 1
  <2>1. Cardinality(StartWrites(o)) \in Nat
    BY FS_CardinalityType
  <2>2. /\ IsFiniteSet(T)
        /\ \/ Cardinality(T) = Cardinality(StartWrites(o))
           \/ Cardinality(T) = Cardinality(StartWrites(o)) + 1
    BY <1>2, FS_AddElement
  <2>. QED BY <2>1, <2>2
<1>5. IsFiniteSet(S) /\ Cardinality(S) <= Cardinality(T)
  BY <1>3, <1>4, FS_Subset
<1>6. Cardinality(S) \in Nat /\ Cardinality(T) \in Nat /\ Cardinality(StartWrites(o)) \in Nat
  BY <1>4, <1>5, FS_CardinalityType
<1>. QED BY <1>1, <1>4, <1>5, <1>6

-----------------------------------------------------------------------------
(* Several devices: a step of the app passes on the charges of an order *)

ChargedFor(o) == SumFunctionOnSet(charges, OffersFor(o))

NewlyStarted(o) ==
    IF order[o].status # "inProgress" /\ order'[o].status = "inProgress" THEN 1 ELSE 0

FinitePending(o) == IsFiniteSet(ChargePages(o)) /\ IsFiniteSet(StartWrites(o))

Pending(o) == Cardinality(ChargePages(o)) + Cardinality(StartWrites(o))

\* What is still to come of the charges of order o, its start included, is no
\* more than it was, unless the step charges.
PassesOn(o) ==
    /\ FinitePending(o)'
    /\ Pending(o)' + NewlyStarted(o) + ChargedFor(o) <= Pending(o) + ChargedFor(o)'

\* Sums of charges are numbers.
LEMMA ChargedNat ==
    ASSUME DocsOK, IsFiniteSet(Offers), NEW o
    PROVE  ChargedFor(o) \in Nat
<1>1. IsFiniteSet(OffersFor(o)) /\ \A f \in OffersFor(o) : charges[f] \in Nat
  BY FS_Subset DEF OffersFor, DocsOK
<1>. QED BY <1>1, SumWithout DEF ChargedFor

\* A charge of an offer of the order counts.
LEMMA ChargeCounts ==
    ASSUME DocsOK, IsFiniteSet(Offers), NEW g \in Offers,
           charges' = [charges EXCEPT ![g] = charges[g] + 1], NEW o
    PROVE  ChargedFor(o)' = IF OrderOf[g] = o THEN ChargedFor(o) + 1 ELSE ChargedFor(o)
<1>1. /\ IsFiniteSet(OffersFor(o)) /\ charges \in [Offers -> Nat]
      /\ \A f \in OffersFor(o) : charges[f] \in Nat /\ f \in Offers /\ OrderOf[f] = o
  BY FS_Subset DEF OffersFor, DocsOK
<1>2. PICK c : c = charges'
  OBVIOUS
<1>3. ChargedFor(o)' = SumFunctionOnSet(c, OffersFor(o))
  BY <1>2 DEF ChargedFor, OffersFor
<1>4. \A f \in OffersFor(o) : f # g => c[f] = charges[f]
  BY <1>1, <1>2
<1>5. CASE OrderOf[g] = o
  <2>1. g \in OffersFor(o) /\ c[g] = charges[g] + 1
    BY <1>1, <1>2, <1>5 DEF OffersFor
  <2>2. \A f \in OffersFor(o) : charges[f] \in Nat /\ c[f] \in Nat
    BY <1>1, <1>4, <2>1
  <2>3. SumFunctionOnSet(c, OffersFor(o)) + charges[g] =
           SumFunctionOnSet(charges, OffersFor(o)) + c[g]
    BY <1>1, <1>4, <2>1, <2>2, SumChange
  <2>4. ChargedFor(o) \in Nat /\ SumFunctionOnSet(c, OffersFor(o)) \in Nat /\ charges[g] \in Nat
    BY <1>1, <2>1, <2>2, ChargedNat, SumWithout
  <2>. QED BY <1>3, <1>5, <2>1, <2>3, <2>4 DEF ChargedFor
<1>6. CASE OrderOf[g] # o
  <2>1. \A f \in OffersFor(o) : charges[f] = c[f]
    BY <1>1, <1>4, <1>6
  <2>. QED BY <1>1, <1>3, <1>6, <2>1, SumSame DEF ChargedFor
<1>. QED BY <1>5, <1>6

\* Counting what is pending.
LEMMA PendingNat ==
    ASSUME NEW o, FinitePending(o)
    PROVE  /\ Cardinality(ChargePages(o)) \in Nat /\ Cardinality(StartWrites(o)) \in Nat
           /\ \A S : S \subseteq ChargePages(o) =>
                 /\ IsFiniteSet(S) /\ Cardinality(S) \in Nat
                 /\ Cardinality(S) <= Cardinality(ChargePages(o))
BY FS_Subset, FS_CardinalityType DEF FinitePending

\* A step that neither charges nor starts anything new.
LEMMA QuietPasses ==
    ASSUME DocsOK, DocsOK', IsFiniteSet(Offers), UNCHANGED charges,
           NEW d \in Devices, NoNewCharge(d),
           NEW k \in {0, 1}, NEW N, QueueStep(d, k, N), k = 1 => queue[d] # <<>>,
           NEW o, FinitePending(o), \A n \in N : n.op = "start" => n.order # o,
           NewlyStarted(o) = 1 => k = 1 /\ queue[d][1].op = "start" /\ queue[d][1].order = o
    PROVE  PassesOn(o)
<1>1. ChargePages(o)' \subseteq ChargePages(o)
  BY PagesMove
<1>2. /\ IsFiniteSet(ChargePages(o)') /\ Cardinality(ChargePages(o)') \in Nat
      /\ Cardinality(ChargePages(o)') <= Cardinality(ChargePages(o))
      /\ Cardinality(ChargePages(o)) \in Nat /\ Cardinality(StartWrites(o)) \in Nat
  BY <1>1, PendingNat
<1>3. /\ IsFiniteSet(StartWrites(o)')
      /\ Cardinality(StartWrites(o)') <= Cardinality(StartWrites(o))
      /\ k = 1 /\ queue[d][1].op = "start" /\ queue[d][1].order = o =>
            Cardinality(StartWrites(o)') + 1 <= Cardinality(StartWrites(o))
  BY StartsMove DEF FinitePending
<1>4. PICK s : s = StartWrites(o)'
  OBVIOUS
<1>5. Cardinality(StartWrites(o)') \in Nat
  BY <1>3, <1>4, FS_CardinalityType
<1>6. NewlyStarted(o) \in {0, 1}
  BY DEF NewlyStarted
<1>7. ChargedFor(o) \in Nat /\ ChargedFor(o)' = ChargedFor(o)
  BY ChargedNat DEF ChargedFor, OffersFor
<1>8. Pending(o)' + NewlyStarted(o) <= Pending(o)
  BY <1>2, <1>3, <1>5, <1>6 DEF Pending
<1>9. Pending(o) \in Nat /\ Pending(o)' \in Nat
  BY <1>2, <1>5 DEF Pending
<1>. QED BY <1>2, <1>3, <1>6, <1>7, <1>8, <1>9 DEF PassesOn, FinitePending

\* A step that leaves the order's status alone starts nothing.
LEMMA NotStarted ==
    ASSUME NEW o, order'[o].status = order[o].status \/ order'[o].status # "inProgress"
    PROVE  NewlyStarted(o) # 1
BY DEF NewlyStarted

\* A page that is opened over the others.
LEMMA BrowsePasses ==
    ASSUME DocsOK, DocsOK', IsFiniteSet(Offers), NEW d \in Devices, NEW r, Browse(d, r),
           r.page # "payment", NEW o, FinitePending(o)
    PROVE  PassesOn(o)
<1>1. Push(d, r) /\ UNCHANGED <<order, charges>>
  BY DEF Browse
<1>2. NoNewCharge(d) /\ QueueStep(d, 0, {})
  BY <1>1, PushCharges, PushEffect DEF Charging
<1>3. NewlyStarted(o) # 1
  BY <1>1, NotStarted
<1>. QED BY <1>1, <1>2, <1>3, QuietPasses

\* Popping, with or without an answer.
LEMMA PopPasses ==
    ASSUME DocsOK, DocsOK', IsFiniteSet(Offers), UNCHANGED <<order, charges>>,
           NEW d \in Devices, NEW n \in Nat, NEW q, Pop(d, n, q),
           q = queue[d] \/ (queue[d] # <<>> /\ q = Tail(queue[d])), NEW o, FinitePending(o)
    PROVE  PassesOn(o)
<1>1. q \in Seq(Write)
  BY HeadType DEF DocsOK
<1>2. NoNewCharge(d) /\ NewlyStarted(o) # 1
  BY <1>1, PopCharges, NotStarted
<1>3. PICK k \in {0, 1} : QueueStep(d, k, {}) /\ (k = 1 => queue[d] # <<>>)
  <2>1. \/ QueueStep(d, 0, {})
        \/ QueueStep(d, 1, {}) /\ queue[d] # <<>>
    BY <1>1, PopEffect
  <2>. QED BY <2>1
<1>. QED BY <1>2, <1>3, QuietPasses

\* A call that does not start the order.
LEMMA CallPasses ==
    ASSUME DocsOK, DocsOK', IsFiniteSet(Offers), UNCHANGED <<order, charges>>,
           NEW d \in Devices, NoNewCharge(d), NEW w \in Write,
           queue' = [queue EXCEPT ![d] = Append(@, w)],
           NEW o, FinitePending(o), w.op = "start" => w.order # o
    PROVE  PassesOn(o)
<1>1. QueueStep(d, 0, {w})
  BY EnqueueQueue
<1>2. NewlyStarted(o) # 1
  BY NotStarted
<1>. QED BY <1>1, <1>2, QuietPasses

\* A tap; "Accept offer" on a cash order's sheet starts no electronic order.
LEMMA TapPasses ==
    ASSUME IInv, DocsOK', IsFiniteSet(Offers), NEW d \in Devices, Tap(d),
           NEW o \in Orders, FinitePending(o), ~Exists(o) \/ Electronic(o)
    PROVE  PassesOn(o)
<1>1. DocsOK
  BY DEF IInv
<1>2. CASE OpenForm(d) \/ AskCancel(d) \/ (\E p \in Orders : OpenOrder(d, p))
             \/ \E f \in Offers : ShowOffer(d, f)
  <2>1. CASE OpenForm(d)
    <3>1. PICK r : r = Plain("form")
      OBVIOUS
    <3>2. Browse(d, r) /\ r.page # "payment"
      BY <2>1, <3>1 DEF OpenForm, Plain, Screen
    <3>. QED BY <1>1, <3>2, BrowsePasses
  <2>2. CASE AskCancel(d)
    <3>1. PICK r : r = Screen("dialog", Top(d).order, Top(d).snap, NoOffer)
      OBVIOUS
    <3>2. Browse(d, r) /\ r.page # "payment"
      BY <2>2, <3>1 DEF AskCancel, Screen
    <3>. QED BY <1>1, <3>2, BrowsePasses
  <2>3. ASSUME NEW p \in Orders, OpenOrder(d, p) PROVE PassesOn(o)
    <3>1. PICK r : r = Screen("order", p, ViewOrder(d, p), NoOffer)
      OBVIOUS
    <3>2. Browse(d, r) /\ r.page # "payment"
      BY <2>3, <3>1 DEF OpenOrder, Screen
    <3>. QED BY <1>1, <3>2, BrowsePasses
  <2>4. ASSUME NEW f \in Offers, ShowOffer(d, f) PROVE PassesOn(o)
    <3>1. PICK r : r = Screen("sheet", Top(d).order, Top(d).snap, f)
      OBVIOUS
    <3>2. Browse(d, r) /\ r.page # "payment"
      BY <2>4, <3>1 DEF ShowOffer, Screen
    <3>. QED BY <1>1, <3>2, BrowsePasses
  <2>. QED BY <1>2, <2>1, <2>2, <2>3, <2>4
<1>3. CASE Back(d)
  BY <1>1, <1>3, PopPasses DEF Back
<1>4. CASE AcceptOfferElectronic(d)
  <2>1. PICK r : r = Screen("payment", NoOrder, NoDoc, Top(d).offer)
    OBVIOUS
  <2>2. /\ UNCHANGED <<order, charges>> /\ queue[d] \in Seq(Write)
        /\ Show(d, Append(Popped(nav[d], 2), r), Len(Popped(nav[d], 2)), queue[d])
    BY <1>1, <1>4, <2>1 DEF AcceptOfferElectronic, DocsOK
  <2>3. ~Charging(r)
    BY <2>1 DEF Charging, Screen
  <2>4. NoNewCharge(d) /\ QueueStep(d, 0, {}) /\ NewlyStarted(o) # 1
    BY <1>1, <1>4, <2>1, <2>2, <2>3, ReplaceCharges, PayNav, NotStarted
  <2>. QED BY <1>1, <2>2, <2>4, QuietPasses
<1>5. CASE AcceptOfferCash(d)
  <2>1. PICK n : n = Call(AcceptsWith, Top(d).order, Top(d).offer, "cash", Len(nav[d]))
    OBVIOUS
  <2>2. /\ nav[d] # <<>> /\ Top(d).page = "sheet" /\ Top(d).snap.paymentOption # "electronic"
        /\ queue' = [queue EXCEPT ![d] = Append(@, n)] /\ UNCHANGED <<order, charges, nav>>
    BY <1>5, <2>1 DEF AcceptOfferCash, On
  <2>3. /\ Top(d) \in Route /\ SoundRoute(Top(d)) /\ Len(nav[d]) \in Nat
        /\ Top(d).order \in Orders /\ Top(d).offer \in Offers
    BY <1>1, <2>2, TopSound, TopType DEF Route
  <2>4. n \in Write /\ n.order = Top(d).order
    BY <2>1, <2>3, CallType DEF AcceptsWith, Call, PaymentOption
  <2>5. Exists(Top(d).order)
    BY <2>2, <2>3 DEF SoundRoute, IInv, PendingWorkIsSound
  <2>6. ~Electronic(Top(d).order)
    BY <2>2, <2>3, <2>5 DEF SoundRoute, SoundSnapshot, Electronic
  <2>7. n.order # o
    BY <2>4, <2>5, <2>6
  <2>8. NoNewCharge(d)
    BY <2>2 DEF NoNewCharge
  <2>. QED BY <1>1, <2>2, <2>4, <2>7, <2>8, CallPasses
<1>6. CASE CancelOrder(d)
  <2>1. PICK n : n = Call("cancel", Top(d).order, Top(d).snap.offerId,
                          Top(d).snap.paymentOption, Len(nav[d]) - 1)
    OBVIOUS
  <2>2. /\ nav[d] # <<>> /\ Top(d).page = "dialog" /\ UNCHANGED <<order, charges, nav>>
        /\ queue' = [queue EXCEPT ![d] = Append(@, n)]
    BY <1>6, <2>1 DEF CancelOrder, On
  <2>3. Top(d) \in Route /\ Len(nav[d]) - 1 \in Nat
    BY <1>1, <2>2, TopType
  <2>4. Top(d).order \in Orders /\ Top(d).snap \in OrderDoc
    BY <2>2, <2>3 DEF Route
  <2>5. n \in Write /\ n.op = "cancel"
    BY <2>1, <2>3, <2>4, CallType DEF OrderDoc, Call
  <2>6. NoNewCharge(d)
    BY <2>2 DEF NoNewCharge
  <2>. QED BY <1>1, <2>2, <2>5, <2>6, CallPasses
<1>7. ASSUME NEW q \in Orders, NEW p \in PaymentOption, SendOrder(d, q, p)
      PROVE  PassesOn(o)
  <2>1. PICK n : n = Call("create", q, NoOffer, p, Len(nav[d]))
    OBVIOUS
  <2>2. UNCHANGED <<order, charges>> /\ queue' = [queue EXCEPT ![d] = Append(@, n)]
    BY <1>7, <2>1 DEF SendOrder
  <2>3. Len(nav[d]) \in Nat
    BY <1>1 DEF DocsOK
  <2>4. n \in Write /\ n.op = "create"
    BY <2>1, <2>3, CallType DEF Call
  <2>5. NoNewCharge(d)
    BY <1>1, <1>7, BusyFormCharges
  <2>. QED BY <1>1, <2>2, <2>4, <2>5, CallPasses
<1>. QED BY <1>2, <1>3, <1>4, <1>5, <1>6, <1>7 DEF Tap

\* The charge makes a page of a charge.
LEMMA CapturedPasses ==
    ASSUME IInv, DocsOK', IsFiniteSet(Offers), NEW d \in Devices, PaymentCaptured(d),
           NEW o \in Orders, FinitePending(o)
    PROVE  PassesOn(o)
<1>1. PICK g : g = Top(d).offer
  OBVIOUS
<1>2. PICK x : x = <<d, Len(nav[d])>>
  OBVIOUS
<1>3. /\ nav[d] # <<>> /\ Top(d).page = "payment" /\ DocsOK
      /\ charges' = [charges EXCEPT ![g] = charges[g] + 1]
      /\ nav' = [nav EXCEPT ![d][Len(nav[d])].busy = TRUE]
      /\ UNCHANGED <<order, queue>>
  BY <1>1 DEF PaymentCaptured, On, IInv
<1>4. g \in Offers
  BY <1>1, <1>3, TopSound DEF Route
<1>5. /\ \A e \in Devices \ {d} : nav'[e] = nav[e]
      /\ DOMAIN nav'[d] = DOMAIN nav[d]
      /\ \A i \in DOMAIN nav[d] : /\ nav'[d][i].offer = nav[d][i].offer
                                  /\ i # Len(nav[d]) => nav'[d][i] = nav[d][i]
  BY <1>3, BusyEffect
<1>6. OrderOf[g] = o => ChargePages(o)' \subseteq ChargePages(o) \cup {x}
  <2>1. SUFFICES ASSUME NEW y \in ChargePages(o)' PROVE y \in ChargePages(o) \cup {x}
    OBVIOUS
  <2>2. PICK e \in Devices : \E i \in DOMAIN nav'[e] :
           y = <<e, i>> /\ Charging(nav'[e][i]) /\ OrderOf[nav'[e][i].offer] = o
    BY DEF ChargePages
  <2>3. PICK i \in DOMAIN nav'[e] :
           y = <<e, i>> /\ Charging(nav'[e][i]) /\ OrderOf[nav'[e][i].offer] = o
    BY <2>2
  <2>4. CASE e = d /\ i = Len(nav[d])
    BY <1>2, <2>3, <2>4
  <2>5. CASE e # d \/ i # Len(nav[d])
    <3>1. i \in DOMAIN nav[e] /\ nav'[e][i] = nav[e][i]
      BY <1>5, <2>5
    <3>. QED BY <2>3, <3>1 DEF ChargePages
  <2>. QED BY <2>4, <2>5
<1>7. OrderOf[g] # o => ChargePages(o)' \subseteq ChargePages(o)
  <2>1. SUFFICES ASSUME OrderOf[g] # o, NEW y \in ChargePages(o)' PROVE y \in ChargePages(o)
    OBVIOUS
  <2>2. PICK e \in Devices : \E i \in DOMAIN nav'[e] :
           y = <<e, i>> /\ Charging(nav'[e][i]) /\ OrderOf[nav'[e][i].offer] = o
    BY DEF ChargePages
  <2>3. PICK i \in DOMAIN nav'[e] :
           y = <<e, i>> /\ Charging(nav'[e][i]) /\ OrderOf[nav'[e][i].offer] = o
    BY <2>2
  <2>4. e # d \/ i # Len(nav[d])
    BY <1>1, <1>5, <2>1, <2>3 DEF Top
  <2>5. i \in DOMAIN nav[e] /\ nav'[e][i] = nav[e][i]
    BY <1>5, <2>4
  <2>. QED BY <2>3, <2>5 DEF ChargePages
<1>8. StartWrites(o)' = StartWrites(o)
  BY <1>3 DEF StartWrites
<1>9. NewlyStarted(o) = 0
  BY <1>3 DEF NewlyStarted
<1>10. /\ ChargedFor(o) \in Nat
       /\ ChargedFor(o)' = IF OrderOf[g] = o THEN ChargedFor(o) + 1 ELSE ChargedFor(o)
  BY <1>3, <1>4, ChargedNat, ChargeCounts
<1>11. PICK p : p = ChargePages(o)'
  OBVIOUS
<1>12. /\ Cardinality(ChargePages(o)) \in Nat /\ Cardinality(StartWrites(o)) \in Nat
       /\ IsFiniteSet(ChargePages(o) \cup {x})
       /\ Cardinality(ChargePages(o) \cup {x}) \in Nat
       /\ Cardinality(ChargePages(o) \cup {x}) <= Cardinality(ChargePages(o)) + 1
  <2>1. Cardinality(ChargePages(o)) \in Nat /\ Cardinality(StartWrites(o)) \in Nat
    BY PendingNat
  <2>2. /\ IsFiniteSet(ChargePages(o) \cup {x})
        /\ \/ Cardinality(ChargePages(o) \cup {x}) = Cardinality(ChargePages(o))
           \/ Cardinality(ChargePages(o) \cup {x}) = Cardinality(ChargePages(o)) + 1
    BY FS_AddElement DEF FinitePending
  <2>. QED BY <2>1, <2>2
<1>13. /\ IsFiniteSet(p) /\ Cardinality(p) \in Nat
       /\ OrderOf[g] = o => Cardinality(p) <= Cardinality(ChargePages(o)) + 1
       /\ OrderOf[g] # o => Cardinality(p) <= Cardinality(ChargePages(o))
  <2>1. CASE OrderOf[g] = o
    <3>1. p \in SUBSET (ChargePages(o) \cup {x})
      BY <1>6, <1>11, <2>1
    <3>2. IsFiniteSet(p) /\ Cardinality(p) <= Cardinality(ChargePages(o) \cup {x})
      BY <1>12, <3>1, FS_Subset
    <3>3. Cardinality(p) \in Nat
      BY <3>2, FS_CardinalityType
    <3>. QED BY <1>12, <2>1, <3>2, <3>3
  <2>2. CASE OrderOf[g] # o
    BY <1>7, <1>11, <2>2, PendingNat
  <2>. QED BY <2>1, <2>2
<1>14. Pending(o)' = Cardinality(p) + Cardinality(StartWrites(o))
  BY <1>8, <1>11 DEF Pending
<1>15. FinitePending(o)'
  BY <1>8, <1>11, <1>13 DEF FinitePending
<1>. QED BY <1>9, <1>10, <1>12, <1>13, <1>14, <1>15 DEF PassesOn, Pending

\* The paid branch: the start write takes the place of the page.
LEMMA PaidPasses ==
    ASSUME IInv, DocsOK', IsFiniteSet(Offers), NEW d \in Devices, OnPaymentPaid(d),
           NEW o \in Orders, FinitePending(o)
    PROVE  PassesOn(o)
<1>1. PICK n : n = Call(AcceptsWith, OrderOf[Top(d).offer], Top(d).offer, "electronic",
                        Len(nav[d]) - 1 + 1)
  OBVIOUS
<1>2. /\ DocsOK /\ UNCHANGED <<order, charges>> /\ Charging(Top(d)) /\ NewlyStarted(o) = 0
  BY DEF IInv, OnPaymentPaid, On, IsPaid, Charging, NewlyStarted
<1>3. /\ QueueStep(d, 0, {n}) /\ nav[d] # <<>> /\ n.order = OrderOf[Top(d).offer]
  BY <1>1, <1>2, PaidNav
<1>4. /\ NoNewCharge(d)
      /\ \A i \in DOMAIN nav'[d] : Charging(nav'[d][i]) => i # Len(nav[d])
  BY <1>2, PaidCharges
<1>5. CASE n.order # o
  <2>1. NewlyStarted(o) # 1 /\ 0 \in {0, 1} /\ 0 # 1
    BY <1>2
  <2>. QED BY <1>2, <1>3, <1>4, <1>5, <2>1, QuietPasses
<1>6. CASE n.order = o
  <2>1. PICK x : x = <<d, Len(nav[d])>>
    OBVIOUS
  <2>2. Len(nav[d]) \in DOMAIN nav[d] /\ Top(d) = nav[d][Len(nav[d])]
    BY <1>2, <1>3, TopType DEF Top
  <2>3. x \in ChargePages(o)
    <3>1. PICK i \in DOMAIN nav[d] : i = Len(nav[d])
      BY <2>2
    <3>2. Charging(nav[d][i]) /\ OrderOf[nav[d][i].offer] = o
      BY <1>2, <1>3, <1>6, <2>2, <3>1
    <3>. QED BY <2>1, <3>1, <3>2 DEF ChargePages
  <2>4. PICK p : p = ChargePages(o)'
    OBVIOUS
  <2>5. x \notin p
    <3>1. SUFFICES ASSUME x \in p PROVE FALSE
      OBVIOUS
    <3>2. PICK e \in Devices : \E i \in DOMAIN nav'[e] : x = <<e, i>> /\ Charging(nav'[e][i])
      BY <2>4, <3>1 DEF ChargePages
    <3>3. e = d /\ \E i \in DOMAIN nav'[e] : i = Len(nav[d]) /\ Charging(nav'[e][i])
      BY <2>1, <3>2
    <3>. QED BY <1>4, <3>3
  <2>6. p \in SUBSET (ChargePages(o) \ {x})
    BY <1>4, <2>4, <2>5, PagesMove
  <2>7. /\ IsFiniteSet(ChargePages(o) \ {x})
        /\ Cardinality(ChargePages(o) \ {x}) = Cardinality(ChargePages(o)) - 1
        /\ Cardinality(ChargePages(o)) \in Nat /\ Cardinality(StartWrites(o)) \in Nat
    BY <2>3, PendingNat, FS_RemoveElement DEF FinitePending
  <2>8. IsFiniteSet(p) /\ Cardinality(p) <= Cardinality(ChargePages(o) \ {x})
    BY <2>6, <2>7, FS_Subset
  <2>9. Cardinality(p) \in Nat
    BY <2>8, FS_CardinalityType
  <2>10. PICK s : s = StartWrites(o)'
    OBVIOUS
  <2>11. IsFiniteSet(s) /\ Cardinality(s) <= Cardinality(StartWrites(o)) + 1
    BY <1>2, <1>3, <2>10, StartsGrow DEF FinitePending
  <2>12. Cardinality(s) \in Nat
    BY <2>11, FS_CardinalityType
  <2>13. Pending(o)' = Cardinality(p) + Cardinality(s)
    BY <2>4, <2>10 DEF Pending
  <2>14. FinitePending(o)'
    BY <2>4, <2>8, <2>10, <2>11 DEF FinitePending
  <2>15. ChargedFor(o) \in Nat /\ ChargedFor(o)' = ChargedFor(o)
    BY <1>2, ChargedNat DEF ChargedFor, OffersFor
  <2>. QED BY <1>2, <2>7, <2>8, <2>9, <2>11, <2>12, <2>13, <2>14, <2>15 DEF PassesOn, Pending
<1>. QED BY <1>5, <1>6

\* A call that goes on; a started document takes the place of its start write.
LEMMA ContinuePasses ==
    ASSUME DocsOK, DocsOK', IsFiniteSet(Offers), UNCHANGED <<nav, charges>>,
           NEW d \in Devices, queue[d] # <<>>, NEW w, w = Head(queue[d]), Continue(d, w),
           NEW o, FinitePending(o), NewlyStarted(o) = 1 => w.op = "start" /\ w.order = o
    PROVE  PassesOn(o)
<1>1. PICK n : n = [w EXCEPT !.op = Following(w)]
  OBVIOUS
<1>2. PICK N : N = {m \in {n} : Following(w) # "end"}
  OBVIOUS
<1>3. QueueStep(d, 1, N)
  BY <1>1, <1>2, ContinueQueue
<1>4. w \in Write /\ w = queue[d][1]
  BY HeadType DEF DocsOK
<1>5. n.op = Following(w)
  BY <1>1, <1>4 DEF Write
<1>6. \A m \in N : m.op = "start" => m.order # o
  BY <1>2, <1>5 DEF Following
<1>7. NoNewCharge(d)
  BY DEF NoNewCharge
<1>. QED BY <1>3, <1>4, <1>6, <1>7, QuietPasses

\* An acknowledgement.
LEMMA AckPasses ==
    ASSUME IInv, DocsOK', IsFiniteSet(Offers), NEW d \in Devices, Ack(d),
           NEW o \in Orders, FinitePending(o)
    PROVE  PassesOn(o)
<1>1. PICK w : w = Head(queue[d])
  OBVIOUS
<1>2. DocsOK /\ queue[d] # <<>> /\ UNCHANGED charges
  BY DEF IInv, Ack, AckCreate, AckStart, AckChoose, AckAccept, AckCancel, AckWithdraw, Ready
<1>3. w \in Write /\ w.order \in Orders /\ order \in [Orders -> OrderDoc] /\ order[o] \in OrderDoc
  BY <1>1, <1>2, HeadType DEF Write, DocsOK
<1>4. CASE AckCreate(d)
  <2>1. PICK r : r = Screen("order", w.order, NewOrder(w.paymentOption), NoOffer)
    OBVIOUS
  <2>2. ShowSent(d, w) /\ order' = [order EXCEPT ![w.order] = NewOrder(w.paymentOption)]
    BY <1>1, <1>4 DEF AckCreate
  <2>3. QueueStep(d, 1, {}) /\ NoNewCharge(d)
    BY <1>1, <1>2, <2>1, <2>2, SentNav, SentCharges
  <2>4. order'[o].status = order[o].status \/ order'[o].status # "inProgress"
    BY <1>3, <2>2 DEF NewOrder
  <2>5. NewlyStarted(o) # 1
    BY <2>4, NotStarted
  <2>. QED BY <1>2, <2>3, <2>5, QuietPasses
<1>5. CASE AckStart(d)
  <2>1. /\ w.op = "start" /\ Continue(d, w) /\ UNCHANGED nav
        /\ order' = [order EXCEPT ![w.order].status = "inProgress"]
    BY <1>1, <1>5 DEF AckStart, Ready
  <2>2. w.order # o => NewlyStarted(o) # 1
    BY <1>3, <2>1, NotStarted
  <2>. QED BY <1>1, <1>2, <2>1, <2>2, ContinuePasses
<1>6. CASE AckChoose(d)
  <2>1. /\ Continue(d, w) /\ UNCHANGED nav
        /\ order' = [order EXCEPT ![w.order].offerId = w.offer]
    BY <1>1, <1>6 DEF AckChoose
  <2>2. NewlyStarted(o) # 1
    BY <1>3, <2>1, NotStarted DEF OrderDoc
  <2>. QED BY <1>1, <1>2, <2>1, <2>2, ContinuePasses
<1>7. CASE AckCancel(d)
  <2>1. /\ Continue(d, w) /\ UNCHANGED nav
        /\ order' = [order EXCEPT ![w.order].status = "cancelled"]
    BY <1>1, <1>7 DEF AckCancel
  <2>2. order'[o].status = order[o].status \/ order'[o].status # "inProgress"
    BY <1>3, <2>1 DEF OrderDoc
  <2>3. NewlyStarted(o) # 1
    BY <2>2, NotStarted
  <2>. QED BY <1>1, <1>2, <2>1, <2>3, ContinuePasses
<1>8. CASE AckAccept(d) \/ AckWithdraw(d)
  <2>1. PopBoth(d, w) /\ UNCHANGED order
    BY <1>1, <1>8 DEF AckAccept, AckWithdraw
  <2>2. PICK n \in Nat : Pop(d, n, Tail(queue[d]))
    BY <2>1 DEF PopBoth
  <2>. QED BY <1>2, <2>1, <2>2, PopPasses
<1>. QED BY <1>4, <1>5, <1>6, <1>7, <1>8 DEF Ack

\* A refused write.
LEMMA RejectPasses ==
    ASSUME IInv, DocsOK', IsFiniteSet(Offers), NEW d \in Devices, Reject(d),
           NEW o \in Orders, FinitePending(o)
    PROVE  PassesOn(o)
<1>1. PICK w : w = Head(queue[d])
  OBVIOUS
<1>2. DocsOK /\ queue[d] # <<>> /\ UNCHANGED <<order, charges>>
  BY DEF IInv, Reject
<1>3. CASE Ready(d, "create")
  <2>1. PICK r : r = Screen("order", w.order, NewOrder(w.paymentOption), NoOffer)
    OBVIOUS
  <2>2. ShowSent(d, w)
    BY <1>1, <1>3 DEF Reject
  <2>3. QueueStep(d, 1, {}) /\ NoNewCharge(d)
    BY <1>1, <1>2, <2>1, <2>2, SentNav, SentCharges
  <2>4. NewlyStarted(o) # 1
    BY <1>2, NotStarted
  <2>. QED BY <1>2, <2>3, <2>4, QuietPasses
<1>4. CASE ~Ready(d, "create")
  <2>1. Pop(d, 0, Tail(queue[d]))
    BY <1>4 DEF Reject
  <2>. QED BY <1>2, <2>1, PopPasses
<1>. QED BY <1>3, <1>4

\* A restart, which may lose pages of charges.
LEMMA KillPasses ==
    ASSUME IInv, DocsOK', IsFiniteSet(Offers), NEW d \in Devices, Kill(d),
           NEW o \in Orders, FinitePending(o)
    PROVE  PassesOn(o)
<1>1. DocsOK /\ UNCHANGED <<order, charges>> /\ nav' = [nav EXCEPT ![d] = <<Plain("home")>>]
  BY DEF IInv, Kill
<1>2. \A i \in DOMAIN nav'[d] : nav'[d][i] = Plain("home")
  <2>1. nav'[d] = <<Plain("home")>>
    BY <1>1 DEF DocsOK
  <2>2. \A x : \A i \in DOMAIN <<x>> : <<x>>[i] = x
    OBVIOUS
  <2>. QED BY <2>1, <2>2
<1>3. NoNewCharge(d)
  BY <1>1, <1>2 DEF NoNewCharge, Charging, Plain, Screen
<1>4. QueueStep(d, 0, {}) /\ NewlyStarted(o) # 1
  BY <1>1, KillNav, NotStarted
<1>. QED BY <1>1, <1>3, <1>4, QuietPasses

\* A step that leaves the app's queues, pages and orders alone.
LEMMA StillPasses ==
    ASSUME DocsOK, IsFiniteSet(Offers), UNCHANGED <<order, queue, nav, charges>>,
           NEW o, FinitePending(o)
    PROVE  PassesOn(o)
<1>1. ChargePages(o)' = ChargePages(o) /\ StartWrites(o)' = StartWrites(o)
  BY DEF ChargePages, StartWrites
<1>2. NewlyStarted(o) = 0 /\ ChargedFor(o)' = ChargedFor(o)
  BY DEF NewlyStarted, ChargedFor, OffersFor
<1>3. Pending(o)' = Pending(o) /\ FinitePending(o)'
  BY <1>1 DEF Pending, FinitePending
<1>4. Pending(o) \in Nat /\ ChargedFor(o) \in Nat
  BY PendingNat, ChargedNat DEF Pending
<1>. QED BY <1>2, <1>3, <1>4 DEF PassesOn

\* What is pending of an order that does not exist or is electronic passes on in
\* every step of the app.
LEMMA AppPasses ==
    ASSUME AnswersInTime, IInv, DocsOK', IsFiniteSet(Offers), [Next]_vars,
           NEW o \in Orders, FinitePending(o), ~Exists(o) \/ Electronic(o)
    PROVE  PassesOn(o)
<1>1. DocsOK /\ \A d \in Devices : ~Unanswered(d)
  BY DEF IInv, Unanswered, AnswersInTime
<1>2. CASE UNCHANGED vars
  BY <1>1, <1>2, StillPasses DEF vars
<1>3. ASSUME NEW f \in Offers, MakeOffer(f) PROVE PassesOn(o)
  BY <1>1, <1>3, StillPasses DEF MakeOffer
<1>4. ASSUME NEW d \in Devices, OnPaymentOther(d) PROVE PassesOn(o)
  <2>1. UNCHANGED <<order, charges>>
    BY <1>4 DEF OnPaymentOther
  <2>2. NoNewCharge(d) /\ QueueStep(d, 0, {}) /\ NewlyStarted(o) # 1
    BY <1>1, <1>4, <2>1, OtherNav, OtherCharges, NotStarted
  <2>. QED BY <1>1, <2>1, <2>2, QuietPasses
<1>. QED BY <1>1, <1>2, <1>3, <1>4, TapPasses, CapturedPasses, PaidPasses, AckPasses,
        RejectPasses, KillPasses DEF Next, Gateway, Answered

-----------------------------------------------------------------------------
(* Several devices: a refund is owed for a charge that was passed on *)

\* What the function has paid for order o, or is still to pay.
Owed(o) == Cardinality(RefundEvents(o)) + Cardinality(RefundRuns(o)) + Cardinality(Entries(o))

FiniteWork == IsFiniteSet(inbox) /\ IsFiniteSet(runs) /\ IsFiniteSet(ledger)

\* An update changes the status of a document or its offerId, never both, and
\* nothing creates a document twice.
LEMMA OneFieldAtATime ==
    ASSUME AnswersInTime, IInv, [Next]_vars, NEW o \in Orders, Exists(o)
    PROVE  /\ Exists(o)' /\ order'[o].paymentOption = order[o].paymentOption
           /\ order'[o].status = order[o].status \/ order'[o].offerId = order[o].offerId
<1>1. DocsOK /\ order \in [Orders -> OrderDoc] /\ order[o] \in OrderDoc
  BY DEF IInv, DocsOK
<1>2. CASE UNCHANGED order
  BY <1>2 DEF Exists
<1>3. ASSUME NEW d \in Devices, Ack(d), order' # order
      PROVE  /\ Exists(o)' /\ order'[o].paymentOption = order[o].paymentOption
             /\ order'[o].status = order[o].status \/ order'[o].offerId = order[o].offerId
  <2>1. PICK w : w = Head(queue[d])
    OBVIOUS
  <2>2. queue[d] # <<>>
    BY <1>3 DEF Ack, AckCreate, AckStart, AckChoose, AckAccept, AckCancel, AckWithdraw, Ready
  <2>3. w.order \in Orders /\ SoundWrite(w)
    BY <2>1, <2>2, HeadSound
  <2>4. CASE AckCreate(d)
    <3>1. w.op = "create" /\ order' = [order EXCEPT ![w.order] = NewOrder(w.paymentOption)]
      BY <2>1, <2>4 DEF AckCreate, Ready
    <3>2. w.order # o
      BY <2>3, <3>1 DEF SoundWrite
    <3>. QED BY <1>1, <3>1, <3>2 DEF Exists
  <2>5. CASE AckStart(d) \/ AckCancel(d)
    <3>1. \E s \in {"inProgress", "cancelled"} : order' = [order EXCEPT ![w.order].status = s]
      BY <2>1, <2>5 DEF AckStart, AckCancel
    <3>. QED BY <1>1, <3>1 DEF Exists, OrderDoc
  <2>6. CASE AckChoose(d)
    <3>1. order' = [order EXCEPT ![w.order].offerId = w.offer]
      BY <2>1, <2>6 DEF AckChoose
    <3>. QED BY <1>1, <3>1 DEF Exists, OrderDoc
  <2>. QED BY <1>3, <2>4, <2>5, <2>6 DEF Ack, AckAccept, AckWithdraw
<1>4. \A d \in Devices : Tap(d) \/ Gateway(d) \/ Reject(d) \/ Kill(d) => UNCHANGED order
  BY DEF Tap, Gateway, OpenForm, AskCancel, Back, AcceptOfferCash, AcceptOfferElectronic,
         CancelOrder, OpenOrder, ShowOffer, SendOrder, PaymentCaptured, OnPaymentPaid,
         OnPaymentOther, Reject, Kill, Browse
<1>5. \A d \in Devices : ~Unanswered(d)
  BY DEF Unanswered, AnswersInTime
<1>. QED BY <1>2, <1>3, <1>4, <1>5 DEF Next, vars, Answered, MakeOffer

\* What the function works on is finite for every order.
LEMMA OwedNat ==
    ASSUME FiniteWork, NEW o
    PROVE  /\ IsFiniteSet(RefundEvents(o)) /\ Cardinality(RefundEvents(o)) \in Nat
           /\ IsFiniteSet(RefundRuns(o)) /\ Cardinality(RefundRuns(o)) \in Nat
           /\ IsFiniteSet(Entries(o)) /\ Cardinality(Entries(o)) \in Nat
           /\ InProgress(o) \in Nat
<1>1. RefundEvents(o) \subseteq inbox /\ RefundRuns(o) \subseteq runs /\ Entries(o) \subseteq ledger
  BY DEF RefundEvents, Cancellations, RefundRuns, RunsFor, Entries
<1>2. /\ IsFiniteSet(RefundEvents(o)) /\ IsFiniteSet(RefundRuns(o)) /\ IsFiniteSet(Entries(o))
  BY <1>1, FS_Subset DEF FiniteWork
<1>. QED BY <1>2, FS_CardinalityType DEF InProgress

\* Only electronic orders are refunded, step by step.
LEMMA StepElectronic ==
    ASSUME AnswersInTime, IInv, IInv', Refund!TypeOK, RefundsFollowCharges,
           RefundsAreElectronic, [MarketNext]_marketVars
    PROVE  RefundsAreElectronic'
<1>1. DocsOK /\ DocsOK' /\ [Next]_vars
  BY DEF IInv, MarketNext, marketVars
<1>2. \A o \in Orders : Exists(o) => Exists(o)' /\ order'[o].paymentOption = order[o].paymentOption
  BY <1>1, OneFieldAtATime
<1>3. /\ \A e \in inbox : e.order \in Orders /\ e \in Refund!Event
      /\ \A r \in runs : r.order \in Orders /\ r \in Refund!Run
      /\ \A t \in ledger : t.order \in Orders
  BY DEF Refund!TypeOK, Refund!Event, Refund!Run, Refund!Entry
<1>4. /\ \A e \in inbox : /\ Exists(e.order)'
                          /\ e.after.paymentOption = order'[e.order].paymentOption
      /\ \A r \in runs : Exists(r.order)' /\ Electronic(r.order)'
      /\ \A t \in ledger : Exists(t.order)' /\ Electronic(t.order)'
  BY <1>2, <1>3 DEF RefundsAreElectronic, Electronic
<1>5. CASE UNCHANGED <<inbox, runs, ledger>>
  BY <1>4, <1>5 DEF RefundsAreElectronic
<1>6. CASE Trigger
  <2>1. /\ UNCHANGED <<runs, ledger>>
        /\ \A e \in inbox' : e \in inbox \/ \E o \in Orders : /\ Exists(o) /\ e.order = o
                                                              /\ e.after = order'[o]
    BY <1>1, <1>6, TriggerEffect
  <2>2. ASSUME NEW e \in inbox'
        PROVE  Exists(e.order)' /\ e.after.paymentOption = order'[e.order].paymentOption
    BY <1>2, <1>4, <2>1
  <2>. QED BY <1>4, <2>1, <2>2 DEF RefundsAreElectronic
<1>7. ASSUME NEW e \in inbox, Refund!Invoke(e) PROVE RefundsAreElectronic'
  <2>1. /\ UNCHANGED ledger
        /\ \A x \in inbox' : x \in inbox \/ (x.order = e.order /\ x.after = e.after)
        /\ \/ runs' = runs
           \/ Refund!PaidByCard(e) /\ \E n : n.order = e.order /\ runs' = runs \cup {n}
    BY <1>7, InvokeEffect
  <2>2. Refund!PaidByCard(e) => Exists(e.order)' /\ Electronic(e.order)'
    BY <1>4 DEF Refund!PaidByCard, Electronic
  <2>3. \A n \in runs' : Exists(n.order)' /\ Electronic(n.order)'
    BY <1>4, <2>1, <2>2
  <2>4. \A x \in inbox' : Exists(x.order)' /\ x.after.paymentOption = order'[x.order].paymentOption
    BY <1>4, <2>1
  <2>. QED BY <1>4, <2>1, <2>3, <2>4 DEF RefundsAreElectronic
<1>8. ASSUME NEW r \in runs, Refund!GetOffer(r) \/ Refund!GetUser(r) \/ Refund!Retry(r)
      PROVE  RefundsAreElectronic'
  <2>1. /\ UNCHANGED <<inbox, ledger>>
        /\ \A n \in runs' : n \in runs \/ n.order = r.order
    BY <1>8, HandleEffect DEF Goes
  <2>2. \A n \in runs' : Exists(n.order)' /\ Electronic(n.order)'
    BY <1>4, <2>1
  <2>. QED BY <1>4, <2>1, <2>2 DEF RefundsAreElectronic
<1>9. ASSUME NEW r \in runs, Refund!Commit(r) PROVE RefundsAreElectronic'
  <2>1. PICK t : /\ UNCHANGED inbox /\ runs' = Refund!Stale(runs \ {r})
                 /\ t.order = r.order /\ ledger' = ledger \cup {t}
    BY <1>9, CommitEffect
  <2>2. \A n \in runs' : \E s \in runs : n.order = s.order
    <3>1. runs \ {r} \in SUBSET Refund!Run
      BY DEF Refund!TypeOK
    <3>. QED BY <2>1, <3>1, StaleRuns
  <2>3. \A n \in runs' : Exists(n.order)' /\ Electronic(n.order)'
    BY <1>4, <2>2
  <2>4. \A x \in ledger' : Exists(x.order)' /\ Electronic(x.order)'
    BY <1>4, <2>1
  <2>. QED BY <1>4, <2>1, <2>3, <2>4 DEF RefundsAreElectronic
<1>. QED BY <1>5, <1>6, <1>7, <1>8, <1>9, NothingHappens
     DEF MarketNext, marketVars, Refund!Functions, Refund!Handle, Refund!Crash, Refund!TouchUser

\* One more member, or one less.
LEMMA OneMoreOrLess ==
    ASSUME NEW S, IsFiniteSet(S), NEW x
    PROVE  /\ IsFiniteSet(S \cup {x}) /\ IsFiniteSet(S \ {x})
           /\ Cardinality(S) \in Nat /\ Cardinality(S \cup {x}) \in Nat
           /\ Cardinality(S \ {x}) \in Nat
           /\ Cardinality(S \cup {x}) <= Cardinality(S) + 1
           /\ Cardinality(S \ {x}) <= Cardinality(S)
           /\ x \in S => Cardinality(S \ {x}) + 1 = Cardinality(S)
<1>1. IsFiniteSet(S \cup {x}) /\ IsFiniteSet(S \ {x})
  BY FS_AddElement, FS_RemoveElement
<1>2. /\ Cardinality(S) \in Nat /\ Cardinality(S \cup {x}) \in Nat
      /\ Cardinality(S \ {x}) \in Nat
  BY <1>1, FS_CardinalityType
<1>3. /\ \/ Cardinality(S \cup {x}) = Cardinality(S)
         \/ Cardinality(S \cup {x}) = Cardinality(S) + 1
  BY FS_AddElement
<1>4. Cardinality(S \ {x}) = IF x \in S THEN Cardinality(S) - 1 ELSE Cardinality(S)
  BY FS_RemoveElement
<1>. QED BY <1>1, <1>2, <1>3, <1>4

\* The cancellation of an order in progress that names an offer is one event: it
\* takes the place of the order's being in progress.
LEMMA TriggerOwes ==
    ASSUME AnswersInTime, IInv, IInv', Refund!TypeOK, FiniteWork, Next, Trigger, NEW o \in Orders
    PROVE  /\ FiniteWork'
           /\ InProgress(o)' + Owed(o)' <= InProgress(o) + NewlyStarted(o) + Owed(o)
<1>1. /\ UNCHANGED <<runs, ledger>>
      /\ \/ inbox' = inbox
         \/ \E p \in Orders : \E e \in Refund!Event :
               /\ Exists(p) /\ e.order = p /\ e.before = order[p].status /\ e.after = order'[p]
               /\ inbox' = inbox \cup {e}
  BY TriggerEffect DEF IInv
<1>2. RefundRuns(o)' = RefundRuns(o) /\ Entries(o)' = Entries(o)
  BY <1>1 DEF RefundRuns, RunsFor, Entries
<1>3. /\ InProgress(o) \in {0, 1} /\ InProgress(o)' \in {0, 1}
      /\ NewlyStarted(o) \in {0, 1} /\ InProgress(o)' <= InProgress(o) + NewlyStarted(o)
  BY DEF InProgress, NewlyStarted
<1>4. /\ IsFiniteSet(RefundEvents(o)) /\ Cardinality(RefundEvents(o)) \in Nat
      /\ Cardinality(RefundRuns(o)) \in Nat /\ Cardinality(Entries(o)) \in Nat
  BY OwedNat
<1>5. FiniteWork'
  <2>1. \A e : IsFiniteSet(inbox \cup {e})
    BY FS_AddElement DEF FiniteWork
  <2>. QED BY <1>1, <2>1 DEF FiniteWork
<1>6. CASE RefundEvents(o)' = RefundEvents(o)
  BY <1>2, <1>3, <1>4, <1>5, <1>6 DEF Owed
<1>7. ASSUME NEW e, Exists(o), e.order = o, e.before = order[o].status, e.after = order'[o],
             inbox' = inbox \cup {e}, Refund!Becomes(e, "cancelled"), e.after.offerId # NoOffer
      PROVE  InProgress(o)' + Owed(o)' <= InProgress(o) + NewlyStarted(o) + Owed(o)
  <2>1. order[o].status # "cancelled" /\ order'[o].status = "cancelled"
    BY <1>7 DEF Refund!Becomes
  <2>2. order[o].offerId # NoOffer
    BY <1>7, <2>1, OneFieldAtATime
  <2>3. order[o].status = "inProgress"
    BY <2>1, <2>2 DEF IInv, ChosenOfferBelongs, Started
  <2>4. InProgress(o) = 1 /\ InProgress(o)' = 0
    BY <2>1, <2>3 DEF InProgress
  <2>5. RefundEvents(o)' = RefundEvents(o) \cup {e}
    BY <1>7 DEF RefundEvents, Cancellations
  <2>6. /\ Cardinality(RefundEvents(o) \cup {e}) \in Nat
        /\ Cardinality(RefundEvents(o) \cup {e}) <= Cardinality(RefundEvents(o)) + 1
    BY <1>4, OneMoreOrLess
  <2>. QED BY <1>2, <1>3, <1>4, <2>4, <2>5, <2>6 DEF Owed
<1>8. \/ RefundEvents(o)' = RefundEvents(o)
      \/ \E e : /\ Exists(o) /\ e.order = o /\ e.before = order[o].status /\ e.after = order'[o]
                /\ inbox' = inbox \cup {e}
                /\ Refund!Becomes(e, "cancelled") /\ e.after.offerId # NoOffer
  BY <1>1 DEF RefundEvents, Cancellations
<1>. QED BY <1>5, <1>6, <1>7, <1>8

\* A delivery makes an invocation of its event.
LEMMA InvokeOwes ==
    ASSUME Refund!TypeOK, MaxDeliveries = 1, FiniteWork, NEW e \in inbox, Refund!Invoke(e),
           NEW o \in Orders
    PROVE  FiniteWork' /\ Owed(o)' <= Owed(o)
<1>1. /\ UNCHANGED ledger /\ inbox' = inbox \ {e}
      /\ \/ runs' = runs
         \/ /\ Refund!Becomes(e, "cancelled")
            /\ \E n : n.order = e.order /\ n.offerId = e.after.offerId /\ runs' = runs \cup {n}
  BY InvokeEffect
<1>2. FiniteWork'
  <2>1. IsFiniteSet(inbox \ {e}) /\ \A n : IsFiniteSet(runs \cup {n})
    BY OneMoreOrLess DEF FiniteWork
  <2>. QED BY <1>1, <2>1 DEF FiniteWork
<1>3. /\ IsFiniteSet(RefundEvents(o)) /\ Cardinality(RefundEvents(o)) \in Nat
      /\ IsFiniteSet(RefundRuns(o)) /\ Cardinality(RefundRuns(o)) \in Nat
      /\ Cardinality(Entries(o)) \in Nat
  BY OwedNat
<1>4. Entries(o)' = Entries(o) /\ RefundEvents(o)' = RefundEvents(o) \ {e}
  BY <1>1 DEF Entries, RefundEvents, Cancellations
<1>5. /\ Cardinality(RefundEvents(o) \ {e}) \in Nat
      /\ Cardinality(RefundEvents(o) \ {e}) <= Cardinality(RefundEvents(o))
      /\ e \in RefundEvents(o) =>
            Cardinality(RefundEvents(o) \ {e}) + 1 = Cardinality(RefundEvents(o))
  BY <1>3, OneMoreOrLess
<1>6. CASE RefundRuns(o)' = RefundRuns(o)
  BY <1>2, <1>3, <1>4, <1>5, <1>6 DEF Owed
<1>7. ASSUME NEW n, e \in RefundEvents(o), RefundRuns(o)' = RefundRuns(o) \cup {n}
      PROVE  Owed(o)' <= Owed(o)
  <2>1. /\ Cardinality(RefundRuns(o) \cup {n}) \in Nat
        /\ Cardinality(RefundRuns(o) \cup {n}) <= Cardinality(RefundRuns(o)) + 1
    BY <1>3, OneMoreOrLess
  <2>. QED BY <1>3, <1>4, <1>5, <1>7, <2>1 DEF Owed
<1>8. \/ RefundRuns(o)' = RefundRuns(o)
      \/ e \in RefundEvents(o) /\ \E n : RefundRuns(o)' = RefundRuns(o) \cup {n}
  <2>1. CASE runs' = runs
    BY <2>1 DEF RefundRuns, RunsFor
  <2>2. ASSUME NEW n, n.order = e.order, n.offerId = e.after.offerId, runs' = runs \cup {n},
               Refund!Becomes(e, "cancelled")
        PROVE  \/ RefundRuns(o)' = RefundRuns(o)
               \/ e \in RefundEvents(o) /\ RefundRuns(o)' = RefundRuns(o) \cup {n}
    <3>1. CASE n.order = o /\ n.offerId # NoOffer
      BY <2>2, <3>1 DEF RefundRuns, RunsFor, RefundEvents, Cancellations
    <3>2. CASE ~(n.order = o /\ n.offerId # NoOffer)
      BY <2>2, <3>2 DEF RefundRuns, RunsFor
    <3>. QED BY <3>1, <3>2
  <2>. QED BY <1>1, <2>1, <2>2
<1>. QED BY <1>2, <1>6, <1>7, <1>8

\* Between its awaits an invocation stays one.
LEMMA HandleOwes ==
    ASSUME Refund!TypeOK, RefundsFollowCharges, FiniteWork, NEW r \in runs,
           Refund!GetOffer(r) \/ Refund!GetUser(r) \/ Refund!Retry(r), NEW o \in Orders
    PROVE  FiniteWork' /\ Owed(o)' <= Owed(o)
<1>1. /\ UNCHANGED <<inbox, ledger>>
      /\ \/ runs' = runs \ {r}
         \/ \E n : /\ n.order = r.order /\ n.offerId = r.offerId
                   /\ runs' = (runs \ {r}) \cup {n}
  BY HandleEffect DEF Goes
<1>2. FiniteWork'
  <2>1. IsFiniteSet(runs \ {r}) /\ \A n : IsFiniteSet((runs \ {r}) \cup {n})
    BY OneMoreOrLess DEF FiniteWork
  <2>. QED BY <1>1, <2>1 DEF FiniteWork
<1>3. Entries(o)' = Entries(o) /\ RefundEvents(o)' = RefundEvents(o)
  BY <1>1 DEF Entries, RefundEvents, Cancellations
<1>4. /\ Cardinality(RefundEvents(o)) \in Nat /\ IsFiniteSet(RefundRuns(o))
      /\ Cardinality(RefundRuns(o)) \in Nat /\ Cardinality(Entries(o)) \in Nat
  BY OwedNat
<1>5. /\ IsFiniteSet(RefundRuns(o) \ {r}) /\ Cardinality(RefundRuns(o) \ {r}) \in Nat
      /\ Cardinality(RefundRuns(o) \ {r}) <= Cardinality(RefundRuns(o))
      /\ r \in RefundRuns(o) => Cardinality(RefundRuns(o) \ {r}) + 1 = Cardinality(RefundRuns(o))
  BY <1>4, OneMoreOrLess
<1>6. CASE RefundRuns(o)' = RefundRuns(o) \/ RefundRuns(o)' = RefundRuns(o) \ {r}
  BY <1>2, <1>3, <1>4, <1>5, <1>6 DEF Owed
<1>7. ASSUME NEW n, r \in RefundRuns(o), RefundRuns(o)' = (RefundRuns(o) \ {r}) \cup {n}
      PROVE  Owed(o)' <= Owed(o)
  <2>1. /\ Cardinality((RefundRuns(o) \ {r}) \cup {n}) \in Nat
        /\ Cardinality((RefundRuns(o) \ {r}) \cup {n}) <= Cardinality(RefundRuns(o) \ {r}) + 1
    BY <1>5, OneMoreOrLess
  <2>. QED BY <1>3, <1>4, <1>5, <1>7, <2>1 DEF Owed
<1>8. \/ RefundRuns(o)' = RefundRuns(o) \/ RefundRuns(o)' = RefundRuns(o) \ {r}
      \/ r \in RefundRuns(o) /\ \E n : RefundRuns(o)' = (RefundRuns(o) \ {r}) \cup {n}
  <2>1. CASE runs' = runs \ {r}
    BY <2>1 DEF RefundRuns, RunsFor
  <2>2. ASSUME NEW n, n.order = r.order, n.offerId = r.offerId, runs' = (runs \ {r}) \cup {n}
        PROVE  \/ RefundRuns(o)' = RefundRuns(o)
               \/ r \in RefundRuns(o) /\ RefundRuns(o)' = (RefundRuns(o) \ {r}) \cup {n}
    <3>1. CASE r.order = o /\ r.offerId # NoOffer
      BY <2>2, <3>1 DEF RefundRuns, RunsFor
    <3>2. CASE ~(r.order = o /\ r.offerId # NoOffer)
      BY <2>2, <3>2 DEF RefundRuns, RunsFor
    <3>. QED BY <3>1, <3>2
  <2>. QED BY <1>1, <2>1, <2>2
<1>. QED BY <1>2, <1>6, <1>7, <1>8

\* A commit makes the entry of its invocation.
LEMMA CommitOwes ==
    ASSUME Refund!TypeOK, RefundsFollowCharges, FiniteWork, NEW r \in runs, Refund!Commit(r),
           NEW o \in Orders
    PROVE  FiniteWork' /\ Owed(o)' <= Owed(o)
<1>1. PICK t : /\ UNCHANGED inbox /\ runs' = Refund!Stale(runs \ {r})
               /\ r.offerId # NoOffer /\ t.order = r.order /\ ledger' = ledger \cup {t}
  BY CommitEffect
<1>2. PICK h : h = [y \in runs |-> [y EXCEPT !.fresh = FALSE]]
  OBVIOUS
<1>3. \A x \in runs' : \E y \in runs \ {r} : x = h[y] /\ x.order = y.order /\ x.offerId = y.offerId
  <2>1. runs \ {r} \in SUBSET Refund!Run
    BY DEF Refund!TypeOK
  <2>2. \A x \in runs' : \E y \in runs \ {r} :
           x = [y EXCEPT !.fresh = FALSE] /\ x.order = y.order /\ x.offerId = y.offerId
    BY <1>1, <2>1, StaleRuns
  <2>. QED BY <1>2, <2>2
<1>4. FiniteWork'
  <2>1. IsFiniteSet(runs \ {r}) /\ IsFiniteSet(ledger \cup {t})
    BY OneMoreOrLess DEF FiniteWork
  <2>2. PICK S : S = runs'
    OBVIOUS
  <2>3. \A x \in S : \E y \in runs \ {r} : x = h[y]
    BY <1>3, <2>2
  <2>4. IsFiniteSet(S)
    BY <2>1, <2>3, Fewer
  <2>. QED BY <1>1, <2>1, <2>2, <2>4 DEF FiniteWork
<1>5. /\ Cardinality(RefundEvents(o)) \in Nat
      /\ IsFiniteSet(RefundRuns(o)) /\ Cardinality(RefundRuns(o)) \in Nat
      /\ IsFiniteSet(Entries(o)) /\ Cardinality(Entries(o)) \in Nat
  BY OwedNat
<1>6. RefundEvents(o)' = RefundEvents(o)
  BY <1>1 DEF RefundEvents, Cancellations
<1>7. PICK S : S = RefundRuns(o)'
  OBVIOUS
<1>8. /\ IsFiniteSet(RefundRuns(o) \ {r}) /\ Cardinality(RefundRuns(o) \ {r}) \in Nat
      /\ Cardinality(RefundRuns(o) \ {r}) <= Cardinality(RefundRuns(o))
      /\ r \in RefundRuns(o) => Cardinality(RefundRuns(o) \ {r}) + 1 = Cardinality(RefundRuns(o))
      /\ Cardinality(Entries(o) \cup {t}) \in Nat
      /\ Cardinality(Entries(o) \cup {t}) <= Cardinality(Entries(o)) + 1
  BY <1>5, OneMoreOrLess
<1>9. IsFiniteSet(S) /\ Cardinality(S) <= Cardinality(RefundRuns(o) \ {r})
  <2>1. \A x \in S : \E y \in RefundRuns(o) \ {r} : x = h[y]
    BY <1>3, <1>7 DEF RefundRuns, RunsFor
  <2>. QED BY <1>8, <2>1, Fewer
<1>10. Cardinality(S) \in Nat
  BY <1>9, FS_CardinalityType
<1>11. CASE r.order = o
  <2>1. r \in RefundRuns(o) /\ Entries(o)' = Entries(o) \cup {t}
    BY <1>1, <1>11 DEF RefundRuns, RunsFor, Entries
  <2>. QED BY <1>4, <1>5, <1>6, <1>7, <1>8, <1>9, <1>10, <2>1 DEF Owed
<1>12. CASE r.order # o
  <2>1. Entries(o)' = Entries(o)
    BY <1>1, <1>12 DEF Entries
  <2>. QED BY <1>4, <1>5, <1>6, <1>7, <1>8, <1>9, <1>10, <2>1 DEF Owed
<1>. QED BY <1>11, <1>12

\* The counts after a step.
LEMMA OwedNatNext ==
    ASSUME NEW o, FiniteWork'
    PROVE  /\ Cardinality(RefundEvents(o)') \in Nat /\ Cardinality(RefundRuns(o)') \in Nat
           /\ Cardinality(Entries(o)') \in Nat /\ Owed(o)' \in Nat /\ InProgress(o)' \in Nat
<1>1. PICK a, b, c : a = RefundEvents(o)' /\ b = RefundRuns(o)' /\ c = Entries(o)'
  OBVIOUS
<1>2. PICK i, j, k : i = inbox' /\ j = runs' /\ k = ledger'
  OBVIOUS
<1>3. IsFiniteSet(i) /\ IsFiniteSet(j) /\ IsFiniteSet(k)
  BY <1>2 DEF FiniteWork
<1>4. a \in SUBSET i /\ b \in SUBSET j /\ c \in SUBSET k
  BY <1>1, <1>2 DEF RefundEvents, Cancellations, RefundRuns, RunsFor, Entries
<1>5. IsFiniteSet(a) /\ IsFiniteSet(b) /\ IsFiniteSet(c)
  BY <1>3, <1>4, FS_Subset
<1>6. Cardinality(a) \in Nat /\ Cardinality(b) \in Nat /\ Cardinality(c) \in Nat
  BY <1>5, FS_CardinalityType
<1>. QED BY <1>1, <1>6 DEF Owed, InProgress

\* The same of what is pending and of what was charged.
LEMMA PendingNatNext ==
    ASSUME DocsOK', IsFiniteSet(Offers), NEW o, FinitePending(o)'
    PROVE  /\ Cardinality(ChargePages(o)') \in Nat /\ Cardinality(StartWrites(o)') \in Nat
           /\ ChargedFor(o)' \in Nat
<1>1. PICK a, b, c : a = ChargePages(o)' /\ b = StartWrites(o)' /\ c = charges'
  OBVIOUS
<1>2. Cardinality(a) \in Nat /\ Cardinality(b) \in Nat
  BY <1>1, FS_CardinalityType DEF FinitePending
<1>3. IsFiniteSet(OffersFor(o)) /\ \A f \in OffersFor(o) : c[f] \in Nat
  BY <1>1, FS_Subset DEF OffersFor, DocsOK
<1>4. SumFunctionOnSet(c, OffersFor(o)) \in Nat
  BY <1>3, SumWithout
<1>5. ChargedFor(o)' = SumFunctionOnSet(c, OffersFor(o))
  BY <1>1 DEF ChargedFor, OffersFor
<1>. QED BY <1>1, <1>2, <1>4, <1>5

\* The inductive invariant behind RefundsAreCharged.
ClaimsInvariant ==
    /\ RefundsAreElectronic /\ ChargesCoverClaims /\ FiniteWork
    /\ \A o \in Orders : ~Exists(o) \/ Electronic(o) => FinitePending(o)

\* No step makes a claim that no charge covers.
LEMMA StepClaims ==
    ASSUME AnswersInTime, MaxDeliveries = 1, IsFiniteSet(Offers), IInv, IInv', Refund!TypeOK,
           RefundsFollowCharges, ClaimsInvariant, [MarketNext]_marketVars
    PROVE  ClaimsInvariant'
<1>1. DocsOK /\ DocsOK' /\ [Next]_vars
  BY DEF IInv, MarketNext, marketVars
<1>2. RefundsAreElectronic'
  BY StepElectronic DEF ClaimsInvariant
<1>3. ASSUME NEW o \in Orders, (~Exists(o) \/ Electronic(o))'
      PROVE  PassesOn(o) /\ FinitePending(o) /\ Claims(o) <= ChargedFor(o)
  <2>1. ~Exists(o) \/ Electronic(o)
    BY <1>1, <1>3, OneFieldAtATime DEF Electronic
  <2>2. FinitePending(o) /\ Claims(o) <= ChargedFor(o)
    BY <2>1 DEF ClaimsInvariant, ChargesCoverClaims, ChargedFor
  <2>. QED BY <1>1, <2>1, <2>2, AppPasses
<1>4. ASSUME NEW o \in Orders
      PROVE  /\ FiniteWork'
             /\ InProgress(o)' + Owed(o)' <= InProgress(o) + NewlyStarted(o) + Owed(o)
  <2>1. FiniteWork
    BY DEF ClaimsInvariant
  <2>2. Owed(o) \in Nat /\ InProgress(o) \in Nat
    BY <2>1, OwedNat DEF Owed
  <2>3. CASE UNCHANGED marketVars
    <3>1. Owed(o)' = Owed(o) /\ InProgress(o)' = InProgress(o) /\ FiniteWork'
      BY <2>1, <2>3 DEF marketVars, vars, Owed, RefundEvents, Cancellations, RefundRuns, RunsFor,
         Entries, InProgress, FiniteWork
    <3>2. NewlyStarted(o) = 0
      BY <2>3 DEF marketVars, vars, NewlyStarted
    <3>. QED BY <2>2, <3>1, <3>2
  <2>4. CASE Next /\ Trigger
    BY <2>1, <2>4, TriggerOwes
  <2>5. CASE Refund!Functions /\ UNCHANGED vars
    <3>1. InProgress(o)' = InProgress(o) /\ NewlyStarted(o) = 0
      BY <2>5 DEF vars, InProgress, NewlyStarted
    <3>2. FiniteWork' /\ Owed(o)' <= Owed(o)
      BY <2>1, <2>5, InvokeOwes, HandleOwes, CommitOwes, NothingHappens
         DEF Refund!Functions, Refund!Handle, Refund!Crash, Refund!TouchUser
    <3>3. Owed(o)' \in Nat
      BY <3>2, OwedNatNext
    <3>. QED BY <2>2, <3>1, <3>2, <3>3
  <2>. QED BY <2>3, <2>4, <2>5 DEF MarketNext
<1>5. ASSUME NEW o \in Orders, (~Exists(o) \/ Electronic(o))'
      PROVE  FinitePending(o)' /\ Claims(o)' <= ChargedFor(o)'
  <2>1. /\ FinitePending(o)' /\ FinitePending(o) /\ FiniteWork /\ FiniteWork'
        /\ Pending(o)' + NewlyStarted(o) + ChargedFor(o) <= Pending(o) + ChargedFor(o)'
        /\ Claims(o) <= ChargedFor(o)
    BY <1>3, <1>4, <1>5 DEF PassesOn, ClaimsInvariant
  <2>2. InProgress(o)' + Owed(o)' <= InProgress(o) + NewlyStarted(o) + Owed(o)
    BY <1>4
  <2>3. /\ Pending(o) \in Nat /\ Owed(o) \in Nat /\ InProgress(o) \in Nat /\ ChargedFor(o) \in Nat
        /\ NewlyStarted(o) \in Nat /\ Claims(o) = Pending(o) + InProgress(o) + Owed(o)
    BY <1>1, <2>1, PendingNat, OwedNat, ChargedNat DEF Pending, Owed, NewlyStarted, Claims
  <2>4. /\ Pending(o)' \in Nat /\ Owed(o)' \in Nat /\ InProgress(o)' \in Nat
        /\ ChargedFor(o)' \in Nat /\ Claims(o)' = Pending(o)' + InProgress(o)' + Owed(o)'
    BY <1>1, <2>1, PendingNatNext, OwedNatNext DEF Pending, Owed, Claims
  <2>. QED BY <2>1, <2>2, <2>3, <2>4
<1>6. FiniteWork'
  <2>1. CASE Orders = {}
    <3>1. Refund!TypeOK'
      BY <1>1, StepMarketTypes
    <3>2. inbox' = {} /\ runs' = {} /\ ledger' = {}
      BY <2>1, <3>1 DEF Refund!TypeOK, Refund!Event, Refund!Run, Refund!Entry
    <3>. QED BY <3>2, FS_EmptySet DEF FiniteWork
  <2>2. CASE Orders # {}
    BY <1>4, <2>2
  <2>. QED BY <2>1, <2>2
<1>. QED BY <1>2, <1>5, <1>6 DEF ClaimsInvariant, ChargesCoverClaims, ChargedFor

\* Nothing is claimed at the start.
LEMMA InitClaims ==
    ASSUME IsFiniteSet(Offers), MarketInit
    PROVE  ClaimsInvariant
<1>1. Init /\ inbox = {} /\ runs = {} /\ ledger = {} /\ DocsOK
  BY InitSafe DEF MarketInit, Refund!FunctionInit, IInv
<1>2. FiniteWork /\ RefundsAreElectronic
  BY <1>1, FS_EmptySet DEF FiniteWork, RefundsAreElectronic
<1>3. ASSUME NEW o \in Orders
      PROVE  FinitePending(o) /\ Claims(o) = 0
  <2>1. ChargePages(o) = {}
    <3>1. \A d \in Devices : \A i \in DOMAIN nav[d] : nav[d][i] = Plain("home")
      <4>1. \A x : \A i \in DOMAIN <<x>> : <<x>>[i] = x
        OBVIOUS
      <4>. QED BY <1>1, <4>1 DEF Init
    <3>2. \A d \in Devices : \A i \in DOMAIN nav[d] : ~Charging(nav[d][i])
      BY <3>1 DEF Charging, Plain, Screen
    <3>. QED BY <3>2 DEF ChargePages
  <2>2. StartWrites(o) = {}
    <3>1. \A d \in Devices : DOMAIN queue[d] = {}
      BY <1>1 DEF Init
    <3>. QED BY <3>1 DEF StartWrites
  <2>3. InProgress(o) = 0
    BY <1>1 DEF Init, InProgress, NoDoc
  <2>4. RefundEvents(o) = {} /\ RefundRuns(o) = {} /\ Entries(o) = {}
    BY <1>1 DEF RefundEvents, Cancellations, RefundRuns, RunsFor, Entries
  <2>5. IsFiniteSet({}) /\ Cardinality({}) = 0
    BY FS_EmptySet
  <2>. QED BY <2>1, <2>2, <2>3, <2>4, <2>5 DEF FinitePending, Claims
<1>4. ASSUME NEW o \in Orders PROVE 0 <= SumFunctionOnSet(charges, OffersFor(o))
  BY <1>1, ChargedNat DEF ChargedFor
<1>. QED BY <1>2, <1>3, <1>4 DEF ClaimsInvariant, ChargesCoverClaims

\* Claims are covered, on any number of devices: whatever restarts, refused writes
\* and lost payment results do, everything that may still become a refund or is one
\* came from a charge of its own.
THEOREM ClaimsStayCovered ==
    ASSUME AnswersInTime, MaxDeliveries = 1, IsFiniteSet(Offers)
    PROVE  MarketSpec => []ClaimsInvariant /\ []ChargesCoverClaims
<1>1. Init => IInv
  BY InitSafe
<1>2. IInv /\ TypeOK /\ [Next]_vars => IInv'
  BY StepSafe
<1>3. MarketSpec => []TypeOK /\ [](Refund!TypeOK /\ RefundsFollowCharges)
  BY MarketRunsTheApp, TypeCorrect, RefundsAreOfCharges, PTL
<1>4. [MarketNext]_marketVars => [Next]_vars
  BY DEF MarketNext, marketVars
<1>5. MarketInit => ClaimsInvariant
  BY InitClaims
<1>6. IInv /\ IInv' /\ Refund!TypeOK /\ RefundsFollowCharges /\ ClaimsInvariant
         /\ [MarketNext]_marketVars => ClaimsInvariant'
  BY StepClaims
<1>7. MarketInit => Init
  BY DEF MarketInit
<1>8. ClaimsInvariant => ChargesCoverClaims
  BY DEF ClaimsInvariant
<1>. QED BY <1>1, <1>2, <1>3, <1>4, <1>5, <1>6, <1>7, <1>8, PTL DEF MarketSpec

\* On any number of devices an order is refunded no more often than its offers
\* were charged, although a stale page may start a cancelled order again and
\* cancel it once more: each of its starts came from a charge of its own.
THEOREM RefundsStayCharged ==
    ASSUME AnswersInTime, MaxDeliveries = 1, IsFiniteSet(Offers)
    PROVE  MarketSpec => []RefundsAreCharged
<1>1. TypeOK /\ ClaimsInvariant => RefundsAreCharged
  <2>. SUFFICES ASSUME DocsOK, ClaimsInvariant, NEW o \in Orders
                PROVE  Cardinality(Entries(o)) <= ChargedFor(o)
    BY DEF TypeOK, RefundsAreCharged, ChargedFor
  <2>1. ChargedFor(o) \in Nat
    BY ChargedNat
  <2>2. CASE Entries(o) = {}
    BY <2>1, <2>2, FS_EmptySet
  <2>3. CASE Entries(o) # {}
    <3>1. Electronic(o)
      BY <2>3 DEF ClaimsInvariant, RefundsAreElectronic, Entries
    <3>2. Claims(o) <= ChargedFor(o) /\ FinitePending(o) /\ FiniteWork
      BY <3>1 DEF ClaimsInvariant, ChargesCoverClaims, ChargedFor
    <3>3. /\ Cardinality(ChargePages(o)) \in Nat /\ Cardinality(StartWrites(o)) \in Nat
          /\ InProgress(o) \in Nat /\ Cardinality(RefundEvents(o)) \in Nat
          /\ Cardinality(RefundRuns(o)) \in Nat /\ Cardinality(Entries(o)) \in Nat
      BY <3>2, PendingNat, OwedNat
    <3>. QED BY <2>1, <3>2, <3>3 DEF Claims
  <2>. QED BY <2>2, <2>3
<1>2. MarketSpec => []TypeOK
  BY MarketRunsTheApp, TypeCorrect, PTL
<1>. QED BY <1>1, <1>2, ClaimsStayCovered, PTL
=============================================================================
