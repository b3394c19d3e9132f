---------------------------- MODULE WriteDelivery ----------------------------
(***************************************************************************)
(* What the Firestore client promises of a write, with no stream, batch id *)
(* or callback table: each user has a durable queue; the server applies a  *)
(* prefix of it that the client has not heard of yet, and starts again at  *)
(* the head after every interruption. So a write is applied at least once, *)
(* in order, and its answer is the answer to an application of that write. *)
(***************************************************************************)
EXTENDS Naturals, Sequences

CONSTANTS Users, MaxWrites

VARIABLES
    queue,   \* per user: writes not yet answered, oldest first
    ahead,   \* per user: how many of them were applied since the last interruption
    made,    \* writes made so far
    told,    \* per write: what its caller knows
    content  \* per user: the write the user's document was last set by

deliveryVars == <<queue, ahead, made, told, content>>

Answered(w, status) == IF told[w] = "waiting" THEN [told EXCEPT ![w] = status] ELSE told

Submit(u) ==
    /\ made < MaxWrites
    /\ made' = made + 1
    /\ queue' = [queue EXCEPT ![u] = Append(@, made + 1)]
    /\ told' = [told EXCEPT ![made + 1] = "waiting"]
    /\ UNCHANGED <<ahead, content>>

Apply(u) ==
    /\ ahead[u] < Len(queue[u])
    /\ ahead' = [ahead EXCEPT ![u] = @ + 1]
    /\ content' = [content EXCEPT ![u] = queue[u][ahead[u] + 1]]
    /\ UNCHANGED <<queue, made, told>>

Acknowledge(u) ==
    /\ ahead[u] > 0
    /\ ahead' = [ahead EXCEPT ![u] = @ - 1]
    /\ queue' = [queue EXCEPT ![u] = Tail(@)]
    /\ told' = Answered(Head(queue[u]), "ok")
    /\ UNCHANGED <<made, content>>

\* A refusal is charged to the head of the queue and interrupts.
Refuse(u) ==
    /\ queue[u] # <<>>
    /\ ahead' = [v \in Users |-> 0]
    /\ queue' = [queue EXCEPT ![u] = Tail(@)]
    /\ told' = Answered(Head(queue[u]), "error")
    /\ UNCHANGED <<made, content>>

Interrupt ==
    /\ ahead' = [v \in Users |-> 0]
    /\ UNCHANGED <<queue, made, told, content>>

\* The process dies, possibly after telling one caller and before forgetting
\* the write: that write will be applied again.
Die(heard) ==
    /\ \A w \in heard : \E u \in Users : ahead[u] > 0 /\ w = Head(queue[u])
    /\ ahead' = [v \in Users |-> 0]
    /\ told' = [w \in 1..MaxWrites |->
                   IF told[w] # "waiting" THEN told[w] ELSE IF w \in heard THEN "ok" ELSE "lost"]
    /\ UNCHANGED <<queue, made, content>>

Init ==
    /\ queue = [u \in Users |-> <<>>]
    /\ ahead = [u \in Users |-> 0]
    /\ made = 0
    /\ told = [w \in 1..MaxWrites |-> "none"]
    /\ content = [u \in Users |-> 0]

Next ==
    \/ \E u \in Users : Submit(u) \/ Apply(u) \/ Acknowledge(u) \/ Refuse(u)
    \/ Interrupt
    \/ Die({}) \/ \E w \in 1..MaxWrites : Die({w})

Spec == Init /\ [][Next]_deliveryVars
=============================================================================
