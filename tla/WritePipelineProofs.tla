------------------------- MODULE WritePipelineProofs -------------------------
(***************************************************************************)
(* The inductive invariant of WritePipeline and the proof that every       *)
(* action keeps it, for every set of users, every limit of the pipeline    *)
(* and every number of writes and closes; from it the safety properties,   *)
(* and that WritePipeline implements WriteDelivery.                        *)
(***************************************************************************)
EXTENDS WritePipeline, SequenceTheorems, FiniteSetTheorems, WellFoundedInduction, TLAPS

Assumptions == /\ MaxPendingWrites \in Nat \ {0} /\ MaxWrites \in Nat \ {0}
               /\ MaxCloses \in Nat /\ Handshake \notin Nat /\ Users # {}

\* The assumptions on the constants under one name.
LEMMA Assumed == Assumptions
  BY PendingAssumption, PipelineBoundsAssumption, HandshakeAssumption, UsersAssumption
  DEF Assumptions

-----------------------------------------------------------------------------
(* The mutation queue's operators, on a queue in key order *)

InOrder(q) == \A i, j \in 1..Len(q) : i < j => q[i].id < q[j].id /\ q[i].write < q[j].write

\* p is the beginning of q.
Starts(p, q) == Len(p) <= Len(q) /\ \A i \in 1..Len(p) : p[i] = q[i]

\* Batch ids and writes are positive numbers.
LEMMA Numbers ==
  /\ Writes \subseteq Nat \ {0}
  /\ \A b \in Batch : b.id \in Writes /\ b.write \in Writes /\ b = [id |-> b.id, write |-> b.write]
  /\ \A q \in Seq(Batch), i \in Nat : i \in 1..Len(q) =>
        q[i] \in Batch /\ q[i].id \in Nat \ {0} /\ q[i].write \in Nat \ {0}
<1>1. Writes \subseteq Nat \ {0}
  BY Assumed DEF Assumptions, Writes
<1>2. \A b \in Batch : b.id \in Writes /\ b.write \in Writes /\ b = [id |-> b.id, write |-> b.write]
  BY DEF Batch
<1>3. \A q \in Seq(Batch), i \in Nat : i \in 1..Len(q) => q[i] \in Batch
  OBVIOUS
<1>. QED BY <1>1, <1>2, <1>3

\* Below counts a beginning of the queue.
LEMMA BelowIs ==
  \A q \in Seq(Batch), n \in Nat, k \in Nat :
    k <= Len(q) /\ (\A i \in 1..Len(q) : q[i].id < n <=> i <= k) => Below(q, n) = k
<1>. SUFFICES ASSUME NEW q \in Seq(Batch), NEW n \in Nat, NEW k \in Nat, k <= Len(q),
                     \A i \in 1..Len(q) : q[i].id < n <=> i <= k
              PROVE  Below(q, n) = k
  OBVIOUS
<1>1. {i \in DOMAIN q : q[i].id < n} = 1..k
  OBVIOUS
<1>2. Cardinality(1..k) = k
  BY FS_Interval
<1>. QED BY <1>1, <1>2 DEF Below

\* A batch with the highest id is put at the end.
LEMMA PutAppends ==
  ASSUME NEW q \in Seq(Batch), NEW b \in Batch, \A i \in 1..Len(q) : q[i].id < b.id
  PROVE  Put(q, b) = Append(q, b)
<1>1. /\ Len(q) \in Nat /\ Len(q) <= Len(q)
      /\ b.id \in Nat /\ b.id + 1 \in Nat
      /\ \A i \in 1..Len(q) : q[i].id \in Nat
  BY Numbers, LenProperties
<1>2. Below(q, b.id) = Len(q)
  <2>1. \A i \in 1..Len(q) : q[i].id < b.id <=> i <= Len(q)
    BY <1>1
  <2>. QED BY <1>1, <2>1, BelowIs, Zenon
<1>3. Below(q, b.id + 1) = Len(q)
  <2>1. \A i \in 1..Len(q) : q[i].id < b.id + 1 <=> i <= Len(q)
    BY <1>1
  <2>. QED BY <1>1, <2>1, BelowIs, Zenon
<1>4. SubSeq(q, 1, Len(q)) = q /\ SubSeq(q, Len(q) + 1, Len(q)) = <<>>
  BY SubSeqFull, SubSeqEmpty, <1>1
<1>5. q \o <<b>> = Append(q, b) /\ Append(q, b) \in Seq(Batch)
  BY AppendIsConcat, AppendProperties
<1>. QED BY <1>2, <1>3, <1>4, <1>5, ConcatEmptySeq DEF Put

\* Deleting the id of the first batch removes that batch.
LEMMA DeleteHead ==
  ASSUME NEW q \in Seq(Batch), q # <<>>, InOrder(q)
  PROVE  Delete(q, q[1].id) = Tail(q)
<1>1. /\ Len(q) \in Nat /\ 1 <= Len(q) /\ 0 <= Len(q)
      /\ q[1].id \in Nat /\ q[1].id + 1 \in Nat
      /\ \A i \in 1..Len(q) : q[i].id \in Nat
  BY Numbers, LenProperties
<1>2. \A i \in 1..Len(q) : i = 1 \/ q[1].id < q[i].id
  BY <1>1 DEF InOrder
<1>3. Below(q, q[1].id) = 0
  <2>1. \A i \in 1..Len(q) : q[i].id < q[1].id <=> i <= 0
    BY <1>1, <1>2
  <2>. QED BY <1>1, <2>1, BelowIs
<1>4. Below(q, q[1].id + 1) = 1
  <2>1. \A i \in 1..Len(q) : q[i].id < q[1].id + 1 <=> i <= 1
    BY <1>1, <1>2
  <2>. QED BY <1>1, <2>1, BelowIs
<1>5. SubSeq(q, 1, 0) = <<>> /\ SubSeq(q, 2, Len(q)) = Tail(q)
  BY SubSeqEmpty, TailIsSubSeq
<1>6. <<>> \o Tail(q) = Tail(q)
  BY HeadTailProperties, ConcatEmptySeq
<1>7. Delete(q, q[1].id) = SubSeq(q, 1, 0) \o SubSeq(q, 1 + 1, Len(q))
  BY <1>3, <1>4 DEF Delete
<1>. QED BY <1>5, <1>6, <1>7

\* Refilling a beginning of the queue gives the beginning of the queue up to the limit.
LEMMA FilledStarts ==
  ASSUME NEW q \in Seq(Batch), NEW p \in Seq(Batch), InOrder(q), Starts(p, q),
         Len(p) <= MaxPendingWrites
  PROVE  /\ Filled(p, q) \in Seq(Batch)
         /\ Len(Filled(p, q)) = Least(MaxPendingWrites, Len(q))
         /\ Starts(Filled(p, q), q)
         /\ \A i \in 1..Len(p) : Filled(p, q)[i] = p[i]
<1>. DEFINE k == Len(p)
            m == Least(MaxPendingWrites, Len(q))
<1>1. /\ Len(q) \in Nat /\ k \in Nat /\ k <= Len(q) /\ m \in k..Len(q)
      /\ k + (MaxPendingWrites - k) = MaxPendingWrites
  BY LenProperties, Assumed DEF Starts, Assumptions, Least
<1>2. \A i \in 1..Len(q) : q[i].id \in Nat \ {0}
  BY Numbers
<1>3. LastId(p) \in Nat /\ \A i \in 1..Len(q) : q[i].id < LastId(p) + 1 <=> i <= k
  <2>1. CASE p = <<>>
    BY <2>1, <1>2 DEF LastId
  <2>2. CASE p # <<>>
    <3>1. k \in 1..Len(q) /\ LastId(p) = q[k].id /\ q[k].id \in Nat
      BY <2>2, <1>1, <1>2 DEF LastId, Starts
    <3>2. \A i \in 1..Len(q) : /\ i < k => q[i].id < q[k].id
                               /\ k < i => q[k].id < q[i].id
      BY <3>1 DEF InOrder
    <3>. HIDE DEF k
    <3>. QED BY <3>1, <3>2, <1>1, <1>2
  <2>. QED BY <2>1, <2>2
<1>4. Below(q, LastId(p) + 1) = k
  <2>1. LastId(p) + 1 \in Nat
    BY <1>3
  <2>. HIDE DEF k
  <2>. QED BY <2>1, <1>1, <1>3, BelowIs
<1>5. Filled(p, q) = p \o SubSeq(q, k + 1, m)
  BY <1>1, <1>4 DEF Filled
<1>. DEFINE s == SubSeq(q, k + 1, m)
<1>6. /\ s \in Seq(Batch) /\ Len(s) = m - k
      /\ \A i \in 1..(m - k) : s[i] = q[k + i]
  <2>1. \A i \in k + 1 .. m : q[i] \in Batch
    BY <1>1
  <2>2. k + 1 \in Int /\ m \in Int
    BY <1>1
  <2>. HIDE DEF k, m
  <2>. QED BY <2>1, <2>2, <1>1, SubSeqProperties
<1>7. /\ p \o s \in Seq(Batch) /\ Len(p \o s) = m
      /\ \A i \in 1..m : (p \o s)[i] = IF i <= k THEN p[i] ELSE s[i - k]
  <2>. HIDE DEF s, m
  <2>. QED BY <1>6, <1>1, ConcatProperties
<1>8. \A i \in 1..m : (p \o s)[i] = q[i]
  <2>1. \A i \in 1..k : p[i] = q[i]
    BY DEF Starts
  <2>. HIDE DEF k, m, s
  <2>. QED BY <2>1, <1>1, <1>6, <1>7
<1>. HIDE DEF m, s
<1>. QED BY SMTT(30), <1>1, <1>5, <1>7, <1>8 DEF Starts, m

-----------------------------------------------------------------------------
(* The inductive invariant *)

Message == Writes \cup {Handshake}

Answer == [to : Message, ok : BOOLEAN]

ClientTypes ==
    /\ user \in Users
    /\ mutations \in [Users -> Seq(Batch)]
    /\ nextBatchId \in 1..(MaxWrites + 1)
    /\ callbacks \subseteq Callback
    /\ submitted \in 0..MaxWrites
    /\ owner \in [Writes -> Users]
    /\ answer \in [Writes -> {"none", "waiting", "ok", "error", "lost"}]

StreamTypes ==
    /\ pipeline \in Seq(Batch)
    /\ stream \in StreamState
    /\ handshake \in BOOLEAN /\ idle \in BOOLEAN
    /\ closeCount \in Nat /\ credentials \subseteq Nat
    /\ requests \in Seq(Message)
    /\ replies \in Seq(Answer)

ServerTypes ==
    /\ committed \subseteq Writes /\ refused \subseteq Writes
    /\ doc \in [Users -> 0..MaxWrites]

\* The types in three parts.
LEMMA TypesAre == TypeOK <=> ClientTypes /\ StreamTypes /\ ServerTypes
  BY DEF TypeOK, ClientTypes, StreamTypes, ServerTypes, Message, Answer

\* Batch ids are not used again while a batch or a callback has them: those of
\* every user are below the next one, also after a restart or a change of user.
QueuesInOrder ==
    /\ nextBatchId <= submitted + 1
    /\ \A v \in Users : /\ InOrder(mutations[v])
                        /\ \A i \in 1..Len(mutations[v]) :
                              /\ mutations[v][i].id < nextBatchId
                              /\ mutations[v][i].write <= submitted
                              /\ owner[mutations[v][i].write] = v

IsQueued(w) == \E i \in 1..Len(mutations[owner[w]]) : mutations[owner[w]][i].write = w

\* A queue holds all its user's writes from its first one on.
QueuesAreComplete ==
    \A w \in 1..submitted :
        LET q == mutations[owner[w]] IN q # <<>> /\ q[1].write <= w => IsQueued(w)

\* The callbacks are those of the writes that wait, and find their batches.
CallbacksMatch ==
    /\ \A c \in callbacks :
         /\ answer[c.write] = "waiting"
         /\ \E i \in 1..Len(mutations[c.user]) :
              mutations[c.user][i].id = c.id /\ mutations[c.user][i].write = c.write
    /\ \A w \in Writes : answer[w] = "waiting" => \E c \in callbacks : c.write = w

PipelineIsPrefix == Starts(pipeline, mutations[user]) /\ Len(pipeline) <= MaxPendingWrites

\* Only a started stream waits for credentials, and only one that completed its
\* handshake is idle.
StreamIsSound ==
    /\ credentials \subseteq 0..closeCount
    /\ StreamAssertions
    /\ handshake => stream = "open"
    /\ idle => handshake

\* Replies and requests of the open connection are for the writes of the
\* pipeline, in its order, after the handshake; a refusal is the last reply.
WireMatches ==
    /\ stream # "open" => requests = <<>> /\ replies = <<>>
    /\ stream = "open" /\ ~handshake =>
          \/ requests = <<Handshake>> /\ replies = <<>>
          \/ requests = <<>> /\ replies = <<Reply(Handshake, TRUE)>>
    /\ handshake =>
          /\ Len(pipeline) = Len(replies) + Len(requests)
          /\ \A i \in 1..Len(replies) : replies[i].to = pipeline[i].write
          /\ \A i \in 1..Len(requests) : requests[i] = pipeline[Len(replies) + i].write
    /\ \A i \in 1..Len(replies) : i < Len(replies) => replies[i].ok

StreamInv == PipelineIsPrefix /\ StreamIsSound /\ WireMatches

QueueInv == QueuesInOrder /\ QueuesAreComplete /\ CallbacksMatch

\* What the open connection's replies say is so, and the document is not behind them.
RepliesAreTrue ==
    /\ committed \subseteq 1..submitted
    /\ handshake => \A i \in 1..Len(replies) :
          IF replies[i].ok THEN replies[i].to \in committed /\ replies[i].to <= doc[user]
          ELSE replies[i].to \in refused

TruthInv == RepliesAreTrue /\ AnswersAreTrue /\ NoLostUpdate

IInv == TypeOK /\ QueueInv /\ StreamInv /\ TruthInv

-----------------------------------------------------------------------------
(* FillWritePipeline *)

\* What it does to the pipeline, the wire and the stream.
LEMMA FillEffect ==
  ASSUME NEW q \in Seq(Batch), NEW p \in Seq(Batch), InOrder(q), Starts(p, q),
         Len(p) <= MaxPendingWrites, NEW s \in StreamState, NEW count \in Nat,
         NEW sent \in Seq(Message), NEW outstanding \in SUBSET Nat,
         handshake \in BOOLEAN, idle \in BOOLEAN, idle => handshake /\ p = <<>>,
         FillWritePipeline(p, q, s, count, sent, outstanding)
  PROVE  /\ pipeline' \in Seq(Batch) /\ Starts(pipeline', q)
         /\ Len(pipeline') <= MaxPendingWrites /\ Len(p) <= Len(pipeline')
         /\ pipeline' = <<>> => q = <<>>
         /\ requests' \in Seq(Message)
         /\ ~(s = "open" /\ handshake) => requests' = sent
         /\ s = "open" /\ handshake =>
               /\ Len(requests') = Len(sent) + (Len(pipeline') - Len(p))
               /\ \A i \in 1..Len(requests') :
                     requests'[i] = IF i <= Len(sent) THEN sent[i]
                                    ELSE pipeline'[Len(p) + (i - Len(sent))].write
         /\ stream' \in StreamState /\ (stream' = "open" <=> s = "open")
         /\ idle' \in BOOLEAN /\ (idle' => s = "open" /\ pipeline' = <<>>)
         /\ closeCount' = count /\ credentials' \subseteq outstanding \cup {count}
         /\ count \in credentials' => count \in outstanding \/ stream' = "starting"
         /\ IsStarted(s) => stream' = s /\ credentials' = outstanding
<1>. DEFINE f == Filled(p, q)
            added == SubSeq(f, Len(p) + 1, Len(f))
<1>1. /\ f \in Seq(Batch) /\ Len(f) = Least(MaxPendingWrites, Len(q)) /\ Starts(f, q)
      /\ \A i \in 1..Len(p) : f[i] = p[i]
  BY FilledStarts
<1>2. Len(p) \in Nat /\ Len(f) \in Nat /\ Len(f) <= MaxPendingWrites /\ Len(p) <= Len(f)
  BY <1>1, LenProperties, Assumed DEF Least, Assumptions, Starts
<1>10. f = <<>> => q = <<>>
  <2>. HIDE DEF f
  <2>. QED BY <1>1, EmptySeq, LenProperties, Assumed DEF Least, Assumptions
<1>3. /\ added \in Seq(Batch) /\ Len(added) = Len(f) - Len(p)
      /\ \A i \in 1..Len(added) : added[i] = f[Len(p) + i]
  <2>1. \A i \in Len(p) + 1 .. Len(f) : f[i] \in Batch
    BY <1>1, <1>2
  <2>. HIDE DEF f
  <2>. QED BY <2>1, <1>2, SubSeqProperties
<1>4. /\ WritesOf(added) \in Seq(Message) /\ Len(WritesOf(added)) = Len(f) - Len(p)
      /\ \A i \in 1..Len(added) : WritesOf(added)[i] = f[Len(p) + i].write
  <2>. HIDE DEF added, f
  <2>1. \A i \in 1..Len(added) : added[i].write \in Message
    BY <1>3, Numbers DEF Message
  <2>2. WritesOf(added) = [i \in 1..Len(added) |-> added[i].write]
    BY <1>3, LenProperties DEF WritesOf
  <2>3. WritesOf(added) \in Seq(Message) /\ Len(WritesOf(added)) = Len(added)
    BY <2>1, <2>2, <1>3, LenProperties, IsASeq
  <2>. QED BY <2>2, <2>3, <1>3
<1>5. /\ pipeline' = f /\ closeCount' = count
      /\ requests' = IF s = "open" /\ handshake THEN sent \o WritesOf(added) ELSE sent
  BY DEF FillWritePipeline
<1>6. idle' \in BOOLEAN /\ (idle' => s = "open" /\ pipeline' = <<>>)
  <2>1. idle' = (s = "open" /\ IF f = <<>> THEN TRUE
                               ELSE idle /\ ~((s = "open" /\ handshake) /\ added # <<>>))
    BY DEF FillWritePipeline
  <2>2. f # <<>> /\ p = <<>> => added # <<>>
    BY <1>1, <1>2, <1>3, EmptySeq
  <2>. HIDE DEF f, added
  <2>. QED BY <2>1, <2>2, <1>5
<1>7. /\ stream' \in StreamState /\ (stream' = "open" <=> s = "open")
      /\ credentials' \subseteq outstanding \cup {count}
      /\ count \in credentials' => count \in outstanding \/ stream' = "starting"
      /\ IsStarted(s) => stream' = s /\ credentials' = outstanding
  BY DEF FillWritePipeline, StreamState, IsStarted
<1>8. requests' \in Seq(Message)
  BY <1>4, <1>5, ConcatProperties
<1>9. ASSUME s = "open" /\ handshake
      PROVE  /\ Len(requests') = Len(sent) + (Len(f) - Len(p))
             /\ \A i \in 1..Len(requests') :
                     requests'[i] = IF i <= Len(sent) THEN sent[i]
                                    ELSE f[Len(p) + (i - Len(sent))].write
  <2>. HIDE DEF added, f
  <2>1. /\ Len(requests') = Len(sent) + Len(WritesOf(added))
        /\ \A i \in 1..Len(sent) + Len(WritesOf(added)) :
              requests'[i] = IF i <= Len(sent) THEN sent[i] ELSE WritesOf(added)[i - Len(sent)]
    BY <1>4, <1>5, <1>9, ConcatProperties
  <2>2. Len(sent) \in Nat
    BY LenProperties
  <2>3. Len(requests') = Len(sent) + (Len(f) - Len(p))
    BY <2>1, <1>4
  <2>4. ASSUME NEW i \in 1..Len(requests'), ~(i <= Len(sent))
        PROVE  requests'[i] = f[Len(p) + (i - Len(sent))].write
    <3>1. i - Len(sent) \in 1..Len(added)
      BY <2>2, <2>3, <2>4, <1>2, <1>3
    <3>2. requests'[i] = WritesOf(added)[i - Len(sent)]
      BY <2>1, <2>2, <2>3, <2>4, <1>4
    <3>. QED BY <3>1, <3>2, <1>4
  <2>. QED BY <2>1, <2>3, <2>4, <1>4
<1>. HIDE DEF f, added
<1>. QED BY <1>1, <1>2, <1>5, <1>6, <1>7, <1>8, <1>9, <1>10

\* A stream that was closed, its pipeline refilled: the wire is empty.
LEMMA ClosedStream ==
  ASSUME NEW q \in Seq(Batch), NEW p \in Seq(Batch), InOrder(q), Starts(p, q),
         Len(p) <= MaxPendingWrites, NEW count \in Nat,
         NEW outstanding \in SUBSET (0..count), count \notin outstanding,
         handshake \in BOOLEAN, idle \in BOOLEAN, idle => handshake /\ p = <<>>,
         FillWritePipeline(p, q, "initial", count, <<>>, outstanding),
         handshake' = FALSE, replies' = <<>>, mutations'[user'] = q
  PROVE  StreamTypes' /\ StreamInv'
<1>1. "initial" \in StreamState /\ <<>> \in Seq(Message) /\ outstanding \in SUBSET Nat
  BY DEF StreamState
<1>2. /\ pipeline' \in Seq(Batch) /\ Starts(pipeline', q) /\ Len(pipeline') <= MaxPendingWrites
      /\ requests' = <<>> /\ stream' \in StreamState /\ stream' # "open" /\ idle' = FALSE
      /\ closeCount' = count /\ credentials' \subseteq outstanding \cup {count}
      /\ count \in credentials' => stream' = "starting"
  BY <1>1, FillEffect
<1>3. StreamTypes'
  <2>1. credentials' \subseteq Nat /\ handshake' \in BOOLEAN /\ idle' \in BOOLEAN
    BY <1>1, <1>2
  <2>2. requests' \in Seq(Message) /\ replies' \in Seq(Answer)
    BY <1>2, EmptySeq
  <2>. QED BY <1>2, <2>1, <2>2 DEF StreamTypes
<1>4. PipelineIsPrefix' /\ StreamIsSound'
  BY <1>2 DEF PipelineIsPrefix, StreamIsSound, StreamAssertions
<1>5. WireMatches'
  <2>1. \A i \in 1..Len(replies') : i < Len(replies') => replies'[i].ok
    OBVIOUS
  <2>. QED BY <1>2, <2>1 DEF WireMatches
<1>. QED BY <1>3, <1>4, <1>5 DEF StreamInv

\* The number of a stream that was restarted was never asked credentials for.
LEMMA NewCount ==
  ASSUME IInv
  PROVE  /\ closeCount + 1 \in Nat /\ credentials \subseteq 0..(closeCount + 1)
         /\ closeCount + 1 \notin credentials
         /\ idle => handshake /\ pipeline = <<>>
  BY DEF IInv, TypeOK, StreamInv, StreamIsSound, StreamAssertions

\* An empty pipeline is a prefix of every queue.
LEMMA EmptyStarts ==
  ASSUME NEW q \in Seq(Batch)
  PROVE  <<>> \in Seq(Batch) /\ Starts(<<>>, q) /\ Len(<<>>) <= MaxPendingWrites
  BY LenProperties, Assumed DEF Starts, Assumptions

\* A stream that is closed, and opened again if writes are waiting.
LEMMA RestartStream ==
  ASSUME IInv, NEW q \in Seq(Batch), InOrder(q), RestartNetwork(q), mutations'[user'] = q
  PROVE  StreamTypes' /\ StreamInv'
<1>. DEFINE count == IF IsStarted(stream) THEN closeCount + 1 ELSE closeCount
<1>1. /\ count \in Nat /\ credentials \in SUBSET (0..count) /\ count \notin credentials
  BY NewCount DEF IInv, TypeOK, StreamInv, StreamIsSound, StreamAssertions, IsStarted
<1>2. handshake \in BOOLEAN /\ idle \in BOOLEAN /\ (idle => handshake)
  BY DEF IInv, TypeOK, StreamInv, StreamIsSound
<1>3. /\ FillWritePipeline(<<>>, q, "initial", count, <<>>, credentials)
      /\ handshake' = FALSE /\ replies' = <<>>
  BY DEF RestartNetwork
<1>. HIDE DEF count
<1>. QED BY <1>1, <1>2, <1>3, EmptyStarts, ClosedStream

-----------------------------------------------------------------------------
(* Steps that leave the queues alone *)

\* A step of the stream leaves the queues alone.
LEMMA QueueUnchanged ==
  ASSUME IInv, UNCHANGED <<clientVars, history>>
  PROVE  ClientTypes' /\ QueueInv'
<1>1. ClientTypes'
  BY TypesAre DEF IInv, ClientTypes, clientVars, history
<1>2. QueuesInOrder'
  BY DEF IInv, QueueInv, QueuesInOrder, InOrder, clientVars, history
<1>3. QueuesAreComplete'
  BY DEF IInv, QueueInv, QueuesAreComplete, IsQueued, clientVars, history
<1>4. CallbacksMatch'
  BY DEF IInv, QueueInv, CallbacksMatch, clientVars, history
<1>. QED BY <1>1, <1>2, <1>3, <1>4 DEF QueueInv

\* The queue of the signed-in user, and what the pipeline says of it.
LEMMA CurrentQueue ==
  ASSUME IInv
  PROVE  /\ user \in Users /\ mutations[user] \in Seq(Batch) /\ InOrder(mutations[user])
         /\ \A v \in Users : mutations[v] \in Seq(Batch) /\ InOrder(mutations[v])
         /\ pipeline \in Seq(Batch) /\ Starts(pipeline, mutations[user])
         /\ Len(pipeline) <= MaxPendingWrites
         /\ Len(pipeline) \in Nat /\ Len(replies) \in Nat /\ Len(requests) \in Nat
         /\ Len(mutations[user]) \in Nat
  BY LenProperties
  DEF IInv, TypeOK, QueueInv, QueuesInOrder, StreamInv, PipelineIsPrefix

\* A user whose queue is not looked at: the truth about answers and documents
\* outlives every change of the stream.
LEMMA TruthUnchanged ==
  ASSUME IInv, UNCHANGED <<mutations, submitted, owner, answer, server>>,
         handshake' => handshake /\ user' = user /\ Len(replies') <= Len(replies)
                       /\ \A i \in 1..Len(replies') : replies'[i] = replies[i]
  PROVE  TruthInv' /\ ServerTypes'
<1>1. RepliesAreTrue'
  <2>1. committed' \subseteq 1..submitted'
    BY DEF IInv, TruthInv, RepliesAreTrue, server
  <2>2. Len(replies) \in Nat
    BY CurrentQueue
  <2>3. ASSUME handshake', NEW i \in 1..Len(replies')
        PROVE  i \in 1..Len(replies) /\ replies'[i] = replies[i]
    BY <2>2, <2>3
  <2>. QED BY <2>1, <2>3 DEF IInv, TruthInv, RepliesAreTrue, server
<1>2. AnswersAreTrue' /\ NoLostUpdate' /\ ServerTypes'
  BY TypesAre DEF IInv, TruthInv, AnswersAreTrue, NoLostUpdate, server, ServerTypes
<1>. QED BY <1>1, <1>2 DEF TruthInv

\* The parts make the invariant.
LEMMA AllParts ==
  ASSUME ClientTypes', StreamTypes', ServerTypes', QueueInv', StreamInv', TruthInv'
  PROVE  IInv'
  BY TypesAre DEF IInv, TypeOK, ClientTypes, StreamTypes, ServerTypes, Message, Answer

-----------------------------------------------------------------------------
(* The next batch id after a change of user or a restart *)

\* Every nonempty set of natural numbers has a least element.
LEMMA Smallest == \A T \in SUBSET Nat : T # {} => \E k \in T : \A n \in T : k <= n
<1>. SUFFICES ASSUME NEW T \in SUBSET Nat, T # {} PROVE \E k \in T : \A n \in T : k <= n
  OBVIOUS
<1>. DEFINE less == OpToRel(<, Nat)
<1>1. IsWellFoundedOn(less, Nat)
  BY NatLessThanWellFounded, Zenon
<1>2. \A x, y \in Nat : <<y, x>> \in less <=> y < x
  BY Zenon DEF OpToRel
<1>. HIDE DEF less
<1>3. PICK k \in T : \A n \in T : ~(<<n, k>> \in less)
  BY <1>1, WFMin
<1>4. \A n \in T : n \in Nat /\ k \in Nat /\ ~(n < k)
  BY <1>2, <1>3, Zenon
<1>. QED BY <1>4

\* The ids in use are below the next id.
LEMMA IdsInUse ==
  ASSUME IInv
  PROVE  /\ AllIds(mutations) \subseteq 0..(nextBatchId - 1) /\ 0 \in AllIds(mutations)
         /\ \A v \in Users : \A i \in 1..Len(mutations[v]) : mutations[v][i].id \in AllIds(mutations)
<1>1. \A v \in Users : \A i \in 1..Len(mutations[v]) :
         mutations[v][i].id \in Nat /\ mutations[v][i].id < nextBatchId
  BY SMTT(30), Numbers, CurrentQueue DEF IInv, QueueInv, QueuesInOrder
<1>2. nextBatchId \in Nat \ {0}
  BY Assumed DEF IInv, TypeOK, Assumptions
<1>3. \A v \in Users : DOMAIN mutations[v] = 1..Len(mutations[v])
  BY CurrentQueue, LenProperties
<1>4. ASSUME NEW n \in AllIds(mutations) PROVE n \in 0..(nextBatchId - 1)
  <2>1. n = 0 \/ \E v \in Users : \E i \in DOMAIN mutations[v] : n = mutations[v][i].id
    BY <1>4 DEF AllIds
  <2>. QED BY <2>1, <1>1, <1>2, <1>3
<1>5. ASSUME NEW v \in Users, NEW i \in 1..Len(mutations[v])
      PROVE  mutations[v][i].id \in AllIds(mutations)
  <2>1. mutations[v][i].id \in {mutations[v][j].id : j \in DOMAIN mutations[v]}
    BY <1>3
  <2>. QED BY <2>1 DEF AllIds
<1>6. 0 \in AllIds(mutations)
  BY DEF AllIds
<1>. QED BY <1>4, <1>5, <1>6

\* LoadNextBatchIdFromDb finds an id above those in use and not above the next one.
LEMMA LoadedId ==
  ASSUME IInv
  PROVE  /\ LoadNextBatchId(mutations) \in 1..nextBatchId
         /\ \A v \in Users : \A i \in 1..Len(mutations[v]) :
               mutations[v][i].id < LoadNextBatchId(mutations)
<1>. DEFINE ids == AllIds(mutations)
            top == nextBatchId - 1
            below == {top - n : n \in ids}
<1>1. /\ ids \subseteq 0..top /\ 0 \in ids
      /\ \A v \in Users : \A i \in 1..Len(mutations[v]) : mutations[v][i].id \in ids
  BY IdsInUse
<1>2. top \in Nat /\ nextBatchId = top + 1
  BY Assumed DEF IInv, TypeOK, Assumptions
<1>. HIDE DEF ids, top
<1>3. below \in SUBSET Nat /\ below # {}
  BY <1>1, <1>2
<1>4. PICK k \in below : \A n \in below : k <= n
  BY <1>3, Smallest
<1>5. PICK m \in ids : k = top - m
  BY <1>4
<1>6. \A n \in ids : n <= m
  <2>. SUFFICES ASSUME NEW n \in ids PROVE n <= m
    OBVIOUS
  <2>1. top - n \in below
    OBVIOUS
  <2>2. top - m <= top - n
    BY <2>1, <1>4, <1>5
  <2>. QED BY <2>2, <1>1, <1>2
<1>. DEFINE c == CHOOSE n \in ids : \A j \in ids : j <= n
<1>7. c \in ids /\ \A j \in ids : j <= c
  BY <1>6
<1>8. LoadNextBatchId(mutations) = 1 + c
  BY DEF LoadNextBatchId, ids
<1>. HIDE DEF c
<1>9. c \in Nat /\ c <= top
  BY <1>1, <1>2, <1>7
<1>10. \A n \in ids : n < 1 + c
  BY <1>1, <1>2, <1>7, <1>9
<1>11. 1 + c \in 1..nextBatchId
  BY <1>2, <1>9
<1>12. \A v \in Users : \A i \in 1..Len(mutations[v]) : mutations[v][i].id < 1 + c
  BY <1>1, <1>10
<1>. QED BY <1>8, <1>11, <1>12

\* A batch id loaded from the disk keeps the queues in order.
LEMMA NextIdLoaded ==
  ASSUME IInv, user' \in Users, UNCHANGED <<mutations, callbacks, history>>,
         nextBatchId' \in {nextBatchId, LoadNextBatchId(mutations)}
  PROVE  ClientTypes' /\ QueueInv'
<1>1. /\ nextBatchId' \in 1..nextBatchId
      /\ \A v \in Users : \A i \in 1..Len(mutations[v]) : mutations[v][i].id < nextBatchId'
  <2>1. nextBatchId \in 1..nextBatchId
    BY Assumed DEF IInv, TypeOK, Assumptions
  <2>2. \A v \in Users : \A i \in 1..Len(mutations[v]) : mutations[v][i].id < nextBatchId
    BY DEF IInv, QueueInv, QueuesInOrder
  <2>. QED BY <2>1, <2>2, LoadedId
<1>2. ClientTypes'
  <2>1. nextBatchId' \in 1..(MaxWrites + 1)
    BY <1>1, Assumed DEF IInv, TypeOK, Assumptions
  <2>. QED BY <2>1, TypesAre DEF IInv, ClientTypes, history
<1>3. QueuesInOrder'
  <2>1. nextBatchId' <= submitted + 1
    BY <1>1, Assumed DEF IInv, TypeOK, QueueInv, QueuesInOrder, Assumptions
  <2>. QED BY <1>1, <2>1 DEF IInv, QueueInv, QueuesInOrder, InOrder, history
<1>4. QueuesAreComplete' /\ CallbacksMatch'
  BY DEF IInv, QueueInv, QueuesAreComplete, IsQueued, CallbacksMatch, history
<1>. QED BY <1>2, <1>3, <1>4 DEF QueueInv

-----------------------------------------------------------------------------
(* The stream is closed, opened or started *)

LEMMA ChangeSafe == ASSUME IInv, NEW u \in Users, HandleCredentialChange(u) PROVE IInv'
<1>1. ClientTypes' /\ QueueInv'
  <2>1. nextBatchId' \in {nextBatchId, LoadNextBatchId(mutations)}
    BY DEF HandleCredentialChange
  <2>2. user' \in Users /\ UNCHANGED <<mutations, callbacks, history>>
    BY DEF HandleCredentialChange
  <2>. QED BY <2>1, <2>2, NextIdLoaded
<1>2. StreamTypes' /\ StreamInv'
  <2>1. mutations[u] \in Seq(Batch) /\ InOrder(mutations[u])
    BY CurrentQueue
  <2>2. RestartNetwork(mutations[u]) /\ mutations'[user'] = mutations[u]
    BY DEF HandleCredentialChange, QueueAfterChange
  <2>. QED BY <2>1, <2>2, RestartStream
<1>3. TruthInv' /\ ServerTypes'
  <2>1. handshake' = FALSE /\ UNCHANGED <<mutations, submitted, owner, answer, server>>
    BY DEF HandleCredentialChange, RestartNetwork, history
  <2>. QED BY <2>1, TruthUnchanged
<1>. QED BY <1>1, <1>2, <1>3, AllParts

LEMMA ConnectivitySafe == ASSUME IInv, ConnectivityChange PROVE IInv'
<1>1. UNCHANGED <<clientVars, history, server>>
  BY DEF ConnectivityChange
<1>2. ClientTypes' /\ QueueInv'
  BY <1>1, QueueUnchanged
<1>3. StreamTypes' /\ StreamInv'
  <2>1. RestartNetwork(mutations[user]) /\ mutations'[user'] = mutations[user]
    BY DEF ConnectivityChange, clientVars
  <2>. QED BY <2>1, CurrentQueue, RestartStream
<1>4. TruthInv' /\ ServerTypes'
  <2>1. handshake' = FALSE /\ UNCHANGED <<mutations, submitted, owner, answer, server>>
    BY <1>1 DEF ConnectivityChange, RestartNetwork, clientVars, history
  <2>. QED BY <2>1, TruthUnchanged
<1>. QED BY <1>2, <1>3, <1>4, AllParts

\* Steps of the stream alone that end with the handshake not made, or leave it.
LEMMA StreamStep ==
  ASSUME IInv, UNCHANGED <<clientVars, pipeline, history, server>>,
         StreamTypes', StreamIsSound', WireMatches',
         handshake' = FALSE \/ UNCHANGED <<handshake, replies>>
  PROVE  IInv'
<1>1. ClientTypes' /\ QueueInv'
  BY QueueUnchanged
<1>2. StreamInv'
  BY DEF StreamInv, PipelineIsPrefix, Starts, IInv, clientVars
<1>3. TruthInv' /\ ServerTypes'
  <2>1. Len(replies) \in Nat
    BY CurrentQueue
  <2>2. UNCHANGED <<user, mutations, submitted, owner, answer, server>>
    BY DEF clientVars, history
  <2>. QED BY <2>1, <2>2, TruthUnchanged
<1>. QED BY <1>1, <1>2, <1>3, AllParts

\* The facts about the stream, as the steps use them.
LEMMA StreamFacts ==
  ASSUME IInv
  PROVE  /\ StreamTypes /\ StreamIsSound /\ WireMatches
         /\ <<>> \in Seq(Message) /\ <<>> \in Seq(Answer) /\ Handshake \in Message
         /\ \A n \in Writes : n # Handshake
<1>1. Handshake \notin Writes
  BY Numbers, Assumed DEF Assumptions
<1>. QED BY <1>1, TypesAre, EmptySeq DEF IInv, StreamInv, Message

LEMMA CredentialsSafe == ASSUME IInv, NEW c \in 0..closeCount, CredentialsReady(c) PROVE IInv'
<1>1. /\ UNCHANGED <<clientVars, pipeline, history, server>>
      /\ UNCHANGED <<handshake, closeCount, replies>>
      /\ c \in credentials /\ credentials' = credentials \ {c}
  BY DEF CredentialsReady
<1>2. CASE IsCurrent(c)
  <2>1. /\ stream = "starting" /\ requests = <<>> /\ replies = <<>> /\ handshake = FALSE
        /\ c = closeCount
    BY <1>1, <1>2, StreamFacts
    DEF IsCurrent, StreamIsSound, StreamAssertions, WireMatches, StreamTypes
  <2>2. stream' = "open" /\ requests' = <<Handshake>> /\ idle' = FALSE
    BY <1>2, <2>1 DEF CredentialsReady
  <2>3. StreamTypes'
    <3>1. requests' \in Seq(Message)
      BY <2>2, StreamFacts
    <3>. QED BY <1>1, <2>1, <2>2, <3>1, StreamFacts DEF StreamTypes, StreamState
  <2>4. StreamIsSound'
    BY <1>1, <2>1, <2>2, StreamFacts DEF StreamIsSound, StreamAssertions
  <2>5. WireMatches'
    BY <1>1, <2>1, <2>2 DEF WireMatches
  <2>. QED BY <1>1, <2>3, <2>4, <2>5, StreamStep
<1>3. CASE ~IsCurrent(c)
  <2>1. UNCHANGED <<stream, requests, idle>>
    BY <1>3 DEF CredentialsReady
  <2>2. StreamTypes'
    BY <1>1, <2>1, StreamFacts DEF StreamTypes
  <2>3. StreamIsSound' /\ WireMatches'
    BY <1>1, <2>1, StreamFacts DEF StreamIsSound, StreamAssertions, WireMatches
  <2>. QED BY <1>1, <2>2, <2>3, StreamStep
<1>. QED BY <1>2, <1>3

LEMMA BackoffSafe == ASSUME IInv, BackoffElapsed PROVE IInv'
<1>1. /\ UNCHANGED <<clientVars, pipeline, history, server>>
      /\ UNCHANGED <<handshake, idle, closeCount, requests, replies>>
      /\ stream = "backoff" /\ stream' = "starting"
      /\ credentials' = credentials \cup {closeCount}
  BY DEF BackoffElapsed, wire
<1>2. StreamTypes'
  BY <1>1, StreamFacts DEF StreamTypes, StreamState
<1>3. StreamIsSound'
  BY <1>1, StreamFacts DEF StreamIsSound, StreamAssertions, StreamTypes
<1>4. WireMatches'
  BY <1>1, StreamFacts DEF WireMatches
<1>. QED BY <1>1, <1>2, <1>3, <1>4, StreamStep

\* The stream is closed and its messages are gone.
LEMMA CloseSafe ==
  ASSUME IInv, UNCHANGED <<clientVars, pipeline, history, server>>,
         closeCount' = closeCount + 1, credentials' \subseteq credentials,
         stream' \in StreamState \ {"open", "starting"},
         handshake' = FALSE, idle' = FALSE, requests' = <<>>, replies' = <<>>
  PROVE  IInv'
<1>1. StreamTypes'
  <2>1. requests' \in Seq(Message) /\ replies' \in Seq(Answer)
    BY StreamFacts
  <2>2. closeCount' \in Nat /\ credentials' \subseteq Nat
    BY StreamFacts DEF StreamTypes
  <2>. QED BY <2>1, <2>2, StreamFacts DEF StreamTypes
<1>2. StreamIsSound'
  BY StreamFacts DEF StreamIsSound, StreamAssertions, StreamTypes
<1>3. WireMatches'
  <2>1. \A i \in 1..Len(replies') : i < Len(replies') => replies'[i].ok
    OBVIOUS
  <2>. QED BY <2>1 DEF WireMatches
<1>. QED BY <1>1, <1>2, <1>3, StreamStep

LEMMA BreakSafe == ASSUME IInv, NEW c \in 0..closeCount, Break(c) PROVE IInv'
<1>1. AfterBreak \in StreamState \ {"open", "starting"}
  BY DEF AfterBreak, StreamState
<1>. QED BY <1>1, CloseSafe DEF Break, DroppedReplies

LEMMA IdleSafe == ASSUME IInv, IdleTimeout PROVE IInv'
<1>1. "initial" \in StreamState \ {"open", "starting"}
  BY DEF StreamState
<1>. QED BY <1>1, CloseSafe DEF IdleTimeout

-----------------------------------------------------------------------------
(* The server *)

\* The next request after the handshake is the next unanswered write of the queue.
LEMMA NextRequest ==
  ASSUME IInv, requests # <<>>, Head(requests) # Handshake
  PROVE  /\ handshake /\ stream = "open" /\ Len(requests) \in Nat \ {0}
         /\ Len(replies) + 1 \in 1..Len(pipeline)
         /\ Len(replies) + 1 \in 1..Len(mutations[user])
         /\ Head(requests) = mutations[user][Len(replies) + 1].write
         /\ Head(requests) \in 1..submitted /\ Head(requests) \in Writes
         /\ owner[Head(requests)] = user
<1>1. Len(requests) \in Nat \ {0} /\ Head(requests) = requests[1]
  BY StreamFacts, LenProperties, EmptySeq DEF StreamTypes
<1>2. stream = "open" /\ handshake
  <2>1. stream = "open"
    BY StreamFacts DEF WireMatches
  <2>2. CASE ~handshake
    <3>1. requests = <<Handshake>>
      BY <2>1, <2>2, StreamFacts DEF WireMatches
    <3>. QED BY <3>1
  <2>. QED BY <2>1, <2>2
<1>3. Len(pipeline) = Len(replies) + Len(requests) /\ requests[1] = pipeline[Len(replies) + 1].write
  BY <1>1, <1>2, StreamFacts DEF WireMatches
<1>4. Len(replies) + 1 \in 1..Len(pipeline) /\ Len(replies) + 1 \in 1..Len(mutations[user])
  BY <1>1, <1>3, CurrentQueue DEF Starts
<1>5. pipeline[Len(replies) + 1] = mutations[user][Len(replies) + 1]
  BY <1>4, CurrentQueue DEF Starts
<1>6. /\ mutations[user][Len(replies) + 1].write \in Writes
      /\ mutations[user][Len(replies) + 1].write <= submitted
      /\ owner[mutations[user][Len(replies) + 1].write] = user
  BY SMTT(30), <1>4, CurrentQueue, Numbers DEF IInv, QueueInv, QueuesInOrder
<1>7. mutations[user][Len(replies) + 1].write \in 1..submitted
  <2>1. submitted \in Nat
    BY Assumed DEF IInv, TypeOK, Assumptions
  <2>2. mutations[user][Len(replies) + 1].write \in Nat \ {0}
    BY <1>6, Numbers
  <2>. QED BY <1>6, <2>1, <2>2
<1>. QED BY <1>1, <1>2, <1>3, <1>4, <1>5, <1>6, <1>7

\* A request moves over to the replies.
LEMMA AnswerOnWire ==
  ASSUME IInv, NEW ok \in BOOLEAN, Serving, Head(requests) # Handshake,
         UNCHANGED <<clientVars, streamVars>>,
         requests' = Tail(requests), replies' = Append(replies, Reply(Head(requests), ok))
  PROVE  /\ StreamTypes' /\ StreamInv' /\ Len(replies') = Len(replies) + 1
         /\ \A i \in 1..Len(replies) : replies'[i] = replies[i]
         /\ replies'[Len(replies) + 1] = Reply(Head(requests), ok)
<1>1. requests # <<>> /\ \A i \in 1..Len(replies) : replies[i].ok
  BY StreamFacts, LenProperties DEF Serving, StreamTypes
<1>2. /\ handshake /\ Len(requests) \in Nat \ {0}
      /\ Len(replies) + 1 \in 1..Len(pipeline) /\ Head(requests) \in Writes
      /\ pipeline[Len(replies) + 1].write = Head(requests)
  BY <1>1, NextRequest, CurrentQueue DEF Starts
<1>3. Reply(Head(requests), ok) \in Answer
  BY <1>2 DEF Reply, Answer, Message
<1>4. /\ replies' \in Seq(Answer) /\ Len(replies') = Len(replies) + 1
      /\ \A i \in 1..Len(replies) : replies'[i] = replies[i]
      /\ replies'[Len(replies) + 1] = Reply(Head(requests), ok)
  BY <1>3, StreamFacts, AppendProperties DEF StreamTypes
<1>5. /\ requests' \in Seq(Message) /\ Len(requests') = Len(requests) - 1
      /\ \A i \in 1..Len(requests') : requests'[i] = requests[i + 1]
  BY <1>1, StreamFacts, HeadTailProperties DEF StreamTypes
<1>6. Len(replies) \in Nat
  BY CurrentQueue
<1>7. StreamTypes'
  BY <1>4, <1>5, StreamFacts DEF StreamTypes, streamVars
<1>8. StreamIsSound' /\ PipelineIsPrefix'
  BY StreamFacts DEF StreamIsSound, StreamAssertions, streamVars, clientVars, IInv, StreamInv,
                     PipelineIsPrefix, Starts
<1>9. WireMatches'
  <2>1. /\ Len(pipeline) = Len(replies) + Len(requests)
        /\ \A i \in 1..Len(replies) : replies[i].to = pipeline[i].write
        /\ \A i \in 1..Len(requests) : requests[i] = pipeline[Len(replies) + i].write
    BY <1>2, StreamFacts DEF WireMatches
  <2>2. Len(pipeline) = Len(replies') + Len(requests')
    BY <2>1, <1>2, <1>4, <1>5, <1>6
  <2>3. \A i \in 1..Len(replies') : replies'[i].to = pipeline[i].write
    <3>1. replies'[Len(replies) + 1].to = Head(requests)
      BY <1>4 DEF Reply
    <3>2. \A i \in 1..Len(replies') : i \in 1..Len(replies) \/ i = Len(replies) + 1
      BY <1>4, <1>6
    <3>. QED BY <3>1, <3>2, <1>2, <1>4, <2>1
  <2>4. ASSUME NEW i \in 1..Len(requests') PROVE requests'[i] = pipeline[Len(replies') + i].write
    <3>1. i + 1 \in 1..Len(requests) /\ Len(replies) + (i + 1) = Len(replies') + i
      BY <1>2, <1>4, <1>5, <1>6
    <3>2. requests'[i] = requests[i + 1]
      BY <1>5
    <3>3. requests[i + 1] = pipeline[Len(replies) + (i + 1)].write
      BY <2>1, <3>1
    <3>. QED BY <3>1, <3>2, <3>3
  <2>5. \A i \in 1..Len(replies') : i < Len(replies') => replies'[i].ok
    <3>1. \A i \in 1..Len(replies') : i < Len(replies') => i \in 1..Len(replies)
      BY <1>4, <1>6
    <3>. QED BY <3>1, <1>1, <1>4
  <2>6. stream = "open"
    BY <1>1, NextRequest
  <2>. QED BY <2>2, <2>3, <2>4, <2>5, <2>6, <1>2 DEF WireMatches, streamVars
<1>. QED BY <1>4, <1>7, <1>8, <1>9 DEF StreamInv

\* The handshake is the first and only request until it is answered.
LEMMA HandshakeIsFirst ==
  ASSUME IInv, requests # <<>>, Head(requests) = Handshake
  PROVE  stream = "open" /\ ~handshake /\ requests = <<Handshake>> /\ replies = <<>>
<1>1. stream = "open" /\ ~handshake
  <2>1. CASE handshake
    <3>1. Len(requests) \in Nat \ {0} /\ Head(requests) = requests[1]
      BY StreamFacts, LenProperties, EmptySeq DEF StreamTypes
    <3>2. requests[1] = pipeline[Len(replies) + 1].write /\ Len(replies) + 1 \in 1..Len(pipeline)
      BY <2>1, <3>1, StreamFacts, CurrentQueue DEF WireMatches
    <3>3. pipeline[Len(replies) + 1].write \in Writes
      BY <3>2, CurrentQueue, Numbers
    <3>. QED BY <3>1, <3>2, <3>3, StreamFacts
  <2>. QED BY <2>1, StreamFacts DEF WireMatches
<1>2. requests = <<Handshake>> /\ replies = <<>>
  BY <1>1, StreamFacts DEF WireMatches
<1>. QED BY <1>1, <1>2

LEMMA ServerHandshakeSafe == ASSUME IInv, ServerHandshake PROVE IInv'
<1>1. /\ UNCHANGED <<clientVars, streamVars, history, server>>
      /\ requests # <<>> /\ Head(requests) = Handshake
      /\ requests' = Tail(requests) /\ replies' = Append(replies, Reply(Handshake, TRUE))
  BY DEF ServerHandshake, Serving
<1>2. stream = "open" /\ ~handshake
  BY <1>1, HandshakeIsFirst
<1>3. requests = <<Handshake>> /\ replies = <<>>
  BY <1>1, HandshakeIsFirst
<1>4. requests' = <<>> /\ replies' = <<Reply(Handshake, TRUE)>>
  BY <1>1, <1>3
<1>5. Reply(Handshake, TRUE) \in Answer
  BY StreamFacts DEF Reply, Answer
<1>6. StreamTypes'
  <2>1. \A r \in Answer : <<r>> \in Seq(Answer)
    OBVIOUS
  <2>2. requests' \in Seq(Message) /\ replies' \in Seq(Answer)
    BY <1>4, <1>5, <2>1, StreamFacts
  <2>. QED BY <1>1, <2>2, StreamFacts DEF StreamTypes, streamVars
<1>7. StreamIsSound'
  BY <1>1, StreamFacts DEF StreamIsSound, StreamAssertions, streamVars
<1>8. WireMatches'
  <2>1. \A i \in 1..Len(replies') : ~(i < Len(replies'))
    BY <1>4
  <2>. QED BY <1>1, <1>2, <1>4, <2>1 DEF WireMatches, streamVars
<1>. QED BY <1>1, <1>2, <1>6, <1>7, <1>8, StreamFacts, StreamStep DEF streamVars, StreamTypes

LEMMA CommitSafe == ASSUME IInv, ServerCommit PROVE IInv'
<1>. DEFINE w == Head(requests)
<1>1. /\ UNCHANGED <<clientVars, streamVars, history, refused>> /\ Serving /\ w # Handshake
      /\ committed' = committed \cup {w} /\ doc' = [doc EXCEPT ![owner[w]] = w]
      /\ requests' = Tail(requests) /\ replies' = Append(replies, Reply(w, TRUE))
  BY DEF ServerCommit
<1>2. /\ handshake /\ w \in Writes /\ w \in 1..submitted /\ owner[w] = user
      /\ Len(replies) + 1 \in 1..Len(mutations[user])
      /\ w = mutations[user][Len(replies) + 1].write
  BY <1>1, NextRequest DEF Serving
<1>3. /\ StreamTypes' /\ StreamInv' /\ Len(replies') = Len(replies) + 1
      /\ \A i \in 1..Len(replies) : replies'[i] = replies[i]
      /\ replies'[Len(replies) + 1] = Reply(w, TRUE)
  BY <1>1, AnswerOnWire
<1>4. ClientTypes' /\ QueueInv'
  BY <1>1, QueueUnchanged
<1>5. user \in Users /\ doc \in [Users -> 0..MaxWrites] /\ committed \subseteq Writes
  BY DEF IInv, TypeOK
<1>6. w \in 0..MaxWrites
  BY <1>2 DEF Writes
<1>7. ServerTypes'
  BY <1>1, <1>2, <1>5, <1>6 DEF ServerTypes, IInv, TypeOK
<1>8. doc'[user] = w /\ \A v \in Users \ {user} : doc'[v] = doc[v]
  BY <1>1, <1>2, <1>5
<1>9. RepliesAreTrue'
  <2>1. committed' \subseteq 1..submitted'
    BY <1>1, <1>2 DEF IInv, TruthInv, RepliesAreTrue, history
  <2>2. ASSUME NEW i \in 1..Len(replies') 
        PROVE  replies'[i].ok /\ replies'[i].to \in committed' /\ replies'[i].to <= w
    <3>1. CASE i = Len(replies) + 1
      BY <3>1, <1>1, <1>2, <1>3, Numbers DEF Reply
    <3>2. CASE i \in 1..Len(replies)
      <4>1. replies'[i] = replies[i] /\ replies[i].ok /\ replies[i].to \in committed
        BY <3>2, <1>1, <1>2, <1>3, StreamFacts, LenProperties
        DEF Serving, StreamTypes, IInv, TruthInv, RepliesAreTrue
      <4>2. replies[i].to = pipeline[i].write /\ pipeline[i] = mutations[user][i]
        BY <3>2, <1>2, StreamFacts, CurrentQueue DEF WireMatches, Starts
      <4>3. i \in 1..Len(mutations[user]) /\ i < Len(replies) + 1
        BY <3>2, <1>2, CurrentQueue
      <4>4. mutations[user][i].write < w
        BY <4>3, <1>2, CurrentQueue DEF InOrder
      <4>5. mutations[user][i].write \in Nat
        BY <4>3, CurrentQueue, Numbers
      <4>. QED BY <4>1, <4>2, <4>4, <4>5, <1>1, <1>2
    <3>. QED BY <3>1, <3>2, <1>3, CurrentQueue
  <2>. QED BY <1>1, <1>8, <2>1, <2>2 DEF RepliesAreTrue, clientVars
<1>10. AnswersAreTrue'
  BY <1>1 DEF IInv, TruthInv, AnswersAreTrue, history
<1>11. NoLostUpdate'
  <2>. SUFFICES ASSUME NEW x \in committed' \ refused', x > doc'[owner[x]]
                PROVE  IsQueued(x)
    <3>1. \A x \in committed' : owner[x] \in Users
      BY <1>1, <1>2, <1>5 DEF IInv, TypeOK
    <3>2. \A v \in Users : DOMAIN mutations[v] = 1..Len(mutations[v])
      BY CurrentQueue, LenProperties
    <3>. QED BY <1>1, <3>1, <3>2 DEF NoLostUpdate, IsQueued, clientVars, history
  <2>1. CASE owner[x] = user
    <3>1. x \in committed /\ x > w /\ x \in 1..submitted
      BY <2>1, <1>1, <1>2, <1>8, Numbers DEF IInv, TruthInv, RepliesAreTrue
    <3>2. 1 \in 1..Len(mutations[user]) /\ mutations[user] # <<>>
      BY <1>2, CurrentQueue, EmptySeq
    <3>3. mutations[user][1].write \in Nat
      BY <3>2, CurrentQueue, Numbers
    <3>4. mutations[user][1].write <= w
      <4>1. CASE Len(replies) = 0
        BY <4>1, <3>3, <1>2
      <4>2. CASE Len(replies) # 0
        <5>1. 1 < Len(replies) + 1
          BY <4>2, CurrentQueue
        <5>2. mutations[user][1].write < mutations[user][Len(replies) + 1].write
          BY <5>1, <3>2, <1>2, CurrentQueue DEF InOrder
        <5>. QED BY <5>2, <3>3, <1>2
      <4>. QED BY <4>1, <4>2
    <3>5. mutations[user][1].write <= x
      BY <3>1, <3>3, <3>4, <1>2
    <3>. QED BY <2>1, <3>1, <3>2, <3>5 DEF IInv, QueueInv, QueuesAreComplete
  <2>2. CASE owner[x] # user
    <3>1. x \in committed \ refused /\ doc'[owner[x]] = doc[owner[x]]
      BY <2>2, <1>1, <1>2, <1>5, <1>8 DEF IInv, TypeOK
    <3>2. DOMAIN mutations[owner[x]] = 1..Len(mutations[owner[x]])
      BY <3>1, <1>5, CurrentQueue, LenProperties DEF IInv, TypeOK
    <3>. QED BY <3>1, <3>2 DEF IInv, TruthInv, NoLostUpdate, IsQueued
  <2>. QED BY <2>1, <2>2
<1>. QED BY <1>3, <1>4, <1>7, <1>9, <1>10, <1>11, AllParts DEF TruthInv

LEMMA RefuseSafe == ASSUME IInv, ServerRefuse PROVE IInv'
<1>. DEFINE w == Head(requests)
<1>1. /\ UNCHANGED <<clientVars, streamVars, history, committed, doc>> /\ Serving /\ w # Handshake
      /\ refused' = refused \cup {w}
      /\ requests' = Tail(requests) /\ replies' = Append(replies, Reply(w, FALSE))
  BY DEF ServerRefuse
<1>2. handshake /\ w \in Writes
  BY <1>1, NextRequest DEF Serving
<1>3. /\ StreamTypes' /\ StreamInv' /\ Len(replies') = Len(replies) + 1
      /\ \A i \in 1..Len(replies) : replies'[i] = replies[i]
      /\ replies'[Len(replies) + 1] = Reply(w, FALSE)
  BY <1>1, AnswerOnWire
<1>4. ClientTypes' /\ QueueInv'
  BY <1>1, QueueUnchanged
<1>5. ServerTypes'
  BY <1>1, <1>2 DEF ServerTypes, IInv, TypeOK
<1>6. RepliesAreTrue'
  <2>1. \A i \in 1..Len(replies') : i \in 1..Len(replies) \/ i = Len(replies) + 1
    BY <1>3, CurrentQueue
  <2>2. replies'[Len(replies) + 1].ok = FALSE /\ replies'[Len(replies) + 1].to = w
    BY <1>3 DEF Reply
  <2>3. \A i \in 1..Len(replies) : replies'[i] = replies[i]
    BY <1>3
  <2>. HIDE DEF w
  <2>4. ASSUME NEW i \in 1..Len(replies')
        PROVE  IF replies'[i].ok THEN replies'[i].to \in committed /\ replies'[i].to <= doc[user]
               ELSE replies'[i].to \in refused'
    <3>1. CASE i \in 1..Len(replies)
      BY <3>1, <2>3, <1>1, <1>2 DEF IInv, TruthInv, RepliesAreTrue
    <3>2. CASE i = Len(replies) + 1
      BY <3>2, <2>2, <1>1
    <3>. QED BY <2>1, <3>1, <3>2
  <2>. QED BY <2>4, <1>1 DEF IInv, TruthInv, RepliesAreTrue, clientVars, history
<1>7. AnswersAreTrue' /\ NoLostUpdate'
  BY <1>1 DEF IInv, TruthInv, AnswersAreTrue, NoLostUpdate, history, clientVars
<1>. QED BY <1>3, <1>4, <1>5, <1>6, <1>7, AllParts DEF TruthInv

-----------------------------------------------------------------------------
(* The handshake *)

\* A reply to a write is read on an open stream after the handshake: it is for
\* the first write of the pipeline, which is the first of the queue.
LEMMA FirstReply ==
  ASSUME IInv, replies # <<>>
  PROVE  /\ stream = "open" /\ Len(replies) \in Nat \ {0} /\ Head(replies) = replies[1]
         /\ ~handshake => requests = <<>> /\ replies = <<Reply(Handshake, TRUE)>>
         /\ handshake => /\ pipeline # <<>> /\ Len(pipeline) \in Nat \ {0}
                         /\ mutations[user] # <<>> /\ Len(mutations[user]) \in Nat \ {0}
                         /\ replies[1].to = mutations[user][1].write
                         /\ Head(pipeline) = mutations[user][1]
                         /\ replies[1].to # Handshake
<1>1. Len(replies) \in Nat \ {0} /\ Head(replies) = replies[1]
  BY StreamFacts, LenProperties, EmptySeq DEF StreamTypes
<1>2. stream = "open" /\ (~handshake => requests = <<>> /\ replies = <<Reply(Handshake, TRUE)>>)
  BY StreamFacts DEF WireMatches
<1>3. ASSUME handshake
      PROVE  /\ pipeline # <<>> /\ Len(pipeline) \in Nat \ {0}
             /\ mutations[user] # <<>> /\ Len(mutations[user]) \in Nat \ {0}
             /\ replies[1].to = mutations[user][1].write
             /\ Head(pipeline) = mutations[user][1]
             /\ replies[1].to # Handshake
  <2>1. Len(pipeline) = Len(replies) + Len(requests) /\ replies[1].to = pipeline[1].write
    BY <1>1, <1>3, StreamFacts DEF WireMatches
  <2>2. Len(pipeline) \in Nat \ {0} /\ Len(mutations[user]) \in Nat \ {0}
    BY <2>1, <1>1, CurrentQueue DEF Starts
  <2>3. pipeline[1] = mutations[user][1] /\ pipeline # <<>> /\ mutations[user] # <<>>
    BY <2>2, CurrentQueue, EmptySeq DEF Starts
  <2>4. mutations[user][1].write \in Writes
    BY <2>2, CurrentQueue, Numbers
  <2>5. Head(pipeline) = pipeline[1]
    BY <2>3, CurrentQueue
  <2>. QED BY <2>1, <2>2, <2>3, <2>4, <2>5, StreamFacts
<1>. QED BY <1>1, <1>2, <1>3

LEMMA HandshakeSafe == ASSUME IInv, OnHandshakeComplete PROVE IInv'
<1>1. /\ replies # <<>> /\ Head(replies).to = Handshake /\ handshake' = TRUE
      /\ requests' = requests \o WritesOf(pipeline) /\ replies' = Tail(replies)
      /\ idle' = (idle /\ pipeline = <<>>)
      /\ UNCHANGED <<clientVars, pipeline, stream, closeCount, credentials, history, server>>
  BY DEF OnHandshakeComplete
<1>2. ~handshake /\ stream = "open" /\ requests = <<>> /\ replies = <<Reply(Handshake, TRUE)>>
  BY <1>1, FirstReply
<1>3. replies' = <<>>
  BY <1>1, <1>2
<1>4. /\ WritesOf(pipeline) \in Seq(Message) /\ Len(WritesOf(pipeline)) = Len(pipeline)
      /\ \A i \in 1..Len(pipeline) : WritesOf(pipeline)[i] = pipeline[i].write
  <2>1. \A i \in 1..Len(pipeline) : pipeline[i].write \in Message
    BY CurrentQueue, Numbers DEF Message
  <2>2. WritesOf(pipeline) = [i \in 1..Len(pipeline) |-> pipeline[i].write]
    BY CurrentQueue, LenProperties DEF WritesOf
  <2>. QED BY <2>1, <2>2, CurrentQueue, LenProperties, IsASeq
<1>5. requests' = WritesOf(pipeline)
  BY <1>1, <1>2, <1>4, ConcatEmptySeq
<1>6. StreamTypes'
  BY <1>1, <1>3, <1>4, <1>5, StreamFacts DEF StreamTypes
<1>7. StreamInv'
  <2>1. WireMatches'
    <3>1. \A i \in 1..Len(replies') : FALSE
      BY <1>3
    <3>2. Len(replies') = 0 /\ \A i \in 1..Len(pipeline) : 0 + i = i
      BY <1>3, CurrentQueue
    <3>. QED BY <1>1, <1>2, <1>4, <1>5, <3>1, <3>2, CurrentQueue DEF WireMatches
  <2>2. StreamIsSound' /\ PipelineIsPrefix'
    BY <1>1, <1>2, StreamFacts
    DEF StreamIsSound, StreamAssertions, IInv, StreamInv, PipelineIsPrefix, Starts, clientVars
  <2>. QED BY <2>1, <2>2 DEF StreamInv
<1>8. ClientTypes' /\ QueueInv'
  BY <1>1, QueueUnchanged
<1>9. TruthInv' /\ ServerTypes'
  <2>1. RepliesAreTrue'
    <3>1. \A i \in 1..Len(replies') : FALSE
      BY <1>3
    <3>. QED BY <3>1, <1>1 DEF IInv, TruthInv, RepliesAreTrue, history, server
  <2>2. AnswersAreTrue' /\ NoLostUpdate' /\ ServerTypes'
    BY <1>1, TypesAre
    DEF IInv, TruthInv, AnswersAreTrue, NoLostUpdate, ServerTypes, server, history, clientVars
  <2>. QED BY <2>1, <2>2 DEF TruthInv
<1>. QED BY <1>6, <1>7, <1>8, <1>9, AllParts

-----------------------------------------------------------------------------
(* The pipeline of a started stream is refilled *)

\* A refill keeps the pipeline a prefix of the queue.
LEMMA Refilled ==
  ASSUME IInv, NEW q \in Seq(Batch), NEW p \in Seq(Batch), InOrder(q), Starts(p, q),
         Len(p) <= MaxPendingWrites, idle => p = <<>>,
         FillWritePipeline(p, q, stream, closeCount, requests, credentials),
         handshake' = handshake, mutations'[user'] = q, replies' \in Seq(Answer),
         handshake \/ (replies' = replies /\ q # <<>>),
         handshake => /\ Len(p) = Len(replies') + Len(requests)
                      /\ \A i \in 1..Len(replies') : replies'[i].to = p[i].write
                      /\ \A i \in 1..Len(requests) : requests[i] = p[Len(replies') + i].write,
         \A i \in 1..Len(replies') : i < Len(replies') => replies'[i].ok
  PROVE  StreamTypes' /\ StreamInv'
<1>1. /\ stream \in StreamState /\ closeCount \in Nat /\ requests \in Seq(Message)
      /\ credentials \in SUBSET Nat /\ handshake \in BOOLEAN /\ idle \in BOOLEAN
      /\ idle => handshake
  BY StreamFacts DEF StreamTypes, StreamIsSound
<1>2. /\ pipeline' \in Seq(Batch) /\ Starts(pipeline', q)
      /\ Len(pipeline') <= MaxPendingWrites /\ Len(p) <= Len(pipeline')
      /\ pipeline' = <<>> => q = <<>>
      /\ requests' \in Seq(Message)
      /\ ~(stream = "open" /\ handshake) => requests' = requests
      /\ stream = "open" /\ handshake =>
            /\ Len(requests') = Len(requests) + (Len(pipeline') - Len(p))
            /\ \A i \in 1..Len(requests') :
                  requests'[i] = IF i <= Len(requests) THEN requests[i]
                                 ELSE pipeline'[Len(p) + (i - Len(requests))].write
  BY <1>1, FillEffect
<1>3. /\ stream' \in StreamState /\ (stream' = "open" <=> stream = "open")
      /\ idle' \in BOOLEAN /\ (idle' => stream = "open" /\ pipeline' = <<>>)
      /\ closeCount' = closeCount /\ credentials' \subseteq credentials \cup {closeCount}
      /\ closeCount \in credentials' => closeCount \in credentials \/ stream' = "starting"
      /\ IsStarted(stream) => stream' = stream /\ credentials' = credentials
  BY <1>1, FillEffect
<1>4. StreamTypes'
  BY <1>1, <1>2, <1>3 DEF StreamTypes
<1>5. StreamIsSound'
  <2>1. credentials' \subseteq 0..closeCount'
    BY <1>1, <1>3, StreamFacts DEF StreamIsSound
  <2>2. closeCount' \in credentials' => stream' = "starting"
    BY <1>3, StreamFacts DEF StreamIsSound, StreamAssertions, IsStarted
  <2>3. idle' => stream' = "open" /\ pipeline' = <<>> /\ handshake'
    BY <1>2, <1>3
  <2>4. handshake' => stream' = "open"
    BY <1>3, StreamFacts DEF StreamIsSound
  <2>. QED BY <2>1, <2>2, <2>3, <2>4 DEF StreamIsSound, StreamAssertions
<1>6. PipelineIsPrefix'
  BY <1>2 DEF PipelineIsPrefix
<1>7. WireMatches'
  <2>1. CASE ~handshake
    BY <2>1, <1>2, <1>3, StreamFacts DEF WireMatches
  <2>2. CASE handshake
    <3>1. stream = "open" /\ stream' = "open"
      BY <2>2, <1>3, StreamFacts DEF StreamIsSound
    <3>2. /\ Len(p) = Len(replies') + Len(requests) /\ Len(p) \in Nat
          /\ Len(replies') \in Nat /\ Len(requests) \in Nat /\ Len(pipeline') \in Nat
      BY <2>2, <1>1, <1>2, LenProperties
    <3>3. /\ Len(requests') = Len(requests) + (Len(pipeline') - Len(p))
          /\ \A i \in 1..Len(requests') :
                  requests'[i] = IF i <= Len(requests) THEN requests[i]
                                 ELSE pipeline'[Len(p) + (i - Len(requests))].write
      BY <2>2, <3>1, <1>2
    <3>4. \A i \in 1..Len(p) : pipeline'[i] = p[i]
      BY <1>2, <3>2 DEF Starts
    <3>5. Len(pipeline') = Len(replies') + Len(requests')
      BY <3>2, <3>3
    <3>6. \A i \in 1..Len(replies') : replies'[i].to = pipeline'[i].write
      BY <2>2, <3>2, <3>4
    <3>7. ASSUME NEW i \in 1..Len(requests') PROVE requests'[i] = pipeline'[Len(replies') + i].write
      <4>1. CASE i <= Len(requests)
        <5>1. requests'[i] = requests[i] /\ i \in 1..Len(requests)
          BY <4>1, <3>2, <3>3
        <5>2. requests[i] = p[Len(replies') + i].write
          BY <2>2, <5>1
        <5>3. Len(replies') + i \in 1..Len(p)
          BY <5>1, <3>2
        <5>. QED BY <5>1, <5>2, <5>3, <3>4
      <4>2. CASE ~(i <= Len(requests))
        <5>1. requests'[i] = pipeline'[Len(p) + (i - Len(requests))].write
          BY <4>2, <3>3
        <5>2. Len(p) + (i - Len(requests)) = Len(replies') + i
          BY <3>2
        <5>. QED BY <5>1, <5>2
      <4>. QED BY <4>1, <4>2
    <3>. QED BY <2>2, <3>1, <3>5, <3>6, <3>7 DEF WireMatches
  <2>. QED BY <2>1, <2>2
<1>. QED BY <1>4, <1>5, <1>6, <1>7 DEF StreamInv

-----------------------------------------------------------------------------
(* A write is made *)

LEMMA WriteSafe == ASSUME IInv, Write PROVE IInv'
<1>0. PICK w : w = submitted + 1
  OBVIOUS
<1>. DEFINE b == [id |-> nextBatchId, write |-> w]
            q == mutations[user]
            n == Len(q) + 1
<1>1. /\ submitted < MaxWrites /\ submitted' = w
      /\ owner' = [owner EXCEPT ![w] = user] /\ answer' = [answer EXCEPT ![w] = "waiting"]
      /\ mutations' = [mutations EXCEPT ![user] = Put(q, b)]
      /\ nextBatchId' = nextBatchId + 1
      /\ FillWritePipeline(pipeline, Put(q, b), stream, closeCount, requests, credentials)
      /\ UNCHANGED <<user, handshake, replies, server>>
  BY <1>0 DEF Write
<1>2. /\ submitted \in Nat /\ w = submitted + 1 /\ w \in Nat
      /\ w \in Writes /\ nextBatchId \in Writes /\ nextBatchId <= w
      /\ w \notin 1..submitted /\ MaxWrites \in Nat
  BY <1>0, <1>1, Assumed DEF IInv, TypeOK, QueueInv, QueuesInOrder, Writes, Assumptions
<1>3. b \in Batch /\ b.id = nextBatchId /\ b.write = w
  BY <1>2 DEF Batch
<1>4. /\ user \in Users /\ q \in Seq(Batch) /\ InOrder(q) /\ Len(q) \in Nat
      /\ \A i \in 1..Len(q) : /\ q[i].id < nextBatchId /\ q[i].write <= submitted
                              /\ owner[q[i].write] = user
      /\ \A v \in Users : \A i \in 1..Len(mutations[v]) :
            /\ mutations[v][i].write \in Nat \ {0} /\ mutations[v][i].write \in Writes
            /\ mutations[v][i].id \in Nat /\ mutations[v][i].id < nextBatchId
            /\ mutations[v][i].write <= submitted /\ owner[mutations[v][i].write] = v
  BY SMTT(30), CurrentQueue, Numbers DEF IInv, QueueInv, QueuesInOrder
<1>5. Put(q, b) = Append(q, b)
  BY <1>3, <1>4, PutAppends
<1>. HIDE DEF b
<1>6. /\ mutations' \in [Users -> Seq(Batch)] /\ mutations'[user] = Append(q, b)
      /\ Append(q, b) \in Seq(Batch) /\ Len(Append(q, b)) = n /\ Append(q, b)[n] = b
      /\ \A i \in 1..Len(q) : Append(q, b)[i] = q[i]
      /\ \A v \in Users \ {user} : mutations'[v] = mutations[v]
  <2>1. mutations \in [Users -> Seq(Batch)]
    BY DEF IInv, TypeOK
  <2>. QED BY <2>1, <1>1, <1>3, <1>4, <1>5, AppendProperties
<1>7. /\ owner' \in [Writes -> Users] /\ owner'[w] = user
      /\ answer' \in [Writes -> {"none", "waiting", "ok", "error", "lost"}] /\ answer'[w] = "waiting"
      /\ \A x \in Writes \ {w} : owner'[x] = owner[x] /\ answer'[x] = answer[x]
  BY SMTT(30), <1>1, <1>2, <1>4 DEF IInv, TypeOK
<1>8. callbacks' = callbacks \cup {[user |-> user, id |-> nextBatchId, write |-> w]}
  <2>1. \A c \in callbacks : ~(c.user = user /\ c.id = nextBatchId)
    <3>. SUFFICES ASSUME NEW c \in callbacks, c.user = user, c.id = nextBatchId PROVE FALSE
      OBVIOUS
    <3>1. PICK i \in 1..Len(q) : q[i].id = c.id
      BY DEF IInv, QueueInv, CallbacksMatch
    <3>. QED BY <3>1, <1>2, <1>4, Numbers
  <2>. QED BY <1>0, <2>1 DEF Write
<1>9. ClientTypes'
  <2>1. callbacks' \subseteq Callback
    BY <1>2, <1>4, <1>8 DEF Callback, IInv, TypeOK
  <2>2. submitted' \in 0..MaxWrites /\ nextBatchId' \in 1..(MaxWrites + 1)
    BY <1>0, <1>1, <1>2 DEF Writes
  <2>. QED BY <2>1, <2>2, <1>1, <1>4, <1>6, <1>7 DEF ClientTypes
<1>10. \A v \in Users : /\ v # user => mutations'[v] = mutations[v]
                        /\ Len(mutations[v]) <= Len(mutations'[v])
                        /\ \A i \in 1..Len(mutations[v]) : /\ i \in 1..Len(mutations'[v])
                                                           /\ mutations'[v][i] = mutations[v][i]
  <2>1. \A v \in Users : Len(mutations[v]) \in Nat
    BY CurrentQueue, LenProperties
  <2>2. /\ Len(mutations[user]) <= Len(mutations'[user])
        /\ \A i \in 1..Len(mutations[user]) : /\ i \in 1..Len(mutations'[user])
                                              /\ mutations'[user][i] = mutations[user][i]
    BY <1>4, <1>6
  <2>3. \A v \in Users \ {user} : mutations'[v] = mutations[v]
    BY <1>6
  <2>. QED BY <2>1, <2>2, <2>3
<1>11. InOrder(Append(q, b))
  <2>. SUFFICES ASSUME NEW i \in 1..n, NEW j \in 1..n, i < j
                PROVE  /\ Append(q, b)[i].id < Append(q, b)[j].id
                       /\ Append(q, b)[i].write < Append(q, b)[j].write
    BY <1>6 DEF InOrder
  <2>1. i \in 1..Len(q) /\ Append(q, b)[i] = q[i]
    BY <1>4, <1>6
  <2>2. CASE j = n
    BY <2>1, <2>2, <1>2, <1>3, <1>4, <1>6
  <2>3. CASE j \in 1..Len(q)
    BY <2>1, <2>3, <1>4, <1>6 DEF InOrder
  <2>4. j = n \/ j \in 1..Len(q)
    <3>1. Len(q) \in Nat
      BY <1>4
    <3>. QED BY <3>1
  <2>. QED BY <2>2, <2>3, <2>4
<1>12. QueuesInOrder'
  <2>1. nextBatchId' <= submitted' + 1
    BY <1>1, <1>2, Numbers
  <2>2. ASSUME NEW v \in Users, NEW i \in 1..Len(mutations'[v])
        PROVE  /\ mutations'[v][i].id < nextBatchId'
               /\ mutations'[v][i].write <= submitted'
               /\ owner'[mutations'[v][i].write] = v
    <3>1. CASE i \in 1..Len(mutations[v])
      <4>1. mutations'[v][i] = mutations[v][i]
        BY <3>1, <1>10
      <4>2. /\ mutations[v][i].write \in Writes \ {w}
            /\ mutations[v][i].write \in Nat /\ mutations[v][i].id \in Nat
            /\ mutations[v][i].id < nextBatchId
            /\ mutations[v][i].write <= submitted /\ owner[mutations[v][i].write] = v
        BY <3>1, <1>2, <1>4
      <4>3. nextBatchId \in Nat
        BY <1>2, Numbers
      <4>. QED BY <4>1, <4>2, <4>3, <1>1, <1>2, <1>7
    <3>2. CASE v = user /\ i = n
      <4>1. mutations'[v][i] = b /\ nextBatchId \in Nat
        BY <3>2, <1>2, <1>6, Numbers
      <4>. QED BY <3>2, <4>1, <1>1, <1>2, <1>3, <1>7
    <3>. QED BY <3>1, <3>2, <1>4, <1>6
  <2>3. \A v \in Users : InOrder(mutations'[v])
    BY <1>6, <1>11, CurrentQueue
  <2>. QED BY <2>1, <2>2, <2>3 DEF QueuesInOrder, InOrder
<1>13. \A x \in Writes \ {w} : IsQueued(x) => IsQueued(x)'
  <2>. SUFFICES ASSUME NEW x \in Writes \ {w}, IsQueued(x) PROVE IsQueued(x)'
    OBVIOUS
  <2>1. owner'[x] = owner[x] /\ owner[x] \in Users
    BY <1>7 DEF IInv, TypeOK
  <2>2. PICK i \in 1..Len(mutations[owner[x]]) : mutations[owner[x]][i].write = x
    BY DEF IsQueued
  <2>. QED BY <2>1, <2>2, <1>10 DEF IsQueued
<1>14. n \in 1..Len(mutations'[user]) /\ mutations'[user][n] = b
  BY <1>4, <1>6
<1>19. IsQueued(w)'
  BY <1>3, <1>7, <1>14 DEF IsQueued
<1>15. QueuesAreComplete'
  <2>. SUFFICES ASSUME NEW x \in 1..w, x # w, mutations'[owner'[x]] # <<>>,
                       mutations'[owner'[x]][1].write <= x
                PROVE  IsQueued(x)'
    BY <1>1, <1>19 DEF QueuesAreComplete
  <2>1. x \in 1..submitted /\ x \in Writes \ {w}
    BY <1>0, <1>1, <1>2 DEF Writes
  <2>2. owner'[x] = owner[x] /\ owner[x] \in Users
    BY <2>1, <1>7 DEF IInv, TypeOK
  <2>3. Len(mutations[owner[x]]) \in Nat
    BY <2>2, CurrentQueue, LenProperties
  <2>4. CASE mutations[owner[x]] = <<>>
    <3>1. owner[x] = user
      BY <2>2, <2>4, <1>10
    <3>2. n = 1 /\ mutations'[owner'[x]][1] = b
      BY <2>2, <2>4, <3>1, <1>6
    <3>. QED BY <3>2, <2>1, <1>2, <1>3
  <2>5. CASE mutations[owner[x]] # <<>>
    <3>1. 1 \in 1..Len(mutations[owner[x]])
      BY <2>2, <2>3, <2>5, CurrentQueue, EmptySeq
    <3>2. mutations[owner[x]][1].write <= x
      BY <3>1, <2>2, <1>10
    <3>. QED BY <2>1, <2>5, <3>2, <1>13 DEF IInv, QueueInv, QueuesAreComplete
  <2>. QED BY <2>4, <2>5
<1>16. CallbacksMatch'
  <2>1. ASSUME NEW c \in callbacks'
        PROVE  /\ answer'[c.write] = "waiting"
               /\ \E i \in 1..Len(mutations'[c.user]) :
                    mutations'[c.user][i].id = c.id /\ mutations'[c.user][i].write = c.write
    <3>1. CASE c \in callbacks
      <4>1. c.write \in Writes /\ c.user \in Users /\ answer[c.write] = "waiting"
        BY <3>1 DEF IInv, TypeOK, Callback, QueueInv, CallbacksMatch
      <4>2. PICK i \in 1..Len(mutations[c.user]) :
               mutations[c.user][i].id = c.id /\ mutations[c.user][i].write = c.write
        BY <3>1 DEF IInv, QueueInv, CallbacksMatch
      <4>. QED BY <4>1, <4>2, <1>7, <1>10
    <3>2. CASE c = [user |-> user, id |-> nextBatchId, write |-> w]
      BY <3>2, <1>3, <1>7, <1>14
    <3>. QED BY <3>1, <3>2, <1>8
  <2>2. ASSUME NEW x \in Writes, answer'[x] = "waiting" PROVE \E c \in callbacks' : c.write = x
    <3>1. CASE x = w
      <4>1. [user |-> user, id |-> nextBatchId, write |-> w] \in callbacks'
        BY <1>8
      <4>. QED BY <3>1, <4>1
    <3>2. CASE x # w
      BY <2>2, <3>2, <1>7, <1>8 DEF IInv, QueueInv, CallbacksMatch
    <3>. QED BY <3>1, <3>2
  <2>. QED BY <2>1, <2>2 DEF CallbacksMatch
<1>17. StreamTypes' /\ StreamInv'
  <2>1. Starts(pipeline, Append(q, b))
    BY <1>4, <1>6, CurrentQueue DEF Starts
  <2>2. Append(q, b) # <<>>
    BY <1>3, <1>4, AppendProperties
  <2>3. /\ idle => pipeline = <<>>
        /\ replies' = replies /\ handshake' = handshake /\ replies' \in Seq(Answer)
        /\ mutations'[user'] = Append(q, b)
    BY <1>1, <1>6, StreamFacts DEF StreamIsSound, StreamAssertions, StreamTypes
  <2>4. /\ handshake => /\ Len(pipeline) = Len(replies') + Len(requests)
                        /\ \A i \in 1..Len(replies') : replies'[i].to = pipeline[i].write
                        /\ \A i \in 1..Len(requests) : requests[i] = pipeline[Len(replies') + i].write
        /\ \A i \in 1..Len(replies') : i < Len(replies') => replies'[i].ok
    BY <2>3, StreamFacts DEF WireMatches
  <2>5. FillWritePipeline(pipeline, Append(q, b), stream, closeCount, requests, credentials)
    BY <1>1, <1>5
  <2>. QED BY <2>1, <2>2, <2>3, <2>4, <2>5, <1>6, <1>11, CurrentQueue, Refilled
<1>18. TruthInv' /\ ServerTypes'
  <2>1. committed \subseteq 1..submitted /\ committed \subseteq Writes \ {w}
    BY <1>2, Numbers DEF IInv, TypeOK, TruthInv, RepliesAreTrue
  <2>2. committed' \subseteq 1..submitted'
    BY <2>1, <1>1, <1>2 DEF server
  <2>3. RepliesAreTrue'
    BY <2>2, <1>1 DEF IInv, TruthInv, RepliesAreTrue, server
  <2>4. AnswersAreTrue'
    BY <1>1, <1>7 DEF IInv, TruthInv, AnswersAreTrue, server
  <2>5. ASSUME NEW x \in committed' \ refused', x > doc'[owner'[x]] PROVE IsQueued(x)'
    <3>1. x \in committed \ refused /\ x \in Writes \ {w} /\ owner'[x] = owner[x] /\ owner[x] \in Users
      BY <2>1, <1>1, <1>7 DEF server, IInv, TypeOK
    <3>2. DOMAIN mutations[owner[x]] = 1..Len(mutations[owner[x]])
      BY <3>1, CurrentQueue, LenProperties
    <3>3. IsQueued(x)
      BY <2>5, <3>1, <3>2, <1>1 DEF IInv, TruthInv, NoLostUpdate, IsQueued, server
    <3>. QED BY <3>1, <3>3, <1>13
  <2>6. NoLostUpdate'
    <3>1. \A v \in Users : DOMAIN mutations'[v] = 1..Len(mutations'[v])
      BY <1>6, LenProperties
    <3>2. \A x \in committed' : owner'[x] \in Users
      BY <2>1, <1>1, <1>7 DEF server
    <3>. QED BY <2>5, <3>1, <3>2 DEF NoLostUpdate, IsQueued
  <2>7. ServerTypes'
    BY <1>1, TypesAre DEF IInv, ServerTypes, server
  <2>. QED BY <2>3, <2>4, <2>6, <2>7 DEF TruthInv
<1>. QED BY <1>9, <1>12, <1>15, <1>16, <1>17, <1>18, AllParts DEF QueueInv

-----------------------------------------------------------------------------
(* The first write of the pipeline is answered *)

\* The callback found under the id of the first batch is that of its write.
LEMMA FoundCallback ==
  ASSUME IInv, replies # <<>>, handshake, NEW c \in callbacks
  PROVE  c.user = user /\ c.id = Head(pipeline).id <=> c.write = mutations[user][1].write
<1>. DEFINE q == mutations[user]
<1>1. /\ user \in Users /\ q \in Seq(Batch) /\ InOrder(q) /\ Len(q) \in Nat
      /\ 1 \in 1..Len(q) /\ Head(pipeline) = q[1]
      /\ q[1].id \in Nat /\ q[1].write \in Nat /\ owner[q[1].write] = user
  <2>1. user \in Users /\ q \in Seq(Batch) /\ InOrder(q) /\ Len(q) \in Nat \ {0}
    BY FirstReply, CurrentQueue
  <2>2. 1 \in 1..Len(q) /\ Head(pipeline) = q[1]
    BY <2>1, FirstReply
  <2>3. owner[q[1].write] = user
    BY <2>1, <2>2 DEF IInv, QueueInv, QueuesInOrder
  <2>. QED BY <2>1, <2>2, <2>3, Numbers
<1>2. PICK i \in 1..Len(mutations[c.user]) :
         mutations[c.user][i].id = c.id /\ mutations[c.user][i].write = c.write
  BY DEF IInv, QueueInv, CallbacksMatch
<1>3. c.user \in Users /\ owner[c.write] = c.user
  BY <1>2 DEF IInv, TypeOK, Callback, QueueInv, QueuesInOrder
<1>4. \A j \in 1..Len(q) : j = 1 \/ (q[1].id < q[j].id /\ q[1].write < q[j].write)
  BY <1>1 DEF InOrder
<1>5. ASSUME c.user = user PROVE q[1].id = c.id <=> q[1].write = c.write
  BY <1>1, <1>2, <1>4, <1>5
<1>. QED BY <1>1, <1>3, <1>5

\* NotifyUser and the deletion of the batch: the first write is answered, if
\* it waits, and leaves the queue.
LEMMA HeadLeaves ==
  ASSUME IInv, replies # <<>>, handshake, NEW status \in {"ok", "error"},
         NotifyUser(Head(pipeline).id, status),
         mutations' = [mutations EXCEPT ![user] = Delete(mutations[user], Head(pipeline).id)],
         UNCHANGED <<user, nextBatchId, submitted, owner>>
  PROVE  /\ ClientTypes' /\ QueueInv'
         /\ Delete(mutations[user], Head(pipeline).id) = Tail(mutations[user])
         /\ mutations'[user] = Tail(mutations[user]) /\ Tail(mutations[user]) \in Seq(Batch)
         /\ \A x \in Writes :
              answer'[x] = IF x = mutations[user][1].write /\ answer[x] = "waiting"
                           THEN status ELSE answer[x]
         /\ \A x \in Writes : IsQueued(x) /\ x # mutations[user][1].write => IsQueued(x)'
<1>1. PICK q : q = mutations[user]
  OBVIOUS
<1>2. PICK h : h = q[1].write
  OBVIOUS
<1>3. /\ user \in Users /\ q \in Seq(Batch) /\ InOrder(q) /\ q # <<>> /\ Len(q) \in Nat \ {0}
      /\ 1 \in 1..Len(q) /\ Head(pipeline) = q[1]
      /\ h \in Nat /\ h \in Writes /\ owner[h] = user /\ h <= submitted
  <2>1. /\ user \in Users /\ q \in Seq(Batch) /\ InOrder(q)
        /\ q # <<>> /\ Len(q) \in Nat \ {0} /\ Head(pipeline) = q[1]
    BY <1>1, FirstReply, CurrentQueue
  <2>2. 1 \in 1..Len(q)
    BY <2>1
  <2>3. owner[h] = user /\ h <= submitted
    BY <1>1, <1>2, <2>1, <2>2 DEF IInv, QueueInv, QueuesInOrder
  <2>4. q[1] \in Batch /\ h \in Nat
    BY <1>2, <2>1, <2>2, Numbers
  <2>5. h \in Writes
    BY <1>2, <2>4, Numbers
  <2>. QED BY <2>1, <2>2, <2>3, <2>4, <2>5
<1>4. Delete(q, Head(pipeline).id) = Tail(q)
  BY <1>3, DeleteHead
<1>5. /\ Tail(q) \in Seq(Batch) /\ Len(Tail(q)) = Len(q) - 1
      /\ \A i \in 1..Len(Tail(q)) : Tail(q)[i] = q[i + 1]
  BY <1>3, HeadTailProperties
<1>6. /\ mutations' \in [Users -> Seq(Batch)] /\ mutations'[user] = Tail(q)
      /\ \A v \in Users \ {user} : mutations'[v] = mutations[v]
  BY <1>1, <1>3, <1>4, <1>5 DEF IInv, TypeOK
<1>. DEFINE found == {c \in callbacks : c.user = user /\ c.id = Head(pipeline).id}
<1>7. found = {c \in callbacks : c.write = h}
  BY <1>1, <1>2, FoundCallback
<1>8. /\ callbacks' = callbacks \ found
      /\ answer' = [x \in Writes |-> IF \E c \in found : c.write = x THEN status ELSE answer[x]]
  BY DEF NotifyUser
<1>. HIDE DEF found
<1>9. \A x \in Writes : (\E c \in found : c.write = x) <=> (x = h /\ answer[x] = "waiting")
  BY <1>7 DEF IInv, QueueInv, CallbacksMatch
<1>10. \A x \in Writes : answer'[x] = IF x = h /\ answer[x] = "waiting" THEN status ELSE answer[x]
  BY <1>8, <1>9
<1>11. ClientTypes'
  <2>1. answer' \in [Writes -> {"none", "waiting", "ok", "error", "lost"}]
    BY <1>8 DEF IInv, TypeOK
  <2>2. callbacks' \subseteq Callback
    BY <1>8 DEF IInv, TypeOK
  <2>. QED BY <2>1, <2>2, <1>6, TypesAre DEF IInv, ClientTypes
<1>12. \A i \in 1..Len(q) : i = 1 \/ (i - 1 \in 1..Len(Tail(q)) /\ Tail(q)[i - 1] = q[i])
  BY <1>3, <1>5
<1>13. \A i \in 1..Len(Tail(q)) : i + 1 \in 1..Len(q) /\ Tail(q)[i] = q[i + 1]
  BY <1>3, <1>5
<1>14. QueuesInOrder'
  <2>1. InOrder(Tail(q))
    <3>. SUFFICES ASSUME NEW i \in 1..Len(Tail(q)), NEW j \in 1..Len(Tail(q)), i < j
                  PROVE  Tail(q)[i].id < Tail(q)[j].id /\ Tail(q)[i].write < Tail(q)[j].write
      BY DEF InOrder
    <3>1. i + 1 < j + 1
      BY <1>3, <1>5
    <3>. QED BY <3>1, <1>3, <1>13 DEF InOrder
  <2>2. \A v \in Users : InOrder(mutations'[v])
    BY <2>1, <1>6, CurrentQueue
  <2>3. \A v \in Users : \A i \in 1..Len(mutations'[v]) :
           \E j \in 1..Len(mutations[v]) : mutations'[v][i] = mutations[v][j]
    <3>1. \A i \in 1..Len(mutations'[user]) :
             \E j \in 1..Len(mutations[user]) : mutations'[user][i] = mutations[user][j]
      <4>1. mutations'[user] = Tail(q) /\ mutations[user] = q
        BY <1>1, <1>6
      <4>2. ASSUME NEW i \in 1..Len(mutations'[user])
            PROVE  i + 1 \in 1..Len(mutations[user]) /\ mutations'[user][i] = mutations[user][i + 1]
        <5>1. i \in 1..Len(Tail(q))
          BY <4>1
        <5>2. i + 1 \in 1..Len(q) /\ Tail(q)[i] = q[i + 1]
          BY <5>1, <1>13
        <5>. QED BY <4>1, <5>2
      <4>. QED BY <4>2
    <3>2. \A v \in Users \ {user} : mutations'[v] = mutations[v]
      BY <1>6
    <3>. QED BY <3>1, <3>2
  <2>. QED BY <2>2, <2>3 DEF IInv, QueueInv, QueuesInOrder, InOrder
<1>15. ASSUME NEW x \in Writes, IsQueued(x), x # h PROVE IsQueued(x)'
  <2>1. PICK i \in 1..Len(mutations[owner[x]]) : mutations[owner[x]][i].write = x
    BY <1>15 DEF IsQueued
  <2>2. owner[x] \in Users
    BY DEF IInv, TypeOK
  <2>3. CASE owner[x] = user
    <3>1. i \in 1..Len(q) /\ q[i].write = x /\ i # 1
      BY <2>1, <2>3, <1>1, <1>2, <1>15
    <3>2. i - 1 \in 1..Len(Tail(q)) /\ Tail(q)[i - 1].write = x
      BY <3>1, <1>12
    <3>. QED BY <3>2, <2>3, <1>6 DEF IsQueued
  <2>4. CASE owner[x] # user
    BY <2>1, <2>2, <2>4, <1>6 DEF IsQueued
  <2>. QED BY <2>3, <2>4
<1>16. QueuesAreComplete'
  <2>. SUFFICES ASSUME NEW x \in 1..submitted, mutations'[owner[x]] # <<>>,
                       mutations'[owner[x]][1].write <= x
                PROVE  IsQueued(x)'
    BY DEF QueuesAreComplete
  <2>1. x \in Writes /\ owner[x] \in Users
    BY Assumed DEF IInv, TypeOK, Writes, Assumptions
  <2>2. CASE owner[x] = user
    <3>1. 1 \in 1..Len(Tail(q))
      BY <2>2, <1>5, <1>6, EmptySeq
    <3>2. 2 \in 1..Len(q) /\ Tail(q)[1] = q[2]
      BY <3>1, <1>13
    <3>3. h < q[2].write
      BY <3>2, <1>2, <1>3 DEF InOrder
    <3>6. q[2].write \in Nat /\ q[2].write <= x
      BY <2>2, <3>2, <1>3, <1>6, Numbers
    <3>4. h <= x /\ x # h
      BY <3>3, <3>6, <1>3
    <3>5. IsQueued(x)
      BY <2>2, <3>4, <1>1, <1>2, <1>3 DEF IInv, QueueInv, QueuesAreComplete
    <3>. QED BY <2>1, <3>4, <3>5, <1>15
  <2>3. CASE owner[x] # user
    <3>1. mutations'[owner[x]] = mutations[owner[x]] /\ x # h
      BY <2>1, <2>3, <1>3, <1>6
    <3>2. IsQueued(x)
      BY <3>1 DEF IInv, QueueInv, QueuesAreComplete
    <3>. QED BY <2>1, <3>1, <3>2, <1>15
  <2>. QED BY <2>2, <2>3
<1>17. CallbacksMatch'
  <2>1. ASSUME NEW c \in callbacks'
        PROVE  /\ answer'[c.write] = "waiting"
               /\ \E i \in 1..Len(mutations'[c.user]) :
                    mutations'[c.user][i].id = c.id /\ mutations'[c.user][i].write = c.write
    <3>1. /\ c \in callbacks /\ c.write # h /\ c.write \in Writes /\ c.user \in Users
          /\ answer[c.write] = "waiting"
      BY <1>7, <1>8 DEF IInv, TypeOK, Callback, QueueInv, CallbacksMatch
    <3>2. PICK i \in 1..Len(mutations[c.user]) :
             mutations[c.user][i].id = c.id /\ mutations[c.user][i].write = c.write
      BY <3>1 DEF IInv, QueueInv, CallbacksMatch
    <3>3. CASE c.user = user
      <4>1. i \in 1..Len(q) /\ i # 1 /\ q[i].id = c.id /\ q[i].write = c.write
        BY <3>1, <3>2, <3>3, <1>1, <1>2
      <4>2. i - 1 \in 1..Len(mutations'[c.user]) /\ mutations'[c.user][i - 1] = q[i]
        BY <4>1, <3>3, <1>6, <1>12
      <4>. QED BY <4>1, <4>2, <3>1, <1>10
    <3>4. CASE c.user # user
      BY <3>1, <3>2, <3>4, <1>6, <1>10
    <3>. QED BY <3>3, <3>4
  <2>2. ASSUME NEW x \in Writes, answer'[x] = "waiting" PROVE \E c \in callbacks' : c.write = x
    <3>1. answer[x] = "waiting" /\ x # h
      BY <2>2, <1>10
    <3>2. PICK c \in callbacks : c.write = x
      BY <3>1 DEF IInv, QueueInv, CallbacksMatch
    <3>. QED BY <3>1, <3>2, <1>7, <1>8
  <2>. QED BY <2>1, <2>2 DEF CallbacksMatch
<1>. QED BY <1>1, <1>2, <1>4, <1>5, <1>6, <1>10, <1>11, <1>14, <1>15, <1>16, <1>17 DEF QueueInv

\* What is true of the first reply, and the truth after it was told.
LEMMA HeadTold ==
  ASSUME IInv, replies # <<>>, handshake, NEW status \in {"ok", "error"},
         NotifyUser(Head(pipeline).id, status),
         mutations' = [mutations EXCEPT ![user] = Delete(mutations[user], Head(pipeline).id)],
         UNCHANGED <<user, nextBatchId, submitted, owner, server>>,
         status = "ok" => Head(replies).ok,
         handshake' = FALSE \/ replies' = Tail(replies)
  PROVE  TruthInv' /\ ServerTypes'
<1>1. PICK h : h = mutations[user][1].write
  OBVIOUS
<1>2. /\ \A x \in Writes : answer'[x] = IF x = h /\ answer[x] = "waiting" THEN status ELSE answer[x]
      /\ \A x \in Writes : IsQueued(x) /\ x # h => IsQueued(x)'
      /\ mutations' \in [Users -> Seq(Batch)]
  BY <1>1, HeadLeaves DEF ClientTypes
<1>3. replies[1].to = h /\ 1 \in 1..Len(replies) /\ Head(replies) = replies[1] /\ user \in Users
  BY <1>1, FirstReply, CurrentQueue
<1>4. IF replies[1].ok THEN h \in committed /\ h <= doc[user] ELSE h \in refused
  BY <1>3 DEF IInv, TruthInv, RepliesAreTrue
<1>5. RepliesAreTrue'
  <2>1. committed' \subseteq 1..submitted'
    BY DEF IInv, TruthInv, RepliesAreTrue, server
  <2>2. ASSUME handshake', NEW i \in 1..Len(replies')
        PROVE  \E j \in 1..Len(replies) : replies'[i] = replies[j]
    <3>1. /\ Len(replies') = Len(replies) - 1 /\ Len(replies) \in Nat
          /\ replies'[i] = replies[i + 1]
      BY <2>2, StreamFacts, HeadTailProperties, LenProperties DEF StreamTypes
    <3>2. i + 1 \in 1..Len(replies)
      BY <3>1
    <3>. QED BY <3>1, <3>2
  <2>. QED BY <2>1, <2>2 DEF IInv, TruthInv, RepliesAreTrue, server
<1>6. AnswersAreTrue'
  BY <1>2, <1>3, <1>4 DEF IInv, TruthInv, AnswersAreTrue, server
<1>7. ASSUME NEW x \in committed \ refused, x > doc[owner[x]] PROVE IsQueued(x)'
  <2>1. x \in Writes /\ owner[x] \in Users
    BY DEF IInv, TypeOK
  <2>2. IsQueued(x)
    <3>1. DOMAIN mutations[owner[x]] = 1..Len(mutations[owner[x]])
      BY <2>1, CurrentQueue, LenProperties
    <3>. QED BY <3>1, <1>7 DEF IInv, TruthInv, NoLostUpdate, IsQueued
  <2>3. CASE x = h
    <3>1. h <= doc[user] /\ h \in Nat /\ doc[user] \in Nat
      BY <2>1, <2>3, <1>3, <1>4, Numbers, Assumed DEF IInv, TypeOK, Assumptions
    <3>2. owner[h] = user
      BY <1>1, FirstReply, CurrentQueue DEF IInv, QueueInv, QueuesInOrder
    <3>. QED BY <2>3, <3>1, <3>2, <1>7
  <2>. QED BY <2>1, <2>2, <2>3, <1>2
<1>8. NoLostUpdate'
  <2>1. \A v \in Users : DOMAIN mutations'[v] = 1..Len(mutations'[v])
    BY <1>2, LenProperties
  <2>2. \A x \in committed : owner[x] \in Users
    BY DEF IInv, TypeOK
  <2>. QED BY <2>1, <2>2, <1>7 DEF NoLostUpdate, IsQueued, server
<1>9. ServerTypes'
  BY TypesAre DEF IInv, ServerTypes, server
<1>. QED BY <1>5, <1>6, <1>8, <1>9 DEF TruthInv

\* The pipeline and the queue go on from the second write together.
LEMMA TailsMatch ==
  ASSUME IInv, replies # <<>>, handshake
  PROVE  /\ Tail(pipeline) \in Seq(Batch) /\ Len(Tail(pipeline)) = Len(pipeline) - 1
         /\ \A i \in 1..Len(Tail(pipeline)) : Tail(pipeline)[i] = pipeline[i + 1]
         /\ Tail(mutations[user]) \in Seq(Batch)
         /\ Starts(Tail(pipeline), Tail(mutations[user])) /\ InOrder(Tail(mutations[user]))
         /\ Len(Tail(pipeline)) <= MaxPendingWrites /\ ~idle
<1>. DEFINE q == mutations[user]
<1>1. /\ q \in Seq(Batch) /\ InOrder(q) /\ q # <<>> /\ Len(q) \in Nat \ {0} /\ pipeline # <<>>
      /\ Len(pipeline) \in Nat \ {0} /\ pipeline \in Seq(Batch) /\ Starts(pipeline, q)
      /\ Len(pipeline) <= MaxPendingWrites
  BY FirstReply, CurrentQueue
<1>2. /\ Tail(pipeline) \in Seq(Batch) /\ Len(Tail(pipeline)) = Len(pipeline) - 1
      /\ \A i \in 1..Len(Tail(pipeline)) : Tail(pipeline)[i] = pipeline[i + 1]
  BY <1>1, HeadTailProperties
<1>. HIDE DEF q
<1>3. /\ Tail(q) \in Seq(Batch) /\ Len(Tail(q)) = Len(q) - 1
      /\ \A i \in 1..Len(Tail(q)) : Tail(q)[i] = q[i + 1]
  BY <1>1, HeadTailProperties
<1>4. Starts(Tail(pipeline), Tail(q))
  <2>1. Len(Tail(pipeline)) <= Len(Tail(q))
    BY <1>1, <1>2, <1>3 DEF Starts
  <2>2. ASSUME NEW i \in 1..Len(Tail(pipeline)) PROVE Tail(pipeline)[i] = Tail(q)[i]
    <3>1. i \in 1..Len(Tail(q)) /\ i + 1 \in 1..Len(pipeline)
      BY <2>1, <1>1, <1>2, <1>3
    <3>. QED BY <3>1, <1>1, <1>2, <1>3 DEF Starts
  <2>. QED BY <2>1, <2>2 DEF Starts
<1>5. InOrder(Tail(q))
  <2>. SUFFICES ASSUME NEW i \in 1..Len(Tail(q)), NEW j \in 1..Len(Tail(q)), i < j
                PROVE  Tail(q)[i].id < Tail(q)[j].id /\ Tail(q)[i].write < Tail(q)[j].write
    BY DEF InOrder
  <2>1. i + 1 \in 1..Len(q) /\ j + 1 \in 1..Len(q) /\ i + 1 < j + 1
    BY <1>1, <1>3
  <2>. QED BY <2>1, <1>1, <1>3 DEF InOrder
<1>6. ~idle
  BY <1>1, StreamFacts DEF StreamIsSound, StreamAssertions
<1>7. Len(Tail(pipeline)) <= MaxPendingWrites
  BY <1>1, <1>2, Assumed DEF Assumptions
<1>. QED BY <1>2, <1>3, <1>4, <1>5, <1>6, <1>7 DEF q

LEMMA ResultSafe == ASSUME IInv, OnMutationResult PROVE IInv'
<1>. DEFINE id == Head(pipeline).id
            q == Tail(mutations[user])
            p == Tail(pipeline)
<1>1. /\ replies # <<>> /\ Head(replies).ok /\ Head(replies).to # Handshake
      /\ NotifyUser(id, "ok")
      /\ mutations' = [mutations EXCEPT ![user] = Delete(mutations[user], id)]
      /\ FillWritePipeline(p, Delete(mutations[user], id), stream, closeCount, requests, credentials)
      /\ replies' = Tail(replies)
      /\ UNCHANGED <<user, nextBatchId, handshake, submitted, owner, server>>
  BY DEF OnMutationResult
<1>2. handshake
  BY <1>1, FirstReply DEF Reply
<1>3. /\ ClientTypes' /\ QueueInv' /\ Delete(mutations[user], id) = q /\ mutations'[user] = q
  BY <1>1, <1>2, HeadLeaves
<1>4. TruthInv' /\ ServerTypes'
  BY <1>1, <1>2, HeadTold
<1>5. /\ p \in Seq(Batch) /\ Len(p) = Len(pipeline) - 1
      /\ \A i \in 1..Len(p) : p[i] = pipeline[i + 1]
      /\ q \in Seq(Batch) /\ Starts(p, q) /\ InOrder(q) /\ Len(p) <= MaxPendingWrites /\ ~idle
  BY <1>1, <1>2, TailsMatch
<1>6. /\ replies' \in Seq(Answer) /\ Len(replies') = Len(replies) - 1
      /\ \A i \in 1..Len(replies') : replies'[i] = replies[i + 1]
  BY <1>1, StreamFacts, HeadTailProperties DEF StreamTypes
<1>. HIDE DEF p, q
<1>7. /\ Len(pipeline) = Len(replies) + Len(requests)
      /\ \A i \in 1..Len(replies) : replies[i].to = pipeline[i].write
      /\ \A i \in 1..Len(requests) : requests[i] = pipeline[Len(replies) + i].write
      /\ \A i \in 1..Len(replies) : i < Len(replies) => replies[i].ok
      /\ Len(replies) \in Nat \ {0} /\ Len(requests) \in Nat /\ Len(pipeline) \in Nat
  BY <1>1, <1>2, StreamFacts, FirstReply, CurrentQueue DEF WireMatches
<1>8. Len(p) = Len(replies') + Len(requests)
  BY <1>5, <1>6, <1>7
<1>9. ASSUME NEW i \in 1..Len(replies')
      PROVE  replies'[i].to = p[i].write /\ (i < Len(replies') => replies'[i].ok)
  <2>1. /\ i + 1 \in 1..Len(replies) /\ i \in 1..Len(p)
        /\ (i < Len(replies') => i + 1 < Len(replies))
    BY <1>6, <1>7, <1>8
  <2>. QED BY <2>1, <1>5, <1>6, <1>7
<1>10. ASSUME NEW i \in 1..Len(requests) PROVE requests[i] = p[Len(replies') + i].write
  <2>1. Len(replies') + i \in 1..Len(p) /\ (Len(replies') + i) + 1 = Len(replies) + i
    BY <1>6, <1>7, <1>8
  <2>2. p[Len(replies') + i] = pipeline[Len(replies) + i]
    BY <2>1, <1>5
  <2>. QED BY <2>2, <1>7
<1>11. StreamTypes' /\ StreamInv'
  <2>1. FillWritePipeline(p, q, stream, closeCount, requests, credentials) /\ mutations'[user'] = q
    BY <1>1, <1>3
  <2>2. handshake' = handshake /\ (idle => p = <<>>)
    BY <1>1, <1>5
  <2>. QED BY <2>1, <2>2, <1>2, <1>5, <1>6, <1>8, <1>9, <1>10, Refilled
<1>. QED BY <1>3, <1>4, <1>11, AllParts

\* Only a write is refused: the handshake is over.
LEMMA RefusalIsLate ==
  ASSUME IInv, \E i \in DOMAIN replies : ~replies[i].ok
  PROVE  replies # <<>> /\ handshake
<1>1. replies # <<>>
  OBVIOUS
<1>2. handshake
  <2>1. ASSUME ~handshake PROVE FALSE
    <3>1. replies = <<Reply(Handshake, TRUE)>>
      BY <2>1, <1>1, FirstReply
    <3>2. PICK r : r = Reply(Handshake, TRUE)
      OBVIOUS
    <3>3. r.ok = TRUE
      BY <3>2 DEF Reply
    <3>4. \A i \in DOMAIN <<r>> : <<r>>[i] = r
      OBVIOUS
    <3>5. \A i \in DOMAIN replies : replies[i].ok = TRUE
      BY <3>1, <3>2, <3>3, <3>4
    <3>. QED BY <3>5
  <2>. QED BY <2>1
<1>. QED BY <1>1, <1>2

LEMMA ErrorSafe == ASSUME IInv, OnWriteError PROVE IInv'
<1>. DEFINE id == Head(pipeline).id
            q == Tail(mutations[user])
            p == Tail(pipeline)
<1>1. /\ \E i \in DOMAIN replies : ~replies[i].ok
      /\ NotifyUser(id, "error")
      /\ mutations' = [mutations EXCEPT ![user] = Delete(mutations[user], id)]
      /\ FillWritePipeline(p, Delete(mutations[user], id), "initial", closeCount + 1, <<>>, credentials)
      /\ handshake' = FALSE /\ replies' = <<>>
      /\ UNCHANGED <<user, nextBatchId, submitted, owner, server>>
  BY DEF OnWriteError
<1>2. replies # <<>>
  BY <1>1
<1>3. handshake
  BY <1>1, RefusalIsLate
<1>4. /\ ClientTypes' /\ QueueInv' /\ Delete(mutations[user], id) = q /\ mutations'[user] = q
  BY <1>1, <1>2, <1>3, HeadLeaves
<1>5. TruthInv' /\ ServerTypes'
  <2>1. "error" \in {"ok", "error"} /\ ~("error" = "ok")
    OBVIOUS
  <2>. QED BY <2>1, <1>1, <1>2, <1>3, HeadTold
<1>6. /\ p \in Seq(Batch) /\ q \in Seq(Batch) /\ Starts(p, q) /\ InOrder(q)
      /\ Len(p) <= MaxPendingWrites /\ ~idle
  BY <1>2, <1>3, TailsMatch
<1>7. /\ closeCount + 1 \in Nat /\ credentials \in SUBSET (0..(closeCount + 1))
      /\ closeCount + 1 \notin credentials /\ handshake \in BOOLEAN /\ idle \in BOOLEAN
  BY NewCount, StreamFacts DEF StreamTypes
<1>8. /\ FillWritePipeline(p, q, "initial", closeCount + 1, <<>>, credentials)
      /\ mutations'[user'] = q
  BY <1>1, <1>4
<1>. HIDE DEF p, q
<1>9. StreamTypes' /\ StreamInv'
  BY <1>1, <1>6, <1>7, <1>8, ClosedStream
<1>. QED BY <1>4, <1>5, <1>9, AllParts

-----------------------------------------------------------------------------
(* The process dies *)

\* Of the writes that wait, the callers of those in told hear so, the others
\* nothing.
LEMMA RestartAnswers ==
  ASSUME IInv, NEW told, \A w \in told : answer[w] = "waiting", Restarted(told)
  PROVE  /\ answer' \in [Writes -> {"none", "waiting", "ok", "error", "lost"}]
         /\ \A w \in Writes : answer'[w] = IF answer[w] # "waiting" THEN answer[w]
                                           ELSE IF w \in told THEN "ok" ELSE "lost"
<1>1. answer' = [w \in Writes |-> CASE answer[w] # "waiting" -> answer[w]
                                    [] w \in told -> "ok"
                                    [] OTHER -> "lost"]
  BY DEF Restarted
<1>2. \A w \in Writes : answer'[w] = IF answer[w] # "waiting" THEN answer[w]
                                     ELSE IF w \in told THEN "ok" ELSE "lost"
  <2>. SUFFICES ASSUME NEW w \in Writes
                PROVE  answer'[w] = IF answer[w] # "waiting" THEN answer[w]
                                    ELSE IF w \in told THEN "ok" ELSE "lost"
    OBVIOUS
  <2>1. answer'[w] = CASE answer[w] # "waiting" -> answer[w]
                       [] w \in told -> "ok"
                       [] OTHER -> "lost"
    BY <1>1
  <2>2. CASE answer[w] # "waiting"
    <3>1. w \notin told
      BY <2>2
    <3>. QED BY <2>1, <2>2, <3>1
  <2>3. CASE answer[w] = "waiting" /\ w \in told
    BY <2>1, <2>3
  <2>4. CASE answer[w] = "waiting" /\ w \notin told
    BY <2>1, <2>4
  <2>. QED BY <2>2, <2>3, <2>4
<1>. QED BY <1>1, <1>2 DEF IInv, TypeOK

LEMMA RestartSafe ==
  ASSUME IInv, NEW told, told \subseteq committed, \A w \in told : answer[w] = "waiting",
         Restarted(told)
  PROVE  IInv'
<1>1. /\ answer' = [w \in Writes |-> CASE answer[w] # "waiting" -> answer[w]
                                       [] w \in told -> "ok"
                                       [] OTHER -> "lost"]
      /\ callbacks' = {} /\ nextBatchId' = LoadNextBatchId(mutations)
      /\ FillWritePipeline(<<>>, mutations[user], "initial", closeCount + 1, <<>>, {})
      /\ handshake' = FALSE /\ replies' = <<>>
      /\ UNCHANGED <<user, mutations, submitted, owner, server>>
  BY DEF Restarted
<1>2. \A w \in Writes : answer'[w] = IF answer[w] # "waiting" THEN answer[w]
                                     ELSE IF w \in told THEN "ok" ELSE "lost"
  BY RestartAnswers
<1>3. /\ nextBatchId' \in 1..nextBatchId /\ nextBatchId \in 1..(MaxWrites + 1)
      /\ nextBatchId <= submitted + 1 /\ submitted \in Nat /\ MaxWrites \in Nat
      /\ \A v \in Users : \A i \in 1..Len(mutations[v]) : mutations[v][i].id < nextBatchId'
  <2>1. /\ nextBatchId \in 1..(MaxWrites + 1) /\ nextBatchId <= submitted + 1
        /\ submitted \in Nat /\ MaxWrites \in Nat
    BY Assumed DEF IInv, TypeOK, QueueInv, QueuesInOrder, Assumptions
  <2>2. /\ LoadNextBatchId(mutations) \in 1..nextBatchId
        /\ \A v \in Users : \A i \in 1..Len(mutations[v]) :
              mutations[v][i].id < LoadNextBatchId(mutations)
    BY LoadedId DEF IInv, TypeOK, QueueInv, QueuesInOrder
  <2>. QED BY <1>1, <2>1, <2>2
<1>4. ClientTypes'
  <2>1. answer' \in [Writes -> {"none", "waiting", "ok", "error", "lost"}]
    BY <1>1, <1>2 DEF IInv, TypeOK
  <2>2. nextBatchId' \in 1..(MaxWrites + 1)
    BY <1>3
  <2>. QED BY <1>1, <2>1, <2>2, TypesAre DEF IInv, ClientTypes
<1>5. QueueInv'
  <2>1. QueuesInOrder'
    <3>1. nextBatchId' <= submitted' + 1
      BY <1>1, <1>3
    <3>. QED BY <1>1, <1>3, <3>1 DEF IInv, QueueInv, QueuesInOrder, InOrder
  <2>2. QueuesAreComplete'
    BY <1>1 DEF IInv, QueueInv, QueuesAreComplete, IsQueued
  <2>3. CallbacksMatch'
    <3>1. \A w \in Writes : answer'[w] # "waiting"
      BY <1>2
    <3>. QED BY <1>1, <3>1 DEF CallbacksMatch
  <2>. QED BY <2>1, <2>2, <2>3 DEF QueueInv
<1>6. StreamTypes' /\ StreamInv'
  <2>1. /\ closeCount + 1 \in Nat /\ {} \in SUBSET (0..(closeCount + 1)) /\ closeCount + 1 \notin {}
        /\ handshake \in BOOLEAN /\ idle \in BOOLEAN /\ (idle => handshake)
    BY StreamFacts DEF StreamTypes, StreamIsSound
  <2>. QED BY <1>1, <2>1, CurrentQueue, EmptyStarts, ClosedStream
<1>7. TruthInv' /\ ServerTypes'
  <2>1. RepliesAreTrue'
    BY <1>1 DEF IInv, TruthInv, RepliesAreTrue, server
  <2>2. AnswersAreTrue'
    BY <1>1, <1>2 DEF IInv, TruthInv, AnswersAreTrue, server
  <2>3. NoLostUpdate' /\ ServerTypes'
    BY <1>1, TypesAre DEF IInv, TruthInv, NoLostUpdate, ServerTypes, server
  <2>. QED BY <2>1, <2>2, <2>3 DEF TruthInv
<1>. QED BY <1>4, <1>5, <1>6, <1>7, AllParts

\* The callers told before the process died were told the truth.
LEMMA ToldIsCommitted ==
  ASSUME IInv, replies # <<>>, Head(replies).ok, Head(replies).to # Handshake
  PROVE  /\ handshake
         /\ \A c \in callbacks : c.user = user /\ c.id = Head(pipeline).id =>
               c.write = mutations[user][1].write
         /\ mutations[user][1].write \in committed
<1>1. handshake
  BY FirstReply DEF Reply
<1>2. replies[1].to = mutations[user][1].write /\ Head(replies) = replies[1] /\ 1 \in 1..Len(replies)
  BY <1>1, FirstReply
<1>3. replies[1].to \in committed
  BY <1>1, <1>2 DEF IInv, TruthInv, RepliesAreTrue
<1>. QED BY <1>1, <1>2, <1>3, FoundCallback

-----------------------------------------------------------------------------
(* The invariant holds *)

\* The invariant holds at the start.
LEMMA InitInv == Init => IInv
<1>. SUFFICES ASSUME Init PROVE IInv
  OBVIOUS
<1>1. /\ 0 \in 0..MaxWrites /\ 1 \in 1..(MaxWrites + 1) /\ <<>> \in Seq(Batch)
      /\ Len(<<>>) = 0
  BY Assumed DEF Assumptions
<1>2. ClientTypes
  BY <1>1 DEF Init, ClientTypes
<1>3. StreamTypes
  <2>1. <<>> \in Seq(Message) /\ <<>> \in Seq(Answer)
    OBVIOUS
  <2>. QED BY <1>1, <2>1 DEF Init, StreamTypes, StreamState
<1>4. ServerTypes
  BY <1>1 DEF Init, ServerTypes
<1>5. /\ user \in Users /\ \A v \in Users : mutations[v] = <<>>
      /\ \A i \in 1..Len(<<>>) : FALSE
  BY DEF Init
<1>6. QueueInv
  <2>1. QueuesInOrder
    BY <1>1, <1>5 DEF Init, QueuesInOrder, InOrder
  <2>2. QueuesAreComplete /\ CallbacksMatch
    BY <1>5 DEF Init, QueuesAreComplete, CallbacksMatch
  <2>. QED BY <2>1, <2>2 DEF QueueInv
<1>7. StreamInv
  <2>1. PipelineIsPrefix
    BY <1>1, <1>5, Assumed DEF Init, PipelineIsPrefix, Starts, Assumptions
  <2>2. StreamIsSound
    BY DEF Init, StreamIsSound, StreamAssertions
  <2>3. WireMatches
    BY <1>5 DEF Init, WireMatches
  <2>. QED BY <2>1, <2>2, <2>3 DEF StreamInv
<1>8. TruthInv
  BY DEF Init, TruthInv, RepliesAreTrue, AnswersAreTrue, NoLostUpdate
<1>. QED BY <1>2, <1>3, <1>4, <1>6, <1>7, <1>8, TypesAre DEF IInv

\* Every step keeps it.
LEMMA StepInv == IInv /\ [Next]_vars => IInv'
<1>. SUFFICES ASSUME IInv, [Next]_vars PROVE IInv'
  OBVIOUS
<1>1. CASE Write
  BY <1>1, WriteSafe
<1>2. CASE \E u \in Users : HandleCredentialChange(u)
  BY <1>2, ChangeSafe
<1>3. CASE ConnectivityChange
  BY <1>3, ConnectivitySafe
<1>4. CASE \E c \in 0..closeCount : CredentialsReady(c)
  BY <1>4, CredentialsSafe
<1>5. CASE \E c \in 0..closeCount : Break(c)
  BY <1>5, BreakSafe
<1>6. CASE BackoffElapsed
  BY <1>6, BackoffSafe
<1>7. CASE IdleTimeout
  BY <1>7, IdleSafe
<1>8. CASE Server
  BY <1>8, ServerHandshakeSafe, CommitSafe, RefuseSafe DEF Server
<1>9. CASE Receive
  BY <1>9, HandshakeSafe, ResultSafe, ErrorSafe DEF Receive
<1>10. CASE Kill
  <2>1. Restarted({}) /\ {} \subseteq committed
    BY <1>10 DEF Kill
  <2>2. \A w \in {} : answer[w] = "waiting"
    OBVIOUS
  <2>. QED BY <2>1, <2>2, RestartSafe
<1>11. CASE KillDuringResult
  <2>. DEFINE told == {c.write : c \in {c \in callbacks : c.user = user /\ c.id = Head(pipeline).id}}
  <2>1. /\ replies # <<>> /\ Head(replies).ok /\ Head(replies).to # Handshake
        /\ Restarted(told)
    BY <1>11 DEF KillDuringResult
  <2>2. told \subseteq committed /\ \A w \in told : answer[w] = "waiting"
    BY <2>1, ToldIsCommitted DEF IInv, QueueInv, CallbacksMatch
  <2>. HIDE DEF told
  <2>. QED BY <2>1, <2>2, RestartSafe
<1>12. CASE UNCHANGED vars
  <2>1. /\ UNCHANGED <<clientVars, history>> /\ UNCHANGED <<mutations, submitted, owner, answer, server>>
        /\ UNCHANGED <<clientVars, pipeline, history, server>>
        /\ UNCHANGED <<stream, handshake, idle, closeCount, credentials, requests, replies>>
    BY <1>12 DEF vars, clientVars, streamVars, wire, history, server
  <2>2. StreamTypes' /\ StreamIsSound' /\ WireMatches'
    BY <2>1, StreamFacts DEF StreamTypes, StreamIsSound, StreamAssertions, WireMatches
  <2>. QED BY <2>1, <2>2, StreamStep
<1>. QED BY <1>1, <1>2, <1>3, <1>4, <1>5, <1>6, <1>7, <1>8, <1>9, <1>10, <1>11, <1>12 DEF Next

\* It holds always.
LEMMA Invariance == Spec => []IInv
  BY InitInv, StepInv, PTL DEF Spec

-----------------------------------------------------------------------------
(* What the invariant gives *)

\* The values written to LevelDB, kept in memory and sent on the stream have
\* their types: batch ids stay within the number of writes made.
THEOREM TypeCorrect == Spec => []TypeOK
<1>1. IInv => TypeOK
  BY DEF IInv
<1>. QED BY <1>1, Invariance, PTL

\* What the app is told is true (SyncEngine::NotifyUser by way of
\* HandleSuccessfulWrite and HandleRejectedWrite): whatever order closes,
\* changes of user, restarts and refused writes come in.
THEOREM AnswersTrue == Spec => []AnswersAreTrue
<1>1. IInv => AnswersAreTrue
  BY DEF IInv, TruthInv
<1>. QED BY <1>1, Invariance, PTL

\* Credentials and the idle timer meet the stream in the state its assertions
\* expect (Stream::ResumeStartWithCredentials, RemoteStore::OnWriteStreamClose).
THEOREM StreamAssertionsHold == Spec => []StreamAssertions
<1>1. IInv => StreamAssertions
  BY DEF IInv, StreamInv, StreamIsSound
<1>. QED BY <1>1, Invariance, PTL

\* Writes the server applied and the document has lost since are still in the
\* queue: a resend from the oldest unanswered write restores the newest one.
THEOREM NoUpdateLost == Spec => []NoLostUpdate
<1>1. IInv => NoLostUpdate
  BY DEF IInv, TruthInv
<1>. QED BY <1>1, Invariance, PTL

\* The writes of a beginning of the queue.
LEMMA WritesAre ==
  ASSUME NEW p \in Seq(Batch)
  PROVE  /\ WritesOf(p) \in Seq(Message) /\ Len(WritesOf(p)) = Len(p)
         /\ \A i \in 1..Len(p) : WritesOf(p)[i] = p[i].write
<1>1. \A i \in 1..Len(p) : p[i].write \in Message
  BY Numbers, LenProperties DEF Message
<1>2. Len(p) \in Nat /\ WritesOf(p) = [i \in 1..Len(p) |-> p[i].write]
  BY LenProperties DEF WritesOf
<1>3. WritesOf(p) \in Seq(Message) /\ Len(WritesOf(p)) = Len(p)
  BY <1>1, <1>2, IsASeq
<1>. QED BY <1>2, <1>3

\* Answers and requests on the wire are, in order, those the pipeline waits for.
LEMMA MatchesFollows == IInv => PipelineMatchesQueue
<1>. SUFFICES ASSUME IInv PROVE PipelineMatchesQueue
  OBVIOUS
<1>1. PICK q : q = mutations[user]
  OBVIOUS
<1>2. /\ q \in Seq(Batch) /\ pipeline \in Seq(Batch) /\ Starts(pipeline, q)
      /\ Len(pipeline) \in Nat /\ Len(replies) \in Nat /\ Len(requests) \in Nat /\ Len(q) \in Nat
      /\ replies \in Seq(Answer) /\ requests \in Seq(Message)
  BY <1>1, CurrentQueue, StreamFacts DEF StreamTypes
<1>3. pipeline = SubSeq(q, 1, Len(pipeline))
  <2>1. \A i \in 1..Len(pipeline) : q[i] \in Batch
    BY <1>2 DEF Starts
  <2>2. /\ SubSeq(q, 1, Len(pipeline)) \in Seq(Batch)
        /\ Len(SubSeq(q, 1, Len(pipeline))) = Len(pipeline)
        /\ \A i \in 1..Len(pipeline) : SubSeq(q, 1, Len(pipeline))[i] = q[i]
    BY <2>1, <1>2, SubSeqProperties
  <2>. QED BY <2>2, <1>2, SeqEqual DEF Starts
<1>4. ASSUME handshake
      PROVE  WritesOf(pipeline) = [i \in DOMAIN replies |-> replies[i].to] \o requests
  <2>1. /\ Len(pipeline) = Len(replies) + Len(requests)
        /\ \A i \in 1..Len(replies) : replies[i].to = pipeline[i].write
        /\ \A i \in 1..Len(requests) : requests[i] = pipeline[Len(replies) + i].write
    BY <1>4, StreamFacts DEF WireMatches
  <2>2. PICK a : a = [i \in 1..Len(replies) |-> replies[i].to]
    OBVIOUS
  <2>3. /\ a = [i \in DOMAIN replies |-> replies[i].to]
        /\ \A i \in 1..Len(replies) : a[i] = replies[i].to /\ replies[i].to \in Message
    <3>1. DOMAIN replies = 1..Len(replies)
      BY <1>2, LenProperties
    <3>2. \A i \in 1..Len(replies) : replies[i] \in Answer
      BY <1>2, LenProperties
    <3>. QED BY <2>2, <3>1, <3>2 DEF Answer
  <2>4. a \in Seq(Message) /\ Len(a) = Len(replies)
    BY <2>2, <2>3, <1>2, IsASeq
  <2>5. /\ a \o requests \in Seq(Message) /\ Len(a \o requests) = Len(pipeline)
        /\ \A i \in 1..Len(pipeline) :
              (a \o requests)[i] = IF i <= Len(replies) THEN a[i] ELSE requests[i - Len(replies)]
    BY <2>1, <2>4, <1>2, ConcatProperties
  <2>6. ASSUME NEW i \in 1..Len(pipeline)
        PROVE  (a \o requests)[i] = pipeline[i].write
    <3>1. CASE i <= Len(replies)
      BY <3>1, <2>1, <2>3, <2>5, <1>2
    <3>2. CASE ~(i <= Len(replies))
      <4>1. i - Len(replies) \in 1..Len(requests) /\ Len(replies) + (i - Len(replies)) = i
        BY <3>2, <2>1, <1>2
      <4>. QED BY <4>1, <3>2, <2>1, <2>5
    <3>. QED BY <3>1, <3>2
  <2>7. WritesOf(pipeline) = a \o requests
    <3>1. /\ WritesOf(pipeline) \in Seq(Message) /\ Len(WritesOf(pipeline)) = Len(pipeline)
          /\ \A i \in 1..Len(pipeline) : WritesOf(pipeline)[i] = pipeline[i].write
      BY <1>2, WritesAre
    <3>2. PICK t : t = a \o requests
      OBVIOUS
    <3>3. \A i \in 1..Len(WritesOf(pipeline)) : WritesOf(pipeline)[i] = t[i]
      BY <3>1, <3>2, <2>6
    <3>. QED BY <3>1, <3>2, <3>3, <2>5, SeqEqual
  <2>. QED BY <2>7, <2>3
<1>. QED BY <1>1, <1>2, <1>3, <1>4 DEF PipelineMatchesQueue, Starts

\* The assertions of OnWriteStreamMutationResult and RemoveMutationBatch never
\* fail: the pipeline is the beginning of the current user's queue, and what is
\* on the wire is what the pipeline waits for.
THEOREM PipelineMatches == Spec => []PipelineMatchesQueue
  BY MatchesFollows, Invariance, PTL

-----------------------------------------------------------------------------
(* WritePipeline implements WriteDelivery *)

\* The state of WriteDelivery: what each user's queue still holds, and how far
\* the server is ahead of the client.
Queues == [u \in Users |-> WritesOf(mutations[u])]

Ahead == [u \in Users |-> IF u = user THEN Applied ELSE 0]

NoneAhead == [u \in Users |-> 0]

IsApplied(r) == r.ok /\ r.to # Handshake

\* Replies that are a run of applied writes up to the k-th one.
LEMMA AppliedCount ==
  ASSUME NEW r \in Seq(Answer), NEW k \in 0..Len(r),
         \A i \in 1..Len(r) : IsApplied(r[i]) <=> i <= k
  PROVE  Cardinality({i \in DOMAIN r : r[i].ok /\ r[i].to # Handshake}) = k
<1>1. DOMAIN r = 1..Len(r) /\ Len(r) \in Nat
  BY LenProperties
<1>2. {i \in DOMAIN r : r[i].ok /\ r[i].to # Handshake} = 1..k
  BY <1>1 DEF IsApplied
<1>3. Cardinality(1..k) = k
  BY FS_Interval
<1>. QED BY <1>2, <1>3

\* No reply to a write is taken for the handshake's.
LEMMA RepliesToWrites ==
  ASSUME IInv, handshake, NEW i \in 1..Len(replies)
  PROVE  replies[i].to # Handshake
<1>1. replies[i].to = pipeline[i].write /\ i \in 1..Len(pipeline)
  BY StreamFacts, CurrentQueue DEF WireMatches
<1>2. pipeline[i].write \in Writes
  BY <1>1, CurrentQueue, Numbers
<1>. QED BY <1>1, <1>2, StreamFacts

\* Applied counts a beginning of the replies: all but a refusal at the end.
LEMMA AppliedIs ==
  ASSUME IInv
  PROVE  \E k \in 0..Len(replies) :
            /\ \A i \in 1..Len(replies) : IsApplied(replies[i]) <=> i <= k
            /\ Applied = k
<1>1. replies \in Seq(Answer) /\ Len(replies) \in Nat
  BY StreamFacts, LenProperties DEF StreamTypes
<1>2. PICK k \in 0..Len(replies) : \A i \in 1..Len(replies) : IsApplied(replies[i]) <=> i <= k
  <2>1. CASE handshake
    <3>1. \A i \in 1..Len(replies) : i < Len(replies) => replies[i].ok = TRUE
      BY StreamFacts DEF WireMatches
    <3>2. \A i \in 1..Len(replies) : IsApplied(replies[i]) <=> replies[i].ok
      BY <2>1, RepliesToWrites DEF IsApplied
    <3>3. CASE replies = <<>> \/ replies[Len(replies)].ok = TRUE
      <4>0. \A i \in 1..Len(replies) : i <= Len(replies) /\ (i < Len(replies) \/ i = Len(replies))
        BY <1>1
      <4>1. \A i \in 1..Len(replies) : IsApplied(replies[i]) <=> i <= Len(replies)
        <5>1. CASE replies = <<>>
          BY <5>1, EmptySeq
        <5>2. CASE replies[Len(replies)].ok = TRUE
          BY <3>1, <3>2, <5>2, <4>0
        <5>. QED BY <3>3, <5>1, <5>2
      <4>2. Len(replies) \in 0..Len(replies)
        BY <1>1
      <4>. QED BY <4>1, <4>2
    <3>4. CASE replies # <<>> /\ ~replies[Len(replies)].ok
      <4>1. Len(replies) - 1 \in 0..Len(replies)
        BY <3>4, <1>1, EmptySeq
      <4>2. \A i \in 1..Len(replies) : IsApplied(replies[i]) <=> i <= Len(replies) - 1
        BY <3>1, <3>2, <3>4, <1>1
      <4>. QED BY <4>1, <4>2
    <3>. QED BY <3>3, <3>4
  <2>2. CASE ~handshake
    <3>1. replies = <<>> \/ replies = <<Reply(Handshake, TRUE)>>
      BY <2>2, StreamFacts DEF WireMatches
    <3>2. \A i \in 1..Len(replies) : replies[i].to = Handshake
      BY <3>1 DEF Reply
    <3>3. \A i \in 1..Len(replies) : IsApplied(replies[i]) <=> i <= 0
      BY <3>2, <1>1 DEF IsApplied
    <3>. QED BY <3>3, <1>1
  <2>. QED BY <2>1, <2>2
<1>3. Applied = k
  BY <1>1, <1>2, AppliedCount DEF Applied
<1>. QED BY <1>2, <1>3

\* The positive answers on the wire after a step.
LEMMA AppliedNext ==
  ASSUME replies' \in Seq(Answer), NEW k \in 0..Len(replies'),
         \A i \in 1..Len(replies') : IsApplied(replies'[i]) <=> i <= k
  PROVE  Applied' = k
<1>1. PICK r : r = replies'
  OBVIOUS
<1>. QED BY <1>1, AppliedCount DEF Applied

\* Without replies nothing is ahead, whoever is signed in.
LEMMA ConnectionDropped ==
  ASSUME replies' = <<>>
  PROVE  Applied' = 0 /\ Ahead' = NoneAhead
<1>1. <<>> \in Seq(Answer) /\ Len(<<>>) = 0
  BY EmptySeq
<1>2. Applied' = 0
  BY <1>1, AppliedNext
<1>. QED BY <1>2 DEF Ahead, NoneAhead

\* The queues of the abstract specification after a step that keeps them.
LEMMA QueuesKept ==
  ASSUME mutations' = mutations PROVE Queues' = Queues
  BY DEF Queues, WritesOf

\* Append and Tail of a queue.
LEMMA WritesOfAppend ==
  ASSUME NEW q \in Seq(Batch), NEW b \in Batch
  PROVE  WritesOf(Append(q, b)) = Append(WritesOf(q), b.write)
<1>1. /\ Append(q, b) \in Seq(Batch) /\ Len(Append(q, b)) = Len(q) + 1
      /\ \A i \in 1..Len(q) : Append(q, b)[i] = q[i]
      /\ Append(q, b)[Len(q) + 1] = b
  BY AppendProperties
<1>2. Len(q) \in Nat /\ b.write \in Message
  BY Numbers, LenProperties DEF Message
<1>3. PICK s : s = WritesOf(Append(q, b))
  OBVIOUS
<1>4. PICK t : t = Append(WritesOf(q), b.write)
  OBVIOUS
<1>5. /\ s \in Seq(Message) /\ Len(s) = Len(q) + 1
      /\ \A i \in 1..Len(q) + 1 : s[i] = Append(q, b)[i].write
  BY <1>1, <1>3, WritesAre
<1>6. /\ t \in Seq(Message) /\ Len(t) = Len(q) + 1
      /\ \A i \in 1..Len(q) : t[i] = q[i].write
      /\ t[Len(q) + 1] = b.write
  BY <1>2, <1>4, WritesAre, AppendProperties
<1>7. \A i \in 1..Len(q) + 1 : i \in 1..Len(q) \/ i = Len(q) + 1
  BY <1>2
<1>8. \A i \in 1..Len(s) : s[i] = t[i]
  BY <1>1, <1>5, <1>6, <1>7
<1>9. s = t
  BY <1>5, <1>6, <1>8, SeqEqual
<1>. QED BY <1>3, <1>4, <1>9

\* The writes of a queue without its head.
LEMMA WritesOfTail ==
  ASSUME NEW q \in Seq(Batch), q # <<>>
  PROVE  /\ WritesOf(q) # <<>> /\ Head(WritesOf(q)) = q[1].write
         /\ WritesOf(Tail(q)) = Tail(WritesOf(q))
<1>1. Len(q) \in Nat \ {0}
  BY LenProperties, EmptySeq
<1>2. PICK w : w = WritesOf(q)
  OBVIOUS
<1>3. w \in Seq(Message) /\ Len(w) = Len(q) /\ \A i \in 1..Len(q) : w[i] = q[i].write
  BY <1>2, WritesAre
<1>4. w # <<>> /\ Head(w) = q[1].write
  BY <1>1, <1>3, EmptySeq
<1>5. /\ Tail(q) \in Seq(Batch) /\ Len(Tail(q)) = Len(q) - 1
      /\ \A i \in 1..Len(Tail(q)) : Tail(q)[i] = q[i + 1]
  BY HeadTailProperties
<1>6. /\ Tail(w) \in Seq(Message) /\ Len(Tail(w)) = Len(q) - 1
      /\ \A i \in 1..Len(Tail(w)) : Tail(w)[i] = w[i + 1]
  BY <1>3, <1>4, HeadTailProperties
<1>7. PICK s : s = WritesOf(Tail(q))
  OBVIOUS
<1>8. /\ s \in Seq(Message) /\ Len(s) = Len(q) - 1
      /\ \A i \in 1..Len(q) - 1 : s[i] = q[i + 1].write
  BY ZenonT(60), <1>5, <1>7, WritesAre
<1>9. \A i \in 1..Len(q) - 1 : i + 1 \in 1..Len(q)
  BY <1>1
<1>10. \A i \in 1..Len(s) : s[i] = Tail(w)[i]
  BY <1>3, <1>6, <1>8, <1>9
<1>11. s = Tail(w)
  BY <1>6, <1>8, <1>10, SeqEqual
<1>. QED BY <1>2, <1>4, <1>7, <1>11

\* The value of the abstract queue, head and answers of the signed-in user.
LEMMA HeadOfQueue ==
  ASSUME IInv, replies # <<>>, handshake
  PROVE  /\ user \in Users /\ Queues[user] = WritesOf(mutations[user])
         /\ Queues[user] # <<>> /\ Head(Queues[user]) = mutations[user][1].write
         /\ mutations[user][1].write \in Writes
         /\ WritesOf(Tail(mutations[user])) = Tail(Queues[user])
<1>1. /\ mutations[user] # <<>> /\ mutations[user] \in Seq(Batch)
      /\ Len(mutations[user]) \in Nat \ {0} /\ user \in Users
  BY FirstReply, CurrentQueue
<1>2. mutations[user][1].write \in Writes
  <2>1. 1 \in 1..Len(mutations[user])
    BY <1>1
  <2>. QED BY <1>1, <2>1, Numbers
<1>. QED BY <1>1, <1>2, WritesOfTail DEF Queues

\* Writing is submitting.
LEMMA SubmitStep == ASSUME IInv, Write, NEW u, u = user PROVE Delivery!Submit(u)
<1>1. PICK w : w = submitted + 1
  OBVIOUS
<1>2. PICK q : q = mutations[user]
  OBVIOUS
<1>3. PICK b : b = [id |-> nextBatchId, write |-> w]
  OBVIOUS
<1>4. /\ submitted < MaxWrites /\ submitted' = w
      /\ answer' = [answer EXCEPT ![w] = "waiting"]
      /\ mutations' = [mutations EXCEPT ![user] = Put(q, b)]
      /\ UNCHANGED <<user, replies, server>>
  BY <1>1, <1>2, <1>3 DEF Write
<1>5. /\ user \in Users /\ q \in Seq(Batch) /\ mutations \in [Users -> Seq(Batch)]
      /\ \A i \in 1..Len(q) : q[i].id < nextBatchId
  BY <1>2, CurrentQueue DEF IInv, TypeOK, QueueInv, QueuesInOrder
<1>6. w \in Writes /\ nextBatchId \in Writes
  <2>1. /\ submitted \in Nat /\ MaxWrites \in Nat /\ nextBatchId \in Nat \ {0}
        /\ nextBatchId <= submitted + 1
    BY Assumed DEF IInv, TypeOK, QueueInv, QueuesInOrder, Assumptions
  <2>. QED BY <1>1, <1>4, <2>1 DEF Writes
<1>7. b \in Batch /\ b.id = nextBatchId /\ b.write = w
  BY <1>3, <1>6 DEF Batch
<1>8. Put(q, b) = Append(q, b)
  BY <1>5, <1>7, PutAppends
<1>9. Queues' = [Queues EXCEPT ![user] = Append(@, w)]
  <2>1. \A v \in Users : mutations'[v] = IF v = user THEN Append(q, b) ELSE mutations[v]
    BY <1>4, <1>5, <1>8
  <2>2. WritesOf(Append(q, b)) = Append(WritesOf(q), w)
    BY <1>5, <1>7, WritesOfAppend
  <2>3. \A v \in Users : WritesOf(mutations'[v]) = IF v = user THEN Append(WritesOf(q), w)
                                                   ELSE WritesOf(mutations[v])
    BY <2>1, <2>2
  <2>. QED BY <1>2, <1>5, <2>3 DEF Queues, WritesOf
<1>10. UNCHANGED <<Ahead, doc>>
  BY <1>4 DEF Ahead, Applied, server
<1>. QED BY <1>1, <1>4, <1>9, <1>10 DEF Delivery!Submit, Queues, Ahead

\* A stream that ends is an interruption.
LEMMA InterruptStep ==
  ASSUME replies' = <<>>, UNCHANGED <<mutations, submitted, answer, doc>>
  PROVE  Delivery!Interrupt
<1>1. Ahead' = NoneAhead
  BY ConnectionDropped
<1>2. Queues' = Queues
  BY QueuesKept
<1>. QED BY <1>1, <1>2 DEF Delivery!Interrupt, Queues, Ahead, NoneAhead

\* A step that the abstract specification does not see.
LEMMA Stutter ==
  ASSUME UNCHANGED <<user, mutations, submitted, answer, doc>>, Applied' = Applied
  PROVE  UNCHANGED Delivery!deliveryVars
<1>1. Queues' = Queues
  BY QueuesKept
<1>2. Ahead' = Ahead
  BY DEF Ahead
<1>. QED BY <1>1, <1>2 DEF Delivery!deliveryVars, Queues, Ahead

\* A reply is added to replies that all say ok, and to writes only.
LEMMA ReplyAdded ==
  ASSUME IInv, Serving, Head(requests) # Handshake, NEW ok \in BOOLEAN,
         replies' = Append(replies, Reply(Head(requests), ok))
  PROVE  /\ Applied = Len(replies)
         /\ Applied' = IF ok THEN Len(replies) + 1 ELSE Len(replies)
<1>1. PICK m : m = Reply(Head(requests), ok)
  OBVIOUS
<1>2. /\ requests # <<>> /\ \A i \in 1..Len(replies) : replies[i].ok
      /\ replies \in Seq(Answer) /\ Len(replies) \in Nat
  BY StreamFacts, LenProperties DEF Serving, StreamTypes
<1>3. handshake /\ Head(requests) \in Writes
  BY <1>2, NextRequest
<1>4. m \in Answer /\ (IsApplied(m) <=> ok)
  BY <1>1, <1>3 DEF Reply, Answer, Message, IsApplied
<1>5. \A i \in 1..Len(replies) : IsApplied(replies[i])
  BY <1>2, <1>3, RepliesToWrites DEF IsApplied
<1>6. Applied = Len(replies)
  <2>1. /\ Len(replies) \in 0..Len(replies)
        /\ \A i \in 1..Len(replies) : IsApplied(replies[i]) <=> i <= Len(replies)
    BY <1>2, <1>5
  <2>. QED BY <1>2, <2>1, AppliedCount DEF Applied
<1>7. /\ replies' \in Seq(Answer) /\ Len(replies') = Len(replies) + 1
      /\ \A i \in 1..Len(replies) : replies'[i] = replies[i]
      /\ replies'[Len(replies) + 1] = m
  BY <1>1, <1>2, <1>4, AppendProperties
<1>8. \A i \in 1..Len(replies') : i \in 1..Len(replies) \/ i = Len(replies) + 1
  BY <1>2, <1>7
<1>9. CASE ok
  <2>1. Len(replies) + 1 \in 0..Len(replies')
    BY <1>2, <1>7
  <2>2. \A i \in 1..Len(replies') : IsApplied(replies'[i]) <=> i <= Len(replies) + 1
    <3>1. \A i \in 1..Len(replies') : i <= Len(replies) + 1
      BY <1>2, <1>7
    <3>. QED BY <3>1, <1>4, <1>5, <1>7, <1>8, <1>9
  <2>. QED BY <1>6, <1>7, <1>9, <2>1, <2>2, AppliedNext
<1>10. CASE ~ok
  <2>1. Len(replies) \in 0..Len(replies')
    BY <1>2, <1>7
  <2>2. \A i \in 1..Len(replies') : IsApplied(replies'[i]) <=> i <= Len(replies)
    BY <1>2, <1>4, <1>5, <1>7, <1>8, <1>10
  <2>. QED BY <1>6, <1>7, <1>10, <2>1, <2>2, AppliedNext
<1>. QED BY <1>9, <1>10

\* A commit at the server applies the next write.
LEMMA ApplyStep == ASSUME IInv, ServerCommit, NEW u, u = user PROVE Delivery!Apply(u)
<1>1. PICK w : w = Head(requests)
  OBVIOUS
<1>2. /\ UNCHANGED <<clientVars, history>> /\ Serving /\ w # Handshake
      /\ doc' = [doc EXCEPT ![owner[w]] = w]
      /\ replies' = Append(replies, Reply(w, TRUE))
  BY <1>1 DEF ServerCommit
<1>3. Applied = Len(replies) /\ Applied' = Len(replies) + 1
  BY <1>1, <1>2, ReplyAdded
<1>4. /\ owner[w] = user /\ Len(replies) + 1 \in 1..Len(mutations[user])
      /\ w = mutations[user][Len(replies) + 1].write
  BY <1>1, <1>2, NextRequest DEF Serving
<1>5. user \in Users /\ mutations[user] \in Seq(Batch) /\ Len(replies) \in Nat
      /\ Len(mutations[user]) \in Nat
  BY CurrentQueue
<1>6. /\ Queues[user] = WritesOf(mutations[user]) /\ Len(Queues[user]) = Len(mutations[user])
      /\ Queues[user][Len(replies) + 1] = w
  BY <1>4, <1>5, WritesAre DEF Queues
<1>7. Ahead[user] = Len(replies) /\ Ahead' = [Ahead EXCEPT ![user] = @ + 1]
  BY <1>2, <1>3, <1>5 DEF Ahead, clientVars
<1>8. /\ Ahead[user] < Len(Queues[user]) /\ doc' = [doc EXCEPT ![user] = Queues[user][Ahead[user] + 1]]
  <2>1. Ahead[user] < Len(Queues[user]) /\ Queues[user][Ahead[user] + 1] = w
    BY <1>4, <1>5, <1>6, <1>7
  <2>. QED BY <2>1, <1>2, <1>4
<1>9. Queues' = Queues /\ UNCHANGED <<submitted, answer>>
  BY <1>2, QueuesKept DEF clientVars, history
<1>. QED BY <1>7, <1>8, <1>9 DEF Delivery!Apply, Queues, Ahead

\* The first write of the queue is answered and leaves it.
LEMMA AnsweredHead ==
  ASSUME IInv, replies # <<>>, handshake, NEW status \in {"ok", "error"},
         NotifyUser(Head(pipeline).id, status),
         mutations' = [mutations EXCEPT ![user] = Delete(mutations[user], Head(pipeline).id)],
         UNCHANGED <<user, nextBatchId, submitted, owner>>
  PROVE  /\ Queues' = [Queues EXCEPT ![user] = Tail(@)]
         /\ LET h == Head(Queues[user]) IN
            answer' = IF answer[h] = "waiting" THEN [answer EXCEPT ![h] = status] ELSE answer
<1>1. PICK h : h = mutations[user][1].write
  OBVIOUS
<1>2. /\ Delete(mutations[user], Head(pipeline).id) = Tail(mutations[user])
      /\ \A x \in Writes : answer'[x] = IF x = h /\ answer[x] = "waiting" THEN status ELSE answer[x]
      /\ answer' \in [Writes -> {"none", "waiting", "ok", "error", "lost"}]
  BY <1>1, HeadLeaves DEF ClientTypes
<1>3. /\ user \in Users /\ Head(Queues[user]) = h /\ h \in Writes
      /\ WritesOf(Tail(mutations[user])) = Tail(Queues[user])
  BY <1>1, HeadOfQueue
<1>4. answer \in [Writes -> {"none", "waiting", "ok", "error", "lost"}]
      /\ mutations \in [Users -> Seq(Batch)]
  BY DEF IInv, TypeOK
<1>5. Queues' = [Queues EXCEPT ![user] = Tail(@)]
  <2>1. \A v \in Users : mutations'[v] = IF v = user THEN Tail(mutations[user]) ELSE mutations[v]
    BY <1>2, <1>4
  <2>2. Queues' = [v \in Users |-> IF v = user THEN Tail(Queues[user]) ELSE WritesOf(mutations[v])]
    <3>1. PICK m : m = mutations'
      OBVIOUS
    <3>2. Queues' = [v \in Users |-> WritesOf(m[v])]
      BY <3>1 DEF Queues, WritesOf
    <3>3. \A v \in Users : WritesOf(m[v]) = IF v = user THEN Tail(Queues[user])
                                            ELSE WritesOf(mutations[v])
      BY <2>1, <1>3, <3>1
    <3>. QED BY <3>2, <3>3
  <2>3. Queues = [v \in Users |-> WritesOf(mutations[v])]
    BY DEF Queues
  <2>. QED BY <1>3, <2>2, <2>3
<1>6. answer' = IF answer[h] = "waiting" THEN [answer EXCEPT ![h] = status] ELSE answer
  <2>1. CASE answer[h] = "waiting"
    <3>1. \A x \in Writes : answer'[x] = [answer EXCEPT ![h] = status][x]
      BY <1>2, <1>4, <2>1
    <3>. QED BY <3>1, <1>2, <1>4, <2>1
  <2>2. CASE answer[h] # "waiting"
    <3>1. \A x \in Writes : answer'[x] = answer[x]
      BY <1>2, <2>2
    <3>. QED BY <3>1, <1>2, <1>4, <2>2
  <2>. QED BY <2>1, <2>2
<1>. QED BY <1>3, <1>5, <1>6

\* The head was applied, and one reply less is left.
LEMMA HeadRead ==
  ASSUME IInv, replies # <<>>, IsApplied(Head(replies)), replies' = Tail(replies)
  PROVE  Applied \in Nat /\ Applied > 0 /\ Applied' = Applied - 1
<1>1. PICK k \in 0..Len(replies) :
         /\ \A i \in 1..Len(replies) : IsApplied(replies[i]) <=> i <= k
         /\ Applied = k
  BY AppliedIs
<1>2. /\ Len(replies) \in Nat \ {0} /\ Head(replies) = replies[1] /\ replies \in Seq(Answer)
  BY FirstReply, StreamFacts DEF StreamTypes
<1>3. 1 \in 1..Len(replies) /\ k \in Nat /\ 1 <= k
  BY <1>1, <1>2
<1>4. /\ replies' \in Seq(Answer) /\ Len(replies') = Len(replies) - 1
      /\ \A i \in 1..Len(replies') : replies'[i] = replies[i + 1]
  BY <1>2, HeadTailProperties
<1>5. k - 1 \in 0..Len(replies')
  BY <1>1, <1>2, <1>3, <1>4
<1>6. \A i \in 1..Len(replies') : i + 1 \in 1..Len(replies) /\ (i <= k - 1 <=> i + 1 <= k)
  BY <1>2, <1>3, <1>4
<1>7. \A i \in 1..Len(replies') : IsApplied(replies'[i]) <=> i <= k - 1
  BY <1>1, <1>4, <1>6
<1>8. Applied' = k - 1
  BY <1>4, <1>5, <1>7, AppliedNext
<1>. QED BY <1>1, <1>3, <1>8

\* A positive answer that arrives is an acknowledgement.
LEMMA AcknowledgeStep == ASSUME IInv, OnMutationResult, NEW u, u = user PROVE Delivery!Acknowledge(u)
<1>1. /\ replies # <<>> /\ Head(replies).ok /\ Head(replies).to # Handshake
      /\ NotifyUser(Head(pipeline).id, "ok")
      /\ mutations' = [mutations EXCEPT ![user] = Delete(mutations[user], Head(pipeline).id)]
      /\ replies' = Tail(replies)
      /\ UNCHANGED <<user, nextBatchId, submitted, owner, server>>
  BY DEF OnMutationResult
<1>2. handshake
  BY <1>1, FirstReply DEF Reply
<1>3. PICK h : h = Head(Queues[user])
  OBVIOUS
<1>4. /\ Queues' = [Queues EXCEPT ![user] = Tail(@)]
      /\ answer' = IF answer[h] = "waiting" THEN [answer EXCEPT ![h] = "ok"] ELSE answer
  BY <1>1, <1>2, <1>3, AnsweredHead
<1>5. Applied \in Nat /\ Applied > 0 /\ Applied' = Applied - 1
  BY <1>1, HeadRead DEF IsApplied
<1>6. user \in Users
  BY CurrentQueue
<1>7. Ahead[user] > 0 /\ Ahead' = [Ahead EXCEPT ![user] = @ - 1]
  BY <1>1, <1>5, <1>6 DEF Ahead
<1>. QED BY <1>1, <1>3, <1>4, <1>7 DEF Delivery!Acknowledge, Delivery!Answered, Queues, Ahead, server

\* A write error is a refusal.
LEMMA RefuseStep == ASSUME IInv, OnWriteError, NEW u, u = user PROVE Delivery!Refuse(u)
<1>1. /\ \E i \in DOMAIN replies : ~replies[i].ok
      /\ NotifyUser(Head(pipeline).id, "error")
      /\ mutations' = [mutations EXCEPT ![user] = Delete(mutations[user], Head(pipeline).id)]
      /\ replies' = <<>>
      /\ UNCHANGED <<user, nextBatchId, submitted, owner, server>>
  BY DEF OnWriteError
<1>2. replies # <<>> /\ handshake
  BY <1>1, RefusalIsLate
<1>3. PICK h : h = Head(Queues[user])
  OBVIOUS
<1>4. /\ Queues' = [Queues EXCEPT ![user] = Tail(@)]
      /\ answer' = IF answer[h] = "waiting" THEN [answer EXCEPT ![h] = "error"] ELSE answer
  BY <1>1, <1>2, <1>3, AnsweredHead
<1>5. Queues[user] # <<>>
  BY <1>2, HeadOfQueue
<1>6. Ahead' = NoneAhead
  BY <1>1, ConnectionDropped
<1>. QED BY <1>1, <1>3, <1>4, <1>5, <1>6
         DEF Delivery!Refuse, Delivery!Answered, Queues, Ahead, NoneAhead, server

\* The process dies; those in told heard of the head of the current user's queue.
LEMMA DieStep ==
  ASSUME IInv, NEW told, \A w \in told : answer[w] = "waiting", Restarted(told),
         \A w \in told : Ahead[user] > 0 /\ w = Head(Queues[user])
  PROVE  Delivery!Die(told)
<1>1. /\ answer' \in [Writes -> {"none", "waiting", "ok", "error", "lost"}]
      /\ \A w \in Writes : answer'[w] = IF answer[w] # "waiting" THEN answer[w]
                                        ELSE IF w \in told THEN "ok" ELSE "lost"
  BY RestartAnswers
<1>2. answer' = [w \in 1..MaxWrites |-> IF answer[w] # "waiting" THEN answer[w]
                                        ELSE IF w \in told THEN "ok" ELSE "lost"]
  BY <1>1 DEF Writes
<1>3. replies' = <<>> /\ UNCHANGED <<mutations, submitted, doc>>
  BY DEF Restarted, server
<1>4. Queues' = Queues /\ Ahead' = NoneAhead
  BY <1>3, QueuesKept, ConnectionDropped
<1>5. \A w \in told : \E u \in Users : Ahead[u] > 0 /\ w = Head(Queues[u])
  BY CurrentQueue
<1>. QED BY <1>2, <1>3, <1>4, <1>5 DEF Delivery!Die, Queues, Ahead, NoneAhead

\* A process that dies while it handles an answer may have removed the write.
LEMMA KilledDuringResult ==
  ASSUME IInv, KillDuringResult
  PROVE  Delivery!Die({}) \/ \E w \in 1..MaxWrites : Delivery!Die({w})
<1>. DEFINE found == {c \in callbacks : c.user = user /\ c.id = Head(pipeline).id}
<1>1. PICK told : told = {c.write : c \in found}
  OBVIOUS
<1>2. /\ replies # <<>> /\ Head(replies).ok /\ Head(replies).to # Handshake
      /\ Restarted(told)
  BY <1>1 DEF KillDuringResult
<1>3. handshake
  BY <1>2, FirstReply DEF Reply
<1>4. PICK h : h = Head(Queues[user])
  OBVIOUS
<1>5. h = mutations[user][1].write /\ h \in Writes /\ user \in Users
  BY <1>2, <1>3, <1>4, HeadOfQueue
<1>6. told \subseteq {h} /\ \A w \in told : answer[w] = "waiting"
  <2>1. \A c \in found : c.write = h /\ answer[c.write] = "waiting"
    BY <1>2, <1>3, <1>5, FoundCallback DEF IInv, QueueInv, CallbacksMatch
  <2>. HIDE DEF found
  <2>. QED BY <2>1, <1>1
<1>7. Ahead[user] > 0
  <2>1. PICK k \in 0..Len(replies) :
           /\ \A i \in 1..Len(replies) : IsApplied(replies[i]) <=> i <= k
           /\ Applied = k
    BY AppliedIs
  <2>2. 1 \in 1..Len(replies) /\ IsApplied(replies[1]) /\ Len(replies) \in Nat
    BY <1>2, FirstReply DEF IsApplied
  <2>. QED BY <2>1, <2>2, <1>5 DEF Ahead
<1>8. Delivery!Die(told)
  BY <1>2, <1>4, <1>6, <1>7, DieStep
<1>9. told = {} \/ told = {h}
  BY <1>6
<1>. QED BY <1>5, <1>8, <1>9 DEF Writes

\* A step for one user is a step.
LEMMA OfUser ==
  ASSUME NEW u \in Users
  PROVE  /\ Delivery!Submit(u) => Delivery!Next
         /\ Delivery!Apply(u) => Delivery!Next
         /\ Delivery!Acknowledge(u) => Delivery!Next
         /\ Delivery!Refuse(u) => Delivery!Next
  BY Zenon DEF Delivery!Next

\* Every step of the client is one of the abstract specification or is not seen.
LEMMA DeliveryStep == IInv /\ [Next]_vars => [Delivery!Next]_(Delivery!deliveryVars)
<1>. SUFFICES ASSUME IInv, [Next]_vars
              PROVE  Delivery!Next \/ UNCHANGED Delivery!deliveryVars
  OBVIOUS
<1>0. PICK u \in Users : u = user
  BY CurrentQueue
<1>1. CASE Write
  <2>1. Delivery!Submit(u)
    BY <1>0, <1>1, SubmitStep
  <2>. QED BY <1>0, <2>1, OfUser
<1>2. CASE \E v \in Users : HandleCredentialChange(v)
  <2>1. replies' = <<>> /\ UNCHANGED <<mutations, submitted, answer, doc>>
    BY <1>2 DEF HandleCredentialChange, RestartNetwork, history, server
  <2>. QED BY <2>1, InterruptStep DEF Delivery!Next
<1>3. CASE ConnectivityChange
  <2>1. replies' = <<>> /\ UNCHANGED <<mutations, submitted, answer, doc>>
    BY <1>3 DEF ConnectivityChange, RestartNetwork, clientVars, history, server
  <2>. QED BY <2>1, InterruptStep DEF Delivery!Next
<1>4. CASE \E c \in 0..closeCount : CredentialsReady(c)
  <2>1. UNCHANGED <<user, mutations, submitted, answer, doc, replies>>
    BY <1>4 DEF CredentialsReady, clientVars, history, server
  <2>. QED BY <2>1, Stutter DEF Applied
<1>5. CASE \E c \in 0..closeCount : Break(c)
  <2>1. replies' = <<>> /\ UNCHANGED <<mutations, submitted, answer, doc>>
    BY <1>5 DEF Break, DroppedReplies, clientVars, history, server
  <2>. QED BY <2>1, InterruptStep DEF Delivery!Next
<1>6. CASE BackoffElapsed
  <2>1. UNCHANGED <<user, mutations, submitted, answer, doc, replies>>
    BY <1>6 DEF BackoffElapsed, clientVars, history, server, wire
  <2>. QED BY <2>1, Stutter DEF Applied
<1>7. CASE IdleTimeout
  <2>1. replies' = <<>> /\ UNCHANGED <<mutations, submitted, answer, doc>>
    BY <1>7 DEF IdleTimeout, clientVars, history, server
  <2>. QED BY <2>1, InterruptStep DEF Delivery!Next
<1>8. CASE ServerHandshake
  <2>1. /\ UNCHANGED <<user, mutations, submitted, answer, doc>>
        /\ requests # <<>> /\ Head(requests) = Handshake
        /\ replies' = Append(replies, Reply(Handshake, TRUE))
    BY <1>8 DEF ServerHandshake, Serving, clientVars, history, server
  <2>2. replies = <<>>
    BY <2>1, HandshakeIsFirst
  <2>3. PICK r : r = Reply(Handshake, TRUE)
    OBVIOUS
  <2>4. r \in Answer /\ ~IsApplied(r)
    BY <2>3, StreamFacts DEF Reply, Answer, IsApplied
  <2>5. replies' = <<r>> /\ <<>> \in Seq(Answer)
    BY <2>1, <2>2, <2>3, StreamFacts
  <2>6. /\ replies' \in Seq(Answer) /\ Len(replies') = 1
        /\ \A i \in 1..Len(replies') : replies'[i] = r
    BY <2>4, <2>5
  <2>7. 0 \in 0..Len(replies') /\ \A i \in 1..Len(replies') : IsApplied(replies'[i]) <=> i <= 0
    BY <2>4, <2>6
  <2>8. Applied' = 0
    BY <2>6, <2>7, AppliedNext
  <2>9. Applied = 0
    <3>1. 0 \in 0..Len(replies) /\ \A i \in 1..Len(replies) : IsApplied(replies[i]) <=> i <= 0
      BY <2>2
    <3>. QED BY <2>2, <2>5, <3>1, AppliedCount DEF Applied
  <2>. QED BY <2>1, <2>8, <2>9, Stutter
<1>9. CASE ServerCommit
  <2>1. Delivery!Apply(u)
    BY <1>0, <1>9, ApplyStep
  <2>. QED BY <1>0, <2>1, OfUser
<1>10. CASE ServerRefuse
  <2>1. /\ UNCHANGED <<user, mutations, submitted, answer, doc>>
        /\ Serving /\ Head(requests) # Handshake
        /\ replies' = Append(replies, Reply(Head(requests), FALSE))
    BY <1>10 DEF ServerRefuse, clientVars, history
  <2>2. Applied' = Applied
    BY <2>1, ReplyAdded
  <2>. QED BY <2>1, <2>2, Stutter
<1>11. CASE OnHandshakeComplete
  <2>1. /\ UNCHANGED <<user, mutations, submitted, answer, doc>>
        /\ replies # <<>> /\ Head(replies).to = Handshake /\ replies' = Tail(replies)
    BY <1>11 DEF OnHandshakeComplete, clientVars, history, server
  <2>2. replies = <<Reply(Handshake, TRUE)>>
    BY <2>1, FirstReply
  <2>3. PICK r : r = Reply(Handshake, TRUE)
    OBVIOUS
  <2>4. r \in Answer /\ ~IsApplied(r)
    BY <2>3, StreamFacts DEF Reply, Answer, IsApplied
  <2>5. /\ replies \in Seq(Answer) /\ Len(replies) = 1
        /\ \A i \in 1..Len(replies) : replies[i] = r
    <3>1. replies = <<r>> /\ Len(<<r>>) = 1 /\ <<r>>[1] = r
      BY <2>2, <2>3
    <3>. QED BY <2>4, <3>1
  <2>6. 0 \in 0..Len(replies) /\ \A i \in 1..Len(replies) : IsApplied(replies[i]) <=> i <= 0
    BY <2>4, <2>5
  <2>7. Applied = 0
    BY <2>5, <2>6, AppliedCount DEF Applied
  <2>8. Applied' = 0
    BY <2>1, <2>2, ConnectionDropped
  <2>. QED BY <2>1, <2>7, <2>8, Stutter
<1>12. CASE OnMutationResult
  <2>1. Delivery!Acknowledge(u)
    BY <1>0, <1>12, AcknowledgeStep
  <2>. QED BY <1>0, <2>1, OfUser
<1>13. CASE OnWriteError
  <2>1. Delivery!Refuse(u)
    BY <1>0, <1>13, RefuseStep
  <2>. QED BY <1>0, <2>1, OfUser
<1>14. CASE Kill
  <2>1. Restarted({}) /\ \A w \in {} : answer[w] = "waiting"
    BY <1>14 DEF Kill
  <2>2. \A w \in {} : Ahead[user] > 0 /\ w = Head(Queues[user])
    OBVIOUS
  <2>3. Delivery!Die({})
    BY <2>1, <2>2, DieStep
  <2>. QED BY <2>3 DEF Delivery!Next
<1>15. CASE KillDuringResult
  BY <1>15, KilledDuringResult DEF Delivery!Next
<1>16. CASE UNCHANGED vars
  BY <1>16, Stutter DEF vars, clientVars, wire, history, server, Applied
<1>. QED BY <1>1, <1>2, <1>3, <1>4, <1>5, <1>6, <1>7, <1>8, <1>9, <1>10, <1>11, <1>12, <1>13,
            <1>14, <1>15, <1>16 DEF Next, Server, Receive

\* So is its start.
LEMMA DeliveryInit == Init => Delivery!Init
<1>. SUFFICES ASSUME Init PROVE Delivery!Init
  OBVIOUS
<1>1. <<>> \in Seq(Batch) /\ <<>> \in Seq(Answer) /\ Len(<<>>) = 0
  BY EmptySeq
<1>2. WritesOf(<<>>) = <<>>
  BY <1>1, WritesAre, EmptySeq
<1>3. Queues = [u \in Users |-> <<>>]
  BY <1>2 DEF Init, Queues
<1>4. Applied = 0
  <2>1. replies = <<>> /\ 0 \in 0..Len(<<>>)
    BY <1>1 DEF Init
  <2>2. \A i \in 1..Len(<<>>) : IsApplied(<<>>[i]) <=> i <= 0
    BY <1>1
  <2>3. Cardinality({i \in DOMAIN <<>> : <<>>[i].ok /\ <<>>[i].to # Handshake}) = 0
    BY <1>1, <2>1, <2>2, AppliedCount
  <2>. QED BY <2>1, <2>3 DEF Applied
<1>5. Ahead = NoneAhead
  BY <1>4 DEF Ahead, NoneAhead
<1>. QED BY <1>3, <1>5 DEF Init, Delivery!Init, Queues, Ahead, NoneAhead, Writes

\* The pipeline, its stream, batch ids and callbacks deliver writes as
\* WriteDelivery says: every user's in the order they were made, again from the
\* oldest unanswered one after a close of the stream, a change of user or a
\* restart, each answer to the caller of the write it is for.
THEOREM Delivers == Spec => ImplementsDelivery
<1>. QED BY DeliveryInit, DeliveryStep, Invariance, PTL
         DEF Spec, ImplementsDelivery, Delivery!Spec
=============================================================================
