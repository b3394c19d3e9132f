---------------------------- MODULE WritePipeline ----------------------------
(***************************************************************************)
(* How the Firestore client of the iOS app carries the writes the app      *)
(* awaits to the server: the mutation queue on disk, the write pipeline of *)
(* RemoteStore, the write stream with its close count, backoff and idle    *)
(* timer, and the callbacks SyncEngine keeps per user.                     *)
(*                                                                         *)
(* Everything the client does runs on one worker queue, so an action is    *)
(* one task of that queue: a call of the app, a message of the stream, a   *)
(* timer, an answer of the credentials provider.                           *)
(***************************************************************************)
EXTENDS Naturals, Sequences, FiniteSets

CONSTANTS
    Users,              \* who may be signed in, the signed-out user included
    MaxPendingWrites,   \* kMaxPendingWrites
    Handshake,          \* the first message of a stream in either direction
    Faults,             \* which of AllFaults the environment may inject
    MaxWrites,          \* bound: writes the app makes, numbered in that order
    MaxCloses           \* bound: closes of the stream not caused by a refused write

AllFaults == {"break", "kill"}

Writes == 1..MaxWrites

ASSUME UsersAssumption == Users # {}
ASSUME PendingAssumption == MaxPendingWrites \in Nat \ {0}
ASSUME HandshakeAssumption == Handshake \notin Nat
ASSUME PipelineFaultsAssumption == Faults \subseteq AllFaults
ASSUME PipelineBoundsAssumption == MaxWrites \in Nat \ {0} /\ MaxCloses \in Nat

VARIABLES
    user,         \* current_user_
    mutations,    \* per user: the batches in LevelDB, in key order
    nextBatchId,  \* next_batch_id_ of the open mutation queue
    callbacks,    \* mutation_callbacks_
    pipeline,     \* write_pipeline_
    stream,       \* state_ of the write stream
    handshake,    \* handshake_complete_
    idle,         \* the idle timer is running
    closeCount,   \* close_count_
    credentials,  \* close counts captured by outstanding credential requests
    requests,     \* the open connection: sent, not yet processed by the server
    replies,      \* the open connection: sent by the server, not yet read
    submitted,    \* number of writes made
    owner,        \* who made each write
    answer,       \* what the app was told of each write
    committed,    \* writes the server applied at least once
    refused,      \* writes the server refused at least once
    doc           \* per user: the write last applied to the user's document

clientVars == <<user, mutations, nextBatchId, callbacks>>
streamVars == <<pipeline, stream, handshake, idle, closeCount, credentials>>
wire == <<requests, replies>>
history == <<submitted, owner, answer>>
server == <<committed, refused, doc>>
vars == <<clientVars, streamVars, wire, history, server>>

-----------------------------------------------------------------------------
(* The mutation queue: LevelDB rows keyed by user and batch id *)

Batch == [id : Writes, write : Writes]

\* How many batches of q have an id below n.
Below(q, n) == Cardinality({i \in DOMAIN q : q[i].id < n})

\* AddMutationBatch: a Put at the batch's key.
Put(q, b) == SubSeq(q, 1, Below(q, b.id)) \o <<b>> \o SubSeq(q, Below(q, b.id + 1) + 1, Len(q))

\* RemoveMutationBatch: a Delete of the batch's key.
Delete(q, n) == SubSeq(q, 1, Below(q, n)) \o SubSeq(q, Below(q, n + 1) + 1, Len(q))

AllIds(m) == {0} \cup UNION {{m[v][i].id : i \in DOMAIN m[v]} : v \in Users}

\* Mutant: the highest id is used again.
HighestBatchId(m) == CHOOSE n \in AllIds(m) : \A k \in AllIds(m) : k <= n

\* LoadNextBatchIdFromDb: one more than the highest id of any user.
LoadNextBatchId(m) == 1 + CHOOSE n \in AllIds(m) : \A k \in AllIds(m) : k <= n

-----------------------------------------------------------------------------
(* The write pipeline and the state of the stream *)

StreamState == {"initial", "starting", "open", "error", "backoff"}

IsStarted(s) == s \in {"starting", "backoff", "open"}

LastId(p) == IF p = <<>> THEN 0 ELSE p[Len(p)].id

Least(a, b) == IF a < b THEN a ELSE b

\* Mutant: the pipeline is refilled from the start of the queue.
FilledFromStart(p, q) == p \o SubSeq(q, 1, Least(MaxPendingWrites - Len(p), Len(q)))

\* FillWritePipeline's loop: batches after the last one retrieved, up to the limit.
Filled(p, q) ==
    LET from == Below(q, LastId(p) + 1)
    IN  p \o SubSeq(q, from + 1, Least(from + (MaxPendingWrites - Len(p)), Len(q)))

WritesOf(p) == [i \in DOMAIN p |-> p[i].write]

\* FillWritePipeline on pipeline p, queue q, with the stream in state s and the
\* messages sent before: new batches are written to an open stream, an empty
\* pipeline starts the idle timer, a pipeline with work starts the stream.
FillWritePipeline(p, q, s, count, sent, outstanding) ==
    LET f == Filled(p, q)
        writable == s = "open" /\ handshake
        added == SubSeq(f, Len(p) + 1, Len(f))
        start == ~IsStarted(s) /\ f # <<>>
    IN  /\ pipeline' = f
        /\ requests' = IF writable THEN sent \o WritesOf(added) ELSE sent
        /\ idle' = (s = "open" /\ IF f = <<>> THEN TRUE ELSE idle /\ ~(writable /\ added # <<>>))
        /\ stream' = IF ~start THEN s ELSE IF s = "error" THEN "backoff" ELSE "starting"
        /\ credentials' = IF start /\ s # "error" THEN outstanding \cup {count} ELSE outstanding
        /\ closeCount' = count

MayClose == closeCount < MaxCloses

-----------------------------------------------------------------------------
(* Calls of the app and changes of the signed-in user *)

\* SyncEngine::WriteMutations: the batch goes to disk, its callback is kept
\* under the current user, and the pipeline is refilled.
Write ==
    /\ submitted < MaxWrites
    /\ LET w == submitted + 1
           q == Put(mutations[user], [id |-> nextBatchId, write |-> w])
           taken == \E c \in callbacks : c.user = user /\ c.id = nextBatchId
       IN  /\ submitted' = w
           /\ owner' = [owner EXCEPT ![w] = user]
           /\ answer' = [answer EXCEPT ![w] = "waiting"]
           /\ mutations' = [mutations EXCEPT ![user] = q]
           /\ nextBatchId' = nextBatchId + 1
           /\ callbacks' = IF taken THEN callbacks
                           ELSE callbacks \cup {[user |-> user, id |-> nextBatchId, write |-> w]}
           /\ FillWritePipeline(pipeline, q, stream, closeCount, requests, credentials)
    /\ UNCHANGED <<user, handshake, replies, server>>

\* RestartNetwork: the streams are stopped, the pipeline is cleared, backoff is
\* inhibited, and the pipeline is filled from queue q.
RestartNetwork(q) ==
    LET count == IF IsStarted(stream) THEN closeCount + 1 ELSE closeCount
    IN  /\ FillWritePipeline(<<>>, q, "initial", count, <<>>, credentials)
        /\ handshake' = FALSE
        /\ replies' = <<>>

\* Mutant: the streams are restarted before the mutation queue is swapped.
RestartsFirst(u) == mutations[user]

\* The queue the pipeline is filled from after user u signed in.
QueueAfterChange(u) == mutations[u]

\* SyncEngine::HandleCredentialChange, also for a new token of the same user.
HandleCredentialChange(u) ==
    /\ MayClose
    /\ user' = u
    /\ nextBatchId' = IF u = user THEN nextBatchId ELSE LoadNextBatchId(mutations)
    /\ RestartNetwork(QueueAfterChange(u))
    /\ UNCHANGED <<mutations, callbacks, history, server>>

\* The connectivity callback of RemoteStore::Start.
ConnectivityChange ==
    /\ MayClose
    /\ RestartNetwork(mutations[user])
    /\ UNCHANGED <<clientVars, history, server>>

-----------------------------------------------------------------------------
(* The stream *)

\* Mutant: the close count is not compared.
AnyCount(c) == TRUE

\* A credentials answer is for the stream that asked for it.
IsCurrent(c) == c = closeCount

\* The credentials provider answers: ResumeStartWithCredentials opens the
\* stream, OnWriteStreamOpen writes the handshake. An answer to a stream that
\* was closed meanwhile is dropped.
CredentialsReady(c) ==
    /\ c \in credentials
    /\ credentials' = credentials \ {c}
    /\ IF IsCurrent(c)
       THEN stream' = "open" /\ requests' = Append(requests, Handshake) /\ idle' = FALSE
       ELSE UNCHANGED <<stream, requests, idle>>
    /\ UNCHANGED <<clientVars, pipeline, handshake, closeCount, replies, history, server>>

\* The backoff delay is over: Start from the state Initial.
BackoffElapsed ==
    /\ stream = "backoff"
    /\ stream' = "starting"
    /\ credentials' = credentials \cup {closeCount}
    /\ UNCHANGED <<clientVars, pipeline, handshake, idle, closeCount, wire, history, server>>

\* Mutant: what was read of the old connection is still delivered.
KeptReplies == replies

\* Replies left after a close: FastFinishCompletionsBlocking cancels the reads.
DroppedReplies == <<>>

\* Mutant: a broken stream waits for the next write.
NoRestart == "error"

\* OnWriteStreamClose starts the stream again, with backoff, if writes are pending.
AfterBreak == IF pipeline = <<>> THEN "error" ELSE "backoff"

\* Close with a transient error, before or after the handshake: the writes stay
\* in the pipeline and the stream is started again with backoff.
Break(c) ==
    /\ "break" \in Faults /\ MayClose
    /\ stream = "open" \/ (stream = "starting" /\ c \in credentials /\ IsCurrent(c))
    /\ closeCount' = closeCount + 1
    /\ stream' = AfterBreak
    /\ credentials' = credentials \ {c}
    /\ handshake' = FALSE /\ idle' = FALSE
    /\ requests' = <<>> /\ replies' = DroppedReplies
    /\ UNCHANGED <<clientVars, pipeline, history, server>>

\* The idle timer: Stop.
IdleTimeout ==
    /\ idle /\ MayClose
    /\ closeCount' = closeCount + 1
    /\ stream' = "initial" /\ handshake' = FALSE /\ idle' = FALSE
    /\ requests' = <<>> /\ replies' = <<>>
    /\ UNCHANGED <<clientVars, pipeline, credentials, history, server>>

-----------------------------------------------------------------------------
(* The server: requests of a stream are processed in order *)

Reply(m, ok) == [to |-> m, ok |-> ok]

\* A refused write ends the stream.
Serving == requests # <<>> /\ \A i \in DOMAIN replies : replies[i].ok

ServerHandshake ==
    /\ Serving /\ Head(requests) = Handshake
    /\ requests' = Tail(requests)
    /\ replies' = Append(replies, Reply(Handshake, TRUE))
    /\ UNCHANGED <<clientVars, streamVars, history, server>>

ServerCommit ==
    /\ Serving /\ Head(requests) # Handshake
    /\ LET w == Head(requests) IN
         /\ committed' = committed \cup {w}
         /\ doc' = [doc EXCEPT ![owner[w]] = w]
         /\ replies' = Append(replies, Reply(w, TRUE))
    /\ requests' = Tail(requests)
    /\ UNCHANGED <<clientVars, streamVars, history, refused>>

ServerRefuse ==
    /\ Serving /\ Head(requests) # Handshake
    /\ refused' = refused \cup {Head(requests)}
    /\ replies' = Append(replies, Reply(Head(requests), FALSE))
    /\ requests' = Tail(requests)
    /\ UNCHANGED <<clientVars, streamVars, history, committed, doc>>

-----------------------------------------------------------------------------
(* Messages of the server *)

\* OnWriteStreamHandshakeComplete: the whole pipeline is sent.
OnHandshakeComplete ==
    /\ replies # <<>> /\ Head(replies).to = Handshake
    /\ handshake' = TRUE
    /\ requests' = requests \o WritesOf(pipeline)
    /\ replies' = Tail(replies)
    /\ idle' = (idle /\ pipeline = <<>>)
    /\ UNCHANGED <<clientVars, pipeline, stream, closeCount, credentials, history, server>>

\* NotifyUser: the callback kept for the current user under id n is called, if any.
NotifyUser(n, status) ==
    LET found == {c \in callbacks : c.user = user /\ c.id = n}
    IN  /\ answer' = [w \in Writes |-> IF \E c \in found : c.write = w THEN status ELSE answer[w]]
        /\ callbacks' = callbacks \ found

\* OnWriteStreamMutationResult: the result is taken to be for the first write
\* of the pipeline; callback first, then the batch leaves the disk.
OnMutationResult ==
    /\ replies # <<>> /\ Head(replies).ok /\ Head(replies).to # Handshake
    /\ pipeline # <<>>
    /\ LET n == Head(pipeline).id
           q == Delete(mutations[user], n)
       IN  /\ NotifyUser(n, "ok")
           /\ mutations' = [mutations EXCEPT ![user] = q]
           /\ FillWritePipeline(Tail(pipeline), q, stream, closeCount, requests, credentials)
    /\ replies' = Tail(replies)
    /\ UNCHANGED <<user, nextBatchId, handshake, submitted, owner, server>>

\* The stream ends with a permanent error: HandleWriteError takes the first
\* write of the pipeline for the culprit and drops it. The error is read after
\* the replies before it, unless a write operation that fails first ends the
\* call and cancels their reads (GrpcStream::OnOperationFailed).
OnWriteError ==
    /\ \E i \in DOMAIN replies : ~replies[i].ok
    /\ pipeline # <<>>
    /\ LET n == Head(pipeline).id
           q == Delete(mutations[user], n)
       IN  /\ NotifyUser(n, "error")
           /\ mutations' = [mutations EXCEPT ![user] = q]
           /\ FillWritePipeline(Tail(pipeline), q, "initial", closeCount + 1, <<>>, credentials)
    /\ handshake' = FALSE /\ replies' = <<>>
    /\ UNCHANGED <<user, nextBatchId, submitted, owner, server>>

-----------------------------------------------------------------------------
(* The process dies and is started again: only the disk is left *)

Restarted(told) ==
    /\ answer' = [w \in Writes |->
                     CASE answer[w] # "waiting" -> answer[w]
                       [] w \in told -> "ok"
                       [] OTHER -> "lost"]
    /\ callbacks' = {}
    /\ nextBatchId' = LoadNextBatchId(mutations)
    /\ FillWritePipeline(<<>>, mutations[user], "initial", closeCount + 1, <<>>, {})
    /\ handshake' = FALSE /\ replies' = <<>>
    /\ UNCHANGED <<user, mutations, submitted, owner, server>>

Kill == "kill" \in Faults /\ MayClose /\ Restarted({})

\* HandleSuccessfulWrite calls the callback before the batch leaves the disk:
\* the process dies in between.
KillDuringResult ==
    /\ "kill" \in Faults /\ MayClose
    /\ replies # <<>> /\ Head(replies).ok /\ Head(replies).to # Handshake
    /\ pipeline # <<>>
    /\ Restarted({c.write : c \in {c \in callbacks : c.user = user /\ c.id = Head(pipeline).id}})

-----------------------------------------------------------------------------
Init ==
    /\ user \in Users
    /\ mutations = [u \in Users |-> <<>>]
    /\ nextBatchId = 1
    /\ callbacks = {}
    /\ pipeline = <<>>
    /\ stream = "initial"
    /\ handshake = FALSE
    /\ idle = FALSE
    /\ closeCount = 0
    /\ credentials = {}
    /\ requests = <<>> /\ replies = <<>>
    /\ submitted = 0
    /\ owner = [w \in Writes |-> user]
    /\ answer = [w \in Writes |-> "none"]
    /\ committed = {} /\ refused = {}
    /\ doc = [u \in Users |-> 0]

Server == ServerHandshake \/ ServerCommit \/ ServerRefuse

Receive == OnHandshakeComplete \/ OnMutationResult \/ OnWriteError

Next ==
    \/ Write
    \/ \E u \in Users : HandleCredentialChange(u)
    \/ ConnectivityChange
    \/ \E c \in 0..closeCount : CredentialsReady(c) \/ Break(c)
    \/ BackoffElapsed
    \/ IdleTimeout
    \/ Server
    \/ Receive
    \/ Kill
    \/ KillDuringResult

Spec == Init /\ [][Next]_vars

\* Timers fire, the credentials provider answers, the server processes what it
\* was sent and the stream delivers its answers. Closes are bounded.
FairSpec ==
    /\ Spec
    /\ WF_vars(CredentialsReady(closeCount))
    /\ WF_vars(BackoffElapsed)
    /\ WF_vars(Server)
    /\ WF_vars(Receive)

-----------------------------------------------------------------------------
(* Properties *)

Callback == [user : Users, id : Writes, write : Writes]

TypeOK ==
    /\ user \in Users
    /\ mutations \in [Users -> Seq(Batch)]
    /\ nextBatchId \in 1..(MaxWrites + 1)
    /\ callbacks \subseteq Callback
    /\ pipeline \in Seq(Batch)
    /\ stream \in StreamState
    /\ handshake \in BOOLEAN /\ idle \in BOOLEAN
    /\ closeCount \in Nat /\ credentials \subseteq Nat
    /\ requests \in Seq(Writes \cup {Handshake})
    /\ replies \in Seq([to : Writes \cup {Handshake}, ok : BOOLEAN])
    /\ submitted \in 0..MaxWrites
    /\ owner \in [Writes -> Users]
    /\ answer \in [Writes -> {"none", "waiting", "ok", "error", "lost"}]
    /\ committed \subseteq Writes /\ refused \subseteq Writes
    /\ doc \in [Users -> 0..MaxWrites]

\* What the app is told is true: a write whose await completed was applied by
\* the server, and one whose await threw was refused by it or, when the answer
\* before a refusal is discarded with the connection, applied. No restart of
\* the stream, change of user or reuse of a batch id makes RemoteStore take the
\* result of one write for the result of another.
AnswersAreTrue ==
    \A w \in Writes :
        /\ answer[w] = "ok" => w \in committed
        /\ answer[w] = "error" => w \in refused \cup committed

\* The assertions of OnWriteStreamMutationResult and RemoveMutationBatch: the
\* pipeline is always the beginning of the current user's mutation queue, so a
\* result finds the batch it is for.
PipelineMatchesQueue ==
    /\ Len(pipeline) <= Len(mutations[user])
    /\ pipeline = SubSeq(mutations[user], 1, Len(pipeline))
    /\ stream = "open" /\ handshake =>
          WritesOf(pipeline) = [i \in DOMAIN replies |-> replies[i].to] \o requests
             \/ \E i \in DOMAIN replies : ~replies[i].ok

\* The assertions of the stream: credentials that arrive for the current close
\* count find it starting (ResumeStartWithCredentials), so no answer to a stream
\* that was stopped and started meanwhile opens the new one a second time; and
\* the idle timer, which stops the stream, never runs while writes are pending
\* (OnWriteStreamClose).
StreamAssertions ==
    /\ closeCount \in credentials => stream = "starting"
    /\ idle => stream = "open" /\ pipeline = <<>>

\* Resending never loses an update: whenever a user's document is behind a
\* write the server has applied, that write is still queued and will be sent
\* again after the older one that overwrote it.
NoLostUpdate ==
    \A w \in committed \ refused :
        w > doc[owner[w]] => \E i \in DOMAIN mutations[owner[w]] : mutations[owner[w]][i].write = w

\* A user who stays signed in gets every pending write answered, those of
\* earlier sessions and processes included: no close of the stream, backoff,
\* idle timeout or refused write leaves the pipeline without a started stream.
WritesAnswered ==
    \A u \in Users : <>[](user = u) => []<>(mutations[u] = <<>>)

-----------------------------------------------------------------------------
Applied == Cardinality({i \in DOMAIN replies : replies[i].ok /\ replies[i].to # Handshake})

Delivery == INSTANCE WriteDelivery
    WITH queue <- [u \in Users |-> WritesOf(mutations[u])],
         ahead <- [u \in Users |-> IF u = user THEN Applied ELSE 0],
         made <- submitted,
         told <- answer,
         content <- doc

\* The pipeline delivers: every user's writes are applied in the order they
\* were made, again from the oldest unanswered one after each interruption, and
\* each answer reaches the caller of the write it is for.
ImplementsDelivery == Delivery!Spec
=============================================================================
