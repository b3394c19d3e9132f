---------------------------- MODULE SessionProofs ----------------------------
(***************************************************************************)
(* Theorems about Session. Types and the wallet hold for every number of   *)
(* users, routes and initUser calls. What the app takes for the signed-in  *)
(* user is proved for calls that do not overlap (MaxCalls = 1).            *)
(***************************************************************************)
EXTENDS Session, SequenceTheorems, TLAPS

Bounds == /\ MaxCalls \in Nat \ {0} /\ MaxPages \in Nat \ {0} /\ MaxBalance \in Nat
          /\ MaxRestarts \in Nat /\ NoUser \notin Users

\* The bounds under one name.
LEMMA Bounded == Bounds
  BY SessionBoundsAssumption, NoUserAssumption DEF Bounds

-----------------------------------------------------------------------------
(* Types *)

\* A verification page knows whose phone number it is for.
NamedPage == {r \in Page : r.page = "verification" => r.who \in Users}

UserRecord == [exists : BOOLEAN, balance : 0..MaxBalance, token : BOOLEAN]

ScreenTypes == /\ nav \in Seq(NamedPage) /\ Len(nav) <= MaxPages /\ calls \subseteq CallRecord

DataTypes ==
    /\ auth \in Account
    /\ profile \in [uid : Account, balance : 0..MaxBalance]
    /\ queue \in [Account -> Seq(PendingWrite)]
    /\ users \in [Users -> UserRecord]
    /\ restarts \in 0..MaxRestarts
    /\ failed \subseteq Users /\ reset \subseteq Users

Typed == ScreenTypes /\ DataTypes

\* The types the proofs work with are no weaker than the module's.
LEMMA TypesAre == Typed => TypeOK
<1>1. NamedPage \subseteq Page
  BY DEF NamedPage
<1>2. \A s \in Seq(NamedPage) : s \in Seq(Page)
  BY <1>1
<1>. QED BY <1>2 DEF Typed, ScreenTypes, DataTypes, TypeOK, UserRecord

-----------------------------------------------------------------------------
(* Routes *)

PageName == {"welcome", "phone", "verification", "profile", "navigation", "dialog"}

\* A page that is not busy.
LEMMA ScreenIs ==
  ASSUME NEW p \in PageName, NEW u \in Account
  PROVE  /\ Screen(p, u).page = p /\ Screen(p, u).who = u /\ ~Screen(p, u).busy
         /\ p # "verification" \/ u \in Users => Screen(p, u) \in NamedPage
  BY DEF Screen, Page, NamedPage, PageName

\* The stack and its top.
LEMMA NavIs ==
  ASSUME Typed
  PROVE  /\ nav \in Seq(NamedPage) /\ Len(nav) \in 0..MaxPages /\ Len(nav) \in Nat
         /\ \A i \in 1..Len(nav) : nav[i] \in NamedPage
         /\ nav # <<>> => Len(nav) \in 1..MaxPages /\ Top = nav[Len(nav)] /\ Top \in NamedPage
<1>1. nav \in Seq(NamedPage) /\ Len(nav) \in 0..MaxPages /\ Len(nav) \in Nat
  BY LenProperties, Bounded DEF Typed, ScreenTypes, Bounds
<1>2. \A i \in 1..Len(nav) : nav[i] \in NamedPage
  BY <1>1
<1>3. nav # <<>> => Len(nav) \in 1..MaxPages
  BY <1>1, EmptySeq
<1>4. nav # <<>> => Len(nav) \in 1..Len(nav)
  BY <1>1, <1>3
<1>. QED BY <1>1, <1>2, <1>3, <1>4 DEF Top

\* What is left of a stack under a Welcome or Navigation.
LEMMA ShownIs ==
  ASSUME NEW stack \in Seq(NamedPage)
  PROVE  /\ Shown(stack) \in Seq(NamedPage) /\ Len(Shown(stack)) <= Len(stack)
         /\ stack # <<>> => Shown(stack) # <<>>
         /\ stack # <<>> /\ stack[Len(stack)].page \in {"welcome", "navigation"} =>
               Shown(stack) = <<stack[Len(stack)]>>
         /\ ~(stack # <<>> /\ stack[Len(stack)].page \in {"welcome", "navigation"}) =>
               Shown(stack) = stack
<1>1. Len(stack) \in Nat /\ (stack # <<>> <=> Len(stack) > 0)
  BY LenProperties, EmptySeq
<1>2. CASE stack # <<>> /\ stack[Len(stack)].page \in {"welcome", "navigation"}
  <2>1. Shown(stack) = <<stack[Len(stack)]>>
    BY <1>1, <1>2 DEF Shown
  <2>2. PICK r : r = stack[Len(stack)]
    OBVIOUS
  <2>3. r \in NamedPage
    <3>1. Len(stack) \in 1..Len(stack)
      BY <1>1, <1>2
    <3>. QED BY <2>2, <3>1
  <2>4. <<r>> \in Seq(NamedPage) /\ Len(<<r>>) = 1 /\ <<r>> # <<>>
    BY <2>3
  <2>. QED BY <1>1, <1>2, <2>1, <2>2, <2>4
<1>3. CASE ~(stack # <<>> /\ stack[Len(stack)].page \in {"welcome", "navigation"})
  <2>1. Shown(stack) = stack
    BY <1>1, <1>3 DEF Shown
  <2>. QED BY <1>1, <1>3, <2>1
<1>. QED BY <1>2, <1>3

\* What becomes of the position of a captured context.
LEMMA MovedIs ==
  ASSUME NEW at \in 0..Gone, NEW stack, NEW kept \in 0..MaxPages
  PROVE  /\ Moved(at, stack, kept) \in 0..Gone
         /\ at \in {Leaving, Gone} => Moved(at, stack, kept) = Gone
         /\ at \in kept + 1 .. MaxPages => Moved(at, stack, kept) = Leaving
         /\ at \in 0..kept => Moved(at, stack, kept) \in {at, Covered}
<1>. USE Bounded DEF Bounds, Leaving, Gone, Covered
<1>1. CASE at \in {Leaving, Gone}
  <2>1. at \notin kept + 1 .. MaxPages /\ at \notin 0..kept
    BY <1>1
  <2>2. Moved(at, stack, kept) = Gone
    BY <1>1, <2>1 DEF Moved
  <2>. QED BY <1>1, <2>1, <2>2
<1>2. CASE at \in kept + 1 .. MaxPages
  <2>1. at \notin {Leaving, Gone} /\ at \notin 0..kept
    BY <1>2
  <2>2. Moved(at, stack, kept) = Leaving
    BY <1>2, <2>1 DEF Moved
  <2>. QED BY <1>2, <2>1, <2>2
<1>3. CASE at \in 0..kept
  <2>1. at \notin {Leaving, Gone} /\ at \notin kept + 1 .. MaxPages
    BY <1>3
  <2>2. Moved(at, stack, kept) = IF Shown(stack) = stack THEN at ELSE Covered
    BY <1>3, <2>1 DEF Moved
  <2>. QED BY <1>3, <2>1, <2>2
<1>. QED BY <1>1, <1>2, <1>3

\* The fields of a call.
LEMMA CallIs ==
  \A c \in CallRecord : /\ c.n \in 1..MaxCalls /\ c.from \in {"main", "verifyOtp", "signUp"}
                        /\ c.uid \in Users /\ c.at \in 0..Gone
                        /\ c.stage \in {"signIn", "get", "token", "update"}
                        /\ \A a \in 0..Gone : [c EXCEPT !.at = a] \in CallRecord
                        /\ \A s \in {"signIn", "get", "token", "update"} :
                              [c EXCEPT !.stage = s] \in CallRecord
  BY DEF CallRecord

-----------------------------------------------------------------------------
(* Types *)

\* Showing a stack of pages keeps the types.
LEMMA ShowTypes ==
  ASSUME Typed, NEW stack \in Seq(NamedPage), NEW kept \in 0..MaxPages, NEW cs \in SUBSET calls,
         Show(stack, kept, cs)
  PROVE  ScreenTypes'
<1>1. nav' = Shown(stack) /\ Len(Shown(stack)) <= MaxPages /\ Shown(stack) \in Seq(NamedPage)
  BY ShownIs DEF Show
<1>2. calls' = {[c EXCEPT !.at = Moved(@, stack, kept)] : c \in cs}
  BY DEF Show
<1>3. ASSUME NEW c \in cs PROVE [c EXCEPT !.at = Moved(@, stack, kept)] \in CallRecord
  <2>1. c \in CallRecord /\ c.at \in 0..Gone
    BY CallIs DEF Typed, ScreenTypes
  <2>2. Moved(c.at, stack, kept) \in 0..Gone
    BY <2>1, MovedIs
  <2>. QED BY <2>1, <2>2, CallIs
<1>4. calls' \subseteq CallRecord
  BY <1>2, <1>3
<1>. QED BY <1>1, <1>4 DEF ScreenTypes

\* So does a push.
LEMMA PushTypes ==
  ASSUME Typed, NEW p \in PageName, NEW u \in Account, NEW cs \in SUBSET calls, Push(p, u, cs),
         p # "verification"
  PROVE  ScreenTypes'
<1>1. Append(nav, Screen(p, u)) \in Seq(NamedPage)
  BY ScreenIs, NavIs, AppendProperties
<1>. QED BY <1>1, NavIs, ShowTypes DEF Push

\* The stack below its top.
LEMMA FrontIs ==
  ASSUME Typed, nav # <<>>
  PROVE  /\ Front(1) \in Seq(NamedPage) /\ Len(Front(1)) = Len(nav) - 1
         /\ Len(nav) - 1 \in 0..MaxPages
         /\ \A i \in 1..(Len(nav) - 1) : Front(1)[i] = nav[i]
<1>1. Len(nav) \in 1..MaxPages /\ MaxPages \in Nat /\ \A i \in 1..Len(nav) : nav[i] \in NamedPage
  BY NavIs, Bounded DEF Bounds
<1>2. PICK n : n = Len(nav) - 1
  OBVIOUS
<1>3. 1 \in Int /\ n \in Int /\ n \in 0..MaxPages /\ \A i \in 1..n : nav[i] \in NamedPage
  BY <1>1, <1>2
<1>4. /\ SubSeq(nav, 1, n) \in Seq(NamedPage)
      /\ Len(SubSeq(nav, 1, n)) = n
      /\ \A i \in 1..n : SubSeq(nav, 1, n)[i] = nav[i]
  BY <1>3, SubSeqProperties
<1>. QED BY <1>2, <1>3, <1>4 DEF Front

\* Replacing the page on top keeps the types.
LEMMA ReplaceTypes ==
  ASSUME Typed, nav # <<>>, NEW p \in PageName, p # "verification",
         PushReplacement(p)
  PROVE  ScreenTypes'
<1>1. NoUser \in Account
  BY DEF Account
<1>2. Append(Front(1), Screen(p, NoUser)) \in Seq(NamedPage)
  BY <1>1, ScreenIs, FrontIs, AppendProperties
<1>. QED BY <1>2, FrontIs, ShowTypes DEF PushReplacement

\* The button of the topmost page shows that it is busy.
LEMMA BusyIs ==
  ASSUME Typed, nav # <<>>
  PROVE  /\ Busy \in Seq(NamedPage) /\ Len(Busy) = Len(nav)
         /\ \A i \in 1..Len(nav) : /\ Busy[i].page = nav[i].page /\ Busy[i].who = nav[i].who
                                   /\ i # Len(nav) => Busy[i] = nav[i]
         /\ Busy[Len(nav)].busy = TRUE
<1>1. PICK n : n = Len(nav)
  OBVIOUS
<1>2. PICK r : r = [nav[n] EXCEPT !.busy = TRUE]
  OBVIOUS
<1>3. n \in 1..Len(nav) /\ nav[n] \in NamedPage /\ nav \in Seq(NamedPage)
  BY <1>1, NavIs
<1>4. r \in NamedPage /\ r.page = nav[n].page /\ r.who = nav[n].who /\ r.busy = TRUE
  BY <1>2, <1>3 DEF Page, NamedPage
<1>5. Busy = [nav EXCEPT ![n] = r]
  BY <1>1, <1>2, <1>3 DEF Busy
<1>6. /\ Busy \in Seq(NamedPage) /\ Len(Busy) = Len(nav)
      /\ \A j \in 1..Len(nav) : Busy[j] = IF j = n THEN r ELSE nav[j]
  BY <1>3, <1>4, <1>5, ExceptSeq
<1>. QED BY <1>1, <1>3, <1>4, <1>6

\* The page that a call's result leads to.
LEMMA AfterIs == \A b \in BOOLEAN : After(b) \in PageName /\ After(b) # "verification"
  BY DEF After, PageName

\* A call that returns keeps the types.
LEMMA ReturnTypes ==
  ASSUME Typed, NEW c \in calls, NEW registered \in BOOLEAN, Return(c, registered)
  PROVE  ScreenTypes'
<1>1. c.uid \in Account /\ After(registered) \in PageName /\ After(registered) # "verification"
      /\ (calls \ {c}) \in SUBSET calls
  BY CallIs, AfterIs DEF Typed, ScreenTypes, Account
<1>2. CASE c.from = "main" /\ Show(<<Screen(After(registered), c.uid)>>, 0, calls \ {c})
  <2>1. PICK r : r = Screen(After(registered), c.uid)
    OBVIOUS
  <2>2. r \in NamedPage
    BY <1>1, <2>1, ScreenIs
  <2>3. <<r>> \in Seq(NamedPage) /\ 0 \in 0..MaxPages
    BY <2>2, Bounded DEF Bounds
  <2>. QED BY <1>1, <1>2, <2>1, <2>3, ShowTypes
<1>3. CASE Push(After(registered), c.uid, calls \ {c})
  BY <1>1, <1>3, PushTypes
<1>4. CASE calls' = calls \ {c} /\ UNCHANGED nav
  BY <1>4 DEF Typed, ScreenTypes
<1>. QED BY <1>2, <1>3, <1>4 DEF Return

\* A call that begins is one.
LEMMA BeginTypes ==
  ASSUME Typed, NEW from \in {"verifyOtp", "signUp"}, NEW u \in Users,
         NEW stage \in {"signIn", "get"}, Begin(from, u, stage)
  PROVE  calls' \subseteq CallRecord
<1>1. PICK n \in Free : calls' = calls \cup
         {[n |-> n, from |-> from, uid |-> u, stage |-> stage, at |-> Len(nav)]}
  BY DEF Begin
<1>2. n \in 1..MaxCalls /\ Len(nav) \in 0..Gone
  BY <1>1, NavIs, Bounded DEF Free, Gone, Bounds
<1>. QED BY <1>1, <1>2 DEF Typed, ScreenTypes, CallRecord

\* A call that goes on is one.
LEMMA AdvanceTypes ==
  ASSUME Typed, NEW c \in calls, NEW stage \in {"get", "token", "update"}, Advance(c, stage)
  PROVE  calls' \subseteq CallRecord
<1>1. c \in CallRecord /\ calls \subseteq CallRecord
  BY DEF Typed, ScreenTypes
<1>2. [c EXCEPT !.stage = stage] \in CallRecord
  BY <1>1, CallIs
<1>3. calls' = (calls \ {c}) \cup {[c EXCEPT !.stage = stage]}
  BY DEF Advance
<1>. QED BY <1>1, <1>2, <1>3

\* A write is added to the queue of the signed-in user only.
LEMMA EnqueueIs ==
  ASSUME Typed, NEW op \in {"set", "token"}, NEW u \in Users, NEW n \in 0..MaxCalls,
         Enqueue(op, u, n)
  PROVE  /\ queue' \in [Account -> Seq(PendingWrite)] /\ auth \in Account
         /\ queue'[auth] = Append(queue[auth], [op |-> op, uid |-> u, n |-> n])
         /\ \A a \in Account \ {auth} : queue'[a] = queue[a]
<1>1. PICK w : w = [op |-> op, uid |-> u, n |-> n]
  OBVIOUS
<1>2. w \in PendingWrite
  BY <1>1 DEF PendingWrite
<1>3. auth \in Account /\ queue \in [Account -> Seq(PendingWrite)]
  BY DEF Typed, DataTypes
<1>4. queue[auth] \in Seq(PendingWrite) /\ Append(queue[auth], w) \in Seq(PendingWrite)
  BY <1>2, <1>3, AppendProperties
<1>5. queue' = [queue EXCEPT ![auth] = Append(@, w)]
  BY <1>1 DEF Enqueue
<1>. QED BY <1>1, <1>3, <1>4, <1>5

-----------------------------------------------------------------------------
(* The write at the head of the signed-in user's queue *)

\* Acknowledge by the cases of the write w, which the server answers.
LEMMA AnsweredWrite ==
  ASSUME Typed, Acknowledge, NEW w, w = Head(queue[auth])
  PROVE  /\ auth \in Account /\ queue[auth] # <<>> /\ w \in PendingWrite /\ w = queue[auth][1]
         /\ queue' = [queue EXCEPT ![auth] = Tail(@)]
         /\ queue' \in [Account -> Seq(PendingWrite)]
         /\ Len(queue'[auth]) = Len(queue[auth]) - 1 /\ Len(queue[auth]) \in Nat \ {0}
         /\ \A i \in 1..Len(queue'[auth]) : queue'[auth][i] = queue[auth][i + 1]
         /\ \A a \in Account \ {auth} : queue'[a] = queue[a]
         /\ users' \in [Users -> UserRecord]
         /\ w.op = "set" =>
               /\ users' = [users EXCEPT ![w.uid] = [exists |-> TRUE, balance |-> 0, token |-> FALSE]]
               /\ reset' = IF users[w.uid].exists THEN reset \cup {w.uid} ELSE reset
         /\ w.op # "set" =>
               /\ reset' = reset
               /\ users' = IF users[w.uid].exists THEN [users EXCEPT ![w.uid].token = TRUE]
                           ELSE users
         /\ UNCHANGED <<auth, profile, restarts>>
         /\ LET waiting == {c \in calls : c.stage = "update" /\ c.n = w.n}
                ok == w.op = "set" \/ users[w.uid].exists
            IN  \/ waiting = {} /\ UNCHANGED <<nav, calls, failed>>
                \/ \E c \in waiting : Return(c, ok) /\ failed' = IF ok THEN failed ELSE failed \cup {c.uid}
<1>1. /\ auth \in Account /\ queue \in [Account -> Seq(PendingWrite)] /\ queue[auth] # <<>>
      /\ queue' = [queue EXCEPT ![auth] = Tail(@)] /\ UNCHANGED <<auth, profile, restarts>>
  BY DEF Acknowledge, Typed, DataTypes
<1>2. PICK q : q = queue[auth]
  OBVIOUS
<1>3. /\ q \in Seq(PendingWrite) /\ q # <<>> /\ Len(q) \in Nat \ {0}
      /\ Tail(q) \in Seq(PendingWrite) /\ Len(Tail(q)) = Len(q) - 1
      /\ \A i \in 1..Len(Tail(q)) : Tail(q)[i] = q[i + 1]
  BY <1>1, <1>2, HeadTailProperties, LenProperties, EmptySeq
<1>4. w = q[1] /\ q[1] \in PendingWrite
  <2>1. 1 \in 1..Len(q)
    BY <1>3
  <2>. QED BY <1>2, <1>3, <2>1
<1>5. /\ queue' \in [Account -> Seq(PendingWrite)] /\ queue'[auth] = Tail(q)
      /\ \A a \in Account \ {auth} : queue'[a] = queue[a]
  BY <1>1, <1>2, <1>3
<1>6. w.op \in {"set", "token"} /\ w.uid \in Users /\ users \in [Users -> UserRecord]
  BY <1>4 DEF PendingWrite, Typed, DataTypes
<1>7. /\ w.op = "set" =>
            /\ users' = [users EXCEPT ![w.uid] = [exists |-> TRUE, balance |-> 0, token |-> FALSE]]
            /\ reset' = IF users[w.uid].exists THEN reset \cup {w.uid} ELSE reset
      /\ w.op # "set" =>
            /\ reset' = reset
            /\ users' = IF users[w.uid].exists THEN [users EXCEPT ![w.uid].token = TRUE] ELSE users
  <2>1. users' = CASE w.op = "set" -> [users EXCEPT ![w.uid] =
                            [exists |-> TRUE, balance |-> 0, token |-> FALSE]]
                   [] w.op = "token" /\ (w.op = "set" \/ users[w.uid].exists) ->
                         [users EXCEPT ![w.uid].token = TRUE]
                   [] OTHER -> users
    BY DEF Acknowledge
  <2>2. reset' = IF w.op = "set" /\ users[w.uid].exists THEN reset \cup {w.uid} ELSE reset
    BY DEF Acknowledge
  <2>3. CASE w.op = "set"
    <3>1. w.op # "token"
      BY <2>3
    <3>. QED BY <2>1, <2>2, <2>3, <3>1
  <2>4. CASE w.op = "token" /\ users[w.uid].exists
    <3>1. w.op # "set"
      BY <2>4
    <3>. QED BY <2>1, <2>2, <2>4, <3>1
  <2>5. CASE w.op = "token" /\ ~users[w.uid].exists
    <3>1. w.op # "set"
      BY <2>5
    <3>. QED BY <2>1, <2>2, <2>5, <3>1
  <2>. QED BY <1>6, <2>3, <2>4, <2>5
<1>8. users' \in [Users -> UserRecord]
  <2>1. [exists |-> TRUE, balance |-> 0, token |-> FALSE] \in UserRecord
    BY Bounded DEF UserRecord, Bounds
  <2>2. \A r \in UserRecord : [r EXCEPT !.token = TRUE] \in UserRecord
    BY DEF UserRecord
  <2>3. [users EXCEPT ![w.uid].token = TRUE] = [users EXCEPT ![w.uid] = [@ EXCEPT !.token = TRUE]]
    BY <1>6
  <2>. QED BY <1>6, <1>7, <2>1, <2>2, <2>3
<1>9. LET waiting == {c \in calls : c.stage = "update" /\ c.n = w.n}
          ok == w.op = "set" \/ users[w.uid].exists
      IN  \/ waiting = {} /\ UNCHANGED <<nav, calls, failed>>
          \/ \E c \in waiting : Return(c, ok) /\ failed' = IF ok THEN failed ELSE failed \cup {c.uid}
  BY DEF Acknowledge, Fails
<1>. QED BY <1>1, <1>2, <1>3, <1>4, <1>5, <1>7, <1>8, <1>9

-----------------------------------------------------------------------------
(* Types *)

\* The types at the start.
LEMMA InitTypes == Init => Typed
<1>. SUFFICES ASSUME Init PROVE Typed
  OBVIOUS
<1>1. NoUser \in Account /\ 0 \in 0..MaxBalance /\ 0 \in 0..MaxRestarts /\ <<>> \in Seq(PendingWrite)
  BY Bounded DEF Bounds, Account
<1>2. PICK r : r = Screen("welcome", NoUser)
  OBVIOUS
<1>3. r \in NamedPage
  BY <1>1, <1>2, ScreenIs DEF PageName
<1>4. <<r>> \in Seq(NamedPage) /\ Len(<<r>>) = 1 /\ 1 <= MaxPages
  BY <1>3, Bounded DEF Bounds
<1>5. ScreenTypes
  BY <1>2, <1>4 DEF Init, ScreenTypes
<1>6. users \in [Users -> UserRecord]
  <2>1. \A e \in BOOLEAN : [exists |-> e, balance |-> 0, token |-> FALSE] \in UserRecord
    BY <1>1 DEF UserRecord
  <2>2. PICK S : S = {[exists |-> e, balance |-> 0, token |-> FALSE] : e \in BOOLEAN}
    OBVIOUS
  <2>3. S \subseteq UserRecord
    BY <2>1, <2>2
  <2>4. users \in [Users -> S]
    BY <2>2 DEF Init
  <2>. QED BY <2>3, <2>4
<1>7. DataTypes
  BY <1>1, <1>6 DEF Init, DataTypes
<1>. QED BY <1>5, <1>7 DEF Typed

\* Taps keep the types.
LEMMA TapTypes == Typed /\ Tap => Typed'
<1>. SUFFICES ASSUME Typed, Tap PROVE Typed'
  OBVIOUS
<1>0. NoUser \in Account /\ DataTypes /\ calls \subseteq CallRecord
      /\ nav \in Seq(NamedPage) /\ Len(nav) \in 0..MaxPages
  BY NavIs DEF Typed, ScreenTypes, Account
<1>1. CASE OpenPhone
  <2>1. ScreenTypes'
    BY <1>0, <1>1, PushTypes DEF OpenPhone, PageName
  <2>. QED BY <1>0, <1>1, <2>1 DEF Typed, OpenPhone, Quiet, history, DataTypes
<1>2. CASE Skip
  <2>1. ScreenTypes'
    BY <1>2, ReplaceTypes DEF Skip, On, PageName
  <2>. QED BY <1>0, <1>2, <2>1 DEF Typed, Skip, Quiet, history, DataTypes
<1>3. CASE AskToLogin
  <2>1. ScreenTypes'
    BY <1>0, <1>3, PushTypes DEF AskToLogin, PageName
  <2>. QED BY <1>0, <1>3, <2>1 DEF Typed, AskToLogin, Quiet, history, DataTypes
<1>4. CASE VerifyOtp
  <2>1. nav # <<>> /\ nav' = Busy /\ Begin("verifyOtp", Top.who, "signIn") /\ Quiet
    BY <1>4 DEF VerifyOtp, On
  <2>2. nav' \in Seq(NamedPage) /\ Len(nav') <= MaxPages
    BY <1>0, <2>1, BusyIs, Bounded DEF Bounds
  <2>3. calls' \subseteq CallRecord
    <3>1. Top.who \in Users
      BY <1>4, NavIs DEF VerifyOtp, On, NamedPage
    <3>. QED BY <2>1, <3>1, BeginTypes
  <2>. QED BY <1>0, <2>1, <2>2, <2>3 DEF Typed, Quiet, history, DataTypes, ScreenTypes
<1>5. CASE SignUp
  <2>1. /\ nav # <<>> /\ nav' = Busy /\ UNCHANGED <<auth, profile, users, restarts, history>>
        /\ IF auth = NoUser THEN UNCHANGED <<queue, calls>>
           ELSE Enqueue("set", auth, 0) /\ Begin("signUp", auth, "get")
    BY <1>5 DEF SignUp, On
  <2>2. nav' \in Seq(NamedPage) /\ Len(nav') <= MaxPages
    BY <1>0, <2>1, BusyIs, Bounded DEF Bounds
  <2>3. auth # NoUser => auth \in Users /\ 0 \in 0..MaxCalls
    BY <1>0, Bounded DEF DataTypes, Account, Bounds
  <2>4. queue' \in [Account -> Seq(PendingWrite)] /\ calls' \subseteq CallRecord
    BY <2>1, <2>3, EnqueueIs, BeginTypes DEF Typed, ScreenTypes, DataTypes
  <2>. QED BY <1>0, <2>1, <2>2, <2>4 DEF Typed, history, DataTypes, ScreenTypes
<1>6. CASE AskSignOut
  <2>1. ScreenTypes'
    BY <1>0, <1>6, PushTypes DEF AskSignOut, PageName
  <2>. QED BY <1>0, <1>6, <2>1 DEF Typed, AskSignOut, Quiet, history, DataTypes
<1>7. CASE SignOut
  <2>1. ScreenTypes'
    BY <1>7, ReplaceTypes DEF SignOut, On, PageName
  <2>. QED BY <1>0, <1>7, <2>1 DEF Typed, SignOut, history, DataTypes
<1>8. CASE Back
  <2>1. nav # <<>> /\ Show(Front(1), Len(nav) - 1, calls)
    BY <1>8 DEF Back
  <2>2. ScreenTypes'
    BY <2>1, FrontIs, ShowTypes
  <2>. QED BY <1>0, <1>8, <2>2 DEF Typed, Back, Quiet, history, DataTypes
<1>9. ASSUME NEW u \in Users, VerifyPhoneNumber(u) PROVE Typed'
  <2>1. nav # <<>> /\ Show(Append(Busy, Screen("verification", u)), Len(nav), calls)
    BY <1>9 DEF VerifyPhoneNumber, On
  <2>2. Append(Busy, Screen("verification", u)) \in Seq(NamedPage)
    BY <2>1, BusyIs, ScreenIs, AppendProperties DEF PageName, Account
  <2>3. ScreenTypes'
    BY <1>0, <2>1, <2>2, ShowTypes
  <2>. QED BY <1>0, <1>9, <2>3 DEF Typed, VerifyPhoneNumber, Quiet, history, DataTypes
<1>. QED BY <1>1, <1>2, <1>3, <1>4, <1>5, <1>6, <1>7, <1>8, <1>9 DEF Tap

\* After a restart nobody awaits the writes of a queue, which are otherwise the same.
LEMMA EmptyQueueTypes ==
  ASSUME NEW q \in Seq(PendingWrite)
  PROVE  /\ [i \in DOMAIN q |-> [q[i] EXCEPT !.n = 0]] \in Seq(PendingWrite)
         /\ Len([i \in DOMAIN q |-> [q[i] EXCEPT !.n = 0]]) = Len(q)
         /\ \A i \in 1..Len(q) : /\ [k \in DOMAIN q |-> [q[k] EXCEPT !.n = 0]][i].n = 0
                                 /\ [k \in DOMAIN q |-> [q[k] EXCEPT !.n = 0]][i].op = q[i].op
                                 /\ [k \in DOMAIN q |-> [q[k] EXCEPT !.n = 0]][i].uid = q[i].uid
<1>1. PICK s : s = [i \in DOMAIN q |-> [q[i] EXCEPT !.n = 0]]
  OBVIOUS
<1>2. DOMAIN q = 1..Len(q) /\ Len(q) \in Nat /\ \A i \in 1..Len(q) : q[i] \in PendingWrite
  BY LenProperties
<1>3. s = [i \in 1..Len(q) |-> [q[i] EXCEPT !.n = 0]]
  BY <1>1, <1>2
<1>4. \A w \in PendingWrite : LET v == [w EXCEPT !.n = 0] IN
         v \in PendingWrite /\ v.n = 0 /\ v.op = w.op /\ v.uid = w.uid
  BY Bounded DEF PendingWrite, Bounds
<1>5. \A i \in 1..Len(q) : s[i] \in PendingWrite /\ s[i].n = 0 /\ s[i].op = q[i].op /\ s[i].uid = q[i].uid
  BY <1>2, <1>3, <1>4
<1>6. \A i \in 1..Len(q) : [q[i] EXCEPT !.n = 0] \in PendingWrite
  BY <1>2, <1>4
<1>7. s \in Seq(PendingWrite) /\ Len(s) = Len(q)
  BY <1>2, <1>3, <1>6, IsASeq
<1>. QED BY <1>1, <1>5, <1>7

\* A restart keeps the documents, the pending writes and the sign-in.
LEMMA KillEffect ==
  ASSUME Typed, Kill
  PROVE  /\ auth' = auth /\ users' = users /\ failed' = failed /\ reset' = reset
         /\ profile' = [uid |-> NoUser, balance |-> 0] /\ restarts' \in 0..MaxRestarts
         /\ queue' \in [Account -> Seq(PendingWrite)]
         /\ \A a \in Account :
               /\ queue[a] \in Seq(PendingWrite) /\ Len(queue'[a]) = Len(queue[a])
               /\ \A i \in 1..Len(queue[a]) : /\ queue'[a][i].n = 0
                                              /\ queue'[a][i].op = queue[a][i].op
                                              /\ queue'[a][i].uid = queue[a][i].uid
         /\ IF auth = NoUser THEN nav' = <<Screen("welcome", NoUser)>> /\ calls' = {}
            ELSE /\ nav' = <<>>
                 /\ calls' = {[n |-> 1, from |-> "main", uid |-> auth, stage |-> "get", at |-> 0]}
<1>1. /\ UNCHANGED <<auth, users, failed, reset>> /\ Launch(auth)
      /\ profile' = [uid |-> NoUser, balance |-> 0] /\ restarts' = restarts + 1
      /\ restarts < MaxRestarts
      /\ queue' = [a \in Account |-> [i \in DOMAIN queue[a] |-> [queue[a][i] EXCEPT !.n = 0]]]
  BY DEF Kill
<1>2. restarts' \in 0..MaxRestarts
  BY <1>1, Bounded DEF Typed, DataTypes, Bounds
<1>3. queue \in [Account -> Seq(PendingWrite)]
  BY DEF Typed, DataTypes
<1>4. \A a \in Account : queue'[a] = [i \in DOMAIN queue[a] |-> [queue[a][i] EXCEPT !.n = 0]]
  BY <1>1
<1>5. \A a \in Account :
         /\ queue[a] \in Seq(PendingWrite) /\ queue'[a] \in Seq(PendingWrite)
         /\ Len(queue'[a]) = Len(queue[a])
         /\ \A i \in 1..Len(queue[a]) : /\ queue'[a][i].n = 0
                                        /\ queue'[a][i].op = queue[a][i].op
                                        /\ queue'[a][i].uid = queue[a][i].uid
  <2>. SUFFICES ASSUME NEW a \in Account
                PROVE  /\ queue[a] \in Seq(PendingWrite) /\ queue'[a] \in Seq(PendingWrite)
                       /\ Len(queue'[a]) = Len(queue[a])
                       /\ \A i \in 1..Len(queue[a]) : /\ queue'[a][i].n = 0
                                                      /\ queue'[a][i].op = queue[a][i].op
                                                      /\ queue'[a][i].uid = queue[a][i].uid
    OBVIOUS
  <2>1. PICK q : q = queue[a]
    OBVIOUS
  <2>2. q \in Seq(PendingWrite) /\ queue'[a] = [i \in DOMAIN q |-> [q[i] EXCEPT !.n = 0]]
    BY <2>1, <1>3, <1>4
  <2>. QED BY <2>1, <2>2, EmptyQueueTypes
<1>6. queue' \in [Account -> Seq(PendingWrite)]
  BY <1>1, <1>5
<1>. QED BY <1>1, <1>2, <1>5, <1>6 DEF Launch

\* Every step keeps the types.
LEMMA StepTypes == Typed /\ [Next]_vars => Typed'
<1>. SUFFICES ASSUME Typed, [Next]_vars PROVE Typed'
  OBVIOUS
<1>0. DataTypes /\ ScreenTypes
  BY DEF Typed
<1>1. CASE Tap
  BY <1>1, TapTypes
<1>2. ASSUME NEW c \in calls, SignIn(c) PROVE Typed'
  <2>1. c.uid \in Account /\ Advance(c, "get")
    BY <1>0, <1>2, CallIs DEF SignIn, ScreenTypes, Account
  <2>2. calls' \subseteq CallRecord
    BY <2>1, AdvanceTypes
  <2>. QED BY <1>0, <1>2, <2>1, <2>2 DEF SignIn, Typed, ScreenTypes, DataTypes, history
<1>3. ASSUME NEW c \in calls, SignInFails(c) PROVE Typed'
  BY <1>0, <1>3 DEF SignInFails, Typed, ScreenTypes, DataTypes, history
<1>4. ASSUME NEW c \in calls, GetUser(c) PROVE Typed'
  <2>1. /\ UNCHANGED <<auth, queue, users, restarts, history>>
        /\ \/ profile' = [uid |-> c.uid, balance |-> ViewBalance(c.uid)] /\ Advance(c, "token")
              /\ UNCHANGED nav
           \/ Return(c, FALSE) /\ UNCHANGED profile
    BY <1>4 DEF GetUser
  <2>2. c.uid \in Users
    BY <1>0, CallIs DEF ScreenTypes
  <2>3. ViewBalance(c.uid) \in 0..MaxBalance
    BY <1>0, <2>2, Bounded DEF ViewBalance, DataTypes, UserRecord, Bounds
  <2>4. ScreenTypes'
    <3>1. CASE Advance(c, "token") /\ UNCHANGED nav
      BY <1>0, <3>1, AdvanceTypes DEF ScreenTypes
    <3>2. CASE Return(c, FALSE)
      BY <3>2, ReturnTypes
    <3>. QED BY <2>1, <3>1, <3>2
  <2>5. profile' \in [uid : Account, balance : 0..MaxBalance]
    <3>1. profile \in [uid : Account, balance : 0..MaxBalance] /\ c.uid \in Account
      BY <1>0, <2>2 DEF DataTypes, Account
    <3>2. CASE profile' = [uid |-> c.uid, balance |-> ViewBalance(c.uid)]
      BY <2>3, <3>1, <3>2
    <3>. QED BY <2>1, <3>1, <3>2
  <2>. QED BY <1>0, <2>1, <2>4, <2>5 DEF Typed, DataTypes, history
<1>5. ASSUME NEW c \in calls, GetToken(c) PROVE Typed'
  <2>1. c.uid \in Users /\ c.n \in 0..MaxCalls
    <3>1. c.uid \in Users /\ c.n \in 1..MaxCalls
      BY <1>0, CallIs DEF ScreenTypes
    <3>. QED BY <3>1, Bounded DEF Bounds
  <2>2. /\ queue' \in [Account -> Seq(PendingWrite)] /\ calls' \subseteq CallRecord
    BY <1>5, <2>1, EnqueueIs, AdvanceTypes DEF GetToken
  <2>. QED BY <1>0, <1>5, <2>2 DEF GetToken, Typed, ScreenTypes, DataTypes, history
<1>6. ASSUME NEW c \in calls, Throws(c) PROVE Typed'
  <2>1. Return(c, FALSE) /\ failed' = failed \cup {c.uid}
        /\ UNCHANGED <<auth, profile, queue, users, restarts, reset>>
    BY <1>6 DEF Throws, Caught, Fails
  <2>2. ScreenTypes' /\ c.uid \in Users
    BY <1>0, <2>1, ReturnTypes, CallIs DEF ScreenTypes
  <2>. QED BY <1>0, <2>1, <2>2 DEF Typed, DataTypes
<1>7. CASE Acknowledge
  <2>1. PICK w : w = Head(queue[auth])
    OBVIOUS
  <2>2. w.uid \in Users /\ w \in PendingWrite
    BY <1>7, <2>1, AnsweredWrite DEF PendingWrite
  <2>3. /\ queue' \in [Account -> Seq(PendingWrite)] /\ users' \in [Users -> UserRecord]
        /\ UNCHANGED <<auth, profile, restarts>>
    BY <1>7, <2>1, AnsweredWrite
  <2>4. reset' \in {reset, reset \cup {w.uid}}
    BY <1>7, <2>1, AnsweredWrite
  <2>5. ScreenTypes' /\ failed' \subseteq Users
    <3>1. \/ UNCHANGED <<nav, calls, failed>>
          \/ \E c \in calls, ok \in BOOLEAN : Return(c, ok) /\ failed' \in {failed, failed \cup {c.uid}}
      <4>1. PICK ok \in BOOLEAN : ok <=> w.op = "set" \/ users[w.uid].exists
        OBVIOUS
      <4>2. \/ UNCHANGED <<nav, calls, failed>>
            \/ \E c \in calls : /\ Return(c, w.op = "set" \/ users[w.uid].exists)
                                /\ failed' \in {failed, failed \cup {c.uid}}
        BY <1>7, <2>1, AnsweredWrite
      <4>3. ok = (w.op = "set" \/ users[w.uid].exists)
        BY <4>1
      <4>. QED BY <4>2, <4>3
    <3>2. CASE UNCHANGED <<nav, calls, failed>>
      BY <1>0, <3>2 DEF ScreenTypes, DataTypes
    <3>3. ASSUME NEW c \in calls, NEW ok \in BOOLEAN, Return(c, ok),
                 failed' \in {failed, failed \cup {c.uid}}
          PROVE  ScreenTypes' /\ failed' \subseteq Users
      BY <1>0, <3>3, ReturnTypes, CallIs DEF ScreenTypes, DataTypes
    <3>. QED BY <3>1, <3>2, <3>3
  <2>. QED BY <1>0, <2>2, <2>3, <2>4, <2>5 DEF Typed, DataTypes
<1>8. ASSUME NEW u \in Users, Refund(u) PROVE Typed'
  <2>1. /\ users \in [Users -> UserRecord] /\ users[u].balance < MaxBalance
        /\ users' = [users EXCEPT ![u].balance = @ + 1]
        /\ UNCHANGED <<auth, profile, nav, calls, queue, restarts, failed, reset>>
    BY <1>0, <1>8 DEF Refund, DataTypes, history
  <2>2. users[u].balance + 1 \in 0..MaxBalance /\ users[u] \in UserRecord
    BY <2>1, Bounded DEF UserRecord, Bounds
  <2>3. users' \in [Users -> UserRecord]
    BY <2>1, <2>2 DEF UserRecord
  <2>. QED BY <1>0, <2>1, <2>3 DEF Typed, ScreenTypes, DataTypes
<1>9. CASE Kill
  <2>1. DataTypes'
    BY <1>0, <1>9, KillEffect, Bounded DEF DataTypes, Account, Bounds
  <2>2. ScreenTypes'
    <3>1. CASE auth = NoUser
      <4>1. PICK r : r = Screen("welcome", NoUser)
        OBVIOUS
      <4>2. r \in NamedPage
        BY <4>1, ScreenIs DEF PageName, Account
      <4>3. <<r>> \in Seq(NamedPage) /\ Len(<<r>>) = 1 /\ 1 <= MaxPages
        BY <4>2, Bounded DEF Bounds
      <4>4. nav' = <<r>> /\ calls' = {}
        BY <1>9, <3>1, <4>1, KillEffect
      <4>. QED BY <4>3, <4>4 DEF ScreenTypes
    <3>2. CASE auth # NoUser
      <4>1. /\ nav' = <<>> /\ <<>> \in Seq(NamedPage) /\ Len(<<>>) = 0
            /\ calls' = {[n |-> 1, from |-> "main", uid |-> auth, stage |-> "get", at |-> 0]}
        BY <1>9, <3>2, KillEffect
      <4>2. auth \in Users /\ 1 \in 1..MaxCalls /\ 0 \in 0..Gone /\ 0 <= MaxPages
        BY <1>0, <3>2, Bounded DEF DataTypes, Account, Gone, Bounds
      <4>. QED BY <4>1, <4>2 DEF ScreenTypes, CallRecord
    <3>. QED BY <3>1, <3>2
  <2>. QED BY <2>1, <2>2 DEF Typed
<1>10. CASE UNCHANGED vars
  BY <1>0, <1>10 DEF vars, history, Typed, ScreenTypes, DataTypes
<1>. QED BY <1>1, <1>2, <1>3, <1>4, <1>5, <1>6, <1>7, <1>8, <1>9, <1>10 DEF Next, Resume

\* The types hold always.
LEMMA AlwaysTyped == Spec => []Typed
  BY InitTypes, StepTypes, PTL DEF Spec

\* The app's screens, calls, pending writes and documents have their types,
\* whatever overlaps; a balance is never more than was refunded.
THEOREM TypeCorrect == Spec => []TypeOK
  BY TypesAre, AlwaysTyped, PTL

-----------------------------------------------------------------------------
(* The wallet *)

\* A user's pending registration is in that user's queue.
IsOwn(w, a) == w.op = "set" => w.uid = a /\ w.n = 0

SetsAreOwn == \A a \in Account : \A i \in 1..Len(queue[a]) : IsOwn(queue[a][i], a)

\* The profile's balance is not more than the document's, which is 0 until the
\* document exists.
WalletSound ==
    /\ \A u \in Users : ~users[u].exists => users[u].balance = 0
    /\ profile.uid \in Users \ reset => profile.balance <= users[profile.uid].balance

\* A write is added at the end, the first one is taken away.
LEMMA QueueAppend ==
  ASSUME NEW q \in Seq(PendingWrite), NEW w \in PendingWrite
  PROVE  /\ Len(q) \in Nat /\ Len(Append(q, w)) = Len(q) + 1
         /\ \A i \in 1..Len(q) : Append(q, w)[i] = q[i]
         /\ Append(q, w)[Len(q) + 1] = w
         /\ \A i \in 1..(Len(q) + 1) : i \in 1..Len(q) \/ i = Len(q) + 1
<1>1. Len(q) \in Nat /\ \A i \in 1..(Len(q) + 1) : i \in 1..Len(q) \/ i = Len(q) + 1
  BY LenProperties
<1>. QED BY <1>1, AppendProperties

\* A write of its own user may be added to a queue.
LEMMA OwnAppended ==
  ASSUME NEW q \in Seq(PendingWrite), NEW w \in PendingWrite, NEW a,
         \A i \in 1..Len(q) : IsOwn(q[i], a), IsOwn(w, a)
  PROVE  \A i \in 1..Len(Append(q, w)) : IsOwn(Append(q, w)[i], a)
<1>1. PICK s : s = Append(q, w)
  OBVIOUS
<1>2. /\ Len(s) = Len(q) + 1 /\ \A i \in 1..Len(q) : s[i] = q[i]
      /\ s[Len(q) + 1] = w /\ \A i \in 1..(Len(q) + 1) : i \in 1..Len(q) \/ i = Len(q) + 1
  BY <1>1, QueueAppend
<1>3. ASSUME NEW i \in 1..Len(s) PROVE IsOwn(s[i], a)
  <2>1. CASE i \in 1..Len(q)
    BY <1>2, <2>1
  <2>2. CASE i = Len(q) + 1
    BY <1>2, <2>2
  <2>. QED BY <1>2, <2>1, <2>2
<1>. QED BY <1>1, <1>3

LEMMA SetsKept ==
  ASSUME Typed, SetsAreOwn, [Next]_vars
  PROVE  SetsAreOwn'
<1>. USE DEF history
<1>1. CASE UNCHANGED queue
  BY <1>1 DEF SetsAreOwn
<1>2. CASE SignUp /\ auth # NoUser
  <2>1. Enqueue("set", auth, 0) /\ auth \in Users /\ 0 \in 0..MaxCalls
    BY <1>2, Bounded DEF SignUp, Typed, DataTypes, Account, Bounds
  <2>2. PICK w : w = [op |-> "set", uid |-> auth, n |-> 0]
    OBVIOUS
  <2>3. /\ queue'[auth] = Append(queue[auth], w) /\ \A a \in Account \ {auth} : queue'[a] = queue[a]
    BY <2>1, <2>2, EnqueueIs
  <2>4. w \in PendingWrite /\ w.uid = auth /\ w.n = 0 /\ queue[auth] \in Seq(PendingWrite)
    BY <2>1, <2>2 DEF PendingWrite, Typed, DataTypes, Account
  <2>5. IsOwn(w, auth) /\ auth \in Account /\ \A i \in 1..Len(queue[auth]) : IsOwn(queue[auth][i], auth)
    BY <2>1, <2>3, <2>4 DEF SetsAreOwn, IsOwn, Account
  <2>6. \A i \in 1..Len(queue'[auth]) : IsOwn(queue'[auth][i], auth)
    BY <2>3, <2>4, <2>5, OwnAppended
  <2>. QED BY <2>3, <2>6 DEF SetsAreOwn
<1>3. ASSUME NEW c \in calls, GetToken(c) PROVE SetsAreOwn'
  <2>1. Enqueue("token", c.uid, c.n) /\ c.uid \in Users /\ c.n \in 0..MaxCalls
    <3>1. c.uid \in Users /\ c.n \in 1..MaxCalls
      BY CallIs DEF Typed, ScreenTypes
    <3>. QED BY <1>3, <3>1, Bounded DEF GetToken, Bounds
  <2>2. PICK w : w = [op |-> "token", uid |-> c.uid, n |-> c.n]
    OBVIOUS
  <2>3. /\ queue'[auth] = Append(queue[auth], w) /\ \A a \in Account \ {auth} : queue'[a] = queue[a]
        /\ auth \in Account
    BY <2>1, <2>2, EnqueueIs
  <2>4. w \in PendingWrite /\ w.op # "set" /\ queue[auth] \in Seq(PendingWrite)
    BY <2>1, <2>2 DEF PendingWrite, Typed, DataTypes
  <2>5. IsOwn(w, auth) /\ auth \in Account /\ \A i \in 1..Len(queue[auth]) : IsOwn(queue[auth][i], auth)
    BY <2>1, <2>3, <2>4 DEF SetsAreOwn, IsOwn, Account
  <2>6. \A i \in 1..Len(queue'[auth]) : IsOwn(queue'[auth][i], auth)
    BY <2>3, <2>4, <2>5, OwnAppended
  <2>. QED BY <2>3, <2>6 DEF SetsAreOwn
<1>4. CASE Acknowledge
  <2>1. /\ auth \in Account /\ Len(queue[auth]) \in Nat \ {0} /\ Len(queue'[auth]) = Len(queue[auth]) - 1
        /\ \A i \in 1..Len(queue'[auth]) : queue'[auth][i] = queue[auth][i + 1]
        /\ \A a \in Account \ {auth} : queue'[a] = queue[a]
    BY <1>4, AnsweredWrite
  <2>2. \A i \in 1..Len(queue'[auth]) : i + 1 \in 1..Len(queue[auth])
    BY <2>1
  <2>. QED BY SMTT(30), <2>1, <2>2 DEF SetsAreOwn
<1>5. CASE Kill
  <2>1. \A a \in Account : /\ Len(queue'[a]) = Len(queue[a])
                         /\ \A i \in 1..Len(queue[a]) : /\ queue'[a][i].n = 0
                                                        /\ queue'[a][i].op = queue[a][i].op
                                                        /\ queue'[a][i].uid = queue[a][i].uid
    BY <1>5, KillEffect
  <2>. QED BY <2>1 DEF SetsAreOwn, IsOwn
<1>6. Tap => UNCHANGED queue \/ (SignUp /\ auth # NoUser)
  BY DEF Tap, OpenPhone, Skip, AskToLogin, VerifyOtp, SignUp, AskSignOut, SignOut, Back,
         VerifyPhoneNumber, Quiet
<1>7. ASSUME NEW c \in calls, SignIn(c) \/ SignInFails(c) \/ GetUser(c) \/ Throws(c)
      PROVE  UNCHANGED queue
  BY <1>7 DEF SignIn, SignInFails, GetUser, Throws
<1>8. ASSUME NEW u \in Users, Refund(u) PROVE UNCHANGED queue
  BY <1>8 DEF Refund
<1>9. UNCHANGED vars => UNCHANGED queue
  BY DEF vars
<1>. QED BY <1>1, <1>2, <1>3, <1>4, <1>5, <1>6, <1>7, <1>8, <1>9 DEF Next, Resume

LEMMA WalletKept ==
  ASSUME Typed, SetsAreOwn, WalletSound, [Next]_vars
  PROVE  WalletSound'
<1>0. /\ users \in [Users -> UserRecord] /\ profile \in [uid : Account, balance : 0..MaxBalance]
      /\ NoUser \notin Users /\ \A u \in Users : users[u].balance \in Nat
  BY Bounded DEF Typed, DataTypes, UserRecord, Bounds
<1>1. CASE UNCHANGED <<profile, users, reset>>
  BY <1>1 DEF WalletSound
<1>2. ASSUME NEW c \in calls, GetUser(c), ~UNCHANGED profile PROVE WalletSound'
  <2>1. /\ profile' = [uid |-> c.uid, balance |-> ViewBalance(c.uid)] /\ c.uid \in Users
        /\ UNCHANGED <<users, reset>>
    BY <1>2, CallIs DEF GetUser, history, Typed, ScreenTypes
  <2>2. ViewBalance(c.uid) <= users[c.uid].balance
    BY <1>0, <2>1 DEF ViewBalance
  <2>3. profile'.uid = c.uid /\ profile'.balance <= users[c.uid].balance
    BY <2>1, <2>2
  <2>. QED BY <2>1, <2>3 DEF WalletSound
<1>3. CASE Acknowledge
  <2>1. PICK w : w = Head(queue[auth])
    OBVIOUS
  <2>2. w \in PendingWrite /\ w.uid \in Users /\ profile' = profile
    BY <1>3, <2>1, AnsweredWrite DEF PendingWrite
  <2>3. CASE w.op = "set"
    <3>1. PICK r : r = [exists |-> TRUE, balance |-> 0, token |-> FALSE]
      OBVIOUS
    <3>2. /\ users' = [users EXCEPT ![w.uid] = r] /\ r.exists /\ r.balance = 0
          /\ reset' = IF users[w.uid].exists THEN reset \cup {w.uid} ELSE reset
      BY <1>3, <2>1, <2>3, <3>1, AnsweredWrite
    <3>3. \A u \in Users : users'[u] = IF u = w.uid THEN r ELSE users[u]
      BY <1>0, <3>2
    <3>4. \A u \in Users : ~users'[u].exists => users'[u].balance = 0
      BY <3>2, <3>3 DEF WalletSound
    <3>5. ASSUME profile.uid \in Users \ reset'
          PROVE  profile.balance <= users'[profile.uid].balance
      <4>1. profile.uid \in Users \ reset /\ profile.balance <= users[profile.uid].balance
        BY <3>2, <3>5 DEF WalletSound
      <4>2. CASE profile.uid = w.uid
        <5>1. ~users[w.uid].exists
          BY <3>2, <3>5, <4>2
        <5>. QED BY <2>2, <3>2, <3>3, <4>1, <4>2, <5>1 DEF WalletSound
      <4>3. CASE profile.uid # w.uid
        BY <3>3, <4>1, <4>3
      <4>. QED BY <4>2, <4>3
    <3>. QED BY <2>2, <3>4, <3>5 DEF WalletSound
  <2>4. CASE w.op # "set"
    <3>1. /\ reset' = reset
          /\ users' = [users EXCEPT ![w.uid].token = TRUE] \/ users' = users
      BY <1>3, <2>1, <2>4, AnsweredWrite
    <3>2. \A u \in Users : users'[u].exists = users[u].exists /\ users'[u].balance = users[u].balance
      BY <1>0, <2>2, <3>1 DEF UserRecord
    <3>. QED BY <2>2, <3>1, <3>2 DEF WalletSound
  <2>. QED BY <2>3, <2>4
<1>4. ASSUME NEW u \in Users, Refund(u) PROVE WalletSound'
  <2>1. /\ users' = [users EXCEPT ![u].balance = @ + 1] /\ users[u].exists
        /\ UNCHANGED <<profile, reset>>
    BY <1>4 DEF Refund, history
  <2>2. \A v \in Users : /\ users'[v].exists = users[v].exists
                         /\ users'[v].balance = IF v = u THEN users[v].balance + 1
                                                ELSE users[v].balance
    BY <1>0, <2>1 DEF UserRecord
  <2>3. profile.balance \in Nat
    BY <1>0, Bounded DEF Bounds
  <2>. QED BY <1>0, <2>1, <2>2, <2>3 DEF WalletSound
<1>5. CASE Kill
  <2>1. /\ profile' = [uid |-> NoUser, balance |-> 0] /\ UNCHANGED <<users, reset>>
    BY <1>5, KillEffect
  <2>2. profile'.uid \notin Users
    BY <1>0, <2>1
  <2>. QED BY <2>1, <2>2 DEF WalletSound
<1>6. Tap => UNCHANGED <<profile, users, reset>>
  BY DEF Tap, OpenPhone, Skip, AskToLogin, VerifyOtp, SignUp, AskSignOut, SignOut, Back,
         VerifyPhoneNumber, Quiet, history
<1>7. ASSUME NEW c \in calls,
             SignIn(c) \/ SignInFails(c) \/ (GetUser(c) /\ UNCHANGED profile) \/ GetToken(c) \/ Throws(c)
      PROVE  UNCHANGED <<profile, users, reset>>
  BY <1>7 DEF SignIn, SignInFails, GetUser, GetToken, Throws, history
<1>9. UNCHANGED vars => UNCHANGED <<profile, users, reset>>
  BY DEF vars, history
<1>. QED BY <1>1, <1>2, <1>3, <1>4, <1>5, <1>6, <1>7, <1>9 DEF Next, Resume

\* What the wallet needs holds always.
LEMMA AlwaysSound == Spec => [](Typed /\ SetsAreOwn /\ WalletSound)
<1>1. Init => Typed /\ SetsAreOwn /\ WalletSound
  <2>. SUFFICES ASSUME Init PROVE SetsAreOwn /\ WalletSound
    BY InitTypes
  <2>1. /\ \A a \in Account : queue[a] = <<>>
        /\ \A u \in Users : users[u].balance = 0 /\ profile.uid \notin Users
    BY Bounded DEF Init, Bounds
  <2>2. \A i \in 1..Len(<<>>) : FALSE
    OBVIOUS
  <2>. QED BY <2>1, <2>2 DEF SetsAreOwn, WalletSound
<1>2. Typed /\ SetsAreOwn /\ WalletSound /\ [Next]_vars => (Typed /\ SetsAreOwn /\ WalletSound)'
  BY StepTypes, SetsKept, WalletKept
<1>. QED BY <1>1, <1>2, PTL DEF Spec

\* The wallet shows the balance initUser read, or 0 while the registration is
\* pending: never more than the user's document has, unless that was set again.
THEOREM NotOverstated == Spec => []WalletNotOverstated
<1>1. WalletSound => WalletNotOverstated
  BY DEF WalletSound, WalletNotOverstated
<1>. QED BY <1>1, AlwaysSound, PTL

-----------------------------------------------------------------------------
(* Calls that do not overlap *)

\* The app's routes in the order of its pushes: Welcome, or Navigation with its
\* dialog, at the bottom; the registration form on top, on its own when main
\* opens it.
PageOrder(stack) ==
    \A i \in 1..Len(stack) :
        /\ stack[i].page \in {"welcome", "navigation"} => i = 1
        /\ stack[i].page = "phone" => i = 2 /\ stack[1].page = "welcome"
        /\ stack[i].page = "verification" =>
              i = 3 /\ stack[1].page = "welcome" /\ stack[2].page = "phone"
        /\ stack[i].page = "dialog" => i = 2 /\ stack[1].page = "navigation"
        /\ stack[i].page = "profile" =>
              /\ i = Len(stack)
              /\ i = 1 \/ (stack[1].page = "welcome" /\ stack[i - 1].page \in {"phone", "verification"})

OneCall == \A c, d \in calls : c = d

\* A call's route is topmost and busy, leaving, or gone. Until it is gone nobody
\* else signs in, and userProfile, once read, stays the caller's.
CallInv(c) ==
    /\ c.stage = "signIn" => c.from = "verifyOtp"
    /\ c.from = "main" => nav = <<>> /\ c.at = 0
    /\ c.from # "main" => c.at \in {Len(nav), Leaving, Gone}
    /\ c.from # "main" /\ c.at = Len(nav) =>
          /\ nav # <<>> /\ Top.busy
          /\ Top.page = (IF c.from = "verifyOtp" THEN "verification" ELSE "profile")
    /\ c.at = Leaving => nav = <<>> \/ Top.page \in {"phone", "verification"}
    /\ c.at # Gone /\ c.stage # "signIn" => auth = c.uid
    /\ c.at # Gone /\ c.stage \in {"token", "update"} => profile.uid = c.uid

CallsInv == OneCall /\ \A c \in calls : CallInv(c)

\* u has no document and none is on its way.
IsNew(u) == ~users[u].exists /\ \A i \in 1..Len(queue[u]) : queue[u][i].op # "set"

\* The registration form is the signed-in user's, and can be sent when that user
\* is new or one of their calls failed.
FormInv ==
    On("profile") =>
        /\ auth = Top.who /\ auth # NoUser
        /\ \A c \in calls : c.from = "signUp"
        /\ ~Top.busy => calls = {} /\ (auth \in failed \/ IsNew(auth))

\* The app is entered when everything of the sign-in is acknowledged.
AppInv ==
    nav # <<>> /\ nav[1].page = "navigation" /\ nav[1].who # NoUser =>
        /\ calls = {} /\ auth = nav[1].who /\ profile.uid = auth
        /\ users[auth].token /\ queue[auth] = <<>>

\* The token write an initUser call awaits is the last one of its queue.
UpdatesInv ==
    \A a \in Account : \A i \in 1..Len(queue[a]) : queue[a][i].n # 0 =>
        /\ i = Len(queue[a]) /\ queue[a][i].op = "token"
        /\ \E c \in calls : c.stage = "update" /\ c.uid = queue[a][i].uid
        /\ \A b \in Account : \A j \in 1..Len(queue[b]) : queue[b][j].n # 0 => a = b

\* A user none of whose calls failed is registered at most once.
RegisteredInv ==
    \A u \in Users \ failed :
        /\ u \notin reset
        /\ \A i \in 1..Len(queue[u]) : queue[u][i].op = "set" =>
              /\ ~users[u].exists
              /\ \A j \in 1..Len(queue[u]) : queue[u][j].op = "set" => i = j

InOrder == CallsInv /\ PageOrder(nav) /\ FormInv /\ AppInv /\ UpdatesInv

Sound == Typed /\ SetsAreOwn /\ InOrder /\ RegisteredInv

\* What the topmost page says of the stack.
LEMMA StackIs ==
  ASSUME Typed, PageOrder(nav), nav # <<>>
  PROVE  /\ Len(nav) \in Nat \ {0} /\ Len(nav) <= MaxPages
         /\ Top = nav[Len(nav)] /\ Top \in NamedPage
         /\ Top.page \in {"welcome", "navigation"} => Len(nav) = 1
         /\ Top.page = "phone" => Len(nav) = 2 /\ nav[1].page = "welcome"
         /\ Top.page = "verification" =>
               Len(nav) = 3 /\ nav[1].page = "welcome" /\ nav[2].page = "phone"
         /\ Top.page = "dialog" => Len(nav) = 2 /\ nav[1].page = "navigation"
         /\ Top.page = "profile" =>
               Len(nav) = 1 \/ (/\ nav[1].page = "welcome" /\ Len(nav) # 1
                                /\ nav[Len(nav) - 1].page \in {"phone", "verification"})
<1>1. /\ Len(nav) \in 1..MaxPages /\ Len(nav) \in Nat /\ Top = nav[Len(nav)] /\ Top \in NamedPage
      /\ Len(nav) \in 1..Len(nav) /\ Len(nav) \in Nat \ {0} /\ Len(nav) <= MaxPages
  <2>1. /\ Len(nav) \in 1..MaxPages /\ Len(nav) \in Nat /\ Top = nav[Len(nav)] /\ Top \in NamedPage
    BY NavIs
  <2>. QED BY <2>1, Bounded DEF Bounds
<1>2. PICK n : n = Len(nav)
  OBVIOUS
<1>3. PICK r : r = nav[n]
  OBVIOUS
<1>. QED BY <1>1, <1>2, <1>3 DEF PageOrder

\* On these pages the route of a call in progress is gone, or going if the page
\* is the one for the phone number.
LEMMA NotTopmost ==
  ASSUME Sound, nav # <<>>
  PROVE  /\ \A c \in calls : c.from # "main"
         /\ Top.page \in {"welcome", "navigation", "phone", "dialog"} =>
               \A c \in calls : c.at \in {Leaving, Gone}
         /\ Top.page \in {"welcome", "navigation", "dialog"} => \A c \in calls : c.at = Gone
<1>. SUFFICES ASSUME NEW c \in calls
              PROVE  /\ c.from # "main"
                     /\ Top.page \in {"welcome", "navigation", "phone", "dialog"} =>
                           c.at \in {Leaving, Gone}
                     /\ Top.page \in {"welcome", "navigation", "dialog"} => c.at = Gone
  OBVIOUS
<1>1. CallInv(c)
  BY DEF Sound, InOrder, CallsInv
<1>2. c.from # "main" /\ c.at \in {Len(nav), Leaving, Gone}
  BY <1>1 DEF CallInv
<1>3. c.at = Len(nav) => Top.page \in {"verification", "profile"}
  BY <1>1, <1>2 DEF CallInv
<1>4. c.at = Leaving => Top.page \in {"phone", "verification"}
  BY <1>1 DEF CallInv
<1>. QED BY <1>2, <1>3, <1>4

Like(c, d) == d.n = c.n /\ d.from = c.from /\ d.uid = c.uid /\ d.stage = c.stage

\* When the stack changes the calls go on, with other positions.
LEMMA CallsMoved ==
  ASSUME Typed, OneCall, NEW stack, NEW kept, Show(stack, kept, calls)
  PROVE  /\ OneCall'
         /\ \A d \in calls' : \E c \in calls : Like(c, d) /\ d.at = Moved(c.at, stack, kept)
         /\ \A c \in calls : \E d \in calls' : Like(c, d)
<1>1. calls' = {[c EXCEPT !.at = Moved(@, stack, kept)] : c \in calls}
  BY DEF Show
<1>2. \A c \in calls : LET d == [c EXCEPT !.at = Moved(@, stack, kept)] IN
         Like(c, d) /\ d.at = Moved(c.at, stack, kept)
  BY DEF Typed, ScreenTypes, CallRecord, Like
<1>3. OneCall'
  BY <1>1 DEF OneCall
<1>. QED BY <1>1, <1>2, <1>3

\* One user's part of RegisteredInv: at most one registration is pending, of a
\* user without document.
AtMostOneSet(q, exists) ==
    \A i \in 1..Len(q) : q[i].op = "set" => ~exists /\ \A j \in 1..Len(q) : q[j].op = "set" => i = j

\* A registration may be added to a queue that has none of a user without a document.
LEMMA SetAppended ==
  ASSUME NEW q \in Seq(PendingWrite), NEW w \in PendingWrite, NEW exists,
         AtMostOneSet(q, exists),
         w.op = "set" => ~exists /\ \A i \in 1..Len(q) : q[i].op # "set"
  PROVE  AtMostOneSet(Append(q, w), exists)
<1>1. PICK s : s = Append(q, w)
  OBVIOUS
<1>2. /\ Len(s) = Len(q) + 1 /\ \A i \in 1..Len(q) : s[i] = q[i]
      /\ s[Len(q) + 1] = w /\ \A i \in 1..(Len(q) + 1) : i \in 1..Len(q) \/ i = Len(q) + 1
  BY <1>1, QueueAppend
<1>3. ASSUME NEW i \in 1..Len(s), s[i].op = "set"
      PROVE  ~exists /\ \A j \in 1..Len(s) : s[j].op = "set" => i = j
  <2>1. CASE i \in 1..Len(q)
    <3>1. q[i].op = "set" /\ w.op # "set" /\ ~exists
      BY <1>2, <1>3, <2>1 DEF AtMostOneSet
    <3>2. ASSUME NEW j \in 1..Len(s), s[j].op = "set" PROVE i = j
      <4>1. j \in 1..Len(q)
        BY <1>2, <3>1, <3>2
      <4>. QED BY <1>2, <2>1, <3>1, <3>2, <4>1 DEF AtMostOneSet
    <3>. QED BY <3>1, <3>2
  <2>2. CASE i = Len(q) + 1
    <3>1. w.op = "set" /\ ~exists /\ \A j \in 1..Len(q) : q[j].op # "set"
      BY <1>2, <1>3, <2>2
    <3>2. ASSUME NEW j \in 1..Len(s), s[j].op = "set" PROVE i = j
      BY <1>2, <2>2, <3>1, <3>2
    <3>. QED BY <3>1, <3>2
  <2>. QED BY <1>2, <2>1, <2>2
<1>. QED BY <1>1, <1>3 DEF AtMostOneSet

\* The invariant of registrations, user by user.
LEMMA RegisteredIs ==
  RegisteredInv <=> \A u \in Users \ failed : u \notin reset /\ AtMostOneSet(queue[u], users[u].exists)
  BY DEF RegisteredInv, AtMostOneSet

LEMMA RegisteredKept ==
  ASSUME Sound, [Next]_vars
  PROVE  RegisteredInv'
<1>. USE DEF history
<1>0. /\ Typed /\ SetsAreOwn /\ users \in [Users -> UserRecord] /\ auth \in Account
      /\ queue \in [Account -> Seq(PendingWrite)] /\ Users \subseteq Account
      /\ \A u \in Users \ failed : u \notin reset /\ AtMostOneSet(queue[u], users[u].exists)
  BY RegisteredIs DEF Sound, Typed, DataTypes, Account
<1>. SUFFICES ASSUME NEW u \in Users, u \notin failed'
              PROVE  u \notin reset' /\ AtMostOneSet(queue'[u], users'[u].exists)
  BY DEF RegisteredInv, AtMostOneSet
<1>1. CASE UNCHANGED <<queue, users, reset>> /\ failed \subseteq failed'
  BY <1>0, <1>1
<1>2. CASE SignUp /\ auth # NoUser
  <2>1. /\ Enqueue("set", auth, 0) /\ auth \in Users /\ 0 \in 0..MaxCalls
        /\ nav # <<>> /\ Top.page = "profile" /\ ~Top.busy /\ UNCHANGED <<users, failed, reset>>
    BY <1>0, <1>2, Bounded DEF SignUp, On, Account, Bounds
  <2>2. auth \in failed \/ IsNew(auth)
    BY <2>1 DEF Sound, InOrder, FormInv, On
  <2>3. PICK w : w = [op |-> "set", uid |-> auth, n |-> 0]
    OBVIOUS
  <2>4. /\ queue'[auth] = Append(queue[auth], w) /\ \A a \in Account \ {auth} : queue'[a] = queue[a]
        /\ w \in PendingWrite
    BY <1>0, <2>1, <2>3, EnqueueIs DEF PendingWrite
  <2>5. CASE u = auth
    <3>1. AtMostOneSet(queue[u], users[u].exists) /\ IsNew(u) /\ u \notin reset
      BY <1>0, <2>1, <2>2, <2>5
    <3>2. PICK e : e = users[u].exists
      OBVIOUS
    <3>3. PICK q : q = queue[u]
      OBVIOUS
    <3>4. /\ q \in Seq(PendingWrite) /\ AtMostOneSet(q, e)
          /\ ~e /\ \A i \in 1..Len(q) : q[i].op # "set"
      BY <1>0, <3>1, <3>2, <3>3 DEF IsNew
    <3>5. AtMostOneSet(Append(q, w), e)
      BY <2>4, <3>4, SetAppended
    <3>. QED BY <2>1, <2>4, <2>5, <3>1, <3>2, <3>3, <3>5
  <2>6. CASE u # auth
    BY <1>0, <2>1, <2>4, <2>6
  <2>. QED BY <2>5, <2>6
<1>3. ASSUME NEW c \in calls, GetToken(c)
      PROVE  u \notin reset' /\ AtMostOneSet(queue'[u], users'[u].exists)
  <2>1. c.uid \in Users /\ c.n \in 0..MaxCalls
    <3>1. c.uid \in Users /\ c.n \in 1..MaxCalls
      BY <1>0, CallIs DEF Typed, ScreenTypes
    <3>. QED BY <3>1, Bounded DEF Bounds
  <2>2. Enqueue("token", c.uid, c.n) /\ UNCHANGED <<users, failed, reset>>
    BY <1>3 DEF GetToken
  <2>3. PICK w : w = [op |-> "token", uid |-> c.uid, n |-> c.n]
    OBVIOUS
  <2>4. /\ queue'[auth] = Append(queue[auth], w) /\ \A a \in Account \ {auth} : queue'[a] = queue[a]
        /\ w \in PendingWrite /\ w.op # "set"
    BY <1>0, <2>1, <2>2, <2>3, EnqueueIs DEF PendingWrite
  <2>5. CASE u = auth
    <3>1. AtMostOneSet(queue[u], users[u].exists) /\ u \notin reset
      BY <1>0, <2>2
    <3>2. AtMostOneSet(Append(queue[u], w), users[u].exists)
      BY <1>0, <2>4, <3>1, SetAppended
    <3>. QED BY <2>2, <2>4, <2>5, <3>1, <3>2
  <2>6. CASE u # auth
    BY <1>0, <2>2, <2>4, <2>6
  <2>. QED BY <2>5, <2>6
<1>4. CASE Acknowledge
  <2>1. PICK w : w = Head(queue[auth])
    OBVIOUS
  <2>2. /\ queue[auth] # <<>> /\ w \in PendingWrite /\ w = queue[auth][1]
        /\ Len(queue[auth]) \in Nat \ {0} /\ Len(queue'[auth]) = Len(queue[auth]) - 1
        /\ \A i \in 1..Len(queue'[auth]) : queue'[auth][i] = queue[auth][i + 1]
        /\ \A a \in Account \ {auth} : queue'[a] = queue[a]
        /\ w.op = "set" =>
              /\ users' = [users EXCEPT ![w.uid] = [exists |-> TRUE, balance |-> 0, token |-> FALSE]]
              /\ reset' = IF users[w.uid].exists THEN reset \cup {w.uid} ELSE reset
        /\ w.op # "set" =>
              /\ reset' = reset
              /\ users' = IF users[w.uid].exists THEN [users EXCEPT ![w.uid].token = TRUE] ELSE users
    BY <1>0, <1>4, <2>1, AnsweredWrite
  <2>3. w.uid \in Users /\ (w.op = "set" => w.uid = auth)
    <3>1. 1 \in 1..Len(queue[auth])
      BY <2>2
    <3>. QED BY <1>0, <2>2, <3>1 DEF PendingWrite, SetsAreOwn, IsOwn
  <2>4. u \notin failed /\ u \notin reset /\ AtMostOneSet(queue[u], users[u].exists)
    <3>1. failed \subseteq failed'
      BY <1>4 DEF Acknowledge, Fails
    <3>. QED BY <1>0, <3>1
  <2>5. CASE u = auth
    <3>1. PICK q : q = queue[auth]
      OBVIOUS
    <3>2. PICK s : s = queue'[auth]
      OBVIOUS
    <3>3. /\ Len(q) \in Nat \ {0} /\ Len(s) = Len(q) - 1 /\ w = q[1]
          /\ \A i \in 1..Len(s) : s[i] = q[i + 1] /\ i + 1 \in 1..Len(q) /\ i + 1 # 1
          /\ 1 \in 1..Len(q)
      BY <2>2, <3>1, <3>2
    <3>4. AtMostOneSet(q, users[u].exists)
      BY <2>4, <2>5, <3>1
    <3>5. CASE w.op = "set"
      <4>1. ~users[u].exists /\ \A i \in 1..Len(s) : s[i].op # "set"
        BY <3>3, <3>4, <3>5 DEF AtMostOneSet
      <4>2. u \notin reset'
        BY <2>2, <2>3, <2>4, <2>5, <3>5, <4>1
      <4>. QED BY <2>5, <3>2, <4>1, <4>2 DEF AtMostOneSet
    <3>6. CASE w.op # "set"
      <4>1. users'[u].exists = users[u].exists /\ reset' = reset
        BY ZenonT(60), <1>0, <2>2, <2>3, <3>6 DEF UserRecord
      <4>2. AtMostOneSet(s, users[u].exists)
        <5>1. ASSUME NEW i \in 1..Len(s), s[i].op = "set"
              PROVE  ~users[u].exists /\ \A j \in 1..Len(s) : s[j].op = "set" => i = j
          <6>1. /\ i + 1 \in 1..Len(q) /\ q[i + 1].op = "set" /\ ~users[u].exists
                /\ \A k \in 1..Len(q) : q[k].op = "set" => i + 1 = k
            BY <3>3, <3>4, <5>1 DEF AtMostOneSet
          <6>2. \A j \in 1..Len(s) : s[j].op = "set" => i + 1 = j + 1
            BY <3>3, <6>1
          <6>3. Len(s) \in Nat
            BY <3>3
          <6>. QED BY <6>1, <6>2, <6>3
        <5>. QED BY <5>1 DEF AtMostOneSet
      <4>. QED BY <2>4, <2>5, <3>2, <4>1, <4>2
    <3>. QED BY <3>5, <3>6
  <2>6. CASE u # auth
    <3>1. users'[u].exists = users[u].exists /\ queue'[u] = queue[u]
      BY ZenonT(60), <1>0, <2>2, <2>3, <2>6 DEF UserRecord
    <3>2. u \notin reset'
      BY <2>2, <2>3, <2>4, <2>6
    <3>. QED BY <2>4, <3>1, <3>2
  <2>. QED BY <2>5, <2>6
<1>5. ASSUME NEW v \in Users, Refund(v)
      PROVE  u \notin reset' /\ AtMostOneSet(queue'[u], users'[u].exists)
  <2>1. /\ users' = [users EXCEPT ![v].balance = @ + 1] /\ UNCHANGED <<queue, failed, reset>>
    BY <1>5 DEF Refund
  <2>2. users'[u].exists = users[u].exists
    BY <1>0, <2>1 DEF UserRecord
  <2>. QED BY <1>0, <2>1, <2>2
<1>6. CASE Kill
  <2>1. /\ users' = users /\ failed' = failed /\ reset' = reset
        /\ Len(queue'[u]) = Len(queue[u])
        /\ \A i \in 1..Len(queue[u]) : queue'[u][i].op = queue[u][i].op
    BY <1>0, <1>6, KillEffect
  <2>. QED BY <1>0, <2>1 DEF AtMostOneSet
<1>7. Tap => UNCHANGED <<queue, users, failed, reset>> \/ (SignUp /\ auth # NoUser)
  BY DEF Tap, OpenPhone, Skip, AskToLogin, VerifyOtp, SignUp, AskSignOut, SignOut, Back,
         VerifyPhoneNumber, Quiet
<1>8. ASSUME NEW c \in calls, SignIn(c) \/ SignInFails(c) \/ GetUser(c) \/ Throws(c)
      PROVE  UNCHANGED <<queue, users, reset>> /\ failed \subseteq failed'
  BY <1>8 DEF SignIn, SignInFails, GetUser, Throws, Fails
<1>9. UNCHANGED vars => UNCHANGED <<queue, users, failed, reset>>
  BY DEF vars
<1>. QED BY <1>1, <1>2, <1>3, <1>4, <1>5, <1>6, <1>7, <1>8, <1>9 DEF Next, Resume

-----------------------------------------------------------------------------
(* Calls that do not overlap: the screens *)

LEMMA UpdatesKept ==
  ASSUME UpdatesInv, UNCHANGED queue, \A c \in calls : \E d \in calls' : Like(c, d)
  PROVE  UpdatesInv'
<1>. SUFFICES ASSUME NEW a \in Account, NEW i \in 1..Len(queue[a]), queue[a][i].n # 0
              PROVE  /\ i = Len(queue[a]) /\ queue[a][i].op = "token"
                     /\ \E d \in calls' : d.stage = "update" /\ d.uid = queue[a][i].uid
                     /\ \A b \in Account : \A j \in 1..Len(queue[b]) : queue[b][j].n # 0 => a = b
  BY DEF UpdatesInv
<1>1. PICK c \in calls : c.stage = "update" /\ c.uid = queue[a][i].uid
  BY DEF UpdatesInv
<1>2. PICK d \in calls' : Like(c, d)
  OBVIOUS
<1>3. d.stage = "update" /\ d.uid = queue[a][i].uid
  BY <1>1, <1>2 DEF Like
<1>. QED BY <1>3 DEF UpdatesInv

\* A screen that no call in progress returns to: the screens of a guest, and the
\* ones before a call begins.
LEMMA ScreenKept ==
  ASSUME Sound, nav # <<>>, NEW stack \in Seq(NamedPage), NEW kept \in 0..MaxPages,
         Show(stack, kept, calls), \A c \in calls : c.at \in {Leaving, Gone},
         UNCHANGED <<profile, queue, users, failed>>,
         NEW s, s = Shown(stack), s # <<>>, PageOrder(s), s[Len(s)].page # "profile",
         s[1].page = "navigation" /\ s[1].who # NoUser => nav[1] = s[1] /\ auth' = auth
  PROVE  InOrder'
<1>0. /\ Typed /\ CallsInv /\ OneCall /\ FormInv /\ AppInv /\ UpdatesInv
      /\ \A c \in calls : c.from # "main" /\ c.at \in 0..Gone
  BY NotTopmost, CallIs DEF Sound, InOrder, CallsInv, Typed, ScreenTypes
<1>1. /\ OneCall' /\ nav' = s
      /\ \A d \in calls' : \E c \in calls : Like(c, d) /\ d.at = Moved(c.at, stack, kept)
      /\ \A c \in calls : \E d \in calls' : Like(c, d)
  <2>1. nav' = s
    BY DEF Show
  <2>2. /\ OneCall'
        /\ \A d \in calls' : \E c \in calls : Like(c, d) /\ d.at = Moved(c.at, stack, kept)
        /\ \A c \in calls : \E d \in calls' : Like(c, d)
    BY <1>0, CallsMoved
  <2>. QED BY <2>1, <2>2
<1>2. \A d \in calls' : d.at = Gone /\ \E c \in calls : Like(c, d)
  <2>. SUFFICES ASSUME NEW d \in calls' PROVE d.at = Gone /\ \E c \in calls : Like(c, d)
    OBVIOUS
  <2>1. PICK c \in calls : Like(c, d) /\ d.at = Moved(c.at, stack, kept)
    BY <1>1
  <2>2. PICK at : at = c.at
    OBVIOUS
  <2>3. at \in 0..Gone /\ at \in {Leaving, Gone}
    BY <1>0, <2>2
  <2>4. Moved(at, stack, kept) = Gone
    BY <2>3, MovedIs
  <2>. QED BY <2>1, <2>2, <2>4
<1>3. ASSUME NEW d \in calls' PROVE CallInv(d)'
  <2>1. PICK c \in calls : Like(c, d)
    BY <1>2
  <2>2. d.at = Gone /\ CallInv(c) /\ c.from # "main"
    BY <1>0, <1>2 DEF CallsInv
  <2>3. (c.stage = "signIn" => c.from = "verifyOtp") /\ d.from = c.from /\ d.stage = c.stage
    BY <2>1, <2>2 DEF CallInv, Like
  <2>4. Len(s) # Gone /\ Leaving # Gone
    <3>1. Len(s) <= MaxPages /\ Len(s) \in Nat
      BY <1>1, ShownIs, LenProperties DEF Show
    <3>. QED BY <3>1, Bounded DEF Gone, Leaving, Bounds
  <2>. QED BY <1>1, <2>2, <2>3, <2>4 DEF CallInv
<1>4. CallsInv'
  BY <1>1, <1>3 DEF CallsInv
<1>5. FormInv'
  BY <1>1 DEF FormInv, On, Top
<1>6. AppInv'
  <2>. SUFFICES ASSUME s[1].page = "navigation", s[1].who # NoUser
                PROVE  /\ calls' = {} /\ auth' = s[1].who /\ profile.uid = auth'
                       /\ users[auth'].token /\ queue[auth'] = <<>>
    BY <1>1 DEF AppInv
  <2>1. /\ calls = {} /\ auth = s[1].who /\ profile.uid = auth
        /\ users[auth].token /\ queue[auth] = <<>>
    BY <1>0 DEF AppInv
  <2>. QED BY <1>2, <2>1
<1>7. UpdatesInv'
  BY <1>0, <1>1, UpdatesKept
<1>. QED BY <1>1, <1>4, <1>5, <1>6, <1>7 DEF InOrder

\* A stack of one page is in order.
LEMMA SingleIs ==
  ASSUME NEW r \in NamedPage, r.page \in {"welcome", "navigation", "profile"}
  PROVE  <<r>> \in Seq(NamedPage) /\ <<r>> # <<>> /\ Len(<<r>>) = 1 /\ <<r>>[1] = r /\ PageOrder(<<r>>)
<1>1. <<r>> \in Seq(NamedPage) /\ <<r>> # <<>> /\ Len(<<r>>) = 1 /\ <<r>>[1] = r
  OBVIOUS
<1>. QED BY <1>1 DEF PageOrder

\* The stack under a page that is pushed.
LEMMA AppendIs ==
  ASSUME NEW s \in Seq(NamedPage), NEW r \in NamedPage
  PROVE  /\ Append(s, r) \in Seq(NamedPage) /\ Append(s, r) # <<>>
         /\ Len(s) \in Nat /\ Len(Append(s, r)) = Len(s) + 1 /\ Append(s, r)[Len(s) + 1] = r
         /\ \A i \in 1..Len(s) : Append(s, r)[i] = s[i]
         /\ \A i \in 1..(Len(s) + 1) : i \in 1..Len(s) \/ i = Len(s) + 1
         /\ r.page \in {"welcome", "navigation"} => Shown(Append(s, r)) = <<r>>
         /\ r.page \notin {"welcome", "navigation"} => Shown(Append(s, r)) = Append(s, r)
<1>1. PICK t : t = Append(s, r)
  OBVIOUS
<1>2. /\ t \in Seq(NamedPage) /\ t # <<>>
      /\ Len(s) \in Nat /\ Len(t) = Len(s) + 1 /\ t[Len(s) + 1] = r
      /\ \A i \in 1..Len(s) : t[i] = s[i]
      /\ \A i \in 1..(Len(s) + 1) : i \in 1..Len(s) \/ i = Len(s) + 1
  <2>1. /\ t \in Seq(NamedPage) /\ Len(s) \in Nat /\ Len(t) = Len(s) + 1 /\ t[Len(s) + 1] = r
        /\ \A i \in 1..Len(s) : t[i] = s[i]
    BY <1>1, AppendProperties, LenProperties
  <2>. QED BY <2>1, EmptySeq
<1>3. /\ r.page \in {"welcome", "navigation"} => Shown(t) = <<r>>
      /\ r.page \notin {"welcome", "navigation"} => Shown(t) = t
  BY <1>2, ShownIs
<1>. QED BY <1>1, <1>2, <1>3

LEMMA OpenPhoneKept == ASSUME Sound, OpenPhone PROVE InOrder'
<1>1. /\ Typed /\ PageOrder(nav) /\ nav # <<>> /\ Top.page = "welcome" /\ Push("phone", NoUser, calls)
      /\ UNCHANGED <<profile, queue, users, failed>> /\ nav \in Seq(NamedPage)
      /\ Len(nav) = 1 /\ nav[1].page = "welcome" /\ 1 \in 0..MaxPages
  <2>1. /\ Typed /\ PageOrder(nav) /\ nav # <<>> /\ Top.page = "welcome"
        /\ Push("phone", NoUser, calls) /\ UNCHANGED <<profile, queue, users, failed>>
    BY DEF OpenPhone, On, Quiet, history, Sound, InOrder
  <2>. QED BY <2>1, StackIs, NavIs, Bounded DEF Bounds
<1>2. \A c \in calls : c.at \in {Leaving, Gone}
  BY <1>1, NotTopmost
<1>3. PICK r : r = Screen("phone", NoUser)
  OBVIOUS
<1>4. r \in NamedPage /\ r.page = "phone"
  BY <1>3, ScreenIs DEF PageName, Account
<1>5. PICK s : s = Append(nav, r)
  OBVIOUS
<1>6. /\ s \in Seq(NamedPage) /\ s # <<>> /\ Len(s) = 2 /\ s[1] = nav[1] /\ s[2] = r /\ s = Shown(s)
  BY <1>1, <1>4, <1>5, AppendIs
<1>7. PageOrder(s)
  BY <1>1, <1>4, <1>6 DEF PageOrder
<1>8. Show(s, 1, calls)
  BY <1>1, <1>3, <1>5 DEF Push
<1>. QED BY <1>1, <1>2, <1>4, <1>6, <1>7, <1>8, ScreenKept

\* A page that covers everything under it, or replaces the topmost one.
LEMMA CoverKept ==
  ASSUME Sound, nav # <<>>, NEW p \in {"welcome", "navigation"}, NEW s \in Seq(NamedPage),
         NEW kept \in 0..MaxPages, Show(Append(s, Screen(p, NoUser)), kept, calls),
         UNCHANGED <<profile, queue, users, failed>>,
         Top.page \in {"welcome", "navigation", "dialog"}
  PROVE  InOrder'
<1>1. PICK r : r = Screen(p, NoUser)
  OBVIOUS
<1>2. r \in NamedPage /\ r.page = p /\ r.who = NoUser
  BY <1>1, ScreenIs DEF PageName, Account
<1>3. PICK t : t = Append(s, r)
  OBVIOUS
<1>4. t \in Seq(NamedPage) /\ Shown(t) = <<r>> /\ Show(t, kept, calls)
  BY <1>1, <1>2, <1>3, AppendIs
<1>5. PICK z : z = <<r>>
  OBVIOUS
<1>6. z = Shown(t) /\ z # <<>> /\ Len(z) = 1 /\ z[1] = r /\ PageOrder(z)
  BY <1>2, <1>4, <1>5, SingleIs
<1>7. \A c \in calls : c.at \in {Leaving, Gone}
  BY NotTopmost
<1>. QED BY <1>2, <1>4, <1>6, <1>7, ScreenKept

LEMMA CoversKept ==
  ASSUME Sound, Skip \/ AskToLogin \/ SignOut
  PROVE  InOrder'
<1>. USE DEF history
<1>1. /\ Typed /\ PageOrder(nav) /\ nav # <<>> /\ Top.page \in {"welcome", "navigation", "dialog"}
      /\ UNCHANGED <<profile, queue, users, failed>> /\ nav \in Seq(NamedPage)
      /\ Len(nav) \in 0..MaxPages /\ Front(1) \in Seq(NamedPage) /\ Len(nav) - 1 \in 0..MaxPages
  <2>1. /\ Typed /\ PageOrder(nav) /\ nav # <<>> /\ Top.page \in {"welcome", "navigation", "dialog"}
        /\ UNCHANGED <<profile, queue, users, failed>>
    BY DEF Skip, AskToLogin, SignOut, On, Quiet, Sound, InOrder
  <2>. QED BY <2>1, NavIs, FrontIs
<1>2. CASE Skip
  BY <1>1, <1>2, CoverKept DEF Skip, PushReplacement
<1>3. CASE AskToLogin
  BY <1>1, <1>3, CoverKept DEF AskToLogin, Push
<1>4. CASE SignOut
  BY <1>1, <1>4, CoverKept DEF SignOut, PushReplacement
<1>. QED BY <1>2, <1>3, <1>4

LEMMA AskSignOutKept == ASSUME Sound, AskSignOut PROVE InOrder'
<1>1. /\ Typed /\ PageOrder(nav) /\ nav # <<>> /\ Top.page = "navigation"
      /\ Push("dialog", NoUser, calls)
      /\ UNCHANGED <<auth, profile, queue, users, failed>> /\ nav \in Seq(NamedPage)
      /\ Len(nav) = 1 /\ nav[1].page = "navigation" /\ 1 \in 0..MaxPages
  <2>1. /\ Typed /\ PageOrder(nav) /\ nav # <<>> /\ Top.page = "navigation"
        /\ Push("dialog", NoUser, calls) /\ UNCHANGED <<auth, profile, queue, users, failed>>
    BY DEF AskSignOut, On, Quiet, history, Sound, InOrder
  <2>. QED BY <2>1, StackIs, NavIs, Bounded DEF Bounds
<1>2. \A c \in calls : c.at \in {Leaving, Gone}
  BY <1>1, NotTopmost
<1>3. PICK r : r = Screen("dialog", NoUser)
  OBVIOUS
<1>4. r \in NamedPage /\ r.page = "dialog"
  BY <1>3, ScreenIs DEF PageName, Account
<1>5. PICK s : s = Append(nav, r)
  OBVIOUS
<1>6. /\ s \in Seq(NamedPage) /\ s # <<>> /\ Len(s) = 2 /\ s[1] = nav[1] /\ s[2] = r /\ s = Shown(s)
  BY <1>1, <1>4, <1>5, AppendIs
<1>7. PageOrder(s)
  BY <1>1, <1>4, <1>6 DEF PageOrder
<1>8. Show(s, 1, calls)
  BY <1>1, <1>3, <1>5 DEF Push
<1>. QED BY <1>1, <1>2, <1>4, <1>6, <1>7, <1>8, ScreenKept

LEMMA VerifyPhoneNumberKept ==
  ASSUME Sound, NEW u \in Users, VerifyPhoneNumber(u)
  PROVE  InOrder'
<1>1. /\ Typed /\ PageOrder(nav) /\ nav # <<>> /\ Top.page = "phone"
      /\ Show(Append(Busy, Screen("verification", u)), Len(nav), calls)
      /\ UNCHANGED <<auth, profile, queue, users, failed>>
      /\ Len(nav) = 2 /\ nav[1].page = "welcome" /\ nav[2].page = "phone" /\ 2 \in 0..MaxPages
      /\ Busy \in Seq(NamedPage) /\ Len(Busy) = 2
      /\ Busy[1].page = "welcome" /\ Busy[2].page = "phone"
  <2>1. /\ Typed /\ PageOrder(nav) /\ nav # <<>> /\ Top.page = "phone"
        /\ Show(Append(Busy, Screen("verification", u)), Len(nav), calls)
        /\ UNCHANGED <<auth, profile, queue, users, failed>>
    BY DEF VerifyPhoneNumber, On, Quiet, history, Sound, InOrder
  <2>2. /\ Len(nav) = 2 /\ nav[1].page = "welcome" /\ nav[2].page = "phone" /\ 2 \in 0..MaxPages
    <3>1. /\ Len(nav) = 2 /\ nav[1].page = "welcome" /\ Top = nav[Len(nav)]
          /\ Len(nav) \in Nat \ {0} /\ Len(nav) <= MaxPages
      BY <2>1, StackIs
    <3>2. nav[Len(nav)].page = "phone"
      BY <2>1, <3>1
    <3>. QED BY <3>1, <3>2, Bounded DEF Bounds
  <2>. QED BY <2>1, <2>2, BusyIs
<1>2. \A c \in calls : c.at \in {Leaving, Gone}
  BY <1>1, NotTopmost
<1>3. PICK r : r = Screen("verification", u)
  OBVIOUS
<1>4. r \in NamedPage /\ r.page = "verification"
  BY <1>3, ScreenIs DEF PageName, Account
<1>5. PICK s : s = Append(Busy, r)
  OBVIOUS
<1>6. /\ s \in Seq(NamedPage) /\ s # <<>> /\ Len(s) = 3 /\ s[1] = Busy[1] /\ s[2] = Busy[2]
      /\ s[3] = r /\ s = Shown(s)
  BY <1>1, <1>4, <1>5, AppendIs
<1>7. PageOrder(s)
  BY <1>1, <1>4, <1>6 DEF PageOrder
<1>8. Show(s, 2, calls)
  BY <1>1, <1>3, <1>5
<1>. QED BY <1>1, <1>2, <1>4, <1>6, <1>7, <1>8, ScreenKept

\* A call begins when none is in progress.
LEMMA BeginIs ==
  ASSUME MaxCalls = 1, Typed, NEW from, NEW u, NEW stage, Begin(from, u, stage)
  PROVE  /\ calls = {}
         /\ calls' = {[n |-> 1, from |-> from, uid |-> u, stage |-> stage, at |-> Len(nav)]}
<1>1. PICK n \in Free : calls' = calls \cup
         {[n |-> n, from |-> from, uid |-> u, stage |-> stage, at |-> Len(nav)]}
  BY DEF Begin
<1>2. n = 1 /\ \A c \in calls : c.n # 1
  BY <1>1 DEF Free
<1>3. \A c \in calls : c.n = 1
  <2>1. \A c \in calls : c.n \in 1..MaxCalls
    BY CallIs DEF Typed, ScreenTypes
  <2>. QED BY <2>1
<1>. QED BY <1>1, <1>2, <1>3

\* Without a call in progress no pending write is awaited.
LEMMA NoneAwaited ==
  ASSUME UpdatesInv, \A c \in calls : c.stage # "update"
  PROVE  \A a \in Account : \A i \in 1..Len(queue[a]) : queue[a][i].n = 0
  BY DEF UpdatesInv

LEMMA VerifyOtpKept ==
  ASSUME MaxCalls = 1, Sound, VerifyOtp
  PROVE  InOrder'
<1>1. /\ Typed /\ PageOrder(nav) /\ UpdatesInv /\ nav # <<>> /\ Top.page = "verification"
      /\ nav' = Busy /\ Begin("verifyOtp", Top.who, "signIn")
      /\ UNCHANGED <<auth, profile, queue, users, failed>>
  BY DEF VerifyOtp, On, Quiet, history, Sound, InOrder
<1>2. PICK s : s = Busy
  OBVIOUS
<1>3. /\ Len(nav) = 3 /\ Top = nav[3] /\ nav[1].page = "welcome" /\ nav[2].page = "phone" /\ 3 <= MaxPages
  <2>1. /\ Len(nav) = 3 /\ Top = nav[Len(nav)] /\ nav[1].page = "welcome" /\ nav[2].page = "phone"
        /\ Len(nav) <= MaxPages
    BY <1>1, StackIs
  <2>. QED BY <2>1
<1>4. /\ Len(s) = 3 /\ s # <<>> /\ s[1].page = "welcome" /\ s[2].page = "phone"
      /\ s[3].page = "verification" /\ s[3].busy = TRUE
  <2>1. /\ s \in Seq(NamedPage) /\ Len(s) = 3 /\ s[1].page = nav[1].page /\ s[2].page = nav[2].page
        /\ s[3].page = nav[3].page /\ s[3].busy = TRUE
    <3>1. /\ Busy \in Seq(NamedPage) /\ Len(Busy) = Len(nav) /\ Busy[Len(nav)].busy = TRUE
          /\ \A i \in 1..Len(nav) : Busy[i].page = nav[i].page
      BY <1>1, BusyIs
    <3>. QED BY <1>2, <1>3, <3>1
  <2>. QED BY <1>1, <1>3, <2>1, EmptySeq
<1>5. PageOrder(s)
  BY <1>4 DEF PageOrder
<1>6. calls = {}
  BY <1>1, BeginIs
<1>7. PICK d : d = [n |-> 1, from |-> "verifyOtp", uid |-> Top.who, stage |-> "signIn", at |-> 3]
  OBVIOUS
<1>8. calls' = {d} /\ d.from = "verifyOtp" /\ d.stage = "signIn" /\ d.at = 3
  BY <1>1, <1>3, <1>7, BeginIs
<1>9. CallInv(d)'
  <2>1. 3 # Leaving /\ 3 # Gone
    BY <1>3, Bounded DEF Leaving, Gone, Bounds
  <2>. QED BY <1>1, <1>2, <1>4, <1>8, <2>1 DEF CallInv, Top
<1>10. CallsInv'
  BY <1>8, <1>9 DEF CallsInv, OneCall
<1>11. FormInv' /\ AppInv'
  BY <1>1, <1>2, <1>4 DEF FormInv, AppInv, On, Top
<1>12. UpdatesInv'
  <2>1. \A a \in Account : \A i \in 1..Len(queue[a]) : queue[a][i].n = 0
    BY <1>1, <1>6, NoneAwaited
  <2>. QED BY <1>1, <2>1 DEF UpdatesInv
<1>. QED BY <1>1, <1>2, <1>5, <1>10, <1>11, <1>12 DEF InOrder

LEMMA SignUpKept ==
  ASSUME MaxCalls = 1, Sound, SignUp
  PROVE  InOrder'
<1>1. /\ Typed /\ PageOrder(nav) /\ UpdatesInv /\ nav # <<>> /\ Top.page = "profile"
      /\ auth = Top.who /\ auth # NoUser /\ auth \in Users /\ auth \in Account
      /\ nav' = Busy /\ Begin("signUp", auth, "get") /\ Enqueue("set", auth, 0)
      /\ UNCHANGED <<auth, profile, users, failed>>
  <2>1. On("profile") /\ nav # <<>> /\ Top.page = "profile"
    BY DEF SignUp, On
  <2>2. Typed /\ PageOrder(nav) /\ UpdatesInv /\ FormInv
    BY DEF Sound, InOrder
  <2>3. auth = Top.who /\ auth # NoUser
    BY <2>1, <2>2 DEF FormInv
  <2>. QED BY <2>1, <2>2, <2>3 DEF SignUp, history, Typed, DataTypes, Account
<1>2. PICK s : s = Busy
  OBVIOUS
<1>3. PICK l : l = Len(nav)
  OBVIOUS
<1>4. /\ l \in Nat \ {0} /\ l <= MaxPages /\ Top = nav[l] /\ nav[l].page = "profile"
      /\ l = 1 \/ (nav[1].page = "welcome" /\ l # 1 /\ nav[l - 1].page \in {"phone", "verification"})
  BY <1>1, <1>3, StackIs
<1>5. /\ s \in Seq(NamedPage) /\ Len(s) = l /\ s # <<>> /\ s[l].busy = TRUE /\ s[l].page = "profile"
      /\ s[l].who = Top.who
      /\ \A i \in 1..l : s[i].page = nav[i].page
  <2>1. /\ s \in Seq(NamedPage) /\ Len(s) = l /\ s[l].busy = TRUE
        /\ \A i \in 1..l : s[i].page = nav[i].page /\ s[i].who = nav[i].who
    BY <1>1, <1>2, <1>3, BusyIs
  <2>2. l \in 1..l
    BY <1>4
  <2>. QED BY <1>4, <2>1, <2>2, EmptySeq
<1>6. PageOrder(s)
  <2>1. 1 \in 1..l /\ (l # 1 => l - 1 \in 1..l)
    BY <1>4
  <2>2. ASSUME NEW i \in 1..l
        PROVE  /\ s[i].page \in {"welcome", "navigation"} => i = 1
               /\ s[i].page = "phone" => i = 2 /\ s[1].page = "welcome"
               /\ s[i].page = "verification" =>
                     i = 3 /\ s[1].page = "welcome" /\ s[2].page = "phone"
               /\ s[i].page = "dialog" => i = 2 /\ s[1].page = "navigation"
               /\ s[i].page = "profile" =>
                     /\ i = l
                     /\ i = 1 \/ (s[1].page = "welcome" /\ s[i - 1].page \in {"phone", "verification"})
    <3>1. s[i].page = nav[i].page /\ s[1].page = nav[1].page /\ (l # 1 => s[l - 1].page = nav[l - 1].page)
      BY <1>5, <2>1
    <3>2. /\ nav[i].page \in {"welcome", "navigation"} => i = 1
          /\ nav[i].page = "phone" => i = 2 /\ nav[1].page = "welcome"
          /\ nav[i].page = "verification" =>
                i = 3 /\ nav[1].page = "welcome" /\ nav[2].page = "phone"
          /\ nav[i].page = "dialog" => i = 2 /\ nav[1].page = "navigation"
          /\ nav[i].page = "profile" => i = l
      BY <1>1, <1>3 DEF PageOrder
    <3>3. nav[i].page = "verification" => 2 \in 1..l
      BY <1>4, <3>2
    <3>. QED BY <1>4, <1>5, <3>1, <3>2, <3>3
  <2>. QED BY <1>5, <2>2 DEF PageOrder
<1>7. calls = {}
  BY <1>1, BeginIs
<1>8. PICK d : d = [n |-> 1, from |-> "signUp", uid |-> auth, stage |-> "get", at |-> l]
  OBVIOUS
<1>9. calls' = {d} /\ d.from = "signUp" /\ d.stage = "get" /\ d.at = l /\ d.uid = auth
  BY <1>1, <1>3, <1>8, BeginIs
<1>10. CallInv(d)'
  <2>1. l # Leaving /\ l # Gone
    BY <1>4, Bounded DEF Leaving, Gone, Bounds
  <2>. QED BY <1>1, <1>2, <1>5, <1>9, <2>1 DEF CallInv, Top
<1>11. CallsInv'
  BY <1>9, <1>10 DEF CallsInv, OneCall
<1>12. FormInv'
  BY <1>1, <1>2, <1>5, <1>9 DEF FormInv, On, Top
<1>13. AppInv'
  <2>1. s[1].page # "navigation"
    <3>1. 1 \in 1..l /\ nav[1].page # "navigation"
      BY <1>4
    <3>. QED BY <1>5, <3>1
  <2>. QED BY <1>1, <1>2, <2>1 DEF AppInv
<1>14. UpdatesInv'
  <2>1. \A a \in Account : \A i \in 1..Len(queue[a]) : queue[a][i].n = 0
    BY <1>1, <1>7, NoneAwaited
  <2>2. PICK w : w = [op |-> "set", uid |-> auth, n |-> 0]
    OBVIOUS
  <2>3. PICK q : q = queue[auth]
    OBVIOUS
  <2>4. /\ queue'[auth] = Append(q, w) /\ \A a \in Account \ {auth} : queue'[a] = queue[a]
        /\ w \in PendingWrite /\ w.n = 0 /\ q \in Seq(PendingWrite)
    <3>1. 0 \in 0..MaxCalls
      OBVIOUS
    <3>. QED BY <1>1, <2>2, <2>3, <3>1, EnqueueIs DEF PendingWrite, Typed, DataTypes
  <2>5. \A i \in 1..Len(Append(q, w)) : Append(q, w)[i].n = 0
    <3>1. PICK t : t = Append(q, w)
      OBVIOUS
    <3>2. /\ Len(t) = Len(q) + 1 /\ \A i \in 1..Len(q) : t[i] = q[i]
          /\ t[Len(q) + 1] = w /\ \A i \in 1..(Len(q) + 1) : i \in 1..Len(q) \/ i = Len(q) + 1
      BY <2>4, <3>1, QueueAppend
    <3>3. \A i \in 1..Len(q) : q[i].n = 0
      BY <1>1, <2>1, <2>3
    <3>. QED BY <2>4, <3>1, <3>2, <3>3
  <2>6. \A a \in Account : \A i \in 1..Len(queue'[a]) : queue'[a][i].n = 0
    <3>. SUFFICES ASSUME NEW a \in Account PROVE \A i \in 1..Len(queue'[a]) : queue'[a][i].n = 0
      OBVIOUS
    <3>1. CASE a = auth
      BY <2>4, <2>5, <3>1
    <3>2. CASE a # auth
      BY <2>1, <2>4, <3>2
    <3>. QED BY <3>1, <3>2
  <2>. QED BY <2>6 DEF UpdatesInv
<1>. QED BY <1>1, <1>2, <1>6, <1>11, <1>12, <1>13, <1>14 DEF InOrder

\* What shows when the topmost page is popped.
LEMMA PoppedIs ==
  ASSUME Typed, PageOrder(nav), nav # <<>>, NEW s, s = Shown(Front(1))
  PROVE  /\ s \in Seq(NamedPage) /\ Len(s) = Len(nav) - 1 /\ Len(nav) \in Nat \ {0}
         /\ \A i \in 1..Len(s) : s[i] = nav[i]
<1>1. PICK f : f = Front(1)
  OBVIOUS
<1>2. PICK l : l = Len(nav)
  OBVIOUS
<1>3. /\ f \in Seq(NamedPage) /\ Len(f) = l - 1 /\ l \in Nat \ {0}
      /\ \A i \in 1..(l - 1) : f[i] = nav[i]
  BY <1>1, <1>2, FrontIs, StackIs
<1>4. CASE f # <<>> /\ f[Len(f)].page \in {"welcome", "navigation"}
  <2>1. Len(f) \in 1..(l - 1) /\ l - 1 \in 1..l
    BY <1>3, <1>4, EmptySeq
  <2>2. nav[l - 1].page \in {"welcome", "navigation"}
    BY <1>3, <1>4, <2>1
  <2>3. l - 1 = 1
    BY <1>2, <2>1, <2>2 DEF PageOrder
  <2>4. PICK r : r = f[1]
    OBVIOUS
  <2>5. s = <<r>> /\ r = nav[1] /\ r \in NamedPage
    <3>1. s = <<f[Len(f)]>> /\ Len(f) = 1
      BY <1>1, <1>3, <1>4, <2>3, ShownIs
    <3>2. 1 \in 1..Len(f) /\ 1 \in 1..(l - 1)
      BY <2>3, <3>1
    <3>3. f[1] \in NamedPage
      BY <1>3, <3>2
    <3>. QED BY <1>3, <2>4, <3>1, <3>2, <3>3
  <2>6. <<r>> \in Seq(NamedPage) /\ Len(<<r>>) = 1 /\ <<r>>[1] = r
    BY <2>5
  <2>7. s \in Seq(NamedPage) /\ Len(s) = 1 /\ s[1] = nav[1]
    BY <2>5, <2>6
  <2>8. \A i \in 1..1 : i = 1
    OBVIOUS
  <2>. QED BY <1>2, <1>3, <2>3, <2>7, <2>8
<1>5. CASE ~(f # <<>> /\ f[Len(f)].page \in {"welcome", "navigation"})
  <2>1. s = f
    BY <1>1, <1>3, <1>5, ShownIs
  <2>. QED BY <1>2, <1>3, <2>1
<1>. QED BY <1>4, <1>5

LEMMA BackKept ==
  ASSUME Sound, Back
  PROVE  InOrder'
<1>1. /\ Typed /\ PageOrder(nav) /\ UpdatesInv /\ AppInv /\ CallsInv /\ OneCall /\ nav # <<>>
      /\ Show(Front(1), Len(nav) - 1, calls) /\ Top.page \notin {"welcome", "navigation"}
      /\ UNCHANGED <<auth, profile, queue, users, failed>>
      /\ \A c \in calls : c.from # "main" /\ c.at \in 0..Gone
  <2>1. /\ Typed /\ PageOrder(nav) /\ UpdatesInv /\ AppInv /\ CallsInv /\ OneCall /\ nav # <<>>
        /\ Show(Front(1), Len(nav) - 1, calls) /\ Top.page \notin {"welcome", "navigation"}
        /\ UNCHANGED <<auth, profile, queue, users, failed>>
    BY DEF Back, Quiet, history, Sound, InOrder, CallsInv
  <2>. QED BY <2>1, NotTopmost, CallIs DEF Typed, ScreenTypes
<1>2. PICK s : s = Shown(Front(1))
  OBVIOUS
<1>3. PICK l : l = Len(nav)
  OBVIOUS
<1>4. /\ nav' = s /\ s \in Seq(NamedPage) /\ Len(s) = l - 1 /\ l \in Nat \ {0} /\ l <= MaxPages
      /\ Top = nav[l]
      /\ \A i \in 1..(l - 1) : s[i] = nav[i] /\ i \in 1..l /\ i # l
  <2>1. /\ s \in Seq(NamedPage) /\ Len(s) = l - 1 /\ l \in Nat \ {0} /\ \A i \in 1..Len(s) : s[i] = nav[i]
    BY <1>1, <1>2, <1>3, PoppedIs
  <2>2. l <= MaxPages /\ Top = nav[l]
    BY <1>1, <1>3, StackIs
  <2>3. nav' = s
    BY <1>1, <1>2 DEF Show
  <2>4. \A i \in 1..(l - 1) : i \in 1..l /\ i # l
    BY <2>1
  <2>. QED BY <2>1, <2>2, <2>3, <2>4
<1>5. ASSUME NEW i \in 1..(l - 1)
      PROVE  s[i].page # "profile"
  <2>1. s[i] = nav[i] /\ i \in 1..l /\ i # l
    BY <1>4
  <2>2. i \in 1..Len(nav) /\ i # Len(nav)
    BY <1>3, <2>1
  <2>3. nav[i].page # "profile"
    BY <1>1, <2>2 DEF PageOrder
  <2>. QED BY <2>1, <2>3
<1>6. PageOrder(s)
  <2>1. ASSUME NEW i \in 1..(l - 1)
        PROVE  /\ s[i].page \in {"welcome", "navigation"} => i = 1
               /\ s[i].page = "phone" => i = 2 /\ s[1].page = "welcome"
               /\ s[i].page = "verification" =>
                     i = 3 /\ s[1].page = "welcome" /\ s[2].page = "phone"
               /\ s[i].page = "dialog" => i = 2 /\ s[1].page = "navigation"
    <3>1. /\ s[i] = nav[i] /\ 1 \in 1..(l - 1) /\ s[1] = nav[1]
          /\ (i = 3 => 2 \in 1..(l - 1) /\ s[2] = nav[2])
      BY <1>4
    <3>2. /\ nav[i].page \in {"welcome", "navigation"} => i = 1
          /\ nav[i].page = "phone" => i = 2 /\ nav[1].page = "welcome"
          /\ nav[i].page = "verification" =>
                i = 3 /\ nav[1].page = "welcome" /\ nav[2].page = "phone"
          /\ nav[i].page = "dialog" => i = 2 /\ nav[1].page = "navigation"
      BY <1>1, <1>3, <1>4 DEF PageOrder
    <3>. QED BY <3>1, <3>2
  <2>. QED BY <1>4, <1>5, <2>1 DEF PageOrder
<1>7. Top.page \in {"verification", "profile"} => s = <<>> \/ s[Len(s)].page \in {"phone", "verification"}
  <2>1. CASE l = 1
    BY <1>4, <2>1, EmptySeq
  <2>2. CASE l # 1
    <3>1. l - 1 \in 1..(l - 1) /\ s[l - 1] = nav[l - 1]
      BY <1>4, <2>2
    <3>2. Top.page = "verification" => l = 3 /\ nav[2].page = "phone"
      BY <1>1, <1>3, StackIs
    <3>3. Top.page = "profile" => nav[l - 1].page \in {"phone", "verification"}
      BY <1>1, <1>3, <2>2, StackIs
    <3>. QED BY <1>4, <3>1, <3>2, <3>3
  <2>. QED BY <2>1, <2>2
<1>8. /\ OneCall'
      /\ \A d \in calls' : \E c \in calls : Like(c, d) /\ d.at = Moved(c.at, Front(1), l - 1)
      /\ \A c \in calls : \E d \in calls' : Like(c, d)
  BY <1>1, <1>3, CallsMoved
<1>9. ASSUME NEW d \in calls' PROVE CallInv(d)'
  <2>1. PICK c \in calls : Like(c, d) /\ d.at = Moved(c.at, Front(1), l - 1)
    BY <1>8
  <2>2. CallInv(c) /\ c.from # "main" /\ c.at \in 0..Gone /\ c.at \in {l, Leaving, Gone}
    BY <1>1, <1>3 DEF CallsInv, CallInv
  <2>3. PICK at : at = c.at
    OBVIOUS
  <2>4. l - 1 \in 0..MaxPages /\ l \in (l - 1) + 1 .. MaxPages /\ l # Gone /\ Leaving # Gone
        /\ l - 1 # Leaving /\ l - 1 # Gone
    BY <1>4, Bounded DEF Bounds, Leaving, Gone
  <2>5. /\ at = l => Moved(at, Front(1), l - 1) = Leaving
        /\ at # l => Moved(at, Front(1), l - 1) = Gone
    <3>1. at \in 0..Gone /\ (at # l => at \in {Leaving, Gone}) /\ (at = l => at \in (l - 1) + 1 .. MaxPages)
      BY <2>2, <2>3, <2>4
    <3>. QED BY <2>4, <3>1, MovedIs
  <2>6. /\ d.at \in {Leaving, Gone} /\ (d.at # Gone => c.at = l)
    BY <2>1, <2>3, <2>5
  <2>7. /\ c.stage = "signIn" => c.from = "verifyOtp"
        /\ c.at = l => Top.page \in {"verification", "profile"}
        /\ c.at = l /\ c.stage # "signIn" => auth = c.uid
        /\ c.at = l /\ c.stage \in {"token", "update"} => profile.uid = c.uid
    BY <1>3, <2>2, <2>4 DEF CallInv
  <2>8. d.from = c.from /\ d.stage = c.stage /\ d.uid = c.uid
    BY <2>1 DEF Like
  <2>9. d.at = Leaving => s = <<>> \/ s[Len(s)].page \in {"phone", "verification"}
    BY <1>7, <2>4, <2>6, <2>7
  <2>. QED BY <1>1, <1>4, <2>2, <2>4, <2>6, <2>7, <2>8, <2>9 DEF CallInv, Top
<1>10. CallsInv'
  BY <1>8, <1>9 DEF CallsInv
<1>11. FormInv'
  <2>1. s # <<>> => Len(s) \in 1..(l - 1)
    BY <1>4, EmptySeq
  <2>. QED BY <1>4, <1>5, <2>1 DEF FormInv, On, Top
<1>12. AppInv'
  <2>. SUFFICES ASSUME s # <<>>, s[1].page = "navigation", s[1].who # NoUser
                PROVE  /\ calls' = {} /\ auth = s[1].who /\ profile.uid = auth
                       /\ users[auth].token /\ queue[auth] = <<>>
    BY <1>1, <1>4 DEF AppInv
  <2>1. 1 \in 1..(l - 1) /\ s[1] = nav[1]
    BY <1>4, EmptySeq
  <2>2. /\ calls = {} /\ auth = s[1].who /\ profile.uid = auth
        /\ users[auth].token /\ queue[auth] = <<>>
    BY <1>1, <2>1 DEF AppInv
  <2>. QED BY <1>8, <2>2
<1>13. UpdatesInv'
  BY <1>1, <1>8, UpdatesKept
<1>. QED BY <1>4, <1>6, <1>10, <1>11, <1>12, <1>13 DEF InOrder

LEMMA TapKept ==
  ASSUME MaxCalls = 1, Sound, Tap
  PROVE  InOrder'
  BY OpenPhoneKept, CoversKept, AskSignOutKept, VerifyPhoneNumberKept, VerifyOtpKept, BackKept,
     SignUpKept DEF Tap

-----------------------------------------------------------------------------
(* Calls that do not overlap: the calls *)

\* The caller gives up, enters the app, or asks a new user to register.
LEMMA ReturnIs ==
  ASSUME Sound, NEW c \in calls, NEW registered \in BOOLEAN, Return(c, registered)
  PROVE  /\ calls' = {} /\ c.uid \in Users
         /\ \/ nav' = nav
            \/ registered /\ c.at # Gone /\ nav' = <<Screen("navigation", c.uid)>>
            \/ /\ ~registered /\ c.at # Gone /\ nav' = Append(nav, Screen("profile", c.uid))
               /\ nav = <<>> \/ Top.page \in {"phone", "verification"}
<1>1. /\ OneCall /\ CallInv(c) /\ nav \in Seq(NamedPage) /\ c.uid \in Users /\ c.uid \in Account
  BY NavIs, CallIs DEF Sound, InOrder, CallsInv, Typed, ScreenTypes, Account
<1>2. calls \ {c} = {}
  BY <1>1 DEF OneCall
<1>3. PICK r : r = Screen(After(registered), c.uid)
  OBVIOUS
<1>4. /\ r \in NamedPage /\ r.page = After(registered)
      /\ registered => After(registered) = "navigation"
      /\ ~registered => After(registered) = "profile"
  BY <1>1, <1>3, AfterIs, ScreenIs DEF After
<1>5. CASE c.from = "main" /\ Show(<<r>>, 0, calls \ {c})
  <2>1. nav = <<>> /\ c.at # Gone
    BY <1>1, <1>5, Bounded DEF CallInv, Gone, Bounds
  <2>2. <<r>> \in Seq(NamedPage) /\ <<r>> # <<>> /\ Len(<<r>>) = 1 /\ <<r>>[1] = r /\ <<r>> = Append(<<>>, r)
    BY <1>4
  <2>3. PICK t : t = <<r>>
    OBVIOUS
  <2>4. Shown(t) = t
    BY <1>4, <2>2, <2>3, ShownIs
  <2>5. nav' = t /\ calls' = {}
    BY <1>2, <1>5, <2>3, <2>4 DEF Show
  <2>. QED BY <1>1, <1>3, <1>4, <2>1, <2>2, <2>3, <2>5
<1>6. CASE /\ c.from # "main" /\ c.at # Gone /\ (c.from = "signUp" => registered)
           /\ Show(Append(nav, r), Len(nav), calls \ {c})
  <2>1. /\ nav' = Shown(Append(nav, r)) /\ calls' = {}
    <3>1. PICK t : t = Append(nav, r)
      OBVIOUS
    <3>2. PICK l : l = Len(nav)
      OBVIOUS
    <3>3. Show(t, l, {})
      BY <1>2, <1>6, <3>1, <3>2
    <3>4. nav' = Shown(t) /\ calls' = {}
      BY <3>3 DEF Show
    <3>. QED BY <3>1, <3>4
  <2>2. CASE registered
    <3>1. r.page = "navigation" /\ r = Screen("navigation", c.uid)
      BY <1>3, <1>4, <2>2
    <3>2. nav' = <<r>>
      BY <1>1, <1>4, <2>1, <3>1, AppendIs
    <3>. QED BY <1>1, <1>6, <2>1, <2>2, <3>1, <3>2
  <2>3. CASE ~registered
    <3>1. nav' = Append(nav, r)
      BY <1>1, <1>4, <2>1, <2>3, AppendIs
    <3>2. c.from = "verifyOtp"
      BY <1>1, <1>6, <2>3, CallIs DEF Sound, Typed, ScreenTypes
    <3>3. nav = <<>> \/ Top.page \in {"phone", "verification"}
      BY <1>1, <1>6, <3>2 DEF CallInv
    <3>. QED BY <1>1, <1>3, <1>4, <1>6, <2>1, <2>3, <3>1, <3>3
  <2>. QED BY <2>2, <2>3
<1>7. CASE calls' = calls \ {c} /\ UNCHANGED nav
  BY <1>1, <1>2, <1>7
<1>8. \/ c.from = "main" /\ Show(<<r>>, 0, calls \ {c})
      \/ /\ c.from # "main" /\ c.at # Gone /\ (c.from = "signUp" => registered)
         /\ Show(Append(nav, r), Len(nav), calls \ {c})
      \/ calls' = calls \ {c} /\ UNCHANGED nav
  BY <1>3 DEF Return, Push
<1>. QED BY <1>5, <1>6, <1>7, <1>8

\* Where there is no call nothing is to be shown of calls.
LEMMA NoCalls == calls' = {} => CallsInv'
  BY DEF CallsInv, OneCall

\* Every outcome leaves the app to the user the call is for: who enters has a
\* token and no pending writes, who registers is new or retries.
LEMMA ReturnKept ==
  ASSUME Sound, NEW c \in calls, NEW registered \in BOOLEAN, Return(c, registered),
         UNCHANGED <<auth, profile>>, c.stage # "signIn",
         registered /\ c.at # Gone =>
            c.stage = "update" /\ users'[c.uid].token /\ queue'[c.uid] = <<>>,
         ~registered /\ c.at # Gone => c.uid \in failed' \/ IsNew(c.uid)',
         \A a \in Account : \A i \in 1..Len(queue'[a]) : queue'[a][i].n = 0
  PROVE  InOrder'
<1>1. /\ Typed /\ CallInv(c) /\ PageOrder(nav) /\ FormInv /\ AppInv /\ nav \in Seq(NamedPage)
      /\ calls' = {} /\ c.uid \in Users /\ c.uid \in Account /\ c.uid # NoUser
      /\ \/ nav' = nav
         \/ registered /\ c.at # Gone /\ nav' = <<Screen("navigation", c.uid)>>
         \/ /\ ~registered /\ c.at # Gone /\ nav' = Append(nav, Screen("profile", c.uid))
            /\ nav = <<>> \/ Top.page \in {"phone", "verification"}
  <2>1. /\ Typed /\ CallInv(c) /\ PageOrder(nav) /\ FormInv /\ AppInv
    BY DEF Sound, InOrder, CallsInv
  <2>. QED BY <2>1, ReturnIs, NavIs, Bounded DEF Bounds, Account
<1>2. CallsInv' /\ UpdatesInv'
  BY <1>1, NoCalls DEF UpdatesInv
<1>3. CASE nav' = nav
  <2>1. FormInv'
    BY <1>1, <1>3 DEF FormInv, On, Top
  <2>2. AppInv'
    BY <1>1, <1>3 DEF AppInv
  <2>. QED BY <1>1, <1>2, <1>3, <2>1, <2>2 DEF InOrder
<1>4. CASE registered /\ c.at # Gone /\ nav' = <<Screen("navigation", c.uid)>>
  <2>1. PICK r : r = Screen("navigation", c.uid)
    OBVIOUS
  <2>2. PICK s : s = <<r>>
    OBVIOUS
  <2>3. r \in NamedPage /\ r.page = "navigation" /\ r.who = c.uid
    BY <1>1, <2>1, ScreenIs DEF PageName
  <2>4. Len(s) = 1 /\ s[1] = r /\ PageOrder(s) /\ nav' = s
    BY <1>4, <2>1, <2>2, <2>3, SingleIs
  <2>5. FormInv'
    BY <2>3, <2>4 DEF FormInv, On, Top
  <2>6. auth = c.uid /\ profile.uid = c.uid
    BY <1>1, <1>4 DEF CallInv
  <2>7. AppInv'
    BY <1>1, <1>4, <2>3, <2>4, <2>6 DEF AppInv
  <2>. QED BY <1>2, <2>4, <2>5, <2>7 DEF InOrder
<1>5. CASE /\ ~registered /\ c.at # Gone /\ nav' = Append(nav, Screen("profile", c.uid))
           /\ nav = <<>> \/ Top.page \in {"phone", "verification"}
  <2>1. PICK r : r = Screen("profile", c.uid)
    OBVIOUS
  <2>2. r \in NamedPage /\ r.page = "profile" /\ r.who = c.uid
    BY <1>1, <2>1, ScreenIs DEF PageName
  <2>3. PICK s : s = Append(nav, r)
    OBVIOUS
  <2>4. PICK l : l = Len(nav)
    OBVIOUS
  <2>5. /\ s # <<>> /\ l \in Nat /\ Len(s) = l + 1 /\ s[l + 1] = r
        /\ \A i \in 1..l : s[i] = nav[i]
        /\ \A i \in 1..(l + 1) : i \in 1..l \/ i = l + 1
        /\ nav' = s
    BY <1>1, <1>5, <2>1, <2>2, <2>3, <2>4, AppendIs
  <2>6. \/ l = 0
        \/ l = 2 /\ s[1] = nav[1] /\ s[2] = nav[2] /\ nav[1].page = "welcome" /\ nav[2].page = "phone"
        \/ /\ l = 3 /\ s[1] = nav[1] /\ s[2] = nav[2] /\ s[3] = nav[3]
           /\ nav[1].page = "welcome" /\ nav[2].page = "phone" /\ nav[3].page = "verification"
    <3>1. CASE nav = <<>>
      BY <2>4, <3>1
    <3>2. CASE nav # <<>> /\ Top.page = "phone"
      <4>1. l = 2 /\ nav[1].page = "welcome" /\ Top = nav[l]
        BY <1>1, <2>4, <3>2, StackIs
      <4>. QED BY <2>5, <3>2, <4>1
    <3>3. CASE nav # <<>> /\ Top.page = "verification"
      <4>1. l = 3 /\ nav[1].page = "welcome" /\ nav[2].page = "phone" /\ Top = nav[l]
        BY <1>1, <2>4, <3>3, StackIs
      <4>. QED BY <2>5, <3>3, <4>1
    <3>. QED BY <1>5, <3>1, <3>2, <3>3
  <2>7. PageOrder(s)
    <3>1. CASE l = 0
      BY <2>2, <2>5, <3>1 DEF PageOrder
    <3>2. CASE l = 2
      BY <2>2, <2>5, <2>6, <3>2 DEF PageOrder
    <3>3. CASE l = 3
      BY <2>2, <2>5, <2>6, <3>3 DEF PageOrder
    <3>. QED BY <2>6, <3>1, <3>2, <3>3
  <2>8. auth = c.uid
    BY <1>1, <1>5 DEF CallInv
  <2>9. FormInv'
    <3>1. auth' \in failed' \/ IsNew(auth)'
      <4>1. PICK u : u = c.uid
        OBVIOUS
      <4>2. auth' = u /\ (u \in failed' \/ IsNew(u)')
        BY <1>5, <2>8, <4>1 DEF IsNew
      <4>. QED BY <4>2 DEF IsNew
    <3>2. Top' = r
      BY <2>5 DEF Top
    <3>. QED BY <1>1, <2>2, <2>8, <3>1, <3>2 DEF FormInv
  <2>10. AppInv'
    <3>1. s[1].page # "navigation"
      BY <2>2, <2>5, <2>6
    <3>. QED BY <2>5, <3>1 DEF AppInv
  <2>. QED BY <1>2, <2>5, <2>7, <2>9, <2>10 DEF InOrder
<1>. QED BY <1>1, <1>3, <1>4, <1>5

\* While a call is in progress nobody has entered the app, and a registration
\* form is the caller's own.
LEMMA CallingIs ==
  ASSUME Sound, NEW c \in calls
  PROVE  /\ Typed /\ CallInv(c) /\ c \in CallRecord /\ OneCall /\ PageOrder(nav)
         /\ ~(nav # <<>> /\ nav[1].page = "navigation" /\ nav[1].who # NoUser)
         /\ On("profile") => /\ auth = Top.who /\ auth # NoUser /\ Top.busy
                             /\ c.from = "signUp" /\ c.stage # "signIn"
         /\ c.stage # "update" => \A a \in Account : \A i \in 1..Len(queue[a]) : queue[a][i].n = 0
<1>1. Typed /\ CallInv(c) /\ c \in CallRecord /\ OneCall /\ PageOrder(nav) /\ FormInv /\ AppInv /\ UpdatesInv
  BY DEF Sound, InOrder, CallsInv, Typed, ScreenTypes
<1>2. ~(nav # <<>> /\ nav[1].page = "navigation" /\ nav[1].who # NoUser)
  BY <1>1 DEF AppInv
<1>3. On("profile") => /\ auth = Top.who /\ auth # NoUser /\ Top.busy
                       /\ c.from = "signUp" /\ c.stage # "signIn"
  <2>. SUFFICES ASSUME On("profile") PROVE /\ auth = Top.who /\ auth # NoUser /\ Top.busy
                                           /\ c.from = "signUp" /\ c.stage # "signIn"
    OBVIOUS
  <2>1. auth = Top.who /\ auth # NoUser /\ c.from = "signUp" /\ (~Top.busy => calls = {})
    BY <1>1 DEF FormInv
  <2>2. Top.busy
    BY <2>1
  <2>3. c.stage # "signIn"
    BY <1>1, <2>1 DEF CallInv
  <2>. QED BY <2>1, <2>2, <2>3
<1>4. c.stage # "update" => \A a \in Account : \A i \in 1..Len(queue[a]) : queue[a][i].n = 0
  BY <1>1 DEF UpdatesInv, OneCall
<1>. QED BY <1>1, <1>2, <1>3, <1>4

\* A call goes on, as d.
LEMMA AdvanceIs ==
  ASSUME Sound, NEW c \in calls, NEW stage \in {"get", "token", "update"}, Advance(c, stage),
         NEW d, d = [c EXCEPT !.stage = stage]
  PROVE  /\ calls' = {d} /\ d.stage = stage /\ d.uid = c.uid /\ d.n = c.n /\ d.from = c.from
         /\ d.at = c.at
<1>1. calls \ {c} = {} /\ c \in CallRecord
  BY CallingIs DEF OneCall
<1>2. calls' = {d}
  BY <1>1 DEF Advance
<1>. QED BY <1>1, <1>2 DEF CallRecord

\* The call's screen stays.
LEMMA AdvanceKept ==
  ASSUME Sound, NEW c \in calls, NEW stage \in {"get", "token", "update"}, Advance(c, stage),
         NEW d, d = [c EXCEPT !.stage = stage],
         nav' = nav, c.stage = "signIn" \/ auth' = auth, c.at # Gone => auth' = c.uid,
         c.at # Gone /\ stage # "get" => profile'.uid = c.uid
  PROVE  CallsInv' /\ PageOrder(nav)' /\ FormInv' /\ AppInv'
<1>1. /\ Typed /\ CallInv(c) /\ PageOrder(nav)
      /\ ~(nav # <<>> /\ nav[1].page = "navigation" /\ nav[1].who # NoUser)
      /\ On("profile") => /\ auth = Top.who /\ auth # NoUser /\ Top.busy
                          /\ c.from = "signUp" /\ c.stage # "signIn"
  BY CallingIs
<1>2. /\ calls' = {d} /\ d.stage = stage /\ d.uid = c.uid /\ d.from = c.from /\ d.at = c.at
  BY AdvanceIs
<1>3. CallInv(d)'
  BY <1>1, <1>2 DEF CallInv, Top
<1>4. CallsInv'
  BY <1>2, <1>3 DEF CallsInv, OneCall
<1>5. FormInv'
  BY <1>1, <1>2 DEF FormInv, On, Top
<1>6. AppInv'
  BY <1>1 DEF AppInv
<1>. QED BY <1>1, <1>4, <1>5, <1>6

LEMMA SignInKept ==
  ASSUME Sound, NEW c \in calls, SignIn(c)
  PROVE  InOrder'
<1>1. c.stage = "signIn" /\ auth' = c.uid /\ Advance(c, "get") /\ nav' = nav /\ UNCHANGED queue
  BY DEF SignIn
<1>2. PICK d : d = [c EXCEPT !.stage = "get"]
  OBVIOUS
<1>3. CallsInv' /\ PageOrder(nav)' /\ FormInv' /\ AppInv'
  BY <1>1, <1>2, AdvanceKept
<1>4. UpdatesInv'
  BY <1>1, CallingIs DEF UpdatesInv
<1>. QED BY <1>3, <1>4 DEF InOrder

LEMMA SignInFailsKept ==
  ASSUME Sound, NEW c \in calls, SignInFails(c)
  PROVE  InOrder'
<1>1. /\ c.stage = "signIn" /\ calls' = calls \ {c} /\ nav' = nav /\ UNCHANGED queue /\ UNCHANGED auth
  BY DEF SignInFails
<1>2. /\ Typed /\ PageOrder(nav) /\ calls' = {} /\ ~On("profile")
      /\ ~(nav # <<>> /\ nav[1].page = "navigation" /\ nav[1].who # NoUser)
      /\ \A a \in Account : \A i \in 1..Len(queue[a]) : queue[a][i].n = 0
  BY <1>1, CallingIs DEF OneCall
<1>3. CallsInv' /\ UpdatesInv'
  BY <1>1, <1>2, NoCalls DEF UpdatesInv
<1>4. FormInv' /\ AppInv'
  BY <1>1, <1>2 DEF FormInv, AppInv, On, Top
<1>. QED BY <1>1, <1>2, <1>3, <1>4 DEF InOrder

LEMMA GetUserKept ==
  ASSUME Sound, NEW c \in calls, GetUser(c)
  PROVE  InOrder'
<1>1. /\ c.stage = "get" /\ UNCHANGED <<auth, queue, users, failed>> /\ CallInv(c) /\ c.uid \in Users
      /\ \A a \in Account : \A i \in 1..Len(queue[a]) : queue[a][i].n = 0
  BY CallingIs DEF GetUser, history, CallRecord
<1>2. CASE ViewExists(c.uid)
  <2>1. profile'.uid = c.uid /\ Advance(c, "token") /\ nav' = nav
    BY <1>2 DEF GetUser
  <2>2. PICK d : d = [c EXCEPT !.stage = "token"]
    OBVIOUS
  <2>3. c.at # Gone => auth = c.uid
    BY <1>1 DEF CallInv
  <2>4. CallsInv' /\ PageOrder(nav)' /\ FormInv' /\ AppInv'
    BY <1>1, <2>1, <2>2, <2>3, AdvanceKept
  <2>5. UpdatesInv'
    BY <1>1 DEF UpdatesInv
  <2>. QED BY <2>4, <2>5 DEF InOrder
<1>3. CASE ~ViewExists(c.uid)
  <2>1. Return(c, FALSE) /\ UNCHANGED profile
    BY <1>3 DEF GetUser
  <2>2. ASSUME c.at # Gone PROVE IsNew(c.uid)'
    <3>1. auth = c.uid /\ auth \in Account
      BY <1>1, <2>2 DEF CallInv, Account
    <3>2. ~users[auth].exists /\ PendingSets(auth) = {}
      BY <1>3, <3>1 DEF ViewExists
    <3>3. queue[auth] \in Seq(PendingWrite) /\ DOMAIN queue[auth] = 1..Len(queue[auth])
      BY <3>1, LenProperties DEF Sound, Typed, DataTypes
    <3>4. \A i \in 1..Len(queue[auth]) : queue[auth][i].op = "set" => queue[auth][i].uid = auth
      BY <3>1 DEF Sound, SetsAreOwn, IsOwn
    <3>5. \A i \in 1..Len(queue[auth]) : queue[auth][i].op # "set"
      BY <3>2, <3>3, <3>4 DEF PendingSets
    <3>. QED BY <1>1, <3>1, <3>2, <3>5 DEF IsNew
  <2>3. \A a \in Account : \A i \in 1..Len(queue'[a]) : queue'[a][i].n = 0
    BY <1>1
  <2>. QED BY <1>1, <2>1, <2>2, <2>3, ReturnKept
<1>. QED BY <1>2, <1>3

LEMMA GetTokenKept ==
  ASSUME Sound, NEW c \in calls, GetToken(c)
  PROVE  InOrder'
<1>1. /\ c.stage = "token" /\ Enqueue("token", c.uid, c.n) /\ Advance(c, "update")
      /\ UNCHANGED <<auth, profile, nav, users, failed>>
      /\ Typed /\ CallInv(c) /\ c.uid \in Users /\ c.n \in 0..MaxCalls
      /\ \A a \in Account : \A i \in 1..Len(queue[a]) : queue[a][i].n = 0
  <2>1. c.stage = "token" /\ c.n \in 1..MaxCalls /\ MaxCalls \in Nat
    BY CallingIs, CallIs, Bounded DEF GetToken, Bounds
  <2>2. c.n \in 0..MaxCalls
    BY <2>1
  <2>. QED BY <2>1, <2>2, CallingIs DEF GetToken, CallRecord, history
<1>2. PICK d : d = [c EXCEPT !.stage = "update"]
  OBVIOUS
<1>3. CallsInv' /\ PageOrder(nav)' /\ FormInv' /\ AppInv'
  <2>1. c.at # Gone => auth = c.uid /\ profile.uid = c.uid
    BY <1>1 DEF CallInv
  <2>. QED BY <1>1, <1>2, <2>1, AdvanceKept
<1>4. calls' = {d} /\ d.stage = "update" /\ d.uid = c.uid
  BY <1>1, <1>2, AdvanceIs
<1>5. PICK w : w = [op |-> "token", uid |-> c.uid, n |-> c.n]
  OBVIOUS
<1>6. PICK q : q = queue[auth]
  OBVIOUS
<1>7. PICK t : t = Append(q, w)
  OBVIOUS
<1>8. /\ queue'[auth] = t /\ \A a \in Account \ {auth} : queue'[a] = queue[a]
      /\ w.op = "token" /\ w.uid = c.uid /\ auth \in Account
      /\ Len(t) = Len(q) + 1 /\ \A i \in 1..Len(q) : t[i] = q[i]
      /\ t[Len(q) + 1] = w /\ \A i \in 1..(Len(q) + 1) : i \in 1..Len(q) \/ i = Len(q) + 1
  <2>1. /\ queue'[auth] = t /\ \A a \in Account \ {auth} : queue'[a] = queue[a]
        /\ w \in PendingWrite /\ q \in Seq(PendingWrite) /\ auth \in Account
    BY <1>1, <1>5, <1>6, <1>7, EnqueueIs DEF PendingWrite, Typed, DataTypes
  <2>. QED BY <1>5, <1>7, <2>1, QueueAppend
<1>9. ASSUME NEW a \in Account, NEW i \in 1..Len(queue'[a]), queue'[a][i].n # 0
      PROVE  a = auth /\ i = Len(t) /\ queue'[a][i] = w
  <2>1. a = auth
    BY <1>1, <1>8, <1>9
  <2>2. i \in 1..Len(t) /\ t[i].n # 0 /\ \A j \in 1..Len(q) : q[j].n = 0
    BY <1>1, <1>6, <1>8, <1>9, <2>1
  <2>3. i = Len(q) + 1
    BY <1>8, <2>2
  <2>. QED BY <1>8, <2>1, <2>3
<1>10. UpdatesInv'
  <2>. SUFFICES ASSUME NEW a \in Account, NEW i \in 1..Len(queue'[a]), queue'[a][i].n # 0
                PROVE  /\ i = Len(queue'[a]) /\ queue'[a][i].op = "token"
                       /\ \E e \in calls' : e.stage = "update" /\ e.uid = queue'[a][i].uid
                       /\ \A b \in Account : \A j \in 1..Len(queue'[b]) : queue'[b][j].n # 0 => a = b
    BY DEF UpdatesInv
  <2>1. a = auth /\ i = Len(t) /\ queue'[a][i] = w
    BY <1>9
  <2>2. \A b \in Account : \A j \in 1..Len(queue'[b]) : queue'[b][j].n # 0 => b = auth
    BY <1>9
  <2>. QED BY <1>4, <1>8, <2>1, <2>2
<1>. QED BY <1>3, <1>10 DEF InOrder

LEMMA ThrowsKept ==
  ASSUME Sound, NEW c \in calls, Throws(c)
  PROVE  InOrder'
<1>1. /\ c.stage \in {"get", "token"} /\ Return(c, FALSE) /\ failed' = failed \cup {c.uid}
      /\ UNCHANGED <<auth, profile, queue, users>>
  BY DEF Throws, Caught, Fails
<1>2. \A a \in Account : \A i \in 1..Len(queue[a]) : queue[a][i].n = 0
  BY <1>1, CallingIs
<1>3. \A a \in Account : \A i \in 1..Len(queue'[a]) : queue'[a][i].n = 0
  BY <1>1, <1>2
<1>. QED BY <1>1, <1>3, ReturnKept

\* The acknowledgement of a write that no call awaits.
LEMMA UnawaitedKept ==
  ASSUME Sound, Acknowledge, NEW w, w = Head(queue[auth]), w.n = 0, UNCHANGED <<nav, calls, failed>>
  PROVE  InOrder'
<1>1. /\ auth \in Account /\ queue[auth] # <<>> /\ w = queue[auth][1] /\ w.uid \in Users
      /\ w.op \in {"set", "token"}
      /\ Len(queue'[auth]) = Len(queue[auth]) - 1 /\ Len(queue[auth]) \in Nat \ {0}
      /\ \A i \in 1..Len(queue'[auth]) : queue'[auth][i] = queue[auth][i + 1]
      /\ \A a \in Account \ {auth} : queue'[a] = queue[a]
      /\ w.op # "set" => users' = IF users[w.uid].exists THEN [users EXCEPT ![w.uid].token = TRUE]
                                  ELSE users
      /\ UNCHANGED <<auth, profile>>
  BY AnsweredWrite DEF Sound, PendingWrite
<1>2. /\ CallsInv /\ PageOrder(nav) /\ FormInv /\ AppInv /\ UpdatesInv
      /\ users \in [Users -> UserRecord]
  BY DEF Sound, InOrder, Typed, DataTypes
<1>3. CallsInv' /\ PageOrder(nav)'
  BY <1>1, <1>2 DEF CallsInv, OneCall, CallInv, Top
<1>4. FormInv'
  <2>. SUFFICES ASSUME On("profile")
                PROVE  /\ auth = Top.who /\ auth # NoUser
                       /\ \A c \in calls : c.from = "signUp"
                       /\ ~Top.busy => calls = {} /\ (auth \in failed \/ IsNew(auth)')
    BY <1>1 DEF FormInv, On, Top, IsNew
  <2>1. /\ auth = Top.who /\ auth # NoUser /\ auth \in Users
        /\ \A c \in calls : c.from = "signUp"
        /\ ~Top.busy => calls = {} /\ (auth \in failed \/ IsNew(auth))
    BY <1>1, <1>2 DEF FormInv, Account
  <2>2. ASSUME IsNew(auth) PROVE IsNew(auth)'
    <3>1. 1 \in 1..Len(queue[auth]) /\ \A i \in 1..Len(queue'[auth]) : i + 1 \in 1..Len(queue[auth])
      BY <1>1
    <3>2. w.op # "set" /\ \A i \in 1..Len(queue'[auth]) : queue'[auth][i].op # "set"
      BY SMTT(30), <1>1, <2>2, <3>1 DEF IsNew
    <3>3. users'[auth].exists = users[auth].exists
      BY <1>1, <1>2, <2>1, <3>2 DEF UserRecord
    <3>. QED BY <1>1, <2>2, <3>2, <3>3 DEF IsNew
  <2>. QED BY <2>1, <2>2
<1>5. AppInv'
  BY <1>1, <1>2 DEF AppInv
<1>6. ASSUME NEW a \in Account, NEW i \in 1..Len(queue'[a]), queue'[a][i].n # 0
      PROVE  \E k \in 1..Len(queue[a]) : /\ queue[a][k] = queue'[a][i]
                                         /\ k = Len(queue[a]) => i = Len(queue'[a])
  <2>1. CASE a = auth
    <3>1. i + 1 \in 1..Len(queue[a]) /\ (i + 1 = Len(queue[a]) => i = Len(queue'[a]))
      BY <1>1, <2>1
    <3>. QED BY <1>1, <2>1, <3>1
  <2>2. CASE a # auth
    BY <1>1, <2>2
  <2>. QED BY <2>1, <2>2
<1>7. UpdatesInv'
  <2>. SUFFICES ASSUME NEW a \in Account, NEW i \in 1..Len(queue'[a]), queue'[a][i].n # 0
                PROVE  /\ i = Len(queue'[a]) /\ queue'[a][i].op = "token"
                       /\ \E c \in calls : c.stage = "update" /\ c.uid = queue'[a][i].uid
                       /\ \A b \in Account : \A j \in 1..Len(queue'[b]) : queue'[b][j].n # 0 => a = b
    BY DEF UpdatesInv
  <2>1. PICK k \in 1..Len(queue[a]) : /\ queue[a][k] = queue'[a][i]
                                      /\ k = Len(queue[a]) => i = Len(queue'[a])
    BY <1>6
  <2>2. /\ k = Len(queue[a]) /\ queue[a][k].op = "token"
        /\ \E c \in calls : c.stage = "update" /\ c.uid = queue[a][k].uid
        /\ \A b \in Account : \A j \in 1..Len(queue[b]) : queue[b][j].n # 0 => a = b
    BY <1>2, <2>1 DEF UpdatesInv
  <2>3. ASSUME NEW b \in Account, NEW j \in 1..Len(queue'[b]), queue'[b][j].n # 0 PROVE a = b
    <3>1. PICK m \in 1..Len(queue[b]) : queue[b][m] = queue'[b][j]
      BY <1>6, <2>3
    <3>. QED BY <2>2, <2>3, <3>1
  <2>. QED BY <2>1, <2>2, <2>3
<1>. QED BY <1>3, <1>4, <1>5, <1>7 DEF InOrder

LEMMA AcknowledgeKept ==
  ASSUME MaxCalls = 1, Sound, Acknowledge
  PROVE  InOrder'
<1>1. PICK w : w = Head(queue[auth])
  OBVIOUS
<1>2. PICK ok \in BOOLEAN : ok = (w.op = "set" \/ users[w.uid].exists)
  OBVIOUS
<1>3. /\ auth \in Account /\ queue[auth] # <<>> /\ w \in PendingWrite /\ w = queue[auth][1]
      /\ Len(queue'[auth]) = Len(queue[auth]) - 1 /\ Len(queue[auth]) \in Nat \ {0}
      /\ queue' \in [Account -> Seq(PendingWrite)]
      /\ \A a \in Account \ {auth} : queue'[a] = queue[a]
      /\ w.op # "set" => users' = IF users[w.uid].exists THEN [users EXCEPT ![w.uid].token = TRUE]
                                  ELSE users
      /\ UNCHANGED <<auth, profile>>
  BY <1>1, AnsweredWrite DEF Sound
<1>4. /\ w.n \in 0..1 /\ w.uid \in Users /\ w.op \in {"set", "token"} /\ 1 \in 1..Len(queue[auth])
      /\ users \in [Users -> UserRecord] /\ UpdatesInv /\ OneCall /\ Users \subseteq Account
      /\ \A c \in calls : c.n = 1
  <2>1. \A c \in calls : c.n \in 1..MaxCalls
    BY CallIs DEF Sound, Typed, ScreenTypes
  <2>2. \A c \in calls : c.n = 1
    BY <2>1
  <2>. QED BY <1>3, <2>2 DEF PendingWrite, Sound, InOrder, CallsInv, Typed, DataTypes, Account
<1>5. ASSUME w.n # 0
      PROVE  /\ Len(queue[auth]) = 1 /\ w.op = "token"
             /\ \E c \in calls : c.stage = "update" /\ c.uid = w.uid
             /\ \A b \in Account : \A j \in 1..Len(queue[b]) : queue[b][j].n # 0 => auth = b
  <2>1. PICK q : q = queue[auth]
    OBVIOUS
  <2>2. \A i \in 1..Len(q) : q[i].n # 0 =>
           /\ i = Len(q) /\ q[i].op = "token"
           /\ \E c \in calls : c.stage = "update" /\ c.uid = q[i].uid
           /\ \A b \in Account : \A j \in 1..Len(queue[b]) : queue[b][j].n # 0 => auth = b
    BY <1>3, <1>4, <2>1 DEF UpdatesInv
  <2>3. 1 \in 1..Len(q) /\ q[1] = w
    BY <1>3, <1>4, <2>1
  <2>. QED BY <1>5, <2>1, <2>2, <2>3
<1>6. CASE UNCHANGED <<nav, calls, failed>> /\ {c \in calls : c.stage = "update" /\ c.n = w.n} = {}
  <2>1. w.n = 0
    BY <1>4, <1>5, <1>6
  <2>. QED BY <1>1, <1>6, <2>1, UnawaitedKept
<1>7. ASSUME NEW c \in calls, c.stage = "update", c.n = w.n, Return(c, ok),
             failed' = IF ok THEN failed ELSE failed \cup {c.uid}
      PROVE  InOrder'
  <2>1. w.n # 0 /\ Len(queue[auth]) = 1 /\ w.op = "token" /\ c.uid = w.uid
    BY <1>4, <1>5, <1>7 DEF OneCall
  <2>2. queue'[auth] = <<>>
    BY <1>3, <2>1, EmptySeq
  <2>3. \A a \in Account : \A i \in 1..Len(queue'[a]) : queue'[a][i].n = 0
    <3>1. \A i \in 1..Len(<<>>) : FALSE
      OBVIOUS
    <3>. QED BY <1>3, <1>5, <2>1, <2>2, <3>1
  <2>4. ASSUME ok, c.at # Gone PROVE users'[c.uid].token /\ queue'[c.uid] = <<>>
    <3>1. auth = c.uid
      BY <1>7, <2>4, CallingIs DEF CallInv
    <3>2. users' = [users EXCEPT ![w.uid].token = TRUE]
      BY <1>2, <1>3, <2>1, <2>4
    <3>3. users'[w.uid].token = TRUE
      BY <1>4, <3>2 DEF UserRecord
    <3>. QED BY <2>1, <2>2, <3>1, <3>3
  <2>. QED BY <1>3, <1>7, <2>3, <2>4, ReturnKept
<1>8. \/ UNCHANGED <<nav, calls, failed>> /\ {c \in calls : c.stage = "update" /\ c.n = w.n} = {}
      \/ \E c \in calls : /\ c.stage = "update" /\ c.n = w.n /\ Return(c, ok)
                          /\ failed' = IF ok THEN failed ELSE failed \cup {c.uid}
  <2>1. \/ /\ UNCHANGED <<nav, calls, failed>>
           /\ {c \in calls : c.stage = "update" /\ c.n = w.n} = {}
        \/ \E c \in calls :
              /\ c.stage = "update" /\ c.n = w.n
              /\ Return(c, w.op = "set" \/ users[w.uid].exists)
              /\ failed' = IF w.op = "set" \/ users[w.uid].exists THEN failed
                           ELSE failed \cup {c.uid}
    BY <1>1 DEF Acknowledge, Fails
  <2>. QED BY <1>2, <2>1
<1>. QED BY <1>6, <1>7, <1>8

LEMMA RefundKept ==
  ASSUME Sound, NEW u \in Users, Refund(u)
  PROVE  InOrder'
<1>1. /\ users' = [users EXCEPT ![u].balance = @ + 1] /\ users \in [Users -> UserRecord]
      /\ UNCHANGED <<auth, profile, nav, calls, queue, failed>> /\ auth \in Account
      /\ CallsInv /\ PageOrder(nav) /\ FormInv /\ AppInv /\ UpdatesInv
  BY DEF Refund, history, Sound, InOrder, Typed, DataTypes
<1>2. \A v \in Users : users'[v].exists = users[v].exists /\ users'[v].token = users[v].token
  BY <1>1 DEF UserRecord
<1>3. CallsInv' /\ PageOrder(nav)' /\ UpdatesInv'
  BY <1>1 DEF CallsInv, OneCall, CallInv, Top, UpdatesInv
<1>4. auth \in Users \/ auth = NoUser
  BY <1>1 DEF Account
<1>5. FormInv'
  BY <1>1, <1>2, <1>4 DEF FormInv, On, Top, IsNew
<1>6. AppInv'
  <2>. SUFFICES ASSUME nav # <<>>, nav[1].page = "navigation", nav[1].who # NoUser
                PROVE  /\ calls = {} /\ auth = nav[1].who /\ profile.uid = auth
                       /\ users'[auth].token /\ queue[auth] = <<>>
    BY <1>1 DEF AppInv
  <2>1. /\ calls = {} /\ auth = nav[1].who /\ profile.uid = auth
        /\ users[auth].token /\ queue[auth] = <<>>
    BY <1>1 DEF AppInv
  <2>. QED BY <1>2, <1>4, <2>1
<1>. QED BY <1>1, <1>3, <1>5, <1>6 DEF InOrder

LEMMA KillKept ==
  ASSUME Sound, Kill
  PROVE  InOrder'
<1>1. /\ auth' = auth
      /\ \A a \in Account : /\ Len(queue'[a]) = Len(queue[a])
                            /\ \A i \in 1..Len(queue[a]) : queue'[a][i].n = 0
      /\ IF auth = NoUser THEN nav' = <<Screen("welcome", NoUser)>> /\ calls' = {}
         ELSE /\ nav' = <<>>
              /\ calls' = {[n |-> 1, from |-> "main", uid |-> auth, stage |-> "get", at |-> 0]}
  BY KillEffect DEF Sound
<1>2. UpdatesInv'
  BY <1>1 DEF UpdatesInv
<1>3. CASE auth = NoUser
  <2>1. PICK r : r = Screen("welcome", NoUser)
    OBVIOUS
  <2>2. PICK s : s = <<r>>
    OBVIOUS
  <2>3. r \in NamedPage /\ r.page = "welcome"
    BY <2>1, ScreenIs DEF PageName, Account
  <2>4. Len(s) = 1 /\ s[1] = r /\ PageOrder(s) /\ nav' = s /\ calls' = {}
    BY <1>1, <1>3, <2>1, <2>2, <2>3, SingleIs
  <2>. QED BY <1>2, <2>3, <2>4, NoCalls DEF InOrder, FormInv, AppInv, On, Top
<1>4. CASE auth # NoUser
  <2>1. PICK d : d = [n |-> 1, from |-> "main", uid |-> auth, stage |-> "get", at |-> 0]
    OBVIOUS
  <2>2. /\ calls' = {d} /\ nav' = <<>> /\ d.from = "main" /\ d.stage = "get" /\ d.uid = auth
        /\ d.at = 0
    BY <1>1, <1>4, <2>1
  <2>3. CallInv(d)'
    BY <1>1, <2>2 DEF CallInv
  <2>4. CallsInv'
    BY <2>2, <2>3 DEF CallsInv, OneCall
  <2>5. PageOrder(<<>>)
    <3>1. \A i \in 1..Len(<<>>) : FALSE
      OBVIOUS
    <3>. QED BY <3>1 DEF PageOrder
  <2>. QED BY <1>2, <2>2, <2>4, <2>5 DEF InOrder, FormInv, AppInv, On
<1>. QED BY <1>3, <1>4

\* The invariant holds at the start.
LEMMA InitSound == Init => Sound
<1>. SUFFICES ASSUME Init PROVE Sound
  OBVIOUS
<1>1. Typed
  BY InitTypes
<1>2. /\ auth = NoUser /\ calls = {} /\ failed = {} /\ reset = {}
      /\ nav = <<Screen("welcome", NoUser)>> /\ \A a \in Account : queue[a] = <<>>
      /\ Users \subseteq Account
  BY DEF Init, Account
<1>3. \A i \in 1..Len(<<>>) : FALSE
  OBVIOUS
<1>4. PICK r : r = Screen("welcome", NoUser)
  OBVIOUS
<1>5. PICK s : s = <<r>>
  OBVIOUS
<1>6. r \in NamedPage /\ r.page = "welcome"
  BY <1>4, ScreenIs DEF PageName, Account
<1>7. Len(s) = 1 /\ s[1] = r /\ PageOrder(s) /\ nav = s
  BY <1>2, <1>4, <1>5, <1>6, SingleIs
<1>8. SetsAreOwn /\ UpdatesInv /\ RegisteredInv
  BY <1>2, <1>3 DEF SetsAreOwn, UpdatesInv, RegisteredInv
<1>9. CallsInv /\ FormInv /\ AppInv
  BY <1>2, <1>6, <1>7 DEF CallsInv, OneCall, FormInv, AppInv, On, Top
<1>. QED BY <1>1, <1>7, <1>8, <1>9 DEF Sound, InOrder

\* Every step keeps it while calls do not overlap.
LEMMA StepSound ==
  ASSUME MaxCalls = 1
  PROVE  Sound /\ [Next]_vars => Sound'
<1>. SUFFICES ASSUME Sound, [Next]_vars PROVE Sound'
  OBVIOUS
<1>1. Typed' /\ SetsAreOwn' /\ RegisteredInv'
  BY StepTypes, SetsKept, RegisteredKept DEF Sound
<1>2. InOrder'
  <2>1. CASE Tap
    BY <2>1, TapKept
  <2>2. ASSUME NEW c \in calls, Resume(c) PROVE InOrder'
    BY <2>2, SignInKept, SignInFailsKept, GetUserKept, GetTokenKept, ThrowsKept DEF Resume
  <2>3. CASE Acknowledge
    BY <2>3, AcknowledgeKept
  <2>4. ASSUME NEW u \in Users, Refund(u) PROVE InOrder'
    BY <2>4, RefundKept
  <2>5. CASE Kill
    BY <2>5, KillKept
  <2>6. CASE UNCHANGED vars
    BY <2>6 DEF vars, history, Sound, InOrder, CallsInv, OneCall, CallInv, FormInv, AppInv,
                UpdatesInv, On, Top, IsNew
  <2>. QED BY <2>1, <2>2, <2>3, <2>4, <2>5, <2>6 DEF Next
<1>. QED BY <1>1, <1>2 DEF Sound

\* It holds always.
LEMMA AlwaysInOrder ==
  ASSUME MaxCalls = 1
  PROVE  Spec => []Sound
<1>1. Sound /\ [Next]_vars => Sound'
  BY StepSound
<1>. QED BY <1>1, InitSound, PTL DEF Spec

\* What is known once the user has entered.
LEMMA EnteredIs ==
  ASSUME Sound, Entered
  PROVE  /\ Top = nav[1] /\ auth = Top.who /\ profile.uid = auth /\ users[auth].token
         /\ calls = {} /\ queue[auth] = <<>>
<1>1. /\ nav # <<>> /\ Top.page = "navigation" /\ Top.who # NoUser
      /\ Typed /\ PageOrder(nav) /\ AppInv
  BY DEF Entered, On, Sound, InOrder
<1>2. Len(nav) = 1 /\ Top = nav[Len(nav)]
  BY <1>1, StackIs
<1>. QED BY <1>1, <1>2 DEF AppInv

\* Unless two initUser calls overlap, the app is entered as the authenticated
\* user: a call whose page was left, signed out of, or killed enters nothing,
\* and what enters is the call that read userProfile last.
THEOREM SignedInIsShown == ASSUME MaxCalls = 1 PROVE Spec => []ActsForSignedIn
<1>1. Sound => ActsForSignedIn
  BY EnteredIs DEF ActsForSignedIn
<1>. QED BY <1>1, AlwaysInOrder, PTL

\* Unless two initUser calls overlap, initUser's update is the last write of its
\* queue, so the token it stored is there when the app opens, and stays.
THEOREM EnteredHasToken == ASSUME MaxCalls = 1 PROVE Spec => []TokenStored
<1>1. Sound => TokenStored
  <2>. SUFFICES ASSUME Sound, Entered PROVE users[Top.who].token
    BY DEF TokenStored
  <2>. QED BY EnteredIs
<1>. QED BY <1>1, AlwaysInOrder, PTL

\* Unless two initUser calls overlap, the registration form opens only for a user
\* without document and without a pending one, or after a failed call.
THEOREM NotSetAgain == ASSUME MaxCalls = 1 PROVE Spec => []RegisteredOnce
<1>1. Sound => RegisteredOnce
  BY DEF Sound, Typed, DataTypes, RegisteredInv, RegisteredOnce
<1>. QED BY <1>1, AlwaysInOrder, PTL
=============================================================================
