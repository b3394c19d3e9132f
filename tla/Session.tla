------------------------------- MODULE Session -------------------------------
(***************************************************************************)
(* Who is signed in, and whom the app takes for the signed-in user: the    *)
(* authentication screens, verifyOtp and signOut of auth_service.dart,     *)
(* registerUser, signUp and initUser of register_user.dart, the token that *)
(* initNotifications stores, and the global userProfile with the balance   *)
(* the wallet shows.                                                       *)
(*                                                                         *)
(* initUser is a chain of awaits: read the user document, get a messaging  *)
(* token, update the document. A call in progress is a record of `calls`.  *)
(***************************************************************************)
EXTENDS Naturals, Sequences, FiniteSets

CONSTANTS
    Users,         \* uids
    NoUser,        \* nobody signed in; the uid "" of an empty userProfile
    Faults,        \* which of AllFaults the environment may inject
    MaxCalls,      \* bound: initUser calls in progress
    MaxPages,      \* bound: routes on the Navigator's stack
    MaxQueue,      \* bound: pending writes
    MaxBalance,    \* bound: refunds on the users' balances, each of amount 1
    MaxRestarts    \* bound: restarts of the process

AllFaults == {"get", "token", "kill"}

ASSUME NoUserAssumption == NoUser \notin Users
ASSUME SessionFaultsAssumption == Faults \subseteq AllFaults
ASSUME SessionBoundsAssumption == /\ {MaxCalls, MaxPages} \subseteq Nat \ {0}
                                  /\ {MaxQueue, MaxBalance, MaxRestarts} \subseteq Nat

VARIABLES
    auth,      \* FirebaseAuth.instance.currentUser, kept over restarts
    profile,   \* userProfile
    nav,       \* the Navigator's stack, without the routes under a Welcome or
               \* Navigation, which no pop uncovers; empty before runApp
    calls,     \* initUser calls in progress, with what started them
    queue,     \* per signed-in user: pending writes to user documents
    users,     \* the user documents on the server
    restarts,  \* number of restarts
    failed,    \* history: users one of whose initUser calls ended in its catch
    reset      \* history: users whose existing document was set again

vars == <<auth, profile, nav, calls, queue, users, restarts, failed, reset>>
history == <<failed, reset>>

Account == Users \cup {NoUser}

\* `who` is the phone number a verification code was sent to, or the user whose
\* initUser call opened the app; `busy` is _loading.
Page == [page : {"welcome", "phone", "verification", "profile", "navigation", "dialog"},
         who : Account, busy : BOOLEAN]

\* `n` tells calls apart; `at` is the position of the route whose context the
\* caller pushes with: Covered for good under a Welcome or Navigation; Leaving
\* from its pop until the stack changes again, when its exit transition is taken
\* to be over, and Gone from then on.
Covered == 0
Leaving == MaxPages + 1
Gone == MaxPages + 2

CallRecord == [n : 1..MaxCalls, from : {"main", "verifyOtp", "signUp"}, uid : Users,
               stage : {"signIn", "get", "token", "update"}, at : 0..Gone]

\* registerUser's set and initNotifications' update, with the call awaiting it.
PendingWrite == [op : {"set", "token"}, uid : Users, n : 0..MaxCalls]

-----------------------------------------------------------------------------
(* Routes and calls *)

Screen(p, u) == [page |-> p, who |-> u, busy |-> FALSE]

Top == nav[Len(nav)]

On(p) == nav # <<>> /\ Top.page = p

Front(n) == SubSeq(nav, 1, Len(nav) - n)

Shown(stack) ==
    LET l == Len(stack)
    IN  IF l > 0 /\ stack[l].page \in {"welcome", "navigation"} THEN <<stack[l]>> ELSE stack

\* Where a route goes when the stack becomes `stack`, `kept` of it old routes.
Moved(at, stack, kept) ==
    CASE at \in {Leaving, Gone} -> Gone
      [] at \in kept + 1 .. MaxPages -> Leaving
      [] at \in 0..kept -> IF Shown(stack) = stack THEN at ELSE Covered

Show(stack, kept, cs) ==
    /\ Len(Shown(stack)) <= MaxPages
    /\ nav' = Shown(stack)
    /\ calls' = {[c EXCEPT !.at = Moved(@, stack, kept)] : c \in cs}

Push(p, u, cs) == Show(Append(nav, Screen(p, u)), Len(nav), cs)

PushReplacement(p) == Show(Append(Front(1), Screen(p, NoUser)), Len(nav) - 1, calls)

Busy == [nav EXCEPT ![Len(nav)].busy = TRUE]

Free == {n \in 1..MaxCalls : \A c \in calls : c.n # n}

Begin(from, u, stage) ==
    \E n \in Free : calls' = calls \cup
        {[n |-> n, from |-> from, uid |-> u, stage |-> stage, at |-> Len(nav)]}

Advance(c, stage) == calls' = (calls \ {c}) \cup {[c EXCEPT !.stage = stage]}

\* Mutant: the app opens, registered or not.
OpenAnyway(registered) == "navigation"

After(registered) == IF registered THEN "navigation" ELSE "profile"

\* initUser returns `registered` to its caller. main runs the app; verifyOtp
\* and signUp push on the context they captured, which throws once its route is
\* gone.
Return(c, registered) ==
    LET others == calls \ {c}
        next == After(registered)
    IN  \/ c.from = "main" /\ Show(<<Screen(next, c.uid)>>, 0, others)
        \/ c.from = "verifyOtp" /\ c.at # Gone /\ Push(next, c.uid, others)
        \/ c.from = "signUp" /\ c.at # Gone /\ registered /\ Push(next, c.uid, others)
        \/ /\ (c.from = "signUp" /\ ~registered) \/ (c.from # "main" /\ c.at \in {Leaving, Gone})
           /\ calls' = others /\ UNCHANGED nav

-----------------------------------------------------------------------------
(* Reads: the server's document under the signed-in user's pending writes *)

PendingSets(u) == {i \in DOMAIN queue[auth] : queue[auth][i].op = "set" /\ queue[auth][i].uid = u}

\* Mutant: the cache does not show pending writes.
ServerExists(u) == users[u].exists

ViewExists(u) == users[u].exists \/ PendingSets(u) # {}

\* Mutant: a userProfile that is in place keeps its balance.
KeptBalance(u) == IF profile.uid # NoUser THEN profile.balance ELSE users[u].balance

ViewBalance(u) == IF PendingSets(u) # {} THEN 0 ELSE users[u].balance

Enqueue(op, u, n) ==
    /\ Cardinality(UNION {{a} \X DOMAIN queue[a] : a \in Account}) < MaxQueue
    /\ queue' = [queue EXCEPT ![auth] = Append(@, [op |-> op, uid |-> u, n |-> n])]

-----------------------------------------------------------------------------
(* The screens *)

Quiet == UNCHANGED <<auth, profile, queue, users, restarts, history>>

OpenPhone == On("welcome") /\ Push("phone", NoUser, calls) /\ Quiet

\* "Skip sign-in".
Skip == On("welcome") /\ PushReplacement("navigation") /\ Quiet

\* verifyPhoneNumber, from the button to codeSent, whose push uses the phone
\* page's context. The button's _loading is not reset.
VerifyPhoneNumber(u) ==
    /\ On("phone") /\ ~Top.busy
    /\ Show(Append(Busy, Screen("verification", u)), Len(nav), calls)
    /\ Quiet

\* verifyOtp up to its first await.
VerifyOtp ==
    /\ On("verification") /\ ~Top.busy
    /\ nav' = Busy
    /\ Begin("verifyOtp", Top.who, "signIn")
    /\ Quiet

\* signUp: registerUser is called and not awaited; initUser follows.
SignUp ==
    /\ On("profile") /\ ~Top.busy
    /\ nav' = Busy
    /\ IF auth = NoUser THEN UNCHANGED <<queue, calls>>
       ELSE Enqueue("set", auth, 0) /\ Begin("signUp", auth, "get")
    /\ UNCHANGED <<auth, profile, users, restarts, history>>

\* A guest's tabs offer to sign in: Welcome, on top of Navigation.
AskToLogin == On("navigation") /\ profile.uid = NoUser /\ Push("welcome", NoUser, calls) /\ Quiet

\* signOut and "delete account" show the same dialog, if a user is shown.
AskSignOut == On("navigation") /\ profile.uid # NoUser /\ Push("dialog", NoUser, calls) /\ Quiet

\* Its OK: Welcome replaces the dialog; userProfile stays.
SignOut ==
    /\ On("dialog")
    /\ auth' = NoUser
    /\ PushReplacement("welcome")
    /\ UNCHANGED <<profile, queue, users, restarts, history>>

\* Welcome and Navigation cannot be popped; the other pages' buttons pop, the
\* last route too.
Back ==
    /\ nav # <<>> /\ Top.page \notin {"welcome", "navigation"}
    /\ Show(Front(1), Len(nav) - 1, calls)
    /\ Quiet

-----------------------------------------------------------------------------
(* verifyOtp and initUser between their awaits *)

SignIn(c) ==
    /\ c \in calls /\ c.stage = "signIn"
    /\ auth' = c.uid
    /\ Advance(c, "get")
    /\ UNCHANGED <<profile, nav, queue, users, restarts, history>>

\* signInWithCredential throws: a snack bar, and the page stays busy.
SignInFails(c) ==
    /\ c \in calls /\ c.stage = "signIn"
    /\ calls' = calls \ {c}
    /\ UNCHANGED <<auth, profile, nav, queue, users, restarts, history>>

GetUser(c) ==
    /\ c \in calls /\ c.stage = "get"
    /\ IF ViewExists(c.uid)
       THEN /\ profile' = [uid |-> c.uid, balance |-> ViewBalance(c.uid)]
            /\ Advance(c, "token") /\ UNCHANGED nav
       ELSE Return(c, FALSE) /\ UNCHANGED profile
    /\ UNCHANGED <<auth, queue, users, restarts, history>>

\* getToken and the topics; then the update is enqueued and awaited.
GetToken(c) ==
    /\ c \in calls /\ c.stage = "token"
    /\ Enqueue("token", c.uid, c.n)
    /\ Advance(c, "update")
    /\ UNCHANGED <<auth, profile, nav, users, restarts, history>>

Fails(c) == failed' = failed \cup {c.uid}

\* Mutant: the error of an await leaves initUser.
Uncaught(c) == calls' = calls \ {c} /\ UNCHANGED nav

\* Mutant: the error is logged and the user let in.
LetIn(c) == Return(c, TRUE)

\* catch: return false.
Caught(c) == Return(c, FALSE)

\* The read or the messaging service throws into initUser's catch.
Throws(c) ==
    /\ c \in calls /\ c.stage \in {"get", "token"} \cap Faults
    /\ Caught(c) /\ Fails(c)
    /\ UNCHANGED <<auth, profile, queue, users, restarts, reset>>

\* The oldest pending write of the signed-in user is answered.
Acknowledge ==
    /\ queue[auth] # <<>>
    /\ LET w == Head(queue[auth])
           waiting == {c \in calls : c.stage = "update" /\ c.n = w.n}
           ok == w.op = "set" \/ users[w.uid].exists
       IN  /\ users' = CASE w.op = "set" -> [users EXCEPT ![w.uid] =
                                  [exists |-> TRUE, balance |-> 0, token |-> FALSE]]
                         [] w.op = "token" /\ ok -> [users EXCEPT ![w.uid].token = TRUE]
                         [] OTHER -> users
           /\ reset' = IF w.op = "set" /\ users[w.uid].exists THEN reset \cup {w.uid} ELSE reset
           /\ IF waiting = {} THEN UNCHANGED <<nav, calls, failed>>
              ELSE \E c \in waiting : /\ Return(c, ok)
                                      /\ IF ok THEN UNCHANGED failed ELSE Fails(c)
    /\ queue' = [queue EXCEPT ![auth] = Tail(@)]
    /\ UNCHANGED <<auth, profile, restarts>>

-----------------------------------------------------------------------------
(* The environment *)

\* The refund function adds to the balance of the document.
Refund(u) ==
    /\ users[u].exists /\ \A v \in Users : users[v].balance < MaxBalance
    /\ users' = [users EXCEPT ![u].balance = @ + 1]
    /\ UNCHANGED <<auth, profile, nav, calls, queue, restarts, history>>

\* Mutant: main reads the document of whoever is signed in, or nobody.
LaunchUnchecked(a) ==
    nav' = <<>> /\ calls' = {[n |-> 1, from |-> "main", uid |-> a, stage |-> "get", at |-> 0]}

\* main: with nobody signed in initUser throws and returns false at once.
Launch(a) ==
    IF a = NoUser THEN nav' = <<Screen("welcome", NoUser)>> /\ calls' = {}
    ELSE nav' = <<>> /\ calls' = {[n |-> 1, from |-> "main", uid |-> a, stage |-> "get", at |-> 0]}

Kill ==
    /\ "kill" \in Faults /\ restarts < MaxRestarts
    /\ restarts' = restarts + 1
    /\ profile' = [uid |-> NoUser, balance |-> 0]
    /\ queue' = [a \in Account |-> [i \in DOMAIN queue[a] |-> [queue[a][i] EXCEPT !.n = 0]]]
    /\ Launch(auth)
    /\ UNCHANGED <<auth, users, failed, reset>>

Init ==
    /\ auth = NoUser
    /\ profile = [uid |-> NoUser, balance |-> 0]
    /\ nav = <<Screen("welcome", NoUser)>>
    /\ calls = {}
    /\ queue = [a \in Account |-> <<>>]
    /\ users \in [Users -> {[exists |-> e, balance |-> 0, token |-> FALSE] : e \in BOOLEAN}]
    /\ restarts = 0
    /\ failed = {} /\ reset = {}

Resume(c) == SignIn(c) \/ SignInFails(c) \/ GetUser(c) \/ GetToken(c) \/ Throws(c)

Tap == \/ OpenPhone \/ Skip \/ AskToLogin \/ VerifyOtp \/ SignUp \/ AskSignOut \/ SignOut \/ Back
       \/ \E u \in Users : VerifyPhoneNumber(u)

Next ==
    \/ Tap
    \/ \E c \in calls : Resume(c)
    \/ Acknowledge
    \/ \E u \in Users : Refund(u)
    \/ Kill

Spec == Init /\ [][Next]_vars

\* The services answer and the client sends its writes; users do as they like.
FairSpec == Spec /\ WF_vars(\E c \in calls : Resume(c)) /\ WF_vars(Acknowledge)

-----------------------------------------------------------------------------
(* Properties *)

TypeOK ==
    /\ auth \in Account
    /\ profile \in [uid : Account, balance : 0..MaxBalance]
    /\ nav \in Seq(Page) /\ Len(nav) <= MaxPages
    /\ calls \subseteq CallRecord
    /\ queue \in [Account -> Seq(PendingWrite)]
    /\ users \in [Users -> [exists : BOOLEAN, balance : 0..MaxBalance, token : BOOLEAN]]
    /\ restarts \in 0..MaxRestarts
    /\ failed \subseteq Users /\ reset \subseteq Users

\* The app as an initUser call opened it, not as "skip" did.
Entered == On("navigation") /\ Top.who # NoUser

\* Whoever enters the app by signing in, signing up or starting it again acts
\* as themselves: orders, messages and the wallet go by userProfile.uid, which
\* no phone number tried before, back button, sign-out or failed call of
\* another user leaves at another than the authenticated one.
ActsForSignedIn == Entered => auth = Top.who /\ profile.uid = Top.who

\* ... and can be notified: initUser's update comes after the set of a pending
\* registration, so no registration removes the token again.
TokenStored == Entered => users[Top.who].token

\* A registered user's document, which holds the balance, is not set again
\* unless an initUser call of that user failed and sent them to the form: a
\* sign-up that was interrupted, not yet acknowledged or signed out of counts.
RegisteredOnce == reset \subseteq failed

\* The wallet, which shows the balance initUser read, never shows more than the
\* user has, whoever was signed in before.
WalletNotOverstated ==
    (profile.uid \in Users \ reset /\ users[profile.uid].exists)
        => profile.balance <= users[profile.uid].balance

\* The app comes up: main awaits initUser before runApp, so every outcome of
\* its awaits, errors and pending writes of earlier processes included, must
\* end it.
AppComesUp == (\E c \in calls : c.from = "main") ~> nav # <<>>
=============================================================================
