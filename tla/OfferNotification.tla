-------------------------- MODULE OfferNotification --------------------------
(***************************************************************************)
(* functions/notify_offer_accepted.js: the Cloud Function that tells a     *)
(* provider that its offer was accepted, and the provider documents it     *)
(* reads, which registerProvider of the customer app overwrites.           *)
(*                                                                         *)
(* The offer documents are written elsewhere: this module says what an     *)
(* update of one causes. Acceptance composes it with the app.              *)
(***************************************************************************)
EXTENDS Naturals

CONSTANTS
    Offers,
    Providers,      \* uids in the collection "providers"
    ProviderOf      \* [Offers -> Providers]: the offer's serviceProvider[0]

VARIABLES
    provider,   \* the provider documents: absent, without or with an fcmToken
    notices,    \* deliveries of acceptances not yet begun
    sending,    \* invocations that have read the token
    pushed,     \* offers a push message was sent for
    unsent      \* history: offers whose message failed to be sent

\* Mutant: before and after are swapped.
LeavesAccepted(before, after) == before = "accepted" /\ after # "accepted"

BecomesAccepted(before, after) == before # "accepted" /\ after = "accepted"

\* The document of offer f went from `before` to `after`: an invocation that
\* its guard does not end at once awaits the provider document. (A repeated
\* delivery only repeats the message.)
Notice(f, before, after) ==
    /\ notices' = IF BecomesAccepted(before, after) THEN notices \cup {f} ELSE notices
    /\ UNCHANGED <<provider, sending, pushed, unsent>>

\* "No such user document!" and "FCM token is null or undefined!" end it.
GetProvider(f) ==
    /\ f \in notices
    /\ notices' = notices \ {f}
    /\ sending' = IF provider[ProviderOf[f]] = "token" THEN sending \cup {f} ELSE sending
    /\ UNCHANGED <<provider, pushed, unsent>>

\* messaging().send; its error is caught and logged.
Send(f) ==
    /\ f \in sending
    /\ sending' = sending \ {f}
    /\ \/ pushed' = pushed \cup {f} /\ UNCHANGED unsent
       \/ unsent' = unsent \cup {f} /\ UNCHANGED pushed
    /\ UNCHANGED <<provider, notices>>

\* registerProvider: the whole document is set, without an fcmToken.
RegisterProvider(p) ==
    /\ provider' = [provider EXCEPT ![p] = "noToken"]
    /\ UNCHANGED <<notices, sending, pushed, unsent>>

\* The providers' app stores its token in an existing document.
StoreToken(p) ==
    /\ provider[p] = "noToken"
    /\ provider' = [provider EXCEPT ![p] = "token"]
    /\ UNCHANGED <<notices, sending, pushed, unsent>>

NotificationInit ==
    /\ provider \in [Providers -> {"none", "token"}]
    /\ notices = {} /\ sending = {} /\ pushed = {} /\ unsent = {}

Invocations == \E f \in Offers : GetProvider(f) \/ Send(f)

NotificationNext ==
    \/ Invocations
    \/ \E p \in Providers : RegisterProvider(p) \/ StoreToken(p)
=============================================================================
