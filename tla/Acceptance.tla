------------------------------ MODULE Acceptance ------------------------------
(***************************************************************************)
(* The app and the notification function together: every update the app's  *)
(* write queues commit to an offer document triggers notifyOnOfferAccepted.*)
(***************************************************************************)
EXTENDS OrderFlow

CONSTANTS Providers, ProviderOf

ASSUME ProviderOfAssumption == ProviderOf \in [Offers -> Providers]

VARIABLES provider, notices, sending, pushed, unsent

Notify == INSTANCE OfferNotification

acceptanceVars == <<vars, provider, notices, sending, pushed, unsent>>

OfferTrigger ==
    \/ \E f \in Offers : offer[f] # "none" /\ offer'[f] # offer[f]
                           /\ Notify!Notice(f, offer[f], offer'[f])
    \/ /\ \A f \in Offers : offer[f] = "none" \/ offer'[f] = offer[f]
       /\ UNCHANGED <<provider, notices, sending, pushed, unsent>>

\* A provider that makes an offer is registered.
RegisteredBids ==
    \A f \in Offers : (offer[f] = "none" /\ offer'[f] # "none") => provider[ProviderOf[f]] # "none"

AcceptanceNext ==
    \/ Next /\ OfferTrigger /\ RegisteredBids
    \/ Notify!NotificationNext /\ UNCHANGED vars

\* The client keeps sending its writes and the platform runs its invocations.
AcceptanceSpec ==
    /\ Init /\ Notify!NotificationInit
    /\ [][AcceptanceNext]_acceptanceVars
    /\ \A d \in Devices : WF_acceptanceVars(Deliver(d) /\ OfferTrigger)
    /\ \A f \in Offers : /\ WF_acceptanceVars(Notify!GetProvider(f) /\ UNCHANGED vars)
                         /\ WF_acceptanceVars(Notify!Send(f) /\ UNCHANGED vars)

-----------------------------------------------------------------------------
(* Properties *)

\* What a push message says is true: the provider that reads "your offer was
\* accepted" has an order that is started and names an offer and, if it is to
\* be paid electronically, was paid, however late the function runs.
AnnouncedIsTrue ==
    \A f \in pushed :
        /\ Started(OrderOf[f]) /\ order[OrderOf[f]].offerId # NoOffer
        /\ Electronic(OrderOf[f]) => charges[f] > 0

\* A provider whose document keeps its token hears of an accepted offer, if
\* sending does not fail: whatever registrations, invocations and later updates
\* of the offer come between.
AcceptedIsAnnounced ==
    \A f \in Offers :
        [](provider[ProviderOf[f]] = "token")
            => (offer[f] = "accepted" ~> f \in pushed \cup unsent)
=============================================================================
