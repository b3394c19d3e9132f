----------------------------- MODULE AddressForm -----------------------------
(***************************************************************************)
(* The order form of service_page.dart and the address picker it opens,    *)
(* select_address.dart: where the two places of an order come from. The    *)
(* picker awaits the phone's location, the details of a searched place and *)
(* the name of each selected point, in any order, and may be closed before *)
(* any of them answers.                                                    *)
(***************************************************************************)
EXTENDS Naturals

CONSTANTS
    Points,      \* places with a latitude other than 0
    Zero,        \* a place at latitude 0: what getPlaceLatLng makes of no geometry
    None,        \* null
    MaxVisits,   \* bound: times the picker is opened
    MaxAsked     \* bound: requests made in one visit

ASSUME PlacesAssumption == Zero \notin Points /\ None \notin Points \cup {Zero}
ASSUME NoFieldAssumption == None \notin {"origin", "destination"}
ASSUME PickerBoundsAssumption == MaxVisits \in Nat \ {0} /\ MaxAsked \in Nat \ {0}

VARIABLES
    fields,    \* origin and destination of the form
    vehicle,   \* the vehicle field is filled in
    active,    \* the form's button is enabled
    outcome,   \* what became of the button's tap
    picker,    \* the open picker
    jobs,      \* its and earlier pickers' awaits
    visits,    \* pickers opened so far
    overtaken  \* history: the newest point's name failed or an older one came after it

vars == <<fields, vehicle, active, outcome, picker, jobs, visits, overtaken>>
form == <<fields, vehicle, active, outcome>>

Place == Points \cup {Zero}
Field == {"origin", "destination"}

\* `address` stands for the name of that place; `picked` is history: the points
\* selected in the visit the field was filled by.
FieldRecord == [point : Place, address : Place \cup {None}, picked : SUBSET Place]

PickerRecord == [field : Field \cup {None}, visit : 0..MaxVisits, point : Place \cup {None},
                 address : Place \cup {None}, picked : SUBSET Place,
                 asked : 0..MaxAsked, newest : 0..MaxAsked]

\* What a picker awaits; `n` counts the visit's requests, `newest` above is the
\* number of the last one for a name.
Job == [kind : {"location", "details", "name"}, visit : 1..MaxVisits,
        n : 1..MaxAsked, place : Place \cup {None}]

Closed == [field |-> None, visit |-> 0, point |-> None, address |-> None,
           picked |-> {}, asked |-> 0, newest |-> 0]

IsOpen == picker.field # None

\* Mutant: the button is enabled once and for all.
StaysActive(fs, v) == active \/ (v /\ \A f \in Field : fs[f].point # Zero)

\* updateButton. An empty field holds the point (0, 0).
Complete(fs, v) == v /\ \A f \in Field : fs[f].point # Zero

-----------------------------------------------------------------------------
(* The form *)

EditVehicle ==
    /\ ~IsOpen /\ outcome # "sent"
    /\ vehicle' = ~vehicle
    /\ active' = Complete(fields, vehicle')
    /\ UNCHANGED <<fields, outcome, picker, jobs, visits, overtaken>>

\* Opening the picker runs getCurrentLocation.
OpenPicker(f) ==
    /\ ~IsOpen /\ outcome # "sent" /\ visits < MaxVisits
    /\ visits' = visits + 1
    /\ picker' = [Closed EXCEPT !.field = f, !.visit = visits + 1, !.asked = 1]
    /\ jobs' = jobs \cup {[kind |-> "location", visit |-> visits + 1, n |-> 1, place |-> None]}
    /\ overtaken' = FALSE
    /\ UNCHANGED form

\* The button: _loading is set, then the addresses are passed as Strings, which
\* throws for null and leaves the form loading.
Send ==
    /\ ~IsOpen /\ active /\ outcome = "editing"
    /\ outcome' = IF \E f \in Field : fields[f].address = None THEN "stuck" ELSE "sent"
    /\ UNCHANGED <<fields, vehicle, active, picker, jobs, visits, overtaken>>

-----------------------------------------------------------------------------
(* The picker *)

\* Mutant: an answer is used by whichever picker is open.
AnyPicker(j) == IsOpen

\* setState throws in a picker that was closed.
Mounted(j) == IsOpen /\ j.visit = picker.visit

Ask(kind, p, n) == [kind |-> kind, visit |-> picker.visit, n |-> n, place |-> p]

\* Mutant: the name of a place found by searching or by the phone is not asked for.
Unnamed(rest, p) == rest

\* getAddress, up to its await, is called with every new point.
AskName(rest, p) == rest \cup {Ask("name", p, picker.asked + 1)}

SelectPoint(p, rest) ==
    /\ picker.asked < MaxAsked
    /\ picker' = [picker EXCEPT !.point = p, !.picked = @ \cup {p}, !.asked = @ + 1,
                                !.newest = picker.asked + 1]
    /\ jobs' = AskName(rest, p)
    /\ overtaken' = FALSE

\* A tap on the map, which is shown once a point is selected.
TapMap(p) ==
    /\ IsOpen /\ picker.point # None
    /\ SelectPoint(p, jobs)
    /\ UNCHANGED <<form, visits>>

\* A prediction was chosen in the search overlay; its details are awaited.
Search ==
    /\ IsOpen /\ picker.asked < MaxAsked
    /\ picker' = [picker EXCEPT !.asked = @ + 1]
    /\ jobs' = jobs \cup {Ask("details", None, picker.asked + 1)}
    /\ UNCHANGED <<form, visits, overtaken>>

\* The phone's location, or the details of the place searched for, arrive.
Located(j, p) ==
    /\ j \in jobs /\ j.kind \in {"location", "details"}
    /\ j.kind = "location" => p # Zero
    /\ IF Mounted(j) THEN SelectPoint(p, jobs \ {j})
       ELSE jobs' = jobs \ {j} /\ UNCHANGED <<picker, overtaken>>
    /\ UNCHANGED <<form, visits>>

\* The location service is off, permission is denied, or the request fails.
NotLocated(j) ==
    /\ j \in jobs /\ j.kind \in {"location", "details"}
    /\ jobs' = jobs \ {j}
    /\ UNCHANGED <<form, picker, visits, overtaken>>

NamesAsked(js, visit) == {j \in js : j.kind = "name" /\ j.visit = visit}

Named(j) ==
    /\ j \in jobs /\ j.kind = "name"
    /\ jobs' = jobs \ {j}
    /\ IF Mounted(j)
       THEN /\ picker' = [picker EXCEPT !.address = j.place]
            /\ overtaken' = (j.n < picker.newest
                               /\ \A k \in NamesAsked(jobs, j.visit) : k.n < picker.newest)
       ELSE UNCHANGED <<picker, overtaken>>
    /\ UNCHANGED <<form, visits>>

\* placemarkFromCoordinates throws, or answers with no place: caught.
NotNamed(j) ==
    /\ j \in jobs /\ j.kind = "name"
    /\ jobs' = jobs \ {j}
    /\ overtaken' = (overtaken \/ (Mounted(j) /\ j.n = picker.newest))
    /\ UNCHANGED <<form, picker, visits>>

\* Mutant: the form does not look whether a point was selected.
AnyResult == TRUE

\* selectedPoint[0] != null, in the form.
HasPoint == picker.point # None

\* The confirm button pops with the point and the address as they are.
Confirm ==
    /\ IsOpen
    /\ IF ~HasPoint THEN UNCHANGED <<fields, active>>
       ELSE /\ fields' = [fields EXCEPT ![picker.field] =
                  [point |-> picker.point, address |-> picker.address,
                   picked |-> picker.picked]]
            /\ active' = Complete(fields', vehicle)
    /\ picker' = Closed
    /\ UNCHANGED <<vehicle, outcome, jobs, visits, overtaken>>

\* The cross pops with null, which the form's cast throws on.
Dismiss ==
    /\ IsOpen
    /\ picker' = Closed
    /\ UNCHANGED <<form, jobs, visits, overtaken>>

-----------------------------------------------------------------------------
EmptyField == [point |-> Zero, address |-> Zero, picked |-> {Zero}]

Init ==
    /\ fields = [f \in Field |-> EmptyField]
    /\ vehicle = FALSE /\ active = FALSE /\ outcome = "editing"
    /\ picker = Closed /\ jobs = {} /\ visits = 0 /\ overtaken = FALSE

Answered(j) == (\E p \in Place : Located(j, p)) \/ NotLocated(j) \/ Named(j) \/ NotNamed(j)

Next ==
    \/ EditVehicle
    \/ \E f \in Field : OpenPicker(f)
    \/ Send
    \/ \E p \in Place : TapMap(p)
    \/ Search
    \/ \E j \in jobs : Answered(j)
    \/ Confirm
    \/ Dismiss

Spec == Init /\ [][Next]_vars

-----------------------------------------------------------------------------
(* Properties *)

TypeOK ==
    /\ fields \in [Field -> FieldRecord]
    /\ vehicle \in BOOLEAN /\ active \in BOOLEAN
    /\ outcome \in {"editing", "stuck", "sent"}
    /\ picker \in PickerRecord
    /\ jobs \subseteq Job
    /\ visits \in 0..MaxVisits
    /\ overtaken \in BOOLEAN

\* The address of a place comes from the visit of the picker that chose it: no
\* late answer to an earlier visit, and none for the other field, names it.
AddressFromItsVisit ==
    \A f \in Field : fields[f].address \in fields[f].picked \cup {None}

\* Once every name asked for has come and none overtook the newest, the address
\* shown is the point's: a point set by the phone's location or by a search
\* result that arrives late, over one the user tapped, is named again as well.
ShownAddressIsThePoints ==
    (IsOpen /\ NamesAsked(jobs, picker.visit) = {} /\ ~overtaken)
        => picker.address = picker.point

\* An order that was sent has a vehicle and two places, whatever was edited
\* again, dismissed or found at latitude 0 after the button was first enabled.
SentIsComplete ==
    outcome = "sent" => /\ vehicle
                        /\ \A f \in Field : fields[f].point \in Points /\ fields[f].address # None
=============================================================================
