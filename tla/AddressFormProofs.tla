-------------------------- MODULE AddressFormProofs --------------------------
(***************************************************************************)
(* Proofs about AddressForm, for every set of places and every number of   *)
(* visits and requests.                                                    *)
(***************************************************************************)
EXTENDS AddressForm, TLAPS

Assumptions == /\ Zero \notin Points /\ None \notin Points \cup {Zero} /\ None \notin Field
               /\ MaxVisits \in Nat \ {0} /\ MaxAsked \in Nat \ {0}

\* The assumptions on the constants under one name.
LEMMA Assumed == Assumptions
  BY PlacesAssumption, NoFieldAssumption, PickerBoundsAssumption DEF Assumptions, Field

\* For AddressFromItsVisit: the open picker is the newest, its
\* address and the names it awaits are of points selected in it, and no earlier
\* visit shares its number.
VisitsAreApart ==
    /\ \A j \in jobs : j.visit <= visits
    /\ IsOpen => /\ picker.visit = visits /\ visits > 0
                 /\ picker.address \in picker.picked \cup {None}
                 /\ \A j \in NamesAsked(jobs, picker.visit) : j.place \in picker.picked

\* For ShownAddressIsThePoints: the newest name asked for is the point's, and it is
\* outstanding unless it was overtaken, failed or is shown.
NewestIsThePoint ==
    IsOpen => LET names == NamesAsked(jobs, picker.visit) IN
        /\ picker.newest <= picker.asked
        /\ \A j \in names : j.n <= picker.newest /\ (j.n = picker.newest => j.place = picker.point)
        /\ \/ overtaken
           \/ \E j \in names : j.n = picker.newest
           \/ picker.address = picker.point

\* For SentIsComplete: the button is enabled exactly when the form is complete, and nothing is
\* edited once it was sent.
ButtonIsCurrent ==
    /\ active <=> Complete(fields, vehicle)
    /\ outcome = "sent" => ~IsOpen

IInv == /\ TypeOK
        /\ VisitsAreApart /\ NewestIsThePoint
        /\ AddressFromItsVisit /\ ButtonIsCurrent /\ SentIsComplete

\* The form is empty at first.
LEMMA InitInv == Init => IInv
<1>. SUFFICES ASSUME Init PROVE IInv
  OBVIOUS
<1>1. fields \in [Field -> FieldRecord]
  BY DEF Init, EmptyField, FieldRecord, Place
<1>2. picker \in PickerRecord /\ ~IsOpen
  BY Assumed DEF Assumptions, Init, Closed, PickerRecord, IsOpen
<1>3. TypeOK
  <2>1. vehicle \in BOOLEAN /\ active \in BOOLEAN /\ overtaken \in BOOLEAN
    BY Zenon DEF Init
  <2>2. jobs \subseteq Job /\ visits \in 0..MaxVisits /\ outcome \in {"editing", "stuck", "sent"}
    BY Assumed DEF Assumptions, Init
  <2>. QED BY <1>1, <1>2, <2>1, <2>2 DEF TypeOK
<1>4. VisitsAreApart /\ NewestIsThePoint
  BY <1>2 DEF Init, VisitsAreApart, NewestIsThePoint
<1>5. AddressFromItsVisit
  BY DEF Init, EmptyField, AddressFromItsVisit
<1>6. ButtonIsCurrent /\ SentIsComplete
  BY <1>2 DEF Init, ButtonIsCurrent, Complete, EmptyField, SentIsComplete
<1>. QED BY <1>3, <1>4, <1>5, <1>6 DEF IInv

-----------------------------------------------------------------------------
(* The picker's own steps: the form is left alone *)

\* What a step that leaves the form alone has to keep.
PickerInv == /\ picker \in PickerRecord /\ jobs \subseteq Job /\ overtaken \in BOOLEAN
             /\ VisitsAreApart /\ NewestIsThePoint
             /\ IsOpen

\* A point is selected by a tap, a search or the location.
LEMMA SelectInv ==
  ASSUME IInv, IsOpen, NEW p \in Place, NEW rest, rest \subseteq jobs, SelectPoint(p, rest),
         visits' = visits
  PROVE  PickerInv'
<1>1. /\ picker \in PickerRecord /\ picker.asked < MaxAsked
      /\ picker.asked + 1 \in 1..MaxAsked
      /\ picker.visit = visits /\ visits \in 1..MaxVisits
  BY Assumed DEF IInv, TypeOK, VisitsAreApart, PickerRecord, SelectPoint, Assumptions
<1>2. /\ picker' \in PickerRecord /\ picker'.visit = picker.visit /\ picker'.field = picker.field
      /\ picker'.address = picker.address /\ picker'.picked = picker.picked \cup {p}
      /\ picker'.point = p /\ picker'.asked = picker.asked + 1
      /\ picker'.newest = picker.asked + 1
  <2>1. picker' = [field |-> picker.field, visit |-> picker.visit, point |-> p,
                   address |-> picker.address, picked |-> picker.picked \cup {p},
                   asked |-> picker.asked + 1, newest |-> picker.asked + 1]
    BY <1>1 DEF SelectPoint, PickerRecord
  <2>. QED BY <1>1, <2>1 DEF PickerRecord
<1>3. Ask("name", p, picker.asked + 1) \in Job
  BY <1>1 DEF Ask, Job
<1>4. jobs' \subseteq Job /\ overtaken' \in BOOLEAN
  BY <1>3 DEF SelectPoint, AskName, IInv, TypeOK
<1>5. ASSUME NEW j \in jobs'
      PROVE  /\ j.visit <= visits
             /\ j \in jobs \/ j.place = p
  BY <1>1 DEF SelectPoint, AskName, Ask, IInv, VisitsAreApart, TypeOK, Job
<1>6. \A j \in NamesAsked(jobs', picker'.visit) : j.place \in picker'.picked
  BY <1>2, <1>5 DEF NamesAsked, IInv, VisitsAreApart
<1>7. IsOpen'
  BY <1>2 DEF IsOpen
<1>8. NewestIsThePoint'
  <2>. DEFINE new == Ask("name", p, picker.asked + 1)
  <2>1. /\ new \in NamesAsked(jobs', picker'.visit)
        /\ new.n = picker.asked + 1 /\ new.place = p
    BY <1>1, <1>2 DEF SelectPoint, AskName, Ask, NamesAsked
  <2>2. ASSUME NEW j \in NamesAsked(jobs', picker'.visit), j # new
        PROVE  j.n < picker.asked + 1
    <3>1. j \in NamesAsked(jobs, picker.visit) /\ j \in Job
      BY <1>2, <2>2 DEF SelectPoint, AskName, NamesAsked, IInv, TypeOK
    <3>2. j.n <= picker.newest /\ picker.newest <= picker.asked
      BY <3>1 DEF IInv, NewestIsThePoint
    <3>. QED BY <1>1, <3>1, <3>2 DEF Job, PickerRecord
  <2>3. \A j \in NamesAsked(jobs', picker'.visit) :
           j.n <= picker'.newest /\ (j.n = picker'.newest => j.place = picker'.point)
    <3>1. \A j \in NamesAsked(jobs', picker'.visit) : j.n \in Nat
      BY <1>4 DEF NamesAsked, Job
    <3>. QED BY <1>1, <1>2, <2>1, <2>2, <3>1
  <2>. QED BY <1>1, <1>2, <2>1, <2>3 DEF NewestIsThePoint
<1>. QED BY <1>1, <1>2, <1>4, <1>5, <1>6, <1>7, <1>8 DEF PickerInv, VisitsAreApart, IInv

\* Jobs that end, and a picker whose address is set to an awaited name, keep it.
LEMMA EndJobInv ==
  ASSUME IInv, NEW j \in jobs, jobs' = jobs \ {j}, visits' = visits, overtaken' \in BOOLEAN,
         \/ picker' = picker
         \/ /\ IsOpen /\ j.kind = "name" /\ j.visit = picker.visit
            /\ picker' = [picker EXCEPT !.address = j.place]
  PROVE  /\ picker' \in PickerRecord /\ jobs' \subseteq Job
         /\ VisitsAreApart' /\ (IsOpen' <=> IsOpen)
<1>1. picker \in PickerRecord /\ j \in Job
  BY DEF IInv, TypeOK
<1>2. /\ picker' \in PickerRecord /\ picker'.visit = picker.visit /\ picker'.field = picker.field
      /\ picker'.picked = picker.picked /\ picker'.address \in {picker.address, j.place}
  BY <1>1 DEF PickerRecord, Job
<1>3. IsOpen => picker'.address \in picker.picked \cup {None}
  <2>1. CASE picker' = picker
    BY <2>1 DEF IInv, VisitsAreApart
  <2>2. CASE IsOpen /\ j.kind = "name" /\ j.visit = picker.visit
    BY <1>2, <2>2 DEF IInv, VisitsAreApart, NamesAsked
  <2>. QED BY <2>1, <2>2
<1>4. IsOpen' <=> IsOpen
  BY <1>2 DEF IsOpen
<1>5. jobs' \subseteq Job /\ \A k \in jobs' : k.visit <= visits
  BY DEF IInv, TypeOK, VisitsAreApart
<1>6. IsOpen => \A k \in NamesAsked(jobs', picker'.visit) : k.place \in picker'.picked
  BY <1>2 DEF IInv, VisitsAreApart, NamesAsked
<1>7. VisitsAreApart'
  BY <1>2, <1>3, <1>4, <1>5, <1>6 DEF IInv, VisitsAreApart
<1>. QED BY <1>2, <1>4, <1>5, <1>7

\* A name that arrives is the point's if it is the newest, and overtakes the
\* newest otherwise, if that is no longer awaited.
LEMMA NamedNewest ==
  ASSUME IInv, NEW j \in jobs, j.kind = "name", jobs' = jobs \ {j},
         IsOpen, j.visit = picker.visit, picker' = [picker EXCEPT !.address = j.place],
         overtaken' = (j.n < picker.newest
                         /\ \A k \in NamesAsked(jobs, j.visit) : k.n < picker.newest)
  PROVE  NewestIsThePoint'
<1>1. /\ picker \in PickerRecord /\ j \in Job /\ j \in NamesAsked(jobs, picker.visit)
      /\ picker.newest <= picker.asked
  BY DEF IInv, TypeOK, NamesAsked, NewestIsThePoint
<1>2. /\ picker'.visit = picker.visit /\ picker'.point = picker.point
      /\ picker'.newest = picker.newest /\ picker'.asked = picker.asked
      /\ picker'.address = j.place
  BY <1>1 DEF PickerRecord
<1>3. \A k \in NamesAsked(jobs, picker.visit) :
         /\ k.n <= picker.newest /\ (k.n = picker.newest => k.place = picker.point)
         /\ k.n \in Nat /\ picker.newest \in Nat
  BY <1>1 DEF IInv, NewestIsThePoint, TypeOK, NamesAsked, Job, PickerRecord
<1>4. NamesAsked(jobs', picker'.visit) = NamesAsked(jobs, picker.visit) \ {j}
  BY <1>2 DEF NamesAsked
<1>5. CASE j.n = picker.newest
  BY <1>1, <1>2, <1>3, <1>4, <1>5 DEF NewestIsThePoint
<1>6. CASE j.n # picker.newest
  <2>1. j.n < picker.newest
    BY <1>1, <1>3, <1>6
  <2>2. CASE \A k \in NamesAsked(jobs, j.visit) : k.n < picker.newest
    <3>1. overtaken'
      BY <2>1, <2>2, Zenon
    <3>. QED BY <1>1, <1>2, <1>3, <1>4, <3>1 DEF NewestIsThePoint
  <2>3. CASE \E k \in NamesAsked(jobs, j.visit) : ~(k.n < picker.newest)
    <3>1. PICK k \in NamesAsked(jobs, picker.visit) : k.n = picker.newest /\ k # j
      BY <2>3, <1>3, <1>6
    <3>. QED BY <1>1, <1>2, <1>3, <1>4, <3>1 DEF NewestIsThePoint
  <2>. QED BY <2>2, <2>3
<1>. QED BY <1>5, <1>6

\* Any other job that ends leaves the newest as it is.
LEMMA EndedNewest ==
  ASSUME IInv, NEW j \in jobs, jobs' = jobs \ {j}, picker' = picker, overtaken' \in BOOLEAN,
         overtaken => overtaken',
         IsOpen /\ j.kind = "name" /\ j.visit = picker.visit /\ j.n = picker.newest => overtaken'
  PROVE  NewestIsThePoint'
<1>. SUFFICES ASSUME IsOpen PROVE NewestIsThePoint'
  BY DEF IsOpen, NewestIsThePoint
<1>1. NamesAsked(jobs', picker'.visit) = NamesAsked(jobs, picker.visit) \ {j}
  BY DEF NamesAsked
<1>2. overtaken' \/ ~(j \in NamesAsked(jobs, picker.visit) /\ j.n = picker.newest)
  BY DEF NamesAsked
<1>. QED BY <1>1, <1>2 DEF IInv, NewestIsThePoint

\* A step that leaves the form and the number of visits alone.
LEMMA FormKept ==
  ASSUME IInv, UNCHANGED <<form, visits>>, IsOpen' => IsOpen,
         VisitsAreApart', NewestIsThePoint',
         picker' \in PickerRecord, jobs' \subseteq Job, overtaken' \in BOOLEAN
  PROVE  IInv'
  BY DEF IInv, TypeOK, AddressFromItsVisit, ButtonIsCurrent, Complete, SentIsComplete, form

LEMMA TapMapInv == ASSUME IInv, NEW p \in Place, TapMap(p) PROVE IInv'
<1>1. PickerInv'
  BY SelectInv DEF TapMap
<1>. QED BY <1>1, FormKept DEF TapMap, PickerInv

LEMMA SearchInv == ASSUME IInv, Search PROVE IInv'
<1>1. /\ picker \in PickerRecord /\ picker.asked + 1 \in 1..MaxAsked
      /\ picker.visit = visits /\ visits \in 1..MaxVisits
  BY Assumed DEF IInv, TypeOK, VisitsAreApart, PickerRecord, Search, Assumptions
<1>2. /\ picker' \in PickerRecord /\ picker'.visit = picker.visit /\ picker'.field = picker.field
      /\ picker'.address = picker.address /\ picker'.picked = picker.picked
      /\ picker'.point = picker.point /\ picker'.newest = picker.newest
      /\ picker'.asked = picker.asked + 1
  BY <1>1 DEF Search, PickerRecord
<1>3. Ask("details", None, picker.asked + 1) \in Job
  BY <1>1 DEF Ask, Job
<1>4. jobs' \subseteq Job
  BY <1>3 DEF Search, IInv, TypeOK
<1>5. /\ \A j \in jobs' : j.visit <= visits
      /\ NamesAsked(jobs', picker'.visit) = NamesAsked(jobs, picker.visit)
  BY <1>1, <1>2 DEF Search, Ask, NamesAsked, IInv, VisitsAreApart
<1>6. VisitsAreApart' /\ (IsOpen' => IsOpen)
  BY <1>2, <1>5 DEF VisitsAreApart, IsOpen, IInv, Search
<1>7. NewestIsThePoint'
  <2>1. IsOpen /\ overtaken' = overtaken /\ NewestIsThePoint
    BY DEF Search, IInv
  <2>2. picker.newest <= picker.asked => picker.newest <= picker.asked + 1
    BY <1>1 DEF PickerRecord
  <2>. QED BY <1>2, <1>5, <2>1, <2>2, Zenon DEF NewestIsThePoint
<1>. QED BY <1>2, <1>4, <1>6, <1>7, FormKept DEF Search, IInv, TypeOK

LEMMA AnsweredInv == ASSUME IInv, NEW j \in jobs, Answered(j) PROVE IInv'
<1>1. CASE \E p \in Place : Located(j, p)
  <2>1. PICK p \in Place : Located(j, p)
    BY <1>1
  <2>2. CASE Mounted(j)
    <3>1. PickerInv'
      BY <2>1, <2>2, SelectInv DEF Located, Mounted
    <3>. QED BY <2>1, <2>2, <3>1, FormKept DEF Located, PickerInv, Mounted
  <2>3. CASE ~Mounted(j)
    <3>1. jobs' = jobs \ {j} /\ picker' = picker /\ overtaken' = overtaken /\ visits' = visits
      BY <2>1, <2>3 DEF Located
    <3>2. NewestIsThePoint'
      BY <2>1, <3>1, EndedNewest DEF Located, IInv, TypeOK
    <3>. QED BY <2>1, <3>1, <3>2, EndJobInv, FormKept DEF Located, IInv, TypeOK
  <2>. QED BY <2>2, <2>3
<1>2. CASE NotLocated(j)
  <2>1. NewestIsThePoint'
    BY <1>2, EndedNewest DEF NotLocated, IInv, TypeOK
  <2>. QED BY <1>2, <2>1, EndJobInv, FormKept DEF NotLocated, IInv, TypeOK
<1>3. CASE Named(j)
  <2>1. overtaken' \in BOOLEAN
    BY <1>3 DEF Named, IInv, TypeOK
  <2>2. /\ jobs' = jobs \ {j} /\ visits' = visits /\ UNCHANGED form
        /\ \/ picker' = picker
           \/ /\ IsOpen /\ j.kind = "name" /\ j.visit = picker.visit
              /\ picker' = [picker EXCEPT !.address = j.place]
    BY <1>3 DEF Named, Mounted
  <2>3. NewestIsThePoint'
    <3>1. CASE Mounted(j)
      BY <1>3, <3>1, NamedNewest DEF Named, Mounted
    <3>2. CASE ~Mounted(j)
      BY <1>3, <3>2, EndedNewest DEF Named, Mounted, IInv, TypeOK
    <3>. QED BY <3>1, <3>2
  <2>. QED BY <2>1, <2>2, <2>3, EndJobInv, FormKept
<1>4. CASE NotNamed(j)
  <2>1. overtaken' \in BOOLEAN
    BY <1>4 DEF NotNamed
  <2>2. NewestIsThePoint'
    BY <1>4, <2>1, EndedNewest DEF NotNamed, Mounted, IInv, TypeOK
  <2>. QED BY <1>4, <2>1, <2>2, EndJobInv, FormKept DEF NotNamed
<1>. QED BY <1>1, <1>2, <1>3, <1>4 DEF Answered

-----------------------------------------------------------------------------
(* The form's steps *)

\* The picker that is not open.
LEMMA ClosedPicker == Closed \in PickerRecord /\ Closed.field = None
  BY Assumed DEF Closed, PickerRecord, Assumptions

LEMMA ConfirmInv == ASSUME IInv, Confirm PROVE IInv'
<1>1. ~IsOpen' /\ picker' \in PickerRecord
  BY ClosedPicker DEF Confirm, IsOpen
<1>2. VisitsAreApart' /\ NewestIsThePoint'
  BY <1>1 DEF Confirm, VisitsAreApart, NewestIsThePoint, IInv
<1>5. outcome' = outcome /\ outcome # "sent"
  BY DEF Confirm, IInv, ButtonIsCurrent
<1>3. CASE ~HasPoint
  BY <1>1, <1>2, <1>3, <1>5
     DEF Confirm, IInv, TypeOK, AddressFromItsVisit, ButtonIsCurrent, Complete, SentIsComplete
<1>4. CASE HasPoint
  <2>. DEFINE new == [point |-> picker.point, address |-> picker.address,
                      picked |-> picker.picked]
  <2>1. /\ fields' = [fields EXCEPT ![picker.field] = new]
        /\ active' = Complete(fields', vehicle)
    BY <1>4 DEF Confirm
  <2>2. new \in FieldRecord /\ picker.field \in Field
        /\ picker.address \in picker.picked \cup {None}
    BY <1>4 DEF Confirm, IsOpen, HasPoint, IInv, TypeOK, PickerRecord, FieldRecord, VisitsAreApart
  <2>3. fields' \in [Field -> FieldRecord]
    BY <2>1, <2>2 DEF IInv, TypeOK
  <2>4. AddressFromItsVisit'
    BY <2>1, <2>2 DEF IInv, TypeOK, AddressFromItsVisit
  <2>5. active' \in BOOLEAN
    BY <2>1 DEF Complete
  <2>6. TypeOK'
    BY <1>1, <2>3, <2>5 DEF Confirm, IInv, TypeOK
  <2>7. ButtonIsCurrent'
    BY <1>1, <2>1 DEF Confirm, ButtonIsCurrent, Complete
  <2>. QED BY <1>2, <1>5, <2>4, <2>6, <2>7 DEF IInv, SentIsComplete
<1>. QED BY <1>3, <1>4

LEMMA DismissInv == ASSUME IInv, Dismiss PROVE IInv'
<1>1. ~IsOpen' /\ picker' \in PickerRecord
  BY ClosedPicker DEF Dismiss, IsOpen
<1>2. VisitsAreApart' /\ NewestIsThePoint'
  BY <1>1 DEF Dismiss, VisitsAreApart, NewestIsThePoint, IInv
<1>. QED BY <1>1, <1>2, FormKept DEF Dismiss, IInv, TypeOK

LEMMA OpenPickerInv == ASSUME IInv, NEW f \in Field, OpenPicker(f) PROVE IInv'
<1>1. visits' = visits + 1 /\ visits' \in 1..MaxVisits /\ visits \in Nat
  BY Assumed DEF OpenPicker, IInv, TypeOK, Assumptions
<1>2. /\ picker' \in PickerRecord /\ picker'.visit = visits'
      /\ picker'.address = None /\ picker'.field = f /\ picker'.point = None
      /\ picker'.newest = 0 /\ picker'.asked = 1
  <2>1. picker' = [field |-> f, visit |-> visits + 1, point |-> None, address |-> None,
                   picked |-> {}, asked |-> 1, newest |-> 0]
    BY DEF OpenPicker, Closed
  <2>. QED BY <1>1, <2>1, Assumed DEF PickerRecord, Assumptions
<1>3. /\ jobs' \subseteq Job
      /\ \A j \in jobs' : j.visit <= visits' /\ (j.visit = visits' => j.kind = "location")
  BY <1>1, Assumed DEF OpenPicker, Job, IInv, TypeOK, VisitsAreApart, Assumptions
<1>4. TypeOK'
  <2>1. overtaken' \in BOOLEAN
    BY Zenon DEF OpenPicker
  <2>2. UNCHANGED <<fields, vehicle, active, outcome>>
    BY DEF OpenPicker, form
  <2>. QED BY <1>1, <1>2, <1>3, <2>1, <2>2 DEF IInv, TypeOK
<1>5. VisitsAreApart' /\ NewestIsThePoint'
  BY <1>1, <1>2, <1>3 DEF VisitsAreApart, NewestIsThePoint, NamesAsked
<1>6. AddressFromItsVisit' /\ ButtonIsCurrent' /\ SentIsComplete'
  BY DEF OpenPicker, form, IInv, AddressFromItsVisit, ButtonIsCurrent, Complete, SentIsComplete
<1>. QED BY <1>4, <1>5, <1>6 DEF IInv

LEMMA EditVehicleInv == ASSUME IInv, EditVehicle PROVE IInv'
<1>1. TypeOK'
  BY DEF EditVehicle, IInv, TypeOK, Complete
<1>2. VisitsAreApart' /\ NewestIsThePoint'
  BY DEF EditVehicle, IInv, VisitsAreApart, NewestIsThePoint, IsOpen, NamesAsked
<1>3. AddressFromItsVisit' /\ ButtonIsCurrent' /\ SentIsComplete'
  BY DEF EditVehicle, IInv, AddressFromItsVisit, ButtonIsCurrent, Complete, IsOpen, SentIsComplete
<1>. QED BY <1>1, <1>2, <1>3 DEF IInv

LEMMA SendInv == ASSUME IInv, Send PROVE IInv'
<1>1. TypeOK'
  BY DEF Send, IInv, TypeOK
<1>2. VisitsAreApart' /\ NewestIsThePoint'
  BY DEF Send, IInv, VisitsAreApart, NewestIsThePoint, IsOpen, NamesAsked
<1>3. AddressFromItsVisit' /\ ButtonIsCurrent'
  BY DEF Send, IInv, AddressFromItsVisit, ButtonIsCurrent, Complete, IsOpen
<1>4. SentIsComplete'
  BY DEF Send, IInv, TypeOK, FieldRecord, Place, ButtonIsCurrent, Complete, SentIsComplete
<1>. QED BY <1>1, <1>2, <1>3, <1>4 DEF IInv

LEMMA StutterInv == ASSUME IInv, UNCHANGED vars PROVE IInv'
  BY DEF IInv, vars, TypeOK, VisitsAreApart, NewestIsThePoint, AddressFromItsVisit,
     ButtonIsCurrent, SentIsComplete, Complete, IsOpen, NamesAsked

\* Every step keeps the invariant.
LEMMA StepInv == IInv /\ [Next]_vars => IInv'
<1>. SUFFICES ASSUME IInv, [Next]_vars PROVE IInv'
  OBVIOUS
<1>. QED BY TapMapInv, SearchInv, AnsweredInv, ConfirmInv, DismissInv, OpenPickerInv,
            EditVehicleInv, SendInv, StutterInv DEF Next

\* The inductive invariant behind the four theorems below.
THEOREM InductiveInvariant == Spec => []IInv
  BY InitInv, StepInv, PTL DEF Spec

\* Every variable of the form, the picker and its awaits keeps its type.
THEOREM TypeCorrect == Spec => []TypeOK
<1>1. IInv => TypeOK
  BY DEF IInv
<1>. QED BY <1>1, InductiveInvariant, PTL

\* However often the pickers are opened, and in whatever order the phone's
\* location, searches and names answer, an order's address is that of a point
\* selected in the visit that filled its field.
THEOREM AddressOfItsVisit == Spec => []AddressFromItsVisit
<1>1. IInv => AddressFromItsVisit
  BY DEF IInv
<1>. QED BY <1>1, InductiveInvariant, PTL

\* The picker's address is its point's once all names have come, unless the
\* newest failed or an older one came after it.
THEOREM ShownAddress == Spec => []ShownAddressIsThePoints
<1>1. IInv => ShownAddressIsThePoints
  BY DEF IInv, NewestIsThePoint, ShownAddressIsThePoints
<1>. QED BY <1>1, InductiveInvariant, PTL

\* No order is sent without a vehicle, two places and their addresses.
THEOREM SentComplete == Spec => []SentIsComplete
<1>1. IInv => SentIsComplete
  BY DEF IInv
<1>. QED BY <1>1, InductiveInvariant, PTL
=============================================================================
