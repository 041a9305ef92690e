----------------------------- MODULE Facilities -----------------------------
(***************************************************************************)
(* Facilities (facility_views.py, facility_forms.py,                       *)
(* model_modules/facilities.py): the tree of spaces, who is stalled and    *)
(* turned out where and when, and the reservations of a space.  Days and   *)
(* hours are numbers; an interval holds its first day and not its last,    *)
(* and NoEnd stands for an open end.                                       *)
(***************************************************************************)
EXTENDS Integers, FiniteSets

CONSTANTS SpaceIds, FacilityHorses, RowIds, FacilityDays,
          LaidOut     \* the sets of spaces a facility may start with

NoEnd    == -1
NoParent == 0
Space == [id : SpaceIds, parent : SpaceIds \cup {NoParent}, reservable : BOOLEAN, housing : BOOLEAN,
          turnout : BOOLEAN, active : BOOLEAN]
ASSUME FacilitiesAssumption ==
  /\ FacilityDays \subseteq Nat /\ NoParent \notin SpaceIds /\ IsFiniteSet(SpaceIds)
  /\ \A set \in LaidOut : set \subseteq Space /\ \A s \in set : s.parent = NoParent

VARIABLES spaces,        \* the spaces of one facility
          stalls,        \* HorseStallAssignment rows
          turnouts,      \* HorsePastureAssignment rows
          reservations,  \* ResourceReservation rows
          facilityDay    \* the current day

facilityVars == <<spaces, stalls, turnouts, reservations, facilityDay>>

Stall == [id : RowIds, horse : FacilityHorses, space : SpaceIds, start : FacilityDays, end : FacilityDays \cup {NoEnd}]
Turnout == [id : RowIds, horse : FacilityHorses, space : SpaceIds, type : {"primary", "temporary"},
            start : FacilityDays, end : FacilityDays \cup {NoEnd}]
Reservation == [id : RowIds, space : SpaceIds, starts : FacilityDays, ends : FacilityDays, cancelled : BOOLEAN]

Overlap(a, b) == (a.end = NoEnd \/ b.start < a.end) /\ (b.end = NoEnd \/ a.start < b.end)
Ordered(a)    == a.end = NoEnd \/ a.start <= a.end
Current(a)    == a.start <= facilityDay /\ (a.end = NoEnd \/ facilityDay < a.end)
Others(rows, a) == {b \in rows : b.id # a.id}
ById(rows, a)   == Others(rows, a) \cup {a}
NewIn(rows, a)  == \A b \in rows : b.id # a.id

FacilitiesInit ==
  /\ spaces \in LaidOut
  /\ stalls = {}
  /\ turnouts = {}
  /\ reservations = {}
  /\ facilityDay \in FacilityDays

(*------------------------------- spaces ----------------------------------*)
Parent(s) == {t \in spaces : t.id = s.parent}
\* The ids of s and of the spaces above it.
Ancestors(s) ==
  LET up[n \in 0..Cardinality(SpaceIds)] ==
        IF n = 0 THEN {s.id} ELSE up[n - 1] \cup {t.parent : t \in {t \in spaces : t.id \in up[n - 1]}}
  IN up[Cardinality(SpaceIds)] \ {NoParent}

\* Mutant: a space may hang below anything but itself.
FitsTree_Self(s) == s.parent # s.id

FitsTree(s) ==
  s.parent # NoParent => /\ s.parent # s.id
                         /\ \A t \in Parent(s) : s.id \notin Ancestors(t)

\* facility_space_create and facility_space_edit: any capability may change at any time.
FacilitySpaceSave(s) ==
  /\ s.parent # NoParent => Parent(s) # {}
  /\ FitsTree(s)
  /\ spaces' = ById(spaces, s)
  /\ UNCHANGED <<stalls, turnouts, reservations, facilityDay>>

Usable(id) == {s \in spaces : s.id = id /\ s.active}

(*------------------------------- stalls ----------------------------------*)
\* Mutant: the stall itself may be shared.
StallFits_Shared(a, rows) ==
  /\ Ordered(a)
  /\ \A b \in Others(rows, a) : b.horse = a.horse => ~Overlap(a, b)

\* One stall for a horse and one horse for a stall at a time.
StallFits(a, rows) ==
  /\ Ordered(a)
  /\ \A b \in Others(rows, a) : (b.horse = a.horse \/ b.space = a.space) => ~Overlap(a, b)

CanHouse(a)  == \E s \in spaces : s.id = a.space /\ s.housing
StallForm(a) == \E s \in Usable(a.space) : s.housing

\* stall_assignment_create and stall_assignment_edit.
StallAssignmentSave(a) ==
  /\ StallForm(a)
  /\ StallFits(a, stalls)
  /\ stalls' = ById(stalls, a)
  /\ UNCHANGED <<spaces, turnouts, reservations, facilityDay>>

StallAssignmentVacate(a) ==
  /\ a \in stalls /\ Current(a)
  /\ stalls' = ById(stalls, [a EXCEPT !.end = facilityDay])
  /\ UNCHANGED <<spaces, turnouts, reservations, facilityDay>>

\* Ends a on the day the new row starts; both are checked against the other rows.
StallAssignmentMove(a, new) ==
  LET ended == [a EXCEPT !.end = new.start]
  IN /\ a \in stalls /\ Current(a)
     /\ new.horse = a.horse /\ NewIn(stalls, new)
     /\ StallForm(new) /\ CanHouse(ended)
     /\ StallFits(ended, stalls)
     /\ StallFits(new, Others(stalls, a))
     /\ stalls' = Others(stalls, a) \cup {ended, new}
     /\ UNCHANGED <<spaces, turnouts, reservations, facilityDay>>

(*------------------------------- turnout ---------------------------------*)
TurnoutFits(a, rows) ==
  /\ Ordered(a)
  /\ a.type = "primary" => \A b \in Others(rows, a) : (b.horse = a.horse /\ b.type = "primary") => ~Overlap(a, b)
TurnoutForm(a) == \E s \in Usable(a.space) : s.turnout

PastureAssignmentSave(a) ==
  /\ TurnoutForm(a)
  /\ TurnoutFits(a, turnouts)
  /\ turnouts' = ById(turnouts, a)
  /\ UNCHANGED <<spaces, stalls, reservations, facilityDay>>

PastureAssignmentEnd(a) ==
  /\ a \in turnouts /\ Current(a)
  /\ turnouts' = ById(turnouts, [a EXCEPT !.end = facilityDay])
  /\ UNCHANGED <<spaces, stalls, reservations, facilityDay>>

\* The row that ends is saved without a check.
PastureAssignmentMove(a, new) ==
  /\ a \in turnouts /\ Current(a)
  /\ new.horse = a.horse /\ NewIn(turnouts, new)
  /\ TurnoutForm(new)
  /\ TurnoutFits(new, Others(turnouts, a))
  /\ turnouts' = Others(turnouts, a) \cup {[a EXCEPT !.end = new.start], new}
  /\ UNCHANGED <<spaces, stalls, reservations, facilityDay>>

(*----------------------------- reservations ------------------------------*)
Meet(a, b) == a.starts < b.ends /\ b.starts < a.ends
\* Mutant: only a new reservation is compared with the others.
ReservationFits_New(r) ==
  /\ r.starts < r.ends
  /\ NewIn(reservations, r) => \A b \in reservations : (b.space = r.space /\ ~b.cancelled) => ~Meet(r, b)

ReservationFits(r) ==
  /\ r.starts < r.ends
  /\ \A b \in Others(reservations, r) : (b.space = r.space /\ ~b.cancelled) => ~Meet(r, b)

\* resource_reservation_create needs an active space, resource_reservation_edit does not.
ReservationSave(r) ==
  /\ \E s \in spaces : s.id = r.space /\ s.reservable /\ (NewIn(reservations, r) => s.active)
  /\ ReservationFits(r)
  /\ \A b \in reservations : b.id = r.id => b.space = r.space /\ b.cancelled = r.cancelled
  /\ NewIn(reservations, r) => ~r.cancelled
  /\ reservations' = ById(reservations, r)
  /\ UNCHANGED <<spaces, stalls, turnouts, facilityDay>>

ReservationCancel(r) ==
  /\ r \in reservations
  /\ reservations' = ById(reservations, [r EXCEPT !.cancelled = TRUE])
  /\ UNCHANGED <<spaces, stalls, turnouts, facilityDay>>

\* What the page of a space shows as housed and turned out today.
HousedIn(id)    == {a \in stalls : a.space = id /\ Current(a)}
TurnedOutIn(id) == {a \in turnouts : a.space = id /\ Current(a)}
UpcomingIn(id, hour) == {r \in reservations : r.space = id /\ r.ends > hour /\ ~r.cancelled}

FacilityNextDay ==
  /\ facilityDay + 1 \in FacilityDays
  /\ facilityDay' = facilityDay + 1
  /\ UNCHANGED <<spaces, stalls, turnouts, reservations>>

SpaceStep   == \E s \in Space : FacilitySpaceSave(s)
StallStep   == \/ \E a \in Stall : StallAssignmentSave(a)
               \/ \E a \in stalls : StallAssignmentVacate(a) \/ \E new \in Stall : StallAssignmentMove(a, new)
               \/ FacilityNextDay
TurnoutStep == \/ \E a \in Turnout : PastureAssignmentSave(a)
               \/ \E a \in turnouts : PastureAssignmentEnd(a) \/ \E new \in Turnout : PastureAssignmentMove(a, new)
               \/ FacilityNextDay
ReservationStep == \/ \E r \in Reservation : ReservationSave(r)
                   \/ \E r \in reservations : ReservationCancel(r)

FacilitiesNext == SpaceStep \/ StallStep \/ TurnoutStep \/ ReservationStep
FacilitiesSpec == FacilitiesInit /\ [][FacilitiesNext]_facilityVars

(*------------------------------ properties -------------------------------*)
FacilitiesTypeOK ==
  /\ spaces \subseteq Space /\ stalls \subseteq Stall /\ turnouts \subseteq Turnout
  /\ reservations \subseteq Reservation /\ facilityDay \in FacilityDays

\* Every space reaches the facility's top by its parents; no edit, however many rows it moves
\* between, closes a cycle.
SpacesFormATree ==
  \A s \in spaces : \E t \in spaces : t.parent = NoParent /\ t.id \in Ancestors(s)

\* Two horses never share a stall and no horse has two, on any day, past or planned.
StallsAreDisjoint ==
  \A a, b \in stalls : (a.id # b.id /\ (a.horse = b.horse \/ a.space = b.space)) => ~Overlap(a, b)

\* Bookings of one space that stand do not overlap.
ReservationsAreDisjoint ==
  \A a, b \in reservations : (a.id # b.id /\ a.space = b.space /\ ~a.cancelled /\ ~b.cancelled) => ~Meet(a, b)

=============================================================================
