------------------------------- MODULE MCBarn -------------------------------
(***************************************************************************)
(* The barn for TLC: horses and their papers, the horses of a show, the    *)
(* facility and the shared device.  The parts share no state and are       *)
(* explored one at a time: `part` says which one moves.                    *)
(***************************************************************************)
EXTENDS ShowHorses, HorseCare, Facilities, Station

CONSTANTS Parts,        \* the parts a run explores
          TurnoutRows   \* bound on the turnout rows

VARIABLE part
barnVars == <<part, showHorsesVars, horseCareVars, facilityVars, stationVars>>

MCRideClasses == <<1, 0>>         \* a season class and a show-only class
MCEntriesOf   == <<3, 0>>
MCRate        == <<2, 3>>
MCSpace(id, parent) == [id |-> id, parent |-> parent, reservable |-> TRUE, housing |-> TRUE, turnout |-> TRUE, active |-> TRUE]
MCLaidOut     == {{}, {MCSpace(1, 0), MCSpace(2, 0)}}
MCShift(id, out) == [id |-> id, person |-> "jo", role |-> "working_student", in |-> 0, out |-> out, approved |-> FALSE]
MCRecorded    == {{}, {MCShift(1, 1)}, {MCShift(1, 1), MCShift(2, -1)}}

OnlyHorses   == UNCHANGED <<horseCareVars, facilityVars, stationVars>>
OnlyPapers   == UNCHANGED <<showHorsesVars, facilityVars, stationVars>>
OnlyFacility == UNCHANGED <<showHorsesVars, horseCareVars, stationVars>>
OnlyStation  == UNCHANGED <<showHorsesVars, horseCareVars, facilityVars>>

BarnInit ==
  /\ part \in Parts
  /\ ShowHorsesInit /\ HorseCareInit /\ FacilitiesInit /\ StationInit
  /\ (part \notin {"tests", "documents", "care", "relations", "access"}) => horseManager = {}
  /\ (part \in {"tests", "documents", "care", "relations"}) => horseManager = {"ann"}
  /\ (part # "stalls" /\ part # "turnout") => facilityDay = 0
  /\ (spaces = {}) = (part \notin {"stalls", "turnout", "bookings"})
  /\ Cardinality(shifts) = IF part = "shifts" THEN 1 ELSE IF part = "corrections" THEN 2 ELSE 0
  /\ part # "device" => pins["jo"]
  /\ part # "plan" => \A h \in ShowHorseSet : eligible[h] = NoProfile

\* The plans a history is built from: its horses, without their classes and awards.
PlanOnce ==
  \/ \E h \in ShowHorseSet, available \in BOOLEAN :
       ShowHorseSave(h, TRUE, [exists |-> TRUE, available |-> available, classes |-> {}, override |-> FALSE])
  \/ \E n \in LeasedNames : ShowLeasedHorseSave(n, [exists |-> TRUE, available |-> TRUE, classes |-> {}])

\* Turnout of one horse in one paddock.
OneTurnout ==
  LET plain(a) == a.horse = "bay" /\ a.space = 1 /\ a.id \in TurnoutRows
  IN \A a \in turnouts' : plain(a)

\* Relationships without an end.
OpenRelations == \A h \in Horses : \A r \in relations'[h] : r.end = None

\* Spaces that differ in their place and in one capability.
PlainSpaces == \A s \in spaces' : s.reservable /\ s.turnout /\ s.active

\* One boarder at a time, and the first test.
OneBoarder == \A h \in Horses : Cardinality(relations'[h]) <= 1 /\ Cardinality(coggins'[h]) <= 1

Correction == \E s \in shifts : StationShiftApprove(s) \/ \E new \in Edits(s) : StationShiftEdit(s, new)

BarnNext ==
  /\ UNCHANGED part
  /\ \/ part = "plan" /\ PlanStep /\ OnlyHorses
     \/ part = "hoofprints" /\ (PlanStep \/ HoofprintStep) /\ OnlyHorses
     \/ part = "history" /\ (PlanOnce \/ HistoryStep) /\ OnlyHorses
     \/ part = "tests" /\ CogginsStep /\ OnlyPapers
     \/ part = "documents" /\ DocumentStep /\ OnlyPapers
     \/ part = "relations" /\ RelationStep /\ OpenRelations /\ OnlyPapers
     \/ part = "care" /\ CareStep /\ OnlyPapers
     \/ part = "access" /\ AccessStep /\ OneBoarder /\ OnlyPapers
     \/ part = "spaces" /\ SpaceStep /\ PlainSpaces /\ OnlyFacility
     \/ part = "stalls" /\ StallStep /\ OnlyFacility
     \/ part = "turnout" /\ TurnoutStep /\ OneTurnout /\ OnlyFacility
     \/ part = "bookings" /\ ReservationStep /\ OnlyFacility
     \/ part = "device" /\ DeviceStep /\ OnlyStation
     \/ part = "shifts" /\ ReviewStep /\ OnlyStation
     \/ part = "corrections" /\ Correction /\ OnlyStation

BarnSpec == BarnInit /\ [][BarnNext]_barnVars

(*------------------------------ properties -------------------------------*)

\* What holds of the barn between two requests: Hoofprints are numbered, the readiness board and the
\* papers of a horse say what is recorded, care is announced once, credits have one recipient and are
\* posted once, spaces form a tree, bookings are disjoint and nobody has two open shifts.
BarnInvariant ==
  /\ ShowHorsesTypeOK /\ HorseCareTypeOK /\ FacilitiesTypeOK /\ StationTypeOK
  /\ HoofprintsAreNumbered /\ ReadinessIsSound
  /\ ReadyMeansPapers /\ DoneCareIsQuiet /\ OneCreditRecipient
  /\ SpacesFormATree /\ ReservationsAreDisjoint
  /\ OneOpenShift /\ OneCreditPerRule

\* What no request of the barn may do: take an award or its horse away, add a class without its
\* exception, make an unready horse ready by waiting, use one PIN entry twice, enter a locked PIN
\* or post a credit nobody earned.
BarnSteps ==
  /\ AwardsKeepTheirHorse /\ UnapprovedClassesOnlyLeave
  /\ TimeNeverHeals
  /\ PinBuysOneEntry /\ LockedMeansOut /\ CreditsAreEarned
=============================================================================
