----------------------------- MODULE ShowHorses -----------------------------
(***************************************************************************)
(* The horses of one show (view_modules/horses.py, show_readiness_*.py,    *)
(* view_modules/hoofprint.py, post_show_horse_*.py): assignments checked   *)
(* against season eligibility, Horse of the Day awards, leased horses,     *)
(* readiness, the finalized Hoofprints and the history built after the     *)
(* show.  Requests on the history load it, check that it is not final and  *)
(* save later: `requests` holds what they loaded.  Finalizing a Hoofprint  *)
(* reads the last version and inserts later.                               *)
(***************************************************************************)
EXTENDS LedgerSums, FiniteSets, Sequences

CONSTANTS ShowHorseSet, LeasedNames,
          RideClasses,      \* show class -> the season class it is run as (0: show only)
          SeasonClassIds,
          RidesPerHorse, EntriesOf,   \* season setting; show class -> active entries
          Sessions,
          Unfit,            \* horses that compliance holds back for the show date
          MaxVersions, MaxRequests, MaxRecords, MaxEditors

ASSUME ShowHorsesAssumption ==
  /\ RidesPerHorse \in Nat /\ MaxVersions \in Nat /\ MaxRequests \in Nat /\ MaxRecords \in Nat /\ MaxEditors \in Nat
  /\ RideClasses \in Seq(SeasonClassIds \cup {0}) /\ EntriesOf \in Seq(Nat) /\ Len(EntriesOf) = Len(RideClasses)
  /\ IsFiniteSet(ShowHorseSet) /\ IsFiniteSet(LeasedNames) /\ "none" \notin ShowHorseSet

VARIABLES eligible,     \* horse -> its season profile (classes), or NoProfile
          assigned,     \* horse -> its show assignment, or NoAssignment
          awards,       \* session -> horse or "none"
          leased,       \* planning name -> leased horse or NoLease
          hoofprints,   \* finalized snapshots, in the order of their versions
          finalizing,   \* requests that have read the last version
          history,      \* the post-show history, or NoHistory
          requests      \* requests that have loaded the history

showHorsesVars == <<eligible, assigned, awards, leased, hoofprints, finalizing, history, requests>>

ShowClassIds == DOMAIN RideClasses
NoProfile    == {0}
NoAssignment == [exists |-> FALSE]
NoLease      == [exists |-> FALSE]
NoHistory    == [exists |-> FALSE]
Assignment == [exists : {TRUE}, available : BOOLEAN, classes : SUBSET ShowClassIds, override : BOOLEAN]
Lease      == [exists : {TRUE}, available : BOOLEAN, classes : SUBSET ShowClassIds]
Awards     == [Sessions -> ShowHorseSet \cup {"none"}]
Snapshot   == [version : 1..MaxVersions, horses : SUBSET ShowHorseSet]
Record     == [id : 1..MaxRecords, source : {"registry", "leased", "other"}, horse : ShowHorseSet \cup {"none"},
               used : BOOLEAN, counted : BOOLEAN]
History    == [exists : {TRUE}, final : BOOLEAN, records : SUBSET Record]

Assigned == {h \in ShowHorseSet : assigned[h].exists}
Available == {h \in Assigned : assigned[h].available}
AvailableLeases == {n \in LeasedNames : leased[n].exists /\ leased[n].available}

(*---------------------------- eligibility --------------------------------*)
\* A show-only class is outside every profile.
Ineligible(h, classes) ==
  {c \in classes : RideClasses[c] = 0 \/ eligible[h] = NoProfile \/ RideClasses[c] \notin eligible[h]}

\* What the form keeps of an edit, by who makes it; {} when it is refused.
\* Mutant: a manager's class outside the profile needs no override.
Accepted_Unasked(h, manager, new) ==
  LET outside == Ineligible(h, new.classes)
      before  == IF assigned[h].exists THEN Ineligible(h, assigned[h].classes) ELSE {}
  IN IF manager \/ outside \subseteq before THEN {new} ELSE {}

Accepted(h, manager, new) ==
  LET outside == Ineligible(h, new.classes)
      before  == IF assigned[h].exists THEN Ineligible(h, assigned[h].classes) ELSE {}
      kept    == [new EXCEPT !.override = assigned[h].exists /\ assigned[h].override]
  IN IF manager
     THEN IF outside = {} THEN {[new EXCEPT !.override = FALSE]} ELSE IF new.override THEN {new} ELSE {}
     ELSE IF outside \subseteq before THEN {kept} ELSE {}

(*----------------------------- readiness ---------------------------------*)
TotalRides   == SumTo(EntriesOf, Len(EntriesOf))
Ratio(rides) == IF rides < 1 THEN 1 ELSE rides
\* Mutant: the last horse is rounded away.
RequiredHorses_Floor(rides, ratio) == rides \div Ratio(ratio)

RequiredHorses(rides, ratio) == (rides + Ratio(ratio) - 1) \div Ratio(ratio)
AvailableHorses == Cardinality(Available) + Cardinality(AvailableLeases)
Shortage        == IF RequiredHorses(TotalRides, RidesPerHorse) > AvailableHorses
                   THEN RequiredHorses(TotalRides, RidesPerHorse) - AvailableHorses ELSE 0
Covered    == UNION ({assigned[h].classes : h \in Available} \cup {leased[n].classes : n \in AvailableLeases})
Uncovered  == {c \in ShowClassIds : EntriesOf[c] > 0} \ Covered
ComplianceReady == Available \cap Unfit = {}
ShowReady  == Shortage = 0 /\ Uncovered = {} /\ ComplianceReady

(*------------------- assignments, awards, leased horses ------------------*)
ShowHorsesInit ==
  /\ eligible \in [ShowHorseSet -> {NoProfile, SeasonClassIds}]
  /\ assigned = [h \in ShowHorseSet |-> NoAssignment]
  /\ awards = [s \in Sessions |-> "none"]
  /\ leased = [n \in LeasedNames |-> NoLease]
  /\ hoofprints = <<>>
  /\ finalizing = <<>>
  /\ history = NoHistory
  /\ requests = {}

SeasonProfileSave(h, classes) ==
  /\ eligible' = [eligible EXCEPT ![h] = classes]
  /\ UNCHANGED <<assigned, awards, leased, hoofprints, finalizing, history, requests>>

\* show_horse_add and show_horse_edit.
ShowHorseSave(h, manager, new) ==
  \E kept \in Accepted(h, manager, new) :
    /\ assigned' = [assigned EXCEPT ![h] = kept]
    /\ UNCHANGED <<eligible, awards, leased, hoofprints, finalizing, history, requests>>

\* Mutant: the assignment is deleted with whatever hangs on it (CASCADE).
ShowHorseRemove_Cascade(h) ==
  /\ h \in Assigned
  /\ assigned' = [assigned EXCEPT ![h] = NoAssignment]
  /\ awards' = [s \in Sessions |-> IF awards[s] = h THEN "none" ELSE awards[s]]
  /\ UNCHANGED <<eligible, leased, hoofprints, finalizing, history, requests>>

ShowHorseRemove(h) ==
  /\ h \in Assigned
  /\ \A s \in Sessions : awards[s] # h
  /\ assigned' = [assigned EXCEPT ![h] = NoAssignment]
  /\ UNCHANGED <<eligible, awards, leased, hoofprints, finalizing, history, requests>>

\* One award a session; its horse is available when the award is given or edited.
MayWin(h) == h \in Available
ShowHorseAwardSave(s, h) ==
  /\ MayWin(h)
  /\ awards' = [awards EXCEPT ![s] = h]
  /\ UNCHANGED <<eligible, assigned, leased, hoofprints, finalizing, history, requests>>

ShowHorseAwardRemove(s) ==
  /\ awards[s] # "none"
  /\ awards' = [awards EXCEPT ![s] = "none"]
  /\ UNCHANGED <<eligible, assigned, leased, hoofprints, finalizing, history, requests>>

ShowLeasedHorseSave(n, new) ==
  /\ leased' = [leased EXCEPT ![n] = new]
  /\ UNCHANGED <<eligible, assigned, awards, hoofprints, finalizing, history, requests>>

ShowLeasedHorseRemove(n) == leased[n].exists /\ ShowLeasedHorseSave(n, NoLease)

(*------------------------------ hoofprints -------------------------------*)
Payload == Available        \* the horses a Hoofprint lists

\* show_hoofprint_finalize: the payload and the last version are read first, then saved.
FinalizeRead ==
  /\ Len(finalizing) < MaxRequests
  /\ Len(hoofprints) < MaxVersions
  /\ ComplianceReady
  /\ finalizing' = Append(finalizing, [version |-> Len(hoofprints) + 1, horses |-> Payload])
  /\ UNCHANGED <<eligible, assigned, awards, leased, hoofprints, history, requests>>

Versions == {hoofprints[i].version : i \in 1..Len(hoofprints)}
\* Mutant: nothing makes the version unique.
FinalizeInsert_Twice ==
  /\ finalizing # <<>>
  /\ hoofprints' = Append(hoofprints, Head(finalizing))
  /\ finalizing' = Tail(finalizing)
  /\ UNCHANGED <<eligible, assigned, awards, leased, history, requests>>

\* Of two that read the same version the second meets the unique constraint.
FinalizeInsert ==
  /\ finalizing # <<>>
  /\ hoofprints' = IF Head(finalizing).version \in Versions THEN hoofprints ELSE Append(hoofprints, Head(finalizing))
  /\ finalizing' = Tail(finalizing)
  /\ UNCHANGED <<eligible, assigned, awards, leased, history, requests>>

(*--------------------------- post-show history ---------------------------*)
Generated ==
  LET registry == {[source |-> "registry", horse |-> h, used |-> assigned[h].available, counted |-> assigned[h].available]
                     : h \in Assigned}
      shared   == {[source |-> "leased", horse |-> "none", used |-> leased[n].available, counted |-> leased[n].available]
                     : n \in {m \in LeasedNames : leased[m].exists}}
  IN registry \cup shared
Numbered(drafts) ==      \* give each draft an id
  LET rank == CHOOSE f \in [drafts -> 1..MaxRecords] : \A a, b \in drafts : f[a] = f[b] => a = b
  IN {[id |-> rank[d], source |-> d.source, horse |-> d.horse, used |-> d.used, counted |-> d.counted] : d \in drafts}

OnlyHistory == UNCHANGED <<eligible, assigned, awards, leased, hoofprints, finalizing>>

\* Mutant: a final history is built again like a draft.
HistoryBuild_Final ==
  /\ Cardinality(Generated) <= MaxRecords
  /\ history' = [exists |-> TRUE, final |-> FALSE, records |-> Numbered(Generated)]
  /\ UNCHANGED requests /\ OnlyHistory

\* Under the lock: every record is deleted and written again from the plan.
HistoryBuild ==
  /\ history.exists => ~history.final
  /\ Cardinality(Generated) <= MaxRecords
  /\ history' = [exists |-> TRUE, final |-> FALSE, records |-> Numbered(Generated)]
  /\ UNCHANGED requests /\ OnlyHistory

HistoryFinalize ==
  /\ history.exists
  /\ history.final \/ history.records # {}
  /\ history' = [history EXCEPT !.final = TRUE]
  /\ UNCHANGED requests /\ OnlyHistory

\* A request loads the history and sees a draft.
HistoryRequest(kind, id, new) ==
  /\ history.exists /\ ~history.final
  /\ Cardinality(requests) < MaxEditors
  /\ CASE kind = "notes"  -> id = 0
       [] kind = "record" -> \E r \in history.records : r.id = id /\ r.source = new.source
       [] kind = "add"    -> /\ \A r \in history.records : ~(r.horse = new.horse /\ r.used)
                             /\ \A r \in history.records : r.id # id
                             /\ new.source = "other" /\ new.horse # "none" /\ new.used /\ ~new.counted
  /\ requests' = requests \cup {[kind |-> kind, id |-> id, new |-> new]}
  /\ UNCHANGED history /\ OnlyHistory

\* Saving the notes writes the whole row that was loaded, its draft status with it.
SaveNotes(q) ==
  /\ q.kind = "notes"
  /\ history' = [history EXCEPT !.final = FALSE]
  /\ requests' = requests \ {q} /\ OnlyHistory

\* A record is written where it still is; one that a rebuild deleted is inserted again.
SaveRecord(q) ==
  /\ q.kind \in {"record", "add"}
  /\ history' = [history EXCEPT !.records = {r \in @ : r.id # q.id} \cup {q.new}]
  /\ requests' = requests \ {q} /\ OnlyHistory

HistoryStep ==
  \/ HistoryBuild
  \/ HistoryFinalize
  \/ HistoryRequest("notes", 0, NoHistory)
  \/ \E id \in 1..MaxRecords, kind \in {"record", "add"}, new \in Record : new.id = id /\ HistoryRequest(kind, id, new)
  \/ \E q \in requests : SaveNotes(q) \/ SaveRecord(q)

PlanStep ==
  \/ \E h \in ShowHorseSet :
       \/ \E classes \in {NoProfile, {}, SeasonClassIds} : SeasonProfileSave(h, classes)
       \/ \E manager \in BOOLEAN, new \in Assignment : ShowHorseSave(h, manager, new)
       \/ ShowHorseRemove(h)
       \/ \E s \in Sessions : ShowHorseAwardSave(s, h)
  \/ \E s \in Sessions : ShowHorseAwardRemove(s)
  \/ \E n \in LeasedNames :
       \/ \E new \in Lease : ShowLeasedHorseSave(n, new)
       \/ ShowLeasedHorseRemove(n)

HoofprintStep == FinalizeRead \/ FinalizeInsert

ShowHorsesNext == PlanStep \/ HoofprintStep \/ HistoryStep

(*------------------------------ properties -------------------------------*)
ShowHorsesTypeOK ==
  /\ assigned \in [ShowHorseSet -> Assignment \cup {NoAssignment}]
  /\ awards \in Awards
  /\ leased \in [LeasedNames -> Lease \cup {NoLease}]
  /\ \A i \in 1..Len(hoofprints) : hoofprints[i] \in Snapshot
  /\ history \in History \cup {NoHistory}

\* The horse of an award stays assigned to the show, so the award can name it, and planning
\* never takes an award away.
AwardsKeepTheirHorse ==
  [][(assigned' # assigned => awards' = awards) /\ (\A s \in Sessions : awards'[s] # "none" => assigned'[awards'[s]].exists)]_showHorsesVars

\* Only an approved exception lets a horse do a class outside its season profile: an assignment
\* without an override covers such a class only where an earlier save (or a later change of the
\* profile) left it, so a save never adds one.
UnapprovedClassesOnlyLeave ==
  [][\A h \in ShowHorseSet :
       (assigned'[h] # assigned[h] /\ assigned'[h].exists /\ (assigned[h].exists => assigned'[h].override = assigned[h].override)
         /\ ~assigned'[h].override) =>
         Ineligible(h, assigned'[h].classes) \subseteq (IF assigned[h].exists THEN assigned[h].classes ELSE {})]_showHorsesVars

\* Finalized Hoofprints are numbered 1, 2, 3, ... and are never changed, though two people may
\* finalize at once.
HoofprintsAreNumbered ==
  \A i \in 1..Len(hoofprints) : hoofprints[i].version = i

\* The board calls for more horses exactly when the rides are more than the horses there may
\* carry, and a show it calls ready has a fit-for-use horse in every class with riders.
ReadinessIsSound ==
  /\ (Shortage > 0) = (TotalRides > AvailableHorses * Ratio(RidesPerHorse))
  /\ ShowReady => \A c \in ShowClassIds : EntriesOf[c] > 0 =>
       \/ \E h \in Assigned \ Unfit : assigned[h].available /\ c \in assigned[h].classes
       \/ \E n \in AvailableLeases : c \in leased[n].classes

\* A history that is final has records, and a rebuild never takes them.
FinalHistoryKeepsRecords ==
  [][(history.exists /\ history.final) =>
       /\ history.records # {}
       /\ {r.id : r \in history.records} \subseteq {r.id : r \in history'.records}]_showHorsesVars

=============================================================================
