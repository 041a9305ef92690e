------------------------------- MODULE MCShowDay -------------------------------
(***************************************************************************)
(* The show day for TLC.  The parts of a show day that share no state are  *)
(* explored one at a time: `part` says which one moves.                    *)
(***************************************************************************)
EXTENDS HostShow, ShowEntries, ShowBoard, ShowPlanning, HistoryImport

CONSTANTS Ann, Bea,
          Parts         \* the parts explored

VARIABLE part
showDayVars == <<part, liveShowVars, hostVars, showEntriesVars, showBoardVars, showPlanningVars, historyVars>>

\* Everything but the part named stays.
OnlyLive     == UNCHANGED <<hostVars, showEntriesVars, showBoardVars, showPlanningVars, historyVars>>
OnlyHosting  == UNCHANGED <<showEntriesVars, showBoardVars, showPlanningVars, historyVars>>
OnlyEntries  == UNCHANGED <<liveShowVars, hostVars, showBoardVars, showPlanningVars, historyVars>>
OnlyBoard    == UNCHANGED <<liveShowVars, hostVars, showEntriesVars, showPlanningVars, historyVars>>
OnlyPlanning == UNCHANGED <<liveShowVars, hostVars, showEntriesVars, showBoardVars, historyVars>>
OnlyHistory  == UNCHANGED <<liveShowVars, hostVars, showEntriesVars, showBoardVars, showPlanningVars>>

\* A manager without a role in the show, a team parent and a guardian.
MCFacts == [coach |-> [super |-> FALSE, role |-> "coach", committee |-> {}, leads |-> FALSE],
            upmom |-> [super |-> FALSE, role |-> "parent", committee |-> {"upper_parent"}, leads |-> FALSE],
            dad   |-> [super |-> FALSE, role |-> "parent", committee |-> {}, leads |-> FALSE]]
MCParticipantLevel == [up |-> "upper", fut |-> "futures"]
MCLegacyRiderOf    == [up |-> "rider_up", fut |-> "none"]
MCFamily           == [coach |-> {}, upmom |-> {"up"}, dad |-> {"fut"}]
MCBoardLevel       == <<"upper", "both">>
MCShifts           == {-2, 1}

\* Two season classes and a warm-up.
MCClassInfo ==
  [H7  |-> [kind |-> "season", level |-> "both", team |-> TRUE, individual |-> TRUE, code |-> "H7", warmupFor |-> {}],
   H9 |-> [kind |-> "season", level |-> "both", team |-> TRUE, individual |-> TRUE, code |-> "H9", warmupFor |-> {}],
   H7X |-> [kind |-> "show_only", level |-> "both", team |-> FALSE, individual |-> FALSE, code |-> "H7X",
            warmupFor |-> {"H7"}]]
MCLevelOf == [r \in {Ann, Bea} |-> "upper"]
MCScales  == {[p \in 1..1 |-> 7], [p \in 1..1 |-> 5]}

MCSettings == {[isPublished |-> p, publishLive |-> l, publishResults |-> FALSE] : p \in {TRUE}, l \in BOOLEAN}
              \cup {[isPublished |-> FALSE, publishLive |-> TRUE, publishResults |-> TRUE]}

MCDefaults == <<[type |-> "volunteer", name |-> "ring crew"]>>
MCFamilyLevels == [coach |-> {}, upmom |-> {"upper"}, dad |-> {"futures"}]

\* Rider 1 has number 1; rider 2 is a namesake, another rider or not there, without a number.
MCRider(r) == [exists |-> r = 1, name |-> IF r = 1 THEN 1 ELSE 0, alias |-> 0, number |-> IF r = 1 THEN 1 ELSE 0]
MCRosters == {[r \in {1, 2} |-> IF r = 1 THEN MCRider(1) ELSE two] :
                two \in {MCRider(2), [exists |-> TRUE, name |-> 2, alias |-> 0, number |-> 0]}}
MCLine(n, name, class, meet, track, points) ==
  [number |-> n, name |-> name, class |-> class, meet |-> meet, track |-> track, points |-> points]
MCFiles == {<<MCLine(2, 2, "varsity", "fair", "regular", 3)>>,
            <<MCLine(2, 1, "varsity", "fair", "regular", 3)>>,
            <<MCLine(1, 1, "varsity", "fair", "regular", 3), MCLine(1, 2, "jv", "fair", "regular", 3)>>}
MCTemplates == {<<MCLine(0, 1, "varsity", "fair", "regular", 3)>>}
MCNamedLevel == [varsity |-> "upper", jv |-> ""]
MCGradeLevel == <<"upper", "">>

\* Riders placed in both VOC classes: up to three, with two totals and two H1 places.
MCTables == UNION {[riders -> [total : {1, 2}, h1Place : {1, 2}]] : riders \in SUBSET (1..3)}

\* Bounds of the history part: at most two entries, none a points rider; only rider 2's number and
\* rider 1's seat are edited in the portal; a preview that shows errors is uploaded again, not kept.
FewRides ==
  /\ Cardinality(archive'.results) <= 2 /\ \A e \in archive'.results : ~e.pointRider
  /\ \A c \in ClassIds : archive'.classes[c].exists => /\ archive'.classes[c].name = IF c = 1 THEN "varsity" ELSE "jv"
                                                       /\ archive'.classes[c].level = IF c = 1 THEN "upper" ELSE "both"
  /\ archive'.riders[1].number = 1
  /\ archive'.seats[1].held => archive'.seats[1].level = "upper"
  /\ archive'.seats[2] # archive.seats[2] => previews' # previews
  /\ \A m \in Importers : \A i \in DOMAIN previews'[m] : ~previews'[m][i].errors

ShowDayInit ==
  /\ part \in Parts
  /\ LiveShowInit /\ HostShowInit /\ ShowEntriesInit /\ ShowBoardInit /\ ShowPlanningInit /\ HistoryInit
  /\ part # "history" => archive.riders = [r \in RosterIds |-> MCRider(r)]
  /\ part # "entries" => scale[1] = 7
  /\ part # "check-in" => statusRows = {}

ShowDayNext ==
  /\ UNCHANGED part
  /\ \/ part = "live" /\ LiveShowNext /\ OnlyLive
     \/ part = "hosting" /\ HostShowNext /\ OnlyHosting
     \/ part = "entries" /\ ShowEntriesNext /\ OnlyEntries
     \/ part = "check-in" /\ CheckInStep /\ OnlyBoard
     \/ part = "schedule" /\ ScheduleStep /\ OnlyBoard
     \/ part = "updates" /\ UpdateStep /\ OnlyBoard
     \/ part = "spectators" /\ SpectatorStep /\ OnlyBoard
     \/ part = "planning" /\ ShowPlanningNext /\ OnlyPlanning
     \/ part = "history" /\ HistoryNext /\ FewRides /\ OnlyHistory

ShowDaySpec == ShowDayInit /\ [][ShowDayNext]_showDayVars

(*------------------------------ properties -------------------------------*)

\* The code's VOC list against the rule, over the bounded tables.
VocListsAreTheRule ==
  (part = "planning" /\ items = <<>>) =>
    \A table \in MCTables, cutoff \in 1..2 : VocListIsTheRule(table, cutoff) /\ VocMarksAreUndecided(table, cutoff)

\* What holds of a show day between two requests: the current class is there, a class pays a team
\* once and only rows that score, the VOC list is the rule, shifts of the schedule can be undone,
\* notices reach those who may read them, checkpoints are stamped, starter items come once, an
\* open item has no owner, and every historical ride has its show.
ShowDayInvariant ==
  /\ LiveShowTypeOK /\ HostShowTypeOK /\ ShowEntriesTypeOK /\ ShowBoardTypeOK /\ ShowPlanningTypeOK /\ HistoryTypeOK
  /\ CurrentClassExists
  /\ OnePointsRider /\ PointsRidersScore /\ TracksMatchLevel /\ VocListsAreTheRule
  /\ OneStatusPerRider /\ ShiftsAreReversible /\ NoticesAreReadable
  /\ CheckpointsAreStamped
  /\ StarterItemsOnce /\ OpenItemsHaveNoOwner
  /\ RidesHaveTheirShow

\* What no request may do: start a class in a busy ring, touch an archived class, reopen a finished
\* show, lose a designation on the way, check in unseen, move the baseline, take a notice back
\* unasked, leave two delays for a ring, change a closed host show, hand a claimed item to another,
\* plan for another level, or leave an emptied historical show.
ShowDaySteps ==
  /\ ClassesStartInFreeRings /\ ArchivedClassesAreFrozen /\ FinishedShowStaysFinished
  /\ DesignationMovesWhole
  /\ CheckInIsShown /\ BaselineIsFixed /\ NoticesAreKept /\ DelayReplacesDelay
  /\ ClosedHostShowIsReadOnly
  /\ ClaimsAreHonoured /\ PlannersKeepToTheirLevel
  /\ EmptiedShowsGo
=============================================================================
