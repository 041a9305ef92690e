----------------------------- MODULE ShowBoard ------------------------------
(***************************************************************************)
(* The show-day board of one show: check-in of the riders, the running     *)
(* order and its times, private updates with their notifications, and the  *)
(* spectator updates (show_day.py, show_day_helpers.py,                    *)
(* spectator_updates.py, show_day_state.py).  A request is one step, made  *)
(* by one of the logins; the season is open (in an archived one every      *)
(* request here is refused first, _ensure_season_open).                    *)
(***************************************************************************)
EXTENDS Integers, FiniteSets, Sequences, Access, SequencesExt

CONSTANTS Logins,         \* user accounts
          Facts,          \* login -> what Access reads of it
          Participants,   \* IEA participants with an active entry in the show
          ParticipantLevel, \* participant -> team level
          LegacyRiderOf,  \* participant -> its legacy rider, or "none"
          Family,         \* login -> participants it is or is the guardian of
          BoardClasses,   \* classes of the show
          BoardLevel,     \* class -> "futures", "upper" or "both"
          DayLength,      \* time units in a day
          Shifts,         \* schedule adjustments on offer
          PageSize,       \* spectator updates shown (8 in the code)
          MaxUpdates      \* bound on spectator updates and on private updates

ASSUME ShowBoardAssumption ==
  /\ Facts \in [Logins -> Login]
  /\ DayLength \in Nat \ {0}
  /\ Shifts \subseteq -DayLength + 1..DayLength - 1
  /\ "none" \notin Participants
  \* A legacy rider is bound to one participant at most.
  /\ \A p, q \in Participants : LegacyRiderOf[p] = LegacyRiderOf[q] => p = q \/ LegacyRiderOf[p] = "none"
  /\ PageSize \in Nat \ {0} /\ MaxUpdates \in Nat

VARIABLES statusRows,   \* ShowDayRiderStatus rows
          schedule,     \* class -> prize_list_time, estimated_time
          dayUpdates,   \* ShowDayUpdate rows, oldest first
          notices,      \* <<login, update, audience when sent>>: Notification rows
          spectator     \* SpectatorShowUpdate rows of one show, oldest first

showBoardVars == <<statusRows, schedule, dayUpdates, notices, spectator>>

RiderStatuses == {"expected", "arrived", "running_late", "scratched", "finished"}
NoTime == -1
TimesOfDay == 0..DayLength - 1
Audiences == {"all", "futures", "upper"}
Legacy == {LegacyRiderOf[p] : p \in Participants} \ {"none"}

StatusRow    == [participant : Participants \cup {"none"}, rider : Legacy \cup {"none"}, status : RiderStatuses]
ScheduleRow  == [prize : TimesOfDay \cup {NoTime}, estimate : TimesOfDay \cup {NoTime}]
DayUpdateRow == [audience : Audiences, published : BOOLEAN]
SpectatorRow == [delay : BOOLEAN, ring : {"", "Main ring"}, active : BOOLEAN]

(*------------------------------- check-in --------------------------------*)

MayUpdateStatus(u, p) ==
  \/ p \in Family[u]
  \/ CanRunShow(Facts[u])
  \/ ParticipantLevel[p] \in ParentLevels(Facts[u])

\* The participant's row; failing that, the legacy rider's row not yet bound to a participant.
RowsOf(p) == {s \in statusRows : s.participant = p}
AdoptableRows(p) == {s \in statusRows : s.participant = "none" /\ s.rider = LegacyRiderOf[p] /\ s.rider # "none"}

\* Mutant: the legacy row is neither adopted nor refused.
RiderStatusUpdate_Twice(u, p, status) ==
  /\ MayUpdateStatus(u, p)
  /\ statusRows' = (statusRows \ RowsOf(p)) \cup {[participant |-> p, rider |-> LegacyRiderOf[p], status |-> status]}
  /\ UNCHANGED <<schedule, dayUpdates, notices, spectator>>

\* Mutant: the adopted row is not bound to the participant.
RiderStatusUpdate_Unbound(u, p, status) ==
  LET found == IF RowsOf(p) # {} THEN RowsOf(p) ELSE AdoptableRows(p)
      saved == IF found = {} THEN {[participant |-> p, rider |-> LegacyRiderOf[p], status |-> status]}
               ELSE {[s EXCEPT !.status = status] : s \in found}
  IN /\ MayUpdateStatus(u, p)
     /\ statusRows' = (statusRows \ found) \cup saved
     /\ UNCHANGED <<schedule, dayUpdates, notices, spectator>>

RiderStatusUpdate(u, p, status) ==
  LET own   == RowsOf(p)
      found == IF own # {} THEN own ELSE AdoptableRows(p)
      row(s) == [participant |-> p, rider |-> IF s.rider = "none" THEN LegacyRiderOf[p] ELSE s.rider,
                 status |-> status]
      saved == IF found = {} THEN {[participant |-> p, rider |-> LegacyRiderOf[p], status |-> status]}
               ELSE {row(s) : s \in found}
  IN /\ MayUpdateStatus(u, p)
     \* full_clean refuses a second row for the rider
     /\ \A s \in statusRows \ found, n \in saved : s.rider # n.rider \/ s.rider = "none"
     /\ statusRows' = (statusRows \ found) \cup saved
     /\ UNCHANGED <<schedule, dayUpdates, notices, spectator>>

\* What the board prints beside a participant: rows without a participant are not read.
BoardStatus(p) == IF RowsOf(p) = {} THEN "expected" ELSE (CHOOSE s \in RowsOf(p) : TRUE).status

\* The riders the board lists to a login, and how many of them have a status.
BoardRows(u) ==
  IF ShowDayOperational(Facts[u])
  THEN {p \in Participants : {"everyone", ParticipantLevel[p]} \cap OperationalLevels(Facts[u]) # {}}
  ELSE {p \in Family[u] : LegacyRiderOf[p] # "none"}
BoardCount(u, status) == Cardinality({p \in BoardRows(u) : BoardStatus(p) = status})

(*------------------------------- schedule --------------------------------*)

Editable(u) == {c \in BoardClasses : BoardLevel[c] \in ScheduleEditLevels(Facts[u])}
ScheduleTime(c) == IF schedule[c].estimate # NoTime THEN schedule[c].estimate ELSE schedule[c].prize

\* Mutant: times stop at midnight.
Shifted_Clamped(t, minutes) ==
  IF t + minutes < 0 THEN 0 ELSE IF t + minutes >= DayLength THEN DayLength - 1 ELSE t + minutes

\* A time of day: adding minutes wraps at midnight.
Shifted(t, minutes) == (t + minutes) % DayLength

ScheduleSave(u, c, prize, estimate) ==
  /\ c \in Editable(u)
  /\ schedule' = [schedule EXCEPT ![c] = [prize |-> prize, estimate |-> estimate]]
  /\ UNCHANGED <<statusRows, dayUpdates, notices, spectator>>

\* Mutant: the baseline is reset to the estimate.
ScheduleReset_Swapped(u) ==
  /\ Editable(u) # {}
  /\ schedule' = [c \in BoardClasses |-> IF c \in Editable(u)
                                         THEN [schedule[c] EXCEPT !.prize = schedule[c].estimate] ELSE schedule[c]]
  /\ UNCHANGED <<statusRows, dayUpdates, notices, spectator>>

ScheduleReset(u) ==
  /\ Editable(u) # {}
  /\ schedule' = [c \in BoardClasses |-> IF c \in Editable(u)
                                         THEN [schedule[c] EXCEPT !.estimate = schedule[c].prize] ELSE schedule[c]]
  /\ UNCHANGED <<statusRows, dayUpdates, notices, spectator>>

\* From a class on, in the show order (the classes are numbered by it).
ScheduleShift(u, start, minutes) ==
  /\ Editable(u) # {}
  /\ schedule' = [c \in BoardClasses |->
       IF c \in Editable(u) /\ c >= start /\ ScheduleTime(c) # NoTime
       THEN [schedule[c] EXCEPT !.estimate = Shifted(ScheduleTime(c), minutes)] ELSE schedule[c]]
  /\ UNCHANGED <<statusRows, dayUpdates, notices, spectator>>

(*---------------------------- private updates ----------------------------*)

FamilyOf(audience) ==
  {u \in Logins : \E p \in Family[u] : /\ LegacyRiderOf[p] # "none"
                                        /\ audience \in {"all", ParticipantLevel[p]}}

Recipients(audience) ==
  {u \in Logins : \/ u \in FamilyOf(audience)
                  \/ CanRunShow(Facts[u]) /\ ~(Facts[u].super /\ Facts[u].role \notin {"admin", "coach"} /\ ~Facts[u].leads)
                  \/ "points_secretary" \in Facts[u].committee
                  \/ \E level \in TeamLevels : /\ audience \in {"all", level}
                                               /\ level \in ParentLevels(Facts[u])}

\* Managers and leads see every published update, everybody else those addressed to them.
VisibleUpdates(u) ==
  {k \in 1..Len(dayUpdates) : /\ dayUpdates[k].published
                              /\ CanRunShow(Facts[u]) \/ u \in Recipients(dayUpdates[k].audience)}

\* Mutant: everybody of the show is notified.
Deliver_ToEveryone(k, audience, notify) ==
  notices' = IF notify THEN notices \cup {<<u, k, audience>> : u \in Recipients("all")} ELSE notices

\* Mutant: the notifications of an update are replaced.
Deliver_Replaces(k, audience, notify) ==
  notices' = IF notify THEN {n \in notices : n[2] # k} \cup {<<u, k, audience>> : u \in Recipients(audience)} ELSE notices

Deliver(k, audience, notify) ==
  notices' = IF notify THEN notices \cup {<<u, k, audience>> : u \in Recipients(audience)} ELSE notices

ShowDayUpdateAdd(u, audience, published, notify) ==
  /\ audience \in UpdateAudiences(Facts[u])
  /\ Len(dayUpdates) < MaxUpdates                                              \* bound
  /\ dayUpdates' = Append(dayUpdates, [audience |-> audience, published |-> published])
  /\ Deliver(Len(dayUpdates) + 1, audience, published /\ notify)
  /\ UNCHANGED <<statusRows, schedule, spectator>>

ShowDayUpdateEdit(u, k, audience, published, notify) ==
  /\ dayUpdates[k].audience \in UpdateAudiences(Facts[u])
  /\ audience \in UpdateAudiences(Facts[u])
  /\ dayUpdates' = [dayUpdates EXCEPT ![k] = [audience |-> audience, published |-> published]]
  /\ Deliver(k, audience, published /\ notify)
  /\ UNCHANGED <<statusRows, schedule, spectator>>

ShowDayUpdateRetract(u, k) ==
  /\ dayUpdates[k].audience \in UpdateAudiences(Facts[u])
  /\ dayUpdates' = [dayUpdates EXCEPT ![k].published = FALSE]
  /\ UNCHANGED <<statusRows, schedule, notices, spectator>>

(*--------------------------- spectator updates ---------------------------*)

\* An announcement can also be of the delay kind, and its ring may be left empty.
SpectatorAnnouncementAdd(u, delay, ring) ==
  /\ CanRunShow(Facts[u])
  /\ Len(spectator) < MaxUpdates + 1                                           \* bound
  /\ spectator' = Append(spectator, [delay |-> delay, ring |-> ring, active |-> TRUE])
  /\ UNCHANGED <<statusRows, schedule, dayUpdates, notices>>

\* Mutant: the announcements are withdrawn instead of the delays.
Superseded_Announcements(rows, ring) ==
  [i \in 1..Len(rows) |-> [rows[i] EXCEPT !.active = @ /\ (rows[i].delay \/ rows[i].ring # ring)]]

\* Delays of the ring that is named are withdrawn; an empty ring is sent as "Main ring".
Superseded(rows, ring) ==
  [i \in 1..Len(rows) |-> [rows[i] EXCEPT !.active = @ /\ ~(rows[i].delay /\ rows[i].ring = ring)]]

SpectatorRingDelay(u, cleared) ==
  /\ CanRunShow(Facts[u])
  /\ cleared \/ Len(spectator) < MaxUpdates + 1                                \* bound
  /\ LET rest == Superseded(spectator, "Main ring")
     IN spectator' = IF cleared THEN rest
                     ELSE Append(rest, [delay |-> TRUE, ring |-> "Main ring", active |-> TRUE])
  /\ UNCHANGED <<statusRows, schedule, dayUpdates, notices>>

SpectatorDismiss(u, i) ==
  /\ CanRunShow(Facts[u])
  /\ spectator' = [spectator EXCEPT ![i].active = FALSE]
  /\ UNCHANGED <<statusRows, schedule, dayUpdates, notices>>

\* The newest active updates fill the page.
SpectatorPage ==
  {i \in 1..Len(spectator) :
     spectator[i].active /\ Cardinality({j \in i + 1..Len(spectator) : spectator[j].active}) < PageSize}

(*------------------------------ behaviours -------------------------------*)

\* Rows of earlier releases carry only the legacy rider.
ShowBoardInit ==
  /\ statusRows \in {{}, {[participant |-> "none", rider |-> r, status |-> "arrived"] : r \in Legacy}}
  /\ schedule = [c \in BoardClasses |-> [prize |-> NoTime, estimate |-> NoTime]]
  /\ dayUpdates = <<>>
  /\ notices = {}
  /\ spectator = <<>>

CheckInStep == \E u \in Logins, p \in Participants, s \in {"expected", "arrived"} : RiderStatusUpdate(u, p, s)

ScheduleStep ==
  \/ \E u \in Logins, c \in BoardClasses, prize, estimate \in {NoTime, 0, DayLength - 1} :
       ScheduleSave(u, c, prize, estimate)
  \/ \E u \in Logins : ScheduleReset(u)
  \/ \E u \in Logins, start \in BoardClasses, minutes \in Shifts : ScheduleShift(u, start, minutes)

UpdateStep ==
  \/ \E u \in Logins, a \in Audiences, published, notify \in BOOLEAN : ShowDayUpdateAdd(u, a, published, notify)
  \/ \E u \in Logins, k \in 1..Len(dayUpdates), a \in Audiences, published, notify \in BOOLEAN :
       ShowDayUpdateEdit(u, k, a, published, notify)
  \/ \E u \in Logins, k \in 1..Len(dayUpdates) : ShowDayUpdateRetract(u, k)

SpectatorStep ==
  \/ \E u \in Logins, delay \in BOOLEAN, ring \in {"", "Main ring"} : SpectatorAnnouncementAdd(u, delay, ring)
  \/ \E u \in Logins, cleared \in BOOLEAN : SpectatorRingDelay(u, cleared)
  \/ \E u \in Logins, i \in 1..Len(spectator) : SpectatorDismiss(u, i)

ShowBoardNext == CheckInStep \/ ScheduleStep \/ UpdateStep \/ SpectatorStep

(*------------------------------ properties -------------------------------*)

ShowBoardTypeOK ==
  /\ statusRows \subseteq StatusRow
  /\ schedule \in [BoardClasses -> ScheduleRow]
  /\ dayUpdates \in Seq(DayUpdateRow) /\ Len(dayUpdates) <= MaxUpdates
  /\ notices \subseteq Logins \X (1..MaxUpdates) \X Audiences
  /\ spectator \in Seq(SpectatorRow)

\* A rider has one status: checking in by participant adopts the row of the legacy rider, so
\* the two identities never disagree about where a rider is (show_day_rider_status_update).
OneStatusPerRider ==
  \A s, t \in statusRows : (s.participant = t.participant /\ s.participant # "none")
                            \/ (s.rider = t.rider /\ s.rider # "none") => s = t

\* The board prints what was last reported: after a check-in the participant shows that status.
CheckInIsShown ==
  [][\A s \in statusRows' \ statusRows, p \in Participants :
       (s.participant = p \/ (s.rider # "none" /\ s.rider = LegacyRiderOf[p])) => BoardStatus(p)' = s.status]_showBoardVars

\* The published prize-list time is the baseline: only the schedule form changes it, never a
\* shift or a reset of the estimates, which change no class of another level either.
BaselineIsFixed ==
  [][Cardinality({c \in BoardClasses : schedule'[c] # schedule[c]}) > 1
       => \A c \in BoardClasses : schedule'[c].prize = schedule[c].prize]_showBoardVars

\* A shift can be taken back: every scheduled time stays a time of day, and moving the same
\* classes back by as much restores it, also across midnight.
ShiftsAreReversible ==
  \A c \in BoardClasses, minutes \in Shifts :
    ScheduleTime(c) # NoTime =>
      /\ Shifted(ScheduleTime(c), minutes) \in TimesOfDay
      /\ Shifted(Shifted(ScheduleTime(c), minutes), -minutes) = ScheduleTime(c)

\* Whoever is told of an update can read it: while it is published for the audience it was
\* sent to, each of its notifications belongs to a login that sees it on the updates page.
NoticesAreReadable ==
  \A n \in notices : (dayUpdates[n[2]].published /\ dayUpdates[n[2]].audience = n[3]) => n[2] \in VisibleUpdates(n[1])

\* Notifications already sent are kept when an update is edited or retracted.
NoticesAreKept == [][notices \subseteq notices']_showBoardVars

\* A ring delay replaces the one before it: when one is posted for a ring, no older delay of
\* that ring is left active, and the new one is on the page.
DelayReplacesDelay ==
  [][(Len(spectator') = Len(spectator) + 1 /\ spectator # <<>> /\ \E i \in 1..Len(spectator) : spectator'[i] # spectator[i])
       => /\ Len(spectator') \in SpectatorPage'
          /\ \A i \in 1..Len(spectator) : ~(spectator'[i].active /\ spectator'[i].delay /\ spectator'[i].ring = "Main ring")
    ]_showBoardVars
=============================================================================
