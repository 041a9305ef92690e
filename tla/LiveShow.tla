------------------------------ MODULE LiveShow ------------------------------
(***************************************************************************)
(* The classes of one show while it runs: the live state and the ring of   *)
(* each class, the publication settings of the show, and what an anonymous *)
(* spectator is shown (show_class_live.py, publication.py,                 *)
(* public_site_admin.py, show_day_state.py, competitions.py).  A request   *)
(* is one step.                                                            *)
(***************************************************************************)
EXTENDS Naturals, FiniteSets

CONSTANTS Classes,        \* classes the show can hold, by their position in the show order
          RingNames,      \* ring names a form can send besides the empty one
          FormStatuses,   \* show statuses the show form is used to set
          FormSettings    \* publication settings the publication form is used to set

VARIABLES showStatus,     \* Show.status
          seasonClosed,   \* Season.is_closed
          classes,        \* class -> its rows, or NoClass
          publication     \* PublicShowPublication row, or NoPublication

liveShowVars == <<showStatus, seasonClosed, classes, publication>>

ShowStatuses  == {"planning", "registration", "entered", "in_progress", "paused", "complete", "cancelled"}
Settings      == [isPublished : BOOLEAN, publishLive : BOOLEAN, publishResults : BOOLEAN]

ASSUME LiveShowAssumption ==
  /\ Classes \subseteq Nat /\ 0 \notin Classes
  /\ "Main ring" \notin RingNames
  /\ FormStatuses \subseteq ShowStatuses /\ FormSettings \subseteq Settings

ClassStatuses == {"not_started", "in_progress", "paused", "complete"}
ActiveStatuses == {"in_progress", "paused"}

NoClass == [exists |-> FALSE]
NoRow   == [status |-> "no_row", resultsPublished |-> FALSE]
NoRing  == "no_row"
NoPublication == [exists |-> FALSE]
NoCurrent == 0             \* current_class is NULL

\* live: ShowClassLiveState; ring: ShowClassRingAssignment; placed: an entry has a place.
ClassRow == [exists : {TRUE},
             live   : [status : ClassStatuses, resultsPublished : BOOLEAN] \cup {NoRow},
             ring   : RingNames \cup {"", NoRing},
             placed : BOOLEAN]

PublicationRow == [exists : {TRUE}, settings : Settings, current : Classes \cup {NoCurrent}]

Present == {c \in Classes : classes[c].exists}
HasRow(c) == classes[c].live # NoRow
Status(c) == classes[c].live.status

RingDisplay(name) == IF name \in {"", NoRing} THEN "Main ring" ELSE name
RingOf(c) == RingDisplay(classes[c].ring)

\* Mutant: paused classes leave their ring.
ActiveRingConflict_PausedGone(c, ring) ==
  \E d \in Present \ {c} : Status(d) = "in_progress" /\ RingOf(d) = ring

\* Another active class in the given ring.
ActiveRingConflict(c, ring) ==
  \E d \in Present \ {c} : Status(d) \in ActiveStatuses /\ RingOf(d) = ring

LiveShowInit ==
  /\ showStatus = "planning"
  /\ seasonClosed = FALSE
  /\ classes = [c \in Classes |-> NoClass]
  /\ publication = NoPublication

(*------------------------- running the classes ---------------------------*)

\* The row made by get_or_create before the form's answer is written.
StoredRing(c) == IF classes[c].ring = NoRing THEN "" ELSE classes[c].ring

\* The conflict test reads the class's ring through the class again: that is the
\* unsaved row when the request has just created it, the stored one otherwise.
CheckedRing(c, ring) == RingDisplay(IF classes[c].ring = NoRing THEN ring ELSE classes[c].ring)

ClassRingUpdate(c, ring) ==
  /\ ~seasonClosed
  /\ classes' = [classes EXCEPT ![c].ring =
                   IF ring = StoredRing(c) \/ ActiveRingConflict(c, CheckedRing(c, ring))
                   THEN StoredRing(c) ELSE ring]
  /\ UNCHANGED <<showStatus, seasonClosed, publication>>

StoredLive(c) == IF HasRow(c) THEN classes[c].live ELSE [status |-> "not_started", resultsPublished |-> FALSE]

\* Mutant: starting a class starts the show whatever its status.
ShowStatusAfter_Always(status) == IF status = "in_progress" THEN "in_progress" ELSE showStatus

ShowStatusAfter(status) ==
  IF status = "in_progress" /\ showStatus \in {"planning", "registration", "entered", "paused"}
  THEN "in_progress" ELSE showStatus

\* The spectators' current class follows the class that starts or completes.
PublicationAfter(c, status) ==
  IF ~publication.exists THEN publication
  ELSE IF ~publication.settings.publishLive THEN publication
  ELSE IF status = "in_progress" THEN [publication EXCEPT !.current = c]
  ELSE IF status = "complete" /\ publication.current = c THEN [publication EXCEPT !.current = NoCurrent]
  ELSE publication

ClassStatusUpdate(c, status) ==
  /\ ~seasonClosed
  /\ status = "in_progress" => ~ActiveRingConflict(c, RingOf(c))
  /\ classes' = [classes EXCEPT ![c].live = [StoredLive(c) EXCEPT !.status = status]]
  /\ showStatus' = ShowStatusAfter(status)
  /\ publication' = PublicationAfter(c, status)
  /\ UNCHANGED seasonClosed

\* Mutant: a class need not be complete.
MayPublishResults_Early(c) == classes[c].placed /\ publication.exists /\ publication.settings.isPublished

\* A refused publication still leaves the row that get_or_create made.
MayPublishResults(c) ==
  /\ Status(c) = "complete"
  /\ classes[c].placed
  /\ publication.exists
  /\ publication.settings.isPublished

ClassResultsPublicationUpdate(c, publish) ==
  /\ ~seasonClosed
  /\ UNCHANGED <<showStatus, seasonClosed>>
  /\ IF publish /\ ~MayPublishResults(c)
     THEN /\ classes' = [classes EXCEPT ![c].live = StoredLive(c)]
          /\ UNCHANGED publication
     ELSE /\ classes' = [classes EXCEPT ![c].live = [StoredLive(c) EXCEPT !.resultsPublished = publish]]
          /\ publication' = IF publish THEN [publication EXCEPT !.settings.publishResults = TRUE]
                            ELSE publication

(*------------------- editing the show and its classes --------------------*)

ShowEdit(status) ==
  /\ ~seasonClosed
  /\ showStatus' = status
  /\ UNCHANGED <<seasonClosed, classes, publication>>

ShowClassCreate(c) ==
  /\ ~seasonClosed
  /\ c \notin Present
  /\ classes' = [classes EXCEPT ![c] = [exists |-> TRUE, live |-> NoRow, ring |-> NoRing, placed |-> FALSE]]
  /\ UNCHANGED <<showStatus, seasonClosed, publication>>

\* Mutant: the publication keeps pointing at the class.
ShowClassDelete_Dangling(c) ==
  /\ ~seasonClosed
  /\ classes' = [classes EXCEPT ![c] = NoClass]
  /\ UNCHANGED <<showStatus, seasonClosed, publication>>

\* The live state, the ring and the results go with the class; the pointer is set to NULL.
ShowClassDelete(c) ==
  /\ ~seasonClosed
  /\ classes' = [classes EXCEPT ![c] = NoClass]
  /\ publication' = IF publication.exists /\ publication.current = c
                    THEN [publication EXCEPT !.current = NoCurrent] ELSE publication
  /\ UNCHANGED <<showStatus, seasonClosed>>

\* Mutant: results of an archived season can be edited.
ShowResultEdit_Archived(c, placed) ==
  /\ classes' = [classes EXCEPT ![c].placed = placed]
  /\ UNCHANGED <<showStatus, seasonClosed, publication>>

\* Saving a result with a place, or removing the last place of a class.
ShowResultEdit(c, placed) ==
  /\ ~seasonClosed
  /\ classes' = [classes EXCEPT ![c].placed = placed]
  /\ UNCHANGED <<showStatus, seasonClosed, publication>>

\* The publication form is not guarded by the season.
PublicationEdit(settings, current) ==
  /\ publication' = [exists |-> TRUE, settings |-> settings, current |-> current]
  /\ UNCHANGED <<showStatus, seasonClosed, classes>>

SeasonClosing(closed) ==
  /\ seasonClosed' = closed
  /\ UNCHANGED <<showStatus, classes, publication>>

LiveShowNext ==
  \/ \E c \in Present, ring \in RingNames \cup {""} : ClassRingUpdate(c, ring)
  \/ \E c \in Present, status \in ClassStatuses : ClassStatusUpdate(c, status)
  \/ \E c \in Present, publish \in BOOLEAN : ClassResultsPublicationUpdate(c, publish)
  \/ \E status \in FormStatuses : ShowEdit(status)
  \/ \E c \in Classes : ShowClassCreate(c)
  \/ \E c \in Present : ShowClassDelete(c)
  \/ \E c \in Present, placed \in BOOLEAN : ShowResultEdit(c, placed)
  \/ \E settings \in FormSettings, current \in Present \cup {NoCurrent} : PublicationEdit(settings, current)
  \/ \E closed \in BOOLEAN : SeasonClosing(closed)

LiveShowSpec == LiveShowInit /\ [][LiveShowNext]_liveShowVars

(*------------------------ what spectators are shown ----------------------*)

SpectatorStatus ==
  CASE showStatus \in {"planning", "registration", "entered"} -> "upcoming"
    [] OTHER -> showStatus

Published == publication.exists /\ publication.settings.isPublished
LiveShown == Published /\ publication.settings.publishLive

\* Classes the live page lists as "Now" or "Paused".
PublicActiveClasses == IF LiveShown THEN {c \in Present : Status(c) \in ActiveStatuses} ELSE {}
PublicCurrentClass  == IF LiveShown THEN publication.current ELSE NoCurrent

ExplicitLiveState == \E c \in Present : HasRow(c)

\* The state the schedule prints beside a class ("blank" when it prints none).
PublicClassState(c) ==
  IF ~LiveShown THEN "blank"
  ELSE IF HasRow(c) THEN Status(c)
  ELSE IF SpectatorStatus = "complete" THEN "complete"
  ELSE IF SpectatorStatus \in {"upcoming", "cancelled"} \/ ExplicitLiveState THEN "not_started"
  ELSE IF publication.current = NoCurrent THEN "blank"
  ELSE IF c < publication.current THEN "complete"
  ELSE IF c > publication.current THEN "not_started"
  ELSE IF SpectatorStatus = "paused" THEN "paused" ELSE "in_progress"

\* Classes whose placings the results page prints.
PublicResults ==
  IF ~(Published /\ publication.settings.publishResults) THEN {}
  ELSE {c \in Present : classes[c].placed /\ (~HasRow(c) \/ classes[c].live.resultsPublished)}

(*------------------------------ properties -------------------------------*)

LiveShowTypeOK ==
  /\ showStatus \in ShowStatuses
  /\ seasonClosed \in BOOLEAN
  /\ classes \in [Classes -> ClassRow \cup {NoClass}]
  /\ publication \in PublicationRow \cup {NoPublication}

\* The class a spectator is pointed at is a class of the show: deleting classes,
\* starting them and editing the publication never leaves a dangling pointer.
CurrentClassExists == PublicCurrentClass # NoCurrent => PublicCurrentClass \in Present

\* The class is there before and after the step, and in progress only after it.
Starts(c) == /\ classes[c].exists /\ classes'[c].exists
             /\ Status(c) # "in_progress" /\ Status(c)' = "in_progress"

\* A class that starts finds its ring free: a class goes to "in progress" only in a
\* ring where no other class is running or paused (show_class_live_status_update).
ClassesStartInFreeRings ==
  [][\A c \in Classes : Starts(c) => ~ \E d \in Present \ {c} : Status(d)' \in ActiveStatuses /\ RingOf(d)' = RingOf(c)'
    ]_liveShowVars

\* The step puts a class that has a live state on the results page of the same publication.
Revealed(c) == /\ c \in PublicResults' \ PublicResults /\ publication' = publication
               /\ classes[c].exists /\ HasRow(c)
ReleasedNow(c) == classes'[c].live.resultsPublished /\ ~classes[c].live.resultsPublished /\ Status(c) = "complete"

\* Running the show never publishes placings: while the publication stays as it is, a class
\* appears on the results page only by its own publication, once complete, or by a saved
\* placing, and never because a class was started, completed, moved or added.
RunningNeverReveals ==
  [][\A c \in Classes : Revealed(c) => ~classes[c].placed \/ ReleasedNow(c)]_liveShowVars

\* An archived season is protected from operational edits: whatever is posted, the classes of
\* its shows, their rings, live states and results stay as they are (_ensure_season_open).
ArchivedClassesAreFrozen ==
  [][seasonClosed /\ seasonClosed' => UNCHANGED classes]_liveShowVars

\* Starting a class never reopens a show that is complete or cancelled.
FinishedShowStaysFinished ==
  [][(showStatus \in {"complete", "cancelled"} /\ classes' # classes) => showStatus' = showStatus]_liveShowVars

=============================================================================
