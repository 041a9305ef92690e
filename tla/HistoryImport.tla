--------------------------- MODULE HistoryImport ---------------------------
(***************************************************************************)
(* The results of a past season: a CSV file is previewed against the       *)
(* roster, the preview waits in the manager's session, and its commit      *)
(* creates what is missing; results are also entered, moved and deleted    *)
(* rider by rider (history_helpers.py, history.py, forms_legacy.py).       *)
(* A request is one step, a commit one transaction.  Full names are        *)
(* numbers in roster order.  A source line with several show columns is    *)
(* that many lines of one column; team places, venues and notes are left   *)
(* out, and values that do not parse.                                      *)
(***************************************************************************)
EXTENDS Integers, Sequences, FiniteSets, FiniteSetsExt, SequencesExt

CONSTANTS RosterIds,       \* Rider rows there can be
          FullNames,       \* full names, in alphabetical order
          OneWordNames,    \* those that do not split into first and last name
          Numbers,         \* IEA member numbers besides the empty one
          ClassIds,        \* SeasonClass rows there can be
          ClassNames,      \* their names
          NamedLevel,      \* class name -> team level its wording tells, or ""
          GradeLevel,      \* rider -> team level the grade tells, or ""
          WalkTrot,        \* class names that are individual-only
          Meets,           \* <<name, date, level>> of shows
          RegularMeets,    \* those of the regular season
          Files,           \* sequences of source lines in AccessIEA form
          Templates,       \* sequences of lines in the portal's own form
          StartRosters,    \* the riders the season can begin with
          Importers,       \* managers, with a session each
          Scores           \* points entered by hand

NoNumber == 0
NoName   == 0
NoId     == 0
NoResult == -1

SeatLevels  == {"futures", "upper"}
RideTracks  == {"regular", "individual", "team"}
RosterRider == [exists : BOOLEAN, name : FullNames \cup {NoName}, alias : FullNames \cup {NoName},
                number : Numbers \cup {NoNumber}]
SourceLine  == [number : Numbers \cup {NoNumber}, name : FullNames, class : ClassNames, meet : Meets,
                track : RideTracks, points : Nat]

ASSUME HistoryAssumption ==
  /\ RosterIds \subseteq Nat \ {NoId} /\ IsFiniteSet(RosterIds) /\ ClassIds \subseteq Nat \ {NoId}
  /\ FullNames \subseteq Nat \ {NoName} /\ OneWordNames \subseteq FullNames
  /\ Numbers \subseteq Nat \ {NoNumber} /\ Scores \subseteq Nat
  /\ RegularMeets \subseteq Meets
  /\ NamedLevel \in [ClassNames -> SeatLevels \cup {""}] /\ GradeLevel \in [RosterIds -> SeatLevels \cup {""}]
  /\ Files \subseteq Seq(SourceLine) /\ Templates \subseteq Seq(SourceLine)
  /\ StartRosters \subseteq [RosterIds -> RosterRider]

VARIABLES archive,   \* the tables: riders, seats, classes, meets, showClasses, results
          previews   \* session -> previewed rows; <<>>: none

historyVars == <<archive, previews>>

Seat        == [held : BOOLEAN, level : SeatLevels \cup {""}, classes : SUBSET ClassIds]
ClassTaught == [exists : BOOLEAN, name : ClassNames \cup {""}, level : SeatLevels \cup {"both"}]

\* A show is its meet and whether the history pages made it.
MeetRows == [meet : Meets, historical : BOOLEAN]
RideKey(e) == <<e.show, e.class, e.rider, e.track>>

TracksOf(meet) == IF meet \in RegularMeets THEN {"regular"} ELSE {"individual", "team"}

HistoryInit ==
  /\ archive \in [riders      : StartRosters,
                  seats       : {[r \in RosterIds |-> [held |-> FALSE, level |-> "", classes |-> {}]]},
                  classes     : {[c \in ClassIds |-> [exists |-> FALSE, name |-> "", level |-> "both"]]},
                  meets       : {[s \in MeetRows |-> "none"]},
                  showClasses : {{}},
                  results     : {{}}]
  /\ previews = [m \in Importers |-> <<>>]

(*---------------------------- reading the roster -------------------------*)

RosterRiders(db) == {r \in RosterIds : db.riders[r].exists}
Taught(db) == {c \in ClassIds : db.classes[c].exists}

InRosterOrder(db, q, r) ==
  \/ db.riders[q].name < db.riders[r].name
  \/ db.riders[q].name = db.riders[r].name /\ q <= r
FirstRider(db, rs) == CHOOSE r \in rs : \A q \in rs : InRosterOrder(db, r, q)
LastRider(db, rs)  == CHOOSE r \in rs : \A q \in rs : InRosterOrder(db, q, r)

NumberHolders(db, n) == {r \in RosterRiders(db) : n # NoNumber /\ db.riders[r].number = n}
Named(db, name) == {r \in RosterRiders(db) : name \in {db.riders[r].name, db.riders[r].alias}}
Ambiguous(db, name) == Cardinality(Named(db, name)) > 1

\* By number; else by an unambiguous name, unless that rider has another number.
MatchedRider(db, line) ==
  IF NumberHolders(db, line.number) # {} THEN LastRider(db, NumberHolders(db, line.number))
  ELSE LET named == {r \in Named(db, line.name) : ~Ambiguous(db, line.name)
                       /\ (line.number = NoNumber \/ db.riders[r].number \in {NoNumber, line.number})}
       IN IF named = {} THEN NoId ELSE CHOOSE r \in named : TRUE

SeatOf(db, r) == IF r = NoId THEN [held |-> FALSE, level |-> "", classes |-> {}] ELSE db.seats[r]

\* The squad a class name tells, then the rider's grade.
InferredLevel(name, r) ==
  IF NamedLevel[name] # "" \/ r = NoId THEN NamedLevel[name] ELSE GradeLevel[r]

SquadOf(db, line, r) ==
  IF SeatOf(db, r).held THEN SeatOf(db, r).level ELSE InferredLevel(line.class, r)

Compatible(db, name, level) ==
  {c \in Taught(db) : level # "" /\ db.classes[c].name = name /\ db.classes[c].level \in {level, "both"}}

RiderRefused(db, line, r, bootstrap) ==
  \/ /\ r = NoId
     /\ \/ ~bootstrap
        \/ line.number = NoNumber
        \/ line.name \in OneWordNames
        \/ Ambiguous(db, line.name)
  \/ bootstrap /\ SquadOf(db, line, r) = ""

AlreadyRecorded(db, r, c, line) ==
  \E e \in db.results : /\ e.result # NoResult /\ e.rider = r /\ e.class = c
                        /\ e.show.meet = line.meet /\ e.track = line.track

(*-------------------------------- previews -------------------------------*)

\* One source line as the preview resolves it.
Resolved(db, line, bootstrap) ==
  LET r        == MatchedRider(db, line)
      seat     == SeatOf(db, r)
      level    == SquadOf(db, line, r)
      fitting  == Compatible(db, line.class, level)
      c        == IF Cardinality(fitting) = 1 THEN CHOOSE d \in fitting : TRUE ELSE NoId
      newClass == fitting = {} /\ bootstrap /\ level # ""
      refused  == RiderRefused(db, line, r, bootstrap)
      noClass  == \/ Cardinality(fitting) > 1
                  \/ c # NoId /\ seat.held /\ c \notin seat.classes /\ ~bootstrap
                  \/ fitting = {} /\ ~newClass
      barred   == line.track = "team" /\ line.class \in WalkTrot
  IN [number |-> line.number, name |-> line.name, meet |-> line.meet, track |-> line.track, points |-> line.points,
      rider  |-> r, createRider |-> r = NoId /\ ~refused, level |-> level,
      setNumber |-> r # NoId /\ line.number # NoNumber /\ db.riders[r].number = NoNumber /\ ~refused,
      class  |-> c, className |-> line.class, createClass |-> newClass,
      assign |-> newClass \/ (c # NoId /\ seat.held /\ c \notin seat.classes /\ bootstrap),
      errors |-> refused \/ noClass \/ barred, duplicate |-> FALSE]

\* What tells repeated lines apart: the rider and class found, or else their number, name and squad.
PreviewedRide(row) ==
  <<row.meet, row.track, row.rider, IF row.rider = NoId THEN <<row.number, row.name>> ELSE <<>>,
    row.class, IF row.class = NoId THEN <<row.level, row.className>> ELSE <<>>>>

\* Repeated rows are errors; rows already recorded will be skipped.
Marked(db, rows) ==
  [i \in DOMAIN rows |->
     LET row   == rows[i]
         wrong == row.errors \/ \E j \in 1..(i - 1) : PreviewedRide(rows[j]) = PreviewedRide(row)
     IN [row EXCEPT !.errors = wrong,
                    !.duplicate = ~wrong /\ AlreadyRecorded(db, row.rider, row.class, row)]]

AccessIeaPreview(db, file, bootstrap) ==
  Marked(db, [i \in DOMAIN file |-> Resolved(db, file[i], bootstrap)])

\* The portal's own form: riders on the season roster, by name, in classes they have.
TemplateLine(db, line) ==
  LET seated == {r \in Named(db, line.name) : db.seats[r].held}
      r      == IF Cardinality(seated) = 1 THEN CHOOSE q \in seated : TRUE ELSE NoId
      having == {c \in SeatOf(db, r).classes : db.classes[c].name = line.class}
      c      == IF Cardinality(having) = 1 THEN CHOOSE d \in having : TRUE ELSE NoId
      track  == IF line.meet \in RegularMeets THEN "regular" ELSE line.track
      barred == track = "team" /\ line.class \in WalkTrot
  IN [number |-> NoNumber, name |-> line.name, meet |-> line.meet, track |-> track, points |-> line.points,
      rider  |-> r, createRider |-> FALSE, level |-> "", setNumber |-> FALSE,
      class  |-> c, className |-> line.class, createClass |-> FALSE, assign |-> FALSE,
      errors |-> r = NoId \/ c = NoId \/ barred \/ track \notin TracksOf(line.meet), duplicate |-> FALSE]

TemplatePreview(db, lines) == Marked(db, [i \in DOMAIN lines |-> TemplateLine(db, lines[i])])

(*--------------------------------- commit --------------------------------*)

Failed(db) == [db EXCEPT !.ok = FALSE]

\* A rider the preview did not find: the number again, then the legal name, then a new row.
\* Without a free row (bound) the commit is not taken.
CommitRider(db, row) ==
  LET byNumber == NumberHolders(db, row.number)
      byName   == {r \in RosterRiders(db) : db.riders[r].name = row.name}
      free     == RosterIds \ RosterRiders(db)
  IN IF row.rider # NoId THEN [db EXCEPT !.rider = row.rider]
     ELSE IF ~row.createRider THEN Failed(db)
     ELSE IF byNumber # {} THEN [db EXCEPT !.rider = FirstRider(db, byNumber)]
     ELSE IF byName # {} THEN [db EXCEPT !.rider = FirstRider(db, byName)]
     ELSE IF free = {} THEN Failed(db)
     ELSE [db EXCEPT !.rider = Min(free),
                     !.riders[Min(free)] = [exists |-> TRUE, name |-> row.name, alias |-> NoName,
                                            number |-> row.number]]

CommitNumber(db, row) ==
  IF ~db.ok \/ ~row.setNumber \/ db.riders[db.rider].number # NoNumber THEN db
  ELSE IF NumberHolders(db, row.number) \ {db.rider} # {} THEN Failed(db)
  ELSE [db EXCEPT !.riders[db.rider].number = row.number]

CommitSeat(db, row) ==
  IF ~db.ok THEN db
  ELSE LET seat == db.seats[db.rider] IN
       IF ~seat.held
       THEN IF row.level \in SeatLevels
            THEN [db EXCEPT !.seats[db.rider] = [held |-> TRUE, level |-> row.level, classes |-> {}]]
            ELSE Failed(db)
       ELSE IF row.level # "" /\ seat.level # "" /\ seat.level # row.level THEN Failed(db) ELSE db

\* The class previewed, or one of that name and squad, or a new one.
CommitClass(db, row) ==
  LET found == {c \in Taught(db) : db.classes[c].name = row.className
                                    /\ db.classes[c].level \in {row.level, "both"}}
      free  == ClassIds \ Taught(db)
  IN IF ~db.ok THEN db
     ELSE IF row.class # NoId THEN [db EXCEPT !.class = row.class]
     ELSE IF ~row.createClass THEN Failed(db)
     ELSE IF found # {} THEN [db EXCEPT !.class = Min(found)]
     ELSE IF free = {} THEN Failed(db)                                   \* bound
     ELSE [db EXCEPT !.class = Min(free),
                     !.classes[Min(free)] = [exists |-> TRUE, name |-> row.className, level |-> row.level]]

CommitAssignment(db, row) ==
  IF ~db.ok \/ db.class \in db.seats[db.rider].classes THEN db
  ELSE IF row.assign \/ row.createClass
       THEN [db EXCEPT !.seats[db.rider].classes = @ \cup {db.class}]
       ELSE Failed(db)

\* A show of the meet, made by the history pages or not; a new one is complete, and so
\* becomes a historical one.  Which of two the database returns first is not ordered.
CommitShow(db, row, historicalFirst) ==
  LET there  == {s \in MeetRows : s.meet = row.meet /\ db.meets[s] # "none"}
      first  == [meet |-> row.meet, historical |-> historicalFirst]
      show   == IF there = {} THEN [meet |-> row.meet, historical |-> TRUE]
                ELSE IF first \in there THEN first ELSE CHOOSE s \in there : TRUE
  IN IF ~db.ok THEN db
     ELSE [db EXCEPT !.show = show, !.meets[show] = IF show.historical THEN "complete" ELSE @]

\* Mutant: a recorded result is written over.
CommitResult_Overwrites(db, row) ==
  LET new  == [show |-> db.show, class |-> db.class, rider |-> db.rider, track |-> row.track,
               scratched |-> FALSE, pointRider |-> FALSE, result |-> row.points]
  IN IF ~db.ok THEN db
     ELSE [db EXCEPT !.showClasses = @ \cup {<<db.show, db.class>>},
                     !.results = {e \in @ : RideKey(e) # RideKey(new)} \cup {new}]

\* The class in the show and the entry are there or made; a recorded result stays.
CommitResult(db, row) ==
  LET new  == [show |-> db.show, class |-> db.class, rider |-> db.rider, track |-> row.track,
               scratched |-> FALSE, pointRider |-> FALSE, result |-> row.points]
      kept == \E e \in db.results : RideKey(e) = RideKey(new) /\ e.result # NoResult
  IN IF ~db.ok THEN db
     ELSE [db EXCEPT !.showClasses = @ \cup {<<db.show, db.class>>},
                     !.results = IF kept THEN @ ELSE {e \in @ : RideKey(e) # RideKey(new)} \cup {new}]

CommitRow(db, row, historicalFirst) ==
  IF ~db.ok THEN db
  ELSE IF row.errors THEN Failed(db)
  ELSE IF row.duplicate THEN db
  ELSE CommitResult(CommitShow(CommitAssignment(CommitClass(CommitSeat(CommitNumber(
         CommitRider(db, row), row), row), row), row), row, historicalFirst), row)

\* The rows one after the other; the caches of the code return what a new look finds.
\* One refused row refuses the whole commit.
Committed(db, rows, historicalFirst) ==
  LET after[n \in 0..Len(rows)] == IF n = 0 THEN db ELSE CommitRow(after[n - 1], rows[n], historicalFirst)
  IN after[Len(rows)]

\* The tables with what a commit has at hand, and the tables alone.
NoShow == [meet |-> "", historical |-> TRUE]
Opened(db) ==
  [ok |-> TRUE, rider |-> NoId, class |-> NoId, show |-> NoShow, riders |-> db.riders, seats |-> db.seats,
   classes |-> db.classes, meets |-> db.meets, showClasses |-> db.showClasses, results |-> db.results]
Tables(db) ==
  [riders |-> db.riders, seats |-> db.seats, classes |-> db.classes, meets |-> db.meets,
   showClasses |-> db.showClasses, results |-> db.results]

(*------------------------------ import page ------------------------------*)

ImportPreview(m, rows) ==
  /\ previews' = [previews EXCEPT ![m] = rows]
  /\ UNCHANGED archive

\* A refused commit rolls everything back and keeps the preview.
ImportCommit(m, historicalFirst) ==
  LET done == Committed(Opened(archive), previews[m], historicalFirst)
  IN /\ previews[m] # <<>>
     /\ done.ok
     /\ archive' = Tables(done)
     /\ previews' = [previews EXCEPT ![m] = <<>>]

ImportClear(m) ==
  /\ previews' = [previews EXCEPT ![m] = <<>>]
  /\ UNCHANGED archive

(*----------------------- results, one rider at a time --------------------*)

\* Entered by hand: into a historical show of its own; what was recorded there is replaced.
HistoricalResultAdd(r, meet, c, track, points) ==
  LET show == [meet |-> meet, historical |-> TRUE]
      new  == [show |-> show, class |-> c, rider |-> r, track |-> track,
               scratched |-> FALSE, pointRider |-> FALSE, result |-> points]
  IN /\ archive.seats[r].held /\ c \in archive.seats[r].classes
     /\ track \in TracksOf(meet)
     /\ track = "team" => archive.classes[c].name \notin WalkTrot
     /\ archive' = [archive EXCEPT !.meets[show] = "complete", !.showClasses = @ \cup {<<show, c>>},
                                   !.results = {e \in @ : RideKey(e) # RideKey(new)} \cup {new}]
     /\ UNCHANGED previews

\* A class row of a show that lost its last entry goes.
WithoutEmptied(db, show, c) ==
  IF \E e \in db.results : e.show = show /\ e.class = c THEN db
  ELSE [db EXCEPT !.showClasses = @ \ {<<show, c>>}]

\* Mutant: the class the entry leaves stays.
HistoricalResultEdit_Orphans(e, c, track, points) ==
  LET new == [e EXCEPT !.class = c, !.track = track, !.scratched = FALSE, !.pointRider = FALSE, !.result = points]
  IN /\ e.show.historical /\ e.result # NoResult
     /\ c \in archive.seats[e.rider].classes
     /\ ~ \E o \in archive.results \ {e} : RideKey(o) = RideKey(new)
     /\ archive' = [archive EXCEPT !.showClasses = @ \cup {<<e.show, c>>}, !.results = (@ \ {e}) \cup {new}]
     /\ UNCHANGED previews

HistoricalResultEdit(e, c, track, points) ==
  LET new   == [e EXCEPT !.class = c, !.track = track, !.scratched = FALSE, !.pointRider = FALSE, !.result = points]
      moved == [archive EXCEPT !.showClasses = @ \cup {<<e.show, c>>}, !.results = (@ \ {e}) \cup {new}]
  IN /\ e.show.historical /\ e.result # NoResult
     /\ archive.seats[e.rider].held /\ c \in archive.seats[e.rider].classes
     /\ track \in TracksOf(e.show.meet)
     /\ track = "team" => archive.classes[c].name \notin WalkTrot
     /\ ~ \E o \in archive.results \ {e} : RideKey(o) = RideKey(new)
     /\ archive' = WithoutEmptied(moved, e.show, e.class)
     /\ UNCHANGED previews

\* The entry goes with its result, then the class, then a show without entries with its classes.
HistoricalResultDelete(e) ==
  LET gone == WithoutEmptied([archive EXCEPT !.results = @ \ {e}], e.show, e.class)
      bare == ~ \E o \in gone.results : o.show = e.show
  IN /\ e.show.historical /\ e.result # NoResult
     /\ archive' = IF bare THEN [gone EXCEPT !.meets[e.show] = "none",
                                             !.showClasses = {sc \in @ : sc[1] # e.show}]
                   ELSE gone
     /\ UNCHANGED previews

(*--------------------- what the rest of the portal does ------------------*)

\* The rider form takes any number.
RosterRiderEdit(r, number) ==
  /\ archive.riders[r].exists
  /\ archive' = [archive EXCEPT !.riders[r].number = number]
  /\ UNCHANGED previews

\* The season roster form: classes of the rider's squad.
SeatSave(r, level, cs) ==
  /\ archive.riders[r].exists
  /\ level # "" => \A c \in cs : archive.classes[c].level \in {level, "both"}
  /\ archive' = [archive EXCEPT !.seats[r] = [held |-> TRUE, level |-> level, classes |-> cs]]
  /\ UNCHANGED previews

\* A season class is added or edited; its name is taken once per squad.
SeasonClassSave(c, name, level) ==
  /\ ~ \E d \in Taught(archive) \ {c} : archive.classes[d].name = name /\ archive.classes[d].level = level
  /\ archive' = [archive EXCEPT !.classes[c] = [exists |-> TRUE, name |-> name, level |-> level]]
  /\ UNCHANGED previews

\* A show of the season calendar with an entry of a rider in an assigned class, later its result.
LiveMeet(meet) ==
  LET show == [meet |-> meet, historical |-> FALSE]
  IN /\ archive.meets[show] = "none"
     /\ archive' = [archive EXCEPT !.meets[show] = "planning"]
     /\ UNCHANGED previews

LiveRide(r, meet, c, track, pointRider) ==
  LET show == [meet |-> meet, historical |-> FALSE]
      new  == [show |-> show, class |-> c, rider |-> r, track |-> track,
               scratched |-> FALSE, pointRider |-> pointRider, result |-> NoResult]
  IN /\ archive.meets[show] # "none" /\ track \in TracksOf(meet)
     /\ pointRider => track = "regular"
     /\ track = "team" => archive.classes[c].name \notin WalkTrot
     /\ archive.seats[r].held /\ c \in archive.seats[r].classes
     /\ archive.classes[c].level \in {"both", archive.seats[r].level}
     /\ ~ \E e \in archive.results : RideKey(e) = RideKey(new)
     /\ archive' = [archive EXCEPT !.showClasses = @ \cup {<<show, c>>}, !.results = @ \cup {new}]
     /\ UNCHANGED previews

LiveResult(e, points) ==
  /\ ~e.show.historical
  /\ archive' = [archive EXCEPT !.results = (@ \ {e}) \cup {[e EXCEPT !.result = points]}]
  /\ UNCHANGED previews

ImportStep ==
  \/ \E m \in Importers, file \in Files, bootstrap \in BOOLEAN :
       ImportPreview(m, AccessIeaPreview(archive, file, bootstrap))
  \/ \E m \in Importers, lines \in Templates : ImportPreview(m, TemplatePreview(archive, lines))
  \/ \E m \in Importers, historicalFirst \in BOOLEAN : ImportCommit(m, historicalFirst)
  \/ \E m \in Importers : ImportClear(m)

ResultStep ==
  \/ \E r \in RosterIds, meet \in Meets, c \in ClassIds, track \in RideTracks, points \in Scores :
       HistoricalResultAdd(r, meet, c, track, points)
  \/ \E e \in archive.results, c \in ClassIds, track \in RideTracks, points \in Scores :
       HistoricalResultEdit(e, c, track, points)
  \/ \E e \in archive.results : HistoricalResultDelete(e)

PortalStep ==
  \/ \E r \in RosterIds, number \in Numbers \cup {NoNumber} : RosterRiderEdit(r, number)
  \/ \E r \in RosterIds, level \in SeatLevels \cup {""}, cs \in SUBSET Taught(archive) : SeatSave(r, level, cs)
  \/ \E c \in ClassIds, name \in ClassNames, level \in SeatLevels \cup {"both"} : SeasonClassSave(c, name, level)
  \/ \E meet \in Meets : LiveMeet(meet)
  \/ \E r \in RosterIds, meet \in Meets, c \in ClassIds, track \in RideTracks, pointRider \in BOOLEAN :
       LiveRide(r, meet, c, track, pointRider)
  \/ \E e \in archive.results, points \in Scores : LiveResult(e, points)

HistoryNext == ImportStep \/ ResultStep \/ PortalStep

(*---------------------------- season reviews -----------------------------*)

\* Points of a rider in a class over the regular season.
RegularTotal(r, c) ==
  SumFunctionOnSet([e \in archive.results |-> e.result],
    {e \in archive.results : /\ e.rider = r /\ e.class = c /\ e.track = "regular" /\ ~e.scratched
                             /\ e.show.meet \in RegularMeets /\ e.result # NoResult})

\* What the archive readiness page counts, but for the finance lines.
ReadinessIssues ==
  {<<"show", s>> : s \in {t \in MeetRows : archive.meets[t] \notin {"none", "complete", "cancelled"}}}
  \cup {<<"entry", RideKey(e)>> : e \in {f \in archive.results : ~f.scratched /\ f.result = NoResult}}
  \cup {<<"seat", r>> : r \in {q \in RosterIds : archive.seats[q].held /\ archive.seats[q].classes = {}}}

(*------------------------------ properties -------------------------------*)

HistoryTypeOK ==
  /\ archive.riders \in [RosterIds -> RosterRider]
  /\ archive.seats \in [RosterIds -> Seat]
  /\ archive.classes \in [ClassIds -> ClassTaught]
  /\ archive.meets \in [MeetRows -> {"none", "planning", "complete"}]
  /\ archive.showClasses \subseteq MeetRows \X ClassIds
  /\ \A e, o \in archive.results : RideKey(e) = RideKey(o) => e = o
  /\ \A e \in archive.results : e.track \in RideTracks /\ e.result \in Nat \cup {NoResult}

\* Every entry is in a class row of a show that is there, and so is every class row, through
\* imports, moves and the clean-up after deletions (historical_result_edit, _delete).
RidesHaveTheirShow ==
  /\ \A e \in archive.results : <<e.show, e.class>> \in archive.showClasses
  /\ \A sc \in archive.showClasses : archive.meets[sc[1]] # "none"

\* A commit only adds: recorded results stay, the points of no rider fall, shows of the calendar
\* keep their status, no number comes to be held twice and nothing new stands in the way of
\* archiving the season, however the portal changed after the preview (_historical_import_commit).
ImportsOnlyAdd ==
  [][(\E m \in Importers : previews[m] # <<>> /\ previews'[m] = <<>>) =>
       /\ \A e \in archive.results : e.result # NoResult => e \in archive'.results
       /\ \A r \in RosterIds, c \in ClassIds : RegularTotal(r, c)' >= RegularTotal(r, c)
       /\ \A s \in MeetRows : ~s.historical => archive'.meets[s] = archive.meets[s]
       /\ \A n \in Numbers : Cardinality(NumberHolders(archive', n)) > Cardinality(NumberHolders(archive, n))
                               => Cardinality(NumberHolders(archive', n)) = 1
       /\ ReadinessIssues' \subseteq ReadinessIssues]_historyVars

\* A moved or deleted historical result leaves no empty class or show behind
\* (historical_result_edit, historical_result_delete).
EmptiedShowsGo ==
  [][\A sc \in archive.showClasses :
       ( /\ sc[1].historical
         /\ \E e \in archive.results : <<e.show, e.class>> = sc
         /\ ~ \E e \in archive'.results : <<e.show, e.class>> = sc )
       => /\ sc \notin archive'.showClasses
          /\ (~ \E e \in archive'.results : e.show = sc[1]) => archive'.meets[sc[1]] = "none"]_historyVars

\* A row that names a number is recorded on the rider who has that number: "mismatched IEA does
\* not fallback to exact name" (test_v198_accessiea_import.py).  The commit's own look-up by
\* name attaches it to a rider with another number.
ImportsFollowNumbers ==
  [][\A m \in Importers : (previews[m] # <<>> /\ previews'[m] = <<>> /\ archive' # archive) =>
       \A i \in DOMAIN previews[m] :
         LET row == previews[m][i] IN
         (~row.duplicate /\ row.number # NoNumber /\ NumberHolders(archive, row.number) = {}) =>
            \A e \in archive'.results \ archive.results :
              (e.show.meet = row.meet /\ e.track = row.track /\ Len(previews[m]) = 1)
              => archive'.riders[e.rider].number = row.number]_historyVars
=============================================================================
