----------------------------- MODULE ShowEntries -----------------------------
(***************************************************************************)
(* The entries of one show: who rides which class on which track, who      *)
(* scores for the team, results and their points, and the standings read   *)
(* from them (models.py ShowEntry, ShowResult, SeasonScoringConfig;        *)
(* competition_iea.py; iea_voc.py; forms.py; competitions.py; scoring.py;  *)
(* common.py).  A request is one step; the season is open, so that no      *)
(* request is refused by _ensure_season_open.                              *)
(***************************************************************************)
EXTENDS Integers, Sequences, FiniteSets, FiniteSetsExt, SequencesExt

CONSTANTS Riders,        \* IEA participants of the team
          LevelOf,       \* rider -> team level of the season membership
          ShowClasses,   \* classes of the show
          ClassInfo,     \* class -> what its season class and catalog entry say
          Scales,        \* scoring scales the season can be given: place -> points
          MaxPlace,      \* the lowest place recorded
          VocCutoff,     \* riders who qualify for the VOC class (10 in the code)
          FormTypes,     \* entry types the entry form is used to choose
          ReassignedRiders, \* riders whose class assignments the roster form changes
          ManualPoints,  \* subset of BOOLEAN: whether results are entered with points by hand
          MaxEntries     \* bound on the rows of the show

ASSUME ShowEntriesAssumption ==
  /\ LevelOf \in [Riders -> {"futures", "upper"}]
  /\ MaxPlace \in Nat /\ VocCutoff \in Nat /\ MaxEntries \in Nat
  /\ Scales \subseteq [1..MaxPlace -> Nat] /\ FormTypes \subseteq {"individual", "team", "both"}
  /\ ReassignedRiders \subseteq Riders /\ ManualPoints \subseteq BOOLEAN
  \* the catalog gives no show-only class team points (migrations 0054 and 0055)
  /\ \A c \in ShowClasses : ClassInfo[c].team \in BOOLEAN /\ (ClassInfo[c].team => ClassInfo[c].kind = "season")

VARIABLES competitionLevel,  \* Show.competition_level
          assigned,          \* <<rider, class>>: SeasonMembership.classes
          entries,           \* ShowEntry rows
          scale              \* SeasonScoringConfig

showEntriesVars == <<competitionLevel, assigned, entries, scale>>

Tracks     == {"regular", "individual", "team"}
EntryTypes == {"individual", "team", "both"}
Places     == 0..MaxPlace                        \* 0: no place recorded

\* A row with its result; result points are a stored copy.
EntryRow == [class : ShowClasses, rider : Riders, track : Tracks, type : EntryTypes,
             pointRider : BOOLEAN, scratched : BOOLEAN, place : Places, points : Nat]

Key(e) == <<e.class, e.rider, e.track>>

(*-------- who may enter the Varsity Open Championship (iea_voc.py) -------*)

\* A table maps each rider placed in both H1 and H2 to the total points and the H1 place.
VocAhead(table, q, r) ==
  \/ table[q].total > table[r].total
  \/ table[q].total = table[r].total /\ table[q].h1Place < table[r].h1Place

VocTied(table, q, r) == table[q] = table[r]

\* The rule: fewer than cutoff riders are strictly ahead, so ties at the cutoff stay in.
VocCandidates(table, cutoff) ==
  {r \in DOMAIN table : Cardinality({q \in DOMAIN table : VocAhead(table, q, r)}) < cutoff}

\* The code: sort by points, H1 place and key, cut, then extend while rows tie with the last kept.
VocBefore(table, q, r) == VocAhead(table, q, r) \/ (VocTied(table, q, r) /\ q < r)
VocRanked(table) ==
  CHOOSE s \in SetToSeqs(DOMAIN table) : \A i, j \in DOMAIN s : i < j => VocBefore(table, s[i], s[j])

VocList(table, cutoff) ==
  LET ranked == VocRanked(table)
      \* the ties right after the cutoff, up to the first row that does not tie
      kept == {i \in 1..Len(ranked) :
                 i <= cutoff \/ \A j \in cutoff + 1..i : VocTied(table, ranked[j], ranked[cutoff])}
  IN IF Len(ranked) <= cutoff THEN ranked ELSE SubSeq(ranked, 1, Cardinality(kept))

\* The rows the list marks as an unresolved tie at the cutoff.
VocMarked(table, cutoff) ==
  LET list == VocList(table, cutoff)
  IN IF Len(list) <= cutoff THEN {} ELSE {r \in ToSet(list) : VocTied(table, r, list[cutoff])}

(*------------------------- what a class allows ---------------------------*)

TeamPoints(c)       == ClassInfo[c].team
IndividualPoints(c) == ClassInfo[c].individual
SeasonClass(c)      == ClassInfo[c].kind = "season"
OpenTo(c, r)        == ClassInfo[c].level \in {"both", LevelOf[r]}

PlacedIn(r, code) == {e \in entries : e.rider = r /\ ClassInfo[e.class].code = code
                                       /\ ~e.scratched /\ e.place > 0}

\* Riders placed in both H1 and H2 of this show, with their points and H1 place.
VocTable ==
  LET H1(r) == CHOOSE e \in PlacedIn(r, "H1") : TRUE
      H2(r) == CHOOSE e \in PlacedIn(r, "H2") : TRUE
  IN [r \in {q \in Riders : PlacedIn(q, "H1") # {} /\ PlacedIn(q, "H2") # {}} |->
        [total |-> H1(r).points + H2(r).points, h1Place |-> H1(r).place]]

\* A warm-up asks for an entry in one of the classes it warms up for.
WarmupReady(e) == \E o \in entries : /\ o.rider = e.rider /\ ~o.scratched /\ Key(o) # Key(e)
                                      /\ ClassInfo[o.class].code \in ClassInfo[e.class].warmupFor

ShowOnlyEligible(e) ==
  /\ competitionLevel = "regular"
  /\ OpenTo(e.class, e.rider)
  /\ ClassInfo[e.class].code = "VOC" => e.rider \in ToSet(VocList(VocTable, VocCutoff))
  /\ ClassInfo[e.class].warmupFor # {} => WarmupReady(e)

\* Mutant: only the other team's points riders are looked at.
SameTeamPointRiders_OtherTeam(e, key) ==
  {o \in entries : o.class = e.class /\ o.pointRider /\ Key(o) # key /\ LevelOf[o.rider] # LevelOf[e.rider]}

SameTeamPointRiders(e, key) ==
  {o \in entries : /\ o.class = e.class /\ o.pointRider /\ o.track = "regular"
                   /\ Key(o) # key /\ LevelOf[o.rider] = LevelOf[e.rider]}

\* Mutant: the entry type is not looked at.
SeasonClassAllows_AnyType(e, key) ==
  /\ OpenTo(e.class, e.rider)
  /\ <<e.rider, e.class>> \in assigned
  /\ competitionLevel = "regular" => e.track = "regular" /\ (e.pointRider => SameTeamPointRiders(e, key) = {})
  /\ competitionLevel # "regular" => e.track # "regular" /\ ~e.pointRider

\* ShowEntry.clean of a row whose stored key is key.
SeasonClassAllows(e, key) ==
  /\ OpenTo(e.class, e.rider)
  /\ <<e.rider, e.class>> \in assigned
  /\ competitionLevel = "regular" =>
       /\ e.track = "regular"
       /\ e.pointRider => e.type # "individual" /\ SameTeamPointRiders(e, key) = {}
  /\ competitionLevel # "regular" => e.track # "regular" /\ ~e.pointRider

EntryClean(e, key) ==
  /\ SeasonClass(e.class) => SeasonClassAllows(e, key)
  /\ e.pointRider => TeamPoints(e.class)
  /\ (competitionLevel # "regular" /\ e.track = "team") => TeamPoints(e.class)
  /\ ~SeasonClass(e.class) => ShowOnlyEligible(e)

\* What clean writes into the row it accepts.
Normal(e) ==
  IF ~SeasonClass(e.class) THEN [e EXCEPT !.pointRider = FALSE, !.type = "individual"]
  ELSE IF e.track = "individual" THEN [e EXCEPT !.type = "individual"]
  ELSE IF e.track = "team" THEN [e EXCEPT !.type = "team"]
  ELSE e

ShowEntriesInit ==
  /\ competitionLevel = "regular"
  /\ assigned = {rc \in Riders \X ShowClasses : SeasonClass(rc[2])}
  /\ entries = {}
  /\ scale \in Scales

(*------------------------------ entry forms ------------------------------*)

\* Mutant: the form always drops the designation.
FromForm_Drops(e, type, track) ==
  IF competitionLevel = "regular" THEN [e EXCEPT !.track = "regular", !.type = type, !.pointRider = FALSE]
  ELSE [e EXCEPT !.track = track, !.pointRider = FALSE]

\* The track comes from the form only at finals; the points rider is dropped there.
FromForm(e, type, track) ==
  IF competitionLevel = "regular" THEN [e EXCEPT !.track = "regular", !.type = type]
  ELSE [e EXCEPT !.track = track, !.pointRider = FALSE]

\* Mutant: the unique constraints are gone.
Saved_Repeated(e, key) == EntryClean(e, key)

Saved(e, key) ==
  /\ EntryClean(e, key)
  /\ \A o \in entries : Key(o) # key => Key(o) # Key(e)      \* the unique constraints

ShowEntryCreate(c, r, type, track) ==
  LET e == FromForm([class |-> c, rider |-> r, track |-> "regular", type |-> type, pointRider |-> FALSE,
                     scratched |-> FALSE, place |-> 0, points |-> 0], type, track)
  IN /\ Cardinality(entries) < MaxEntries                        \* bound
     /\ \A o \in entries : Key(o) # Key(e)
     /\ Saved(e, Key(e))
     /\ entries' = entries \cup {Normal(e)}
     /\ UNCHANGED <<competitionLevel, assigned, scale>>

\* The class, the rider, the type and the status can all be edited; the result stays.
ShowEntryEdit(old, c, r, type, track, scratched) ==
  LET e == FromForm([old EXCEPT !.class = c, !.rider = r, !.scratched = scratched], type, track)
  IN /\ Saved(e, Key(old))
     /\ entries' = (entries \ {old}) \cup {Normal(e)}
     /\ UNCHANGED <<competitionLevel, assigned, scale>>

ShowEntryDelete(e) ==
  /\ entries' = entries \ {e}
  /\ UNCHANGED <<competitionLevel, assigned, scale>>

\* Mutant: entries do not hold the level.
ShowLevelEdit_Unchecked(level) ==
  /\ competitionLevel' = level
  /\ UNCHANGED <<assigned, entries, scale>>

\* ShowForm refuses to cross between regular season and finals while there are entries.
ShowLevelEdit(level) ==
  /\ (level = "regular") # (competitionLevel = "regular") => entries = {}
  /\ competitionLevel' = level
  /\ UNCHANGED <<assigned, entries, scale>>

(*-------------------------- the points rider -----------------------------*)

\* point_rider_set clears the others before it validates the entry: a refusal by
\* full_clean comes after they were saved.
PointRiderSet(e) ==
  /\ competitionLevel = "regular"
  /\ UNCHANGED <<competitionLevel, assigned, scale>>
  /\ IF ~TeamPoints(e.class)
     THEN entries' = (entries \ {e}) \cup {[e EXCEPT !.pointRider = FALSE]}
     ELSE LET others  == {o \in entries : o.class = e.class /\ o.pointRider /\ Key(o) # Key(e)
                                           /\ LevelOf[o.rider] = LevelOf[e.rider]}
              cleared == {[o EXCEPT !.pointRider = FALSE] : o \in others}
              chosen  == [e EXCEPT !.pointRider = TRUE, !.type = IF @ = "individual" THEN "both" ELSE @]
              refused == SeasonClass(e.class) /\ <<e.rider, e.class>> \notin assigned
          IN entries' = (entries \ (others \cup {e})) \cup cleared \cup {IF refused THEN e ELSE chosen}

PointRiderClear(e) ==
  /\ competitionLevel = "regular"
  /\ entries' = (entries \ {e}) \cup {[e EXCEPT !.pointRider = FALSE]}
  /\ UNCHANGED <<competitionLevel, assigned, scale>>

(*------------------------------- results ---------------------------------*)

\* Points are computed from the scale when the result is saved, unless entered by hand,
\* and suppressed in classes without individual points.
PointsFor(e, place, manual, given) ==
  IF ~IndividualPoints(e.class) THEN 0
  ELSE IF manual THEN given
  ELSE IF place > 0 THEN scale[place] ELSE 0

ShowResultSave(e, place, manual, given) ==
  /\ entries' = (entries \ {e}) \cup {[e EXCEPT !.place = place, !.points = PointsFor(e, place, manual, given)]}
  /\ UNCHANGED <<competitionLevel, assigned, scale>>

ScoringSettings(s) ==
  /\ scale' = s
  /\ UNCHANGED <<competitionLevel, assigned, entries>>

\* The roster form assigns and unassigns season classes of the rider's level without looking at entries.
AssignClasses(r, cs) ==
  /\ \A c \in cs : SeasonClass(c) /\ OpenTo(c, r)
  /\ assigned' = {rc \in assigned : rc[1] # r} \cup {<<r, c>> : c \in cs}
  /\ UNCHANGED <<competitionLevel, entries, scale>>

ShowEntriesNext ==
  \/ \E c \in ShowClasses, r \in Riders, type \in FormTypes, track \in {"individual", "team"} :
       ShowEntryCreate(c, r, type, track)
  \/ \E e \in entries, c \in ShowClasses, r \in Riders, type \in FormTypes, track \in {"individual", "team"},
        scratched \in BOOLEAN : ShowEntryEdit(e, c, r, type, track, scratched)
  \/ \E e \in entries : ShowEntryDelete(e)
  \/ \E e \in entries : PointRiderSet(e)
  \/ \E e \in entries : PointRiderClear(e)
  \/ \E e \in entries, place \in Places, manual \in ManualPoints : ShowResultSave(e, place, manual, 1)
  \/ \E level \in {"regular", "regional"} : ShowLevelEdit(level)
  \/ \E s \in Scales : ScoringSettings(s)
  \/ \E r \in ReassignedRiders, cs \in SUBSET ShowClasses : AssignClasses(r, cs)

ShowEntriesSpec == ShowEntriesInit /\ [][ShowEntriesNext]_showEntriesVars

(*------------------------------ standings --------------------------------*)

PointsOf(rows) == FoldSet(LAMBDA e, total : total + e.points, 0, rows)

\* _qualification_rows: the points of a rider in a season class.
IndividualTotal(r, c) ==
  IF competitionLevel # "regular" THEN 0
  ELSE PointsOf({e \in entries : e.rider = r /\ e.class = c /\ SeasonClass(c)
                                  /\ e.track = "regular" /\ ~e.scratched})
Qualified(r, c, override, threshold) ==
  override = "qualified" \/ (override = "auto" /\ IndividualTotal(r, c) >= threshold)

\* _team_scoring_rows: the rows that score for a team at this show.
TeamRows(level) ==
  IF competitionLevel # "regular" THEN {}
  ELSE {e \in entries : /\ e.pointRider /\ e.track = "regular" /\ ~e.scratched
                        /\ LevelOf[e.rider] = level /\ TeamPoints(e.class)}
TeamTotal(level) == PointsOf(TeamRows(level))

\* show_detail: the finals total of a team.
FinalsTotal(level) ==
  IF competitionLevel = "regular" THEN 0
  ELSE PointsOf({e \in entries : e.track = "team" /\ LevelOf[e.rider] = level /\ TeamPoints(e.class)})

(*------------------------------ properties -------------------------------*)

ShowEntriesTypeOK ==
  /\ competitionLevel \in {"regular", "regional"}
  /\ assigned \subseteq Riders \X ShowClasses
  /\ entries \subseteq EntryRow
  /\ \A e, o \in entries : Key(e) = Key(o) => e = o
  /\ scale \in Scales

\* The list built by cutting and extending is the rule: nobody behind the cutoff is listed
\* and nobody tied with it is left out, whatever the keys of the tied rows (voc_candidates).
VocListIsTheRule(table, cutoff) == ToSet(VocList(table, cutoff)) = VocCandidates(table, cutoff)

\* The rows marked as tied are exactly those among which a judge's card must decide.
VocMarksAreUndecided(table, cutoff) ==
  \A r \in DOMAIN table :
    r \in VocMarked(table, cutoff) <=>
      /\ r \in VocCandidates(table, cutoff)
      /\ Cardinality(VocCandidates(table, cutoff)) > cutoff
      /\ ~ \E q \in VocCandidates(table, cutoff) : VocAhead(table, r, q)

\* A class pays a team at most once: through every create, edit, move, scratch and
\* designation there is at most one points rider per class and team level.
OnePointsRider ==
  \A e, o \in entries :
    (e.pointRider /\ o.pointRider /\ e.class = o.class /\ LevelOf[e.rider] = LevelOf[o.rider]) => e = o

\* Only rows that can score are designated: a points rider is entered for the team, on the
\* regular track, in a class that awards team points (H8 and H14 do not).
PointsRidersScore ==
  \A e \in entries : e.pointRider => e.type # "individual" /\ e.track = "regular" /\ TeamPoints(e.class)

\* The tracks of the entries are those of the show's level: the level cannot be changed
\* under entries made for the other kind of show (ShowForm.clean, ShowEntry.clean).
TracksMatchLevel == \A e \in entries : (e.track = "regular") <=> (competitionLevel = "regular")

\* Naming a points rider replaces the old one: the designation of a class and level moves to
\* another row only in one step, and it is lost only when it is cleared, when its row goes
\* or moves, or when the row named instead is no longer assigned to the class.
DesignationMovesWhole ==
  [][\A e \in entries, o \in entries' :
       ( /\ e.pointRider /\ Key(o) = Key(e) /\ ~o.pointRider /\ Cardinality(entries') = Cardinality(entries)
         /\ ~ \E n \in entries' : n.pointRider /\ n.class = e.class /\ LevelOf[n.rider] = LevelOf[e.rider])
       => \/ \E n \in entries : Key(n) # Key(e) /\ n.class = e.class /\ <<n.rider, n.class>> \notin assigned
          \/ entries' \ entries = {[e EXCEPT !.pointRider = FALSE]}
    ]_showEntriesVars
=============================================================================
