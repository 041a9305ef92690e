------------------------------ MODULE HorseCare ------------------------------
(***************************************************************************)
(* A horse's health papers and the people who may keep them: Coggins       *)
(* records, documents and compliance requirements (equine_compliance.py),  *)
(* the care schedule (equine_care_schedule.py), and the relationships and  *)
(* capability that give access (equine_access.py).  Dates are numbers,     *)
(* None stands for an empty date, and `expiring soon` is SoonDays ahead.   *)
(***************************************************************************)
EXTENDS Integers, FiniteSets

CONSTANTS Horses, People,
          CareDates,      \* dates the forms offer
          SoonDays,       \* 30 in the code
          DocumentTypes,
          MaxPapers       \* bound on the records of each kind of one horse

None == 0
ASSUME CareAssumption == CareDates \subseteq Nat \ {None} /\ 1 \in CareDates /\ SoonDays \in Nat /\ MaxPapers \in Nat

VARIABLES today, coggins, documents, requirements, care, relations, capability, horseManager

horseCareVars == <<today, coggins, documents, requirements, care, relations, capability, horseManager>>

Cogginses    == [test : CareDates, expires : CareDates]
Documents    == [pk : 1..MaxPapers, type : DocumentTypes, effective : CareDates \cup {None},
                 created : CareDates, expires : CareDates \cup {None}]
Requirements == [type : DocumentTypes \cup {"coggins"}, active : BOOLEAN]
CareRecords  == [pk : 1..MaxPapers, type : {"farrier", "dental"}, performed : CareDates, due : CareDates \cup {None}]
Relations    == [person : People, type : {"boarder", "owner"}, start : CareDates \cup {None},
                 end : CareDates \cup {None}, active : BOOLEAN, recipient : BOOLEAN]
Capability   == [active : BOOLEAN, end : CareDates \cup {None}]

Later(d, e) == IF d >= e THEN d ELSE e

(*---------------------------- compliance ---------------------------------*)
\* Mutant: a paper that runs out before the event still counts when it is valid today.
DatedStatus_Today(expires, asOf) ==
  IF expires = None THEN "current"
  ELSE IF expires < today THEN "attention"
  ELSE IF expires <= today + SoonDays THEN "warning" ELSE "current"

DatedStatus(expires, asOf) ==
  IF expires = None THEN "current"
  ELSE IF expires < Later(today, asOf) THEN "attention"
  ELSE IF expires <= today + SoonDays THEN "warning" ELSE "current"

\* The Coggins with the longest validity; the document that took effect last.
Latest(h)       == CHOOSE c \in coggins[h] : \A d \in coggins[h] : d.expires <= c.expires
Effective(d)    == IF d.effective = None THEN d.created ELSE d.effective
\* Mutant: a document counts from the day it takes effect.
OfType_Effective(h, type) == {d \in documents[h] : d.type = type /\ Effective(d) <= today}

OfType(h, type) == {d \in documents[h] : d.type = type}
LatestOf(h, type) ==
  CHOOSE d \in OfType(h, type) : \A e \in OfType(h, type) :
    Effective(e) < Effective(d) \/ (Effective(e) = Effective(d) /\ e.pk <= d.pk)

CogginsItem(h, asOf) == IF coggins[h] = {} THEN "attention" ELSE DatedStatus(Latest(h).expires, asOf)
DocumentItem(h, type, asOf) ==
  IF OfType(h, type) = {} THEN "attention" ELSE DatedStatus(LatestOf(h, type).expires, asOf)

ActiveRequirements == {r.type : r \in {q \in requirements : q.active}}

\* With requirements, one item each; without, Coggins and every document.
ComplianceItems(h, asOf) ==
  IF ActiveRequirements # {}
  THEN {IF type = "coggins" THEN CogginsItem(h, asOf) ELSE DocumentItem(h, type, asOf) : type \in ActiveRequirements}
  ELSE {CogginsItem(h, asOf)} \cup {DatedStatus(d.expires, asOf) : d \in documents[h]}

Overall(items) == IF "attention" \in items THEN "attention" ELSE IF "warning" \in items THEN "warning" ELSE "current"
Compliance(h, asOf) == Overall(ComplianceItems(h, asOf))

(*--------------------------- care schedule -------------------------------*)
DueStatus(due) ==
  IF due = None THEN "none" ELSE IF due < today THEN "overdue"
  ELSE IF due <= today + SoonDays THEN "due_soon" ELSE "current"

Newer(r, s) == r.performed > s.performed \/ (r.performed = s.performed /\ r.pk > s.pk)

\* Mutant: a dated reminder stands until a newer record sets another one.
CareItems_Dated(h) ==
  {r \in care[h] : r.due # None /\ \A s \in care[h] : (s.type = r.type /\ s.due # None) => ~Newer(s, r)}

\* The last record of each kind, when it sets a date.
CareItems(h) == {r \in care[h] : r.due # None /\ \A s \in care[h] : s.type = r.type => ~Newer(s, r)}
CareStatus(h) ==
  LET due == {DueStatus(r.due) : r \in CareItems(h)}
  IN IF "overdue" \in due THEN "overdue" ELSE IF "due_soon" \in due THEN "due_soon"
     ELSE IF due # {} THEN "current" ELSE "none"

(*------------------------------- access ----------------------------------*)
IsCurrent(active, start, end) ==
  active /\ (start = None \/ start <= today) /\ (end = None \/ end > today)
ManagesHorses(p) == p \in horseManager \/ IsCurrent(capability[p].active, None, capability[p].end)
ManagesHorse(p, h) ==
  \/ ManagesHorses(p)
  \/ \E r \in relations[h] : r.person = p /\ r.type = "boarder" /\ IsCurrent(r.active, r.start, r.end)

(*------------------------------- actions ---------------------------------*)
HorseCareInit ==
  /\ today = 1
  /\ coggins = [h \in Horses |-> {}]
  /\ documents = [h \in Horses |-> {}]
  /\ requirements = {}
  /\ care = [h \in Horses |-> {}]
  /\ relations = [h \in Horses |-> {}]
  /\ capability = [p \in People |-> [active |-> FALSE, end |-> None]]
  /\ horseManager \in SUBSET People

\* Forms: add (old = the empty set) or edit one record of the horse.
Put(records, h, old, new) == [records EXCEPT ![h] = (@ \ old) \cup {new}]
Room(records, h, old)     == Cardinality(records[h] \ old) < MaxPapers
Fresh(records, h, new, old) == \A r \in records[h] \ old : r.pk # new.pk

CogginsSave(p, h, old, new) ==
  /\ ManagesHorse(p, h) /\ Room(coggins, h, old)
  /\ new.expires >= new.test
  /\ coggins' = Put(coggins, h, old, new)
  /\ UNCHANGED <<today, documents, requirements, care, relations, capability, horseManager>>

DocumentSave(p, h, old, new) ==
  /\ ManagesHorse(p, h) /\ Room(documents, h, old) /\ Fresh(documents, h, new, old)
  /\ (new.effective = None \/ new.expires = None) \/ new.expires >= new.effective
  /\ \A d \in old : d.pk = new.pk /\ d.created = new.created
  /\ old = {} => new.created = today
  /\ documents' = Put(documents, h, old, new)
  /\ UNCHANGED <<today, coggins, requirements, care, relations, capability, horseManager>>

CareSave(p, h, old, new) ==
  /\ ManagesHorse(p, h) /\ Room(care, h, old) /\ Fresh(care, h, new, old)
  /\ \A r \in old : r.pk = new.pk
  /\ new.due = None \/ new.due >= new.performed
  /\ care' = Put(care, h, old, new)
  /\ UNCHANGED <<today, coggins, documents, requirements, relations, capability, horseManager>>

\* Requirements are kept by coaches (their names, which differ, are left out).
RequirementSave(p, old, new) ==
  /\ p \in horseManager
  /\ requirements' = (requirements \ old) \cup {new}
  /\ UNCHANGED <<today, coggins, documents, care, relations, capability, horseManager>>

Recipients(h, old) == {r \in relations[h] \ old : r.active /\ r.recipient}
\* Mutant: the form looks for another recipient only when the relationship is new.
MayReceive_OnAdd(h, old, new) == new.recipient => (new.active /\ (old # {} \/ Recipients(h, old) = {}))

MayReceive(h, old, new) == new.recipient => (new.active /\ Recipients(h, old) = {})

RelationSave(p, h, old, new) ==
  /\ p \in horseManager /\ Room(relations, h, old)
  /\ MayReceive(h, old, new)
  /\ new.start = None \/ new.end = None \/ new.end >= new.start
  /\ \A r \in relations[h] \ old : <<r.person, r.type, r.start>> # <<new.person, new.type, new.start>>
  /\ relations' = Put(relations, h, old, new)
  /\ UNCHANGED <<today, coggins, documents, requirements, care, capability, horseManager>>

HorseAccessSave(p, q, new) ==
  /\ p \in horseManager
  /\ capability' = [capability EXCEPT ![q] = new]
  /\ UNCHANGED <<today, coggins, documents, requirements, care, relations, horseManager>>

\* A new day; it moves nothing else.
NextDay ==
  /\ today + 1 \in CareDates
  /\ today' = today + 1
  /\ UNCHANGED <<coggins, documents, requirements, care, relations, capability, horseManager>>

None1(records) == {{}} \cup {{r} : r \in records}       \* nothing, or one record to edit

CogginsStep ==
  \/ \E p \in horseManager, h \in Horses : \E old \in None1(coggins[h]), new \in Cogginses : CogginsSave(p, h, old, new)
  \/ \E p \in People, old \in None1(requirements), new \in Requirements : RequirementSave(p, old, new)
  \/ NextDay
DocumentStep ==
  \/ \E p \in horseManager, h \in Horses :
       \E old \in None1(documents[h]), new \in Documents : DocumentSave(p, h, old, new)
  \/ \E p \in People, old \in None1(requirements), new \in Requirements : RequirementSave(p, old, new)
  \/ NextDay
CareStep ==
  \/ \E p \in horseManager, h \in Horses :
       \E old \in None1(care[h]), new \in CareRecords : CareSave(p, h, old, new)
  \/ NextDay
RelationStep ==
  \/ \E p \in People, h \in Horses : \E old \in None1(relations[h]), new \in Relations : RelationSave(p, h, old, new)
  \/ NextDay
\* Boarders come and go, the capability is given and taken, and those who hold either add a test.
AccessStep ==
  \/ \E p \in People, h \in Horses, new \in Relations : new.type = "boarder" /\ ~new.recipient /\ RelationSave(p, h, {}, new)
  \/ \E p, q \in People, new \in Capability : HorseAccessSave(p, q, new)
  \/ \E p \in People \ horseManager, h \in Horses, new \in Cogginses : CogginsSave(p, h, {}, new)
  \/ NextDay

(*------------------------------ properties -------------------------------*)
HorseCareTypeOK ==
  /\ today \in CareDates
  /\ coggins \in [Horses -> SUBSET Cogginses] /\ documents \in [Horses -> SUBSET Documents]
  /\ care \in [Horses -> SUBSET CareRecords] /\ relations \in [Horses -> SUBSET Relations]
  /\ requirements \subseteq Requirements
  /\ capability \in [People -> Capability]

\* A horse that needs no attention for a date has, for every paper the barn requires, one that is
\* still valid on that date and today, and is never held back by a requirement that is switched off.
ReadyMeansPapers ==
  \A h \in Horses, asOf \in CareDates :
    ActiveRequirements # {} =>
      ((Compliance(h, asOf) # "attention") =
       \A r \in requirements : r.active =>
         IF r.type = "coggins" THEN \E c \in coggins[h] : c.expires >= asOf /\ c.expires >= today
         ELSE OfType(h, r.type) # {} /\ LatestOf(h, r.type).expires \notin 1..(Later(asOf, today) - 1))

\* While the papers stay as they are, a new day never makes a horse ready that was not.
TimeNeverHeals ==
  [][\A h \in Horses, asOf \in CareDates :
       (today' > today /\ Compliance(h, asOf) = "attention") => (Compliance(h, asOf))' = "attention"]_horseCareVars

\* Care that has been done again since is not announced: what the schedule shows of one kind is
\* what the last visit of that kind asked for.
DoneCareIsQuiet ==
  \A h \in Horses : \A r \in CareItems(h) :
    \A s \in care[h] : s.type = r.type => s.performed <= r.performed

\* A horse's earned credits have one recipient at most, and an active one.
OneCreditRecipient ==
  \A h \in Horses : /\ Cardinality({r \in relations[h] : r.active /\ r.recipient}) <= 1
                    /\ \A r \in relations[h] : r.recipient => r.active

=============================================================================
