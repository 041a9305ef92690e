---------------------------- MODULE PeopleProofs ----------------------------
(***************************************************************************)
(* People and accounts between two requests, for any number of people,     *)
(* logins, records, roles and assignments.                                 *)
(***************************************************************************)
EXTENDS MCPeople, LedgerSumsTheorems

(*------------------------------ identities -------------------------------*)

\* A person made for a login is a person.
LEMMA BornIsIdentity ==
  ASSUME NEW s \in Identity, NEW p \in Persons, NEW u \in Logins \cup {None}
  PROVE  Born(s, p, u) \in Identity
BY DEF Born, Identity, Person

\* A record bridged to a person is bridged, and the people are those of before.
LEMMA BridgedIsIdentity ==
  ASSUME NEW s \in Identity, NEW x \in Records, NEW p \in Persons, NEW t \in Bridged(s, x, p)
  PROVE  t \in Identity /\ t.bridge[x] = p /\ t.people = s.people
<1>1. t = [s EXCEPT !.bridge[x] = p]
  BY DEF Bridged
<1> QED BY <1>1 DEF Identity

\* Making sure of the person of a record leaves it bridged to one.
LEMMA EnsuredIsIdentity ==
  ASSUME NEW s \in Identity, NEW x \in Records, NEW u \in Logins \cup {None}, NEW t \in Ensured(s, x, u)
  PROVE  t \in Identity /\ t.bridge[x] \in Persons
<1>1. CASE s.bridge[x] # NoOne
  <2>1. t = s
    BY <1>1 DEF Ensured
  <2> QED BY <1>1, <2>1 DEF Identity
<1>2. CASE s.bridge[x] = NoOne /\ u # None /\ Of(s, u) # {}
  <2>1. PICK p \in Of(s, u) : t \in Bridged(s, x, p)
    BY <1>2 DEF Ensured
  <2>2. p \in Persons
    BY DEF Of
  <2> QED BY <2>1, <2>2, BridgedIsIdentity
<1>3. CASE s.bridge[x] = NoOne /\ ~(u # None /\ Of(s, u) # {})
  <2>1. PICK p \in Unborn(s) : t \in Bridged(Born(s, p, u), x, p)
    BY <1>3 DEF Ensured
  <2>2. p \in Persons
    BY DEF Unborn
  <2> QED BY <2>1, <2>2, BornIsIdentity, BridgedIsIdentity
<1> QED BY <1>1, <1>2, <1>3

\* A record that has a person keeps it while another one is made sure of.
LEMMA EnsuredKeepsBridges ==
  ASSUME NEW s \in Identity, NEW x \in Records, NEW u \in Logins \cup {None}, NEW t \in Ensured(s, x, u),
         NEW y \in Records, s.bridge[y] \in Persons
  PROVE  t.bridge[y] \in Persons
<1>1. t \in Identity /\ t.bridge[x] \in Persons
  BY EnsuredIsIdentity
<1>2. t = s \/ \E q, p \in Persons : t \in Bridged(s, x, p) \/ t \in Bridged(Born(s, q, u), x, p)
  BY DEF Ensured, Unborn, Of
<1>3. ASSUME NEW p \in Persons, t \in Bridged(s, x, p) PROVE t.bridge[y] \in Persons
  <2>1. t = [s EXCEPT !.bridge[x] = p]
    BY <1>3 DEF Bridged
  <2> QED BY <2>1 DEF Identity
<1>4. ASSUME NEW q \in Persons, NEW p \in Persons, t \in Bridged(Born(s, q, u), x, p) PROVE t.bridge[y] \in Persons
  <2>1. t = [Born(s, q, u) EXCEPT !.bridge[x] = p] /\ Born(s, q, u).bridge = s.bridge /\ Born(s, q, u) \in Identity
    BY <1>4, BornIsIdentity DEF Bridged, Born, Identity
  <2> QED BY <2>1 DEF Identity
<1> QED BY <1>2, <1>3, <1>4

\* Synchronising a login leaves identities.
LEMMA SyncedIsIdentity ==
  ASSUME NEW s \in Identity, NEW u \in Logins, NEW x \in Records \cup {NoRecord}, NEW held \in Logins \cup {None},
         NEW t \in Synced(s, u, x, held)
  PROVE  t \in Identity
<1>1. PICK w \in (IF x = NoRecord THEN {s} ELSE Ensured(s, x, held)), p \in Persons :
         t = [w EXCEPT !.people[p] = [exists |-> TRUE, active |-> TRUE, login |-> u]]
  <2> DEFINE mine      == Of(s, u)
             theirs(w) == IF x = NoRecord THEN {} ELSE {w.bridge[x]}
             chosen(w) == IF mine # {} THEN mine ELSE IF theirs(w) # {} THEN theirs(w) ELSE Unborn(w)
  <2>1. PICK w \in (IF x = NoRecord THEN {s} ELSE Ensured(s, x, held)) :
          \E p \in chosen(w) : t = [w EXCEPT !.people[p] = [exists |-> TRUE, active |-> TRUE, login |-> u]]
    BY DEF Synced
  <2>2. chosen(w) \subseteq Persons
    BY <2>1, EnsuredIsIdentity DEF Of, Unborn
  <2> QED BY <2>1, <2>2
<1>2. w \in Identity
  BY <1>1, EnsuredIsIdentity
<1> QED BY <1>1, <1>2 DEF Identity, Person

(*-------------------------------- family ---------------------------------*)
\* The inductive invariant of the family
FamilyInv == FamilyTypeOK /\ NobodyIsTheirOwnParent

\* A family starts with nobody linked to anybody.
LEMMA FamilyInitInv == FamilyInit => FamilyInv
<1> SUFFICES ASSUME FamilyInit PROVE FamilyInv
  OBVIOUS
<1>1. PICK m \in Migrated :
         /\ ids = m.ids /\ owner = m.owner /\ logins = m.logins
         /\ links = LegacyLinks
         /\ grants = {<<l[1], m.owner[l[2]]>> : l \in {l \in LegacyLinks : m.owner[l[2]] # None}}
         /\ parents = [pq \in Persons \X Persons |->
              IF \E l \in LegacyLinks : pq = <<m.ids.bridge[l[2]], m.ids.bridge[l[1]]>> /\ pq[1] # pq[2] THEN "open" ELSE "none"]
  BY DEF FamilyInit
<1>2. m \in [ids : Identity, owner : [Records -> Logins \cup {None}], logins : [Logins -> Login]]
  BY FamilyAssumption
<1>3. ids \in Identity /\ owner \in [Records -> Logins \cup {None}] /\ logins \in [Logins -> Login]
  BY <1>1, <1>2
<1>4. grants \subseteq Riders \X Logins
  <2> SUFFICES ASSUME NEW l \in LegacyLinks, m.owner[l[2]] # None PROVE l[1] \in Riders /\ m.owner[l[2]] \in Logins
    BY <1>1
  <2>1. l[1] \in Riders /\ l[2] \in Records
    BY FamilyAssumption DEF Records
  <2> QED BY <2>1, <1>1, <1>3
<1>5. parents \in [Persons \X Persons -> Relation] /\ NobodyIsTheirOwnParent
  BY <1>1 DEF Relation, NobodyIsTheirOwnParent
<1>6. links \subseteq Riders \X Contacts /\ asked \subseteq Persons /\ acting \in Staff
  BY <1>1, FamilyAssumption DEF FamilyInit, Staff
<1> QED BY <1>3, <1>4, <1>5, <1>6 DEF FamilyInv, FamilyTypeOK

\* A person saved or a login form opened touches neither the relationships nor the grants.
LEMMA PeopleStepInv ==
  ASSUME FamilyInv, PeopleStep, acting' \in Staff
  PROVE  FamilyInv'
<1>1. ASSUME NEW p \in Persons, NEW u \in Logins \cup {None}, NEW active \in BOOLEAN, PersonSave(p, u, active)
      PROVE  FamilyInv'
  <2>1. ids' \in Identity
    BY <1>1 DEF PersonSave, FamilyInv, FamilyTypeOK, Identity, Person
  <2> QED BY <1>1, <2>1 DEF PersonSave, FamilyInv, FamilyTypeOK, NobodyIsTheirOwnParent
<1>2. ASSUME NEW p \in Persons, PersonLoginForm(p) PROVE FamilyInv'
  BY <1>2 DEF PersonLoginForm, FamilyInv, FamilyTypeOK, NobodyIsTheirOwnParent
<1> QED BY <1>1, <1>2 DEF PeopleStep

\* A relationship is saved between two people.
LEMMA RelationStepInv ==
  ASSUME FamilyInv, RelationStep, acting' \in Staff
  PROVE  FamilyInv'
<1>1. PICK p, q \in Persons, relation \in Relation \ {"none"} : RelationshipSave(p, q, relation)
  BY DEF RelationStep
<1>2. parents' = [parents EXCEPT ![<<p, q>>] = relation] /\ p # q
  BY <1>1 DEF RelationshipSave
<1>3. parents' \in [Persons \X Persons -> Relation] /\ NobodyIsTheirOwnParent'
  BY <1>2 DEF FamilyInv, FamilyTypeOK, NobodyIsTheirOwnParent
<1> QED BY <1>1, <1>3 DEF RelationshipSave, FamilyInv, FamilyTypeOK

\* What a contact's riders grant a login is a grant to a login.
LEMMA GrantsOfType ==
  ASSUME NEW x, NEW u \in Logins
  PROVE  GrantsOf(x, u) \subseteq Riders \X Logins
<1> SUFFICES ASSUME NEW r \in Riders PROVE <<r, u>> \in Riders \X Logins
  BY DEF GrantsOf
<1> QED OBVIOUS

\* A login is set on a person, a role and a state on a login.
LEMMA FieldsKeepTypes ==
  ASSUME FamilyTypeOK, NEW u \in Logins
  PROVE  /\ \A p \in Persons : [ids EXCEPT !.people[p].login = u] \in Identity
         /\ \A role \in Roles : NewLogin(u, role) \in [Logins -> Login]
         /\ \A role \in Roles, active \in BOOLEAN : EditedLogin(u, role, active) \in [Logins -> Login]
<1>1. ASSUME NEW p \in Persons PROVE [ids EXCEPT !.people[p].login = u] \in Identity
  <2>1. ids \in Identity /\ ids.people \in [Persons -> Person] /\ ids.people[p] \in Person
    BY DEF FamilyTypeOK, Identity
  <2>2. [ids.people[p] EXCEPT !.login = u] \in Person
    BY <2>1 DEF Person
  <2>3. [ids.people EXCEPT ![p] = [ids.people[p] EXCEPT !.login = u]] \in [Persons -> Person]
    BY <2>1, <2>2
  <2>4. [ids EXCEPT !.people = [ids.people EXCEPT ![p] = [ids.people[p] EXCEPT !.login = u]]] \in Identity
    BY <2>1, <2>3 DEF Identity
  <2> QED BY <2>1, <2>4
<1>2. ASSUME NEW role \in Roles PROVE NewLogin(u, role) \in [Logins -> Login]
  BY DEF NewLogin, FamilyTypeOK, Login
<1>3. ASSUME NEW role \in Roles, NEW active \in BOOLEAN PROVE EditedLogin(u, role, active) \in [Logins -> Login]
  <2>1. [logins[u] EXCEPT !.role = role, !.active = active] \in Login
    BY DEF FamilyTypeOK, Login
  <2>2. EditedLogin(u, role, active) = [logins EXCEPT ![u] = [logins[u] EXCEPT !.role = role, !.active = active]]
    BY DEF EditedLogin, FamilyTypeOK
  <2> QED BY <2>1, <2>2 DEF FamilyTypeOK
<1> QED BY <1>1, <1>2, <1>3

\* Making and editing accounts leaves the relationships alone.
LEMMA AccountStepInv ==
  ASSUME FamilyInv, NEW by \in Staff, NEW roles \in SUBSET Roles, AccountStep(by, roles), acting' \in Staff
  PROVE  FamilyInv'
<1> PICK u \in Logins, role \in roles :
      \/ \E p \in Persons : PersonLoginSave(by, p, u, role)
      \/ \E x \in Records \cup {NoRecord} : UserCreate(by, u, role, x)
      \/ \E active \in BOOLEAN : PersonAccountEdit(by, u, role, active)
      \/ \E active \in BOOLEAN, x \in Records \cup {NoRecord} : LegacyAccountEdit(by, u, role, active, x)
  BY DEF AccountStep
<1>0. role \in Roles /\ None \in Logins \cup {None}
  OBVIOUS
<1> SUFFICES /\ UNCHANGED <<links, parents, asked>>
             /\ ids' \in Identity /\ logins' \in [Logins -> Login]
             /\ owner' \in [Records -> Logins \cup {None}]
             /\ grants' \subseteq Riders \X Logins
  BY DEF FamilyInv, FamilyTypeOK, NobodyIsTheirOwnParent
<1>1. ASSUME NEW p \in Persons, PersonLoginSave(by, p, u, role)
      PROVE  /\ UNCHANGED <<links, parents, asked>>
             /\ ids' \in Identity /\ logins' \in [Logins -> Login]
             /\ owner' \in [Records -> Logins \cup {None}]
             /\ grants' \subseteq Riders \X Logins
  <2>1. ids' \in Identity
    BY <1>1, FieldsKeepTypes DEF PersonLoginSave, FamilyInv
  <2>2. logins' \in [Logins -> Login]
    BY <1>0, <1>1, FieldsKeepTypes DEF PersonLoginSave, FamilyInv
  <2>3. owner' \in [Records -> Logins \cup {None}]
    BY <1>1 DEF PersonLoginSave, FamilyInv, FamilyTypeOK
  <2>4. grants' \subseteq Riders \X Logins
    <3>1. grants' = grants \cup UNION {GrantsOf(x, u) : x \in {x \in Contacts : ids.bridge[x] = p}}
      BY <1>1 DEF PersonLoginSave
    <3> QED BY <3>1, GrantsOfType DEF FamilyInv, FamilyTypeOK
  <2> QED BY <1>1, <2>1, <2>2, <2>3, <2>4 DEF PersonLoginSave
<1>2. ASSUME NEW x \in Records \cup {NoRecord}, UserCreate(by, u, role, x)
      PROVE  /\ UNCHANGED <<links, parents, asked>>
             /\ ids' \in Identity /\ logins' \in [Logins -> Login]
             /\ owner' \in [Records -> Logins \cup {None}]
             /\ grants' \subseteq Riders \X Logins
  <2>1. ids' \in Identity
    BY <1>0, <1>2, SyncedIsIdentity DEF UserCreate, FamilyInv, FamilyTypeOK
  <2>2. logins' \in [Logins -> Login]
    BY <1>0, <1>2, FieldsKeepTypes DEF UserCreate, FamilyInv
  <2>3. owner' \in [Records -> Logins \cup {None}]
    BY <1>2 DEF UserCreate, FamilyInv, FamilyTypeOK
  <2>4. grants' \subseteq Riders \X Logins
    BY <1>2, GrantsOfType DEF UserCreate, FamilyInv, FamilyTypeOK
  <2> QED BY <1>2, <2>1, <2>2, <2>3, <2>4 DEF UserCreate
<1>3. ASSUME NEW active \in BOOLEAN, PersonAccountEdit(by, u, role, active)
      PROVE  /\ UNCHANGED <<links, parents, asked>>
             /\ ids' \in Identity /\ logins' \in [Logins -> Login]
             /\ owner' \in [Records -> Logins \cup {None}]
             /\ grants' \subseteq Riders \X Logins
  <2>1. ids' \in Identity
    BY <1>0, <1>3, SyncedIsIdentity DEF PersonAccountEdit, FamilyInv, FamilyTypeOK
  <2>2. logins' \in [Logins -> Login]
    BY <1>0, <1>3, FieldsKeepTypes DEF PersonAccountEdit, FamilyInv
  <2> QED BY <1>3, <2>1, <2>2 DEF PersonAccountEdit, FamilyInv, FamilyTypeOK
<1>4. ASSUME NEW active \in BOOLEAN, NEW x \in Records \cup {NoRecord}, LegacyAccountEdit(by, u, role, active, x)
      PROVE  /\ UNCHANGED <<links, parents, asked>>
             /\ ids' \in Identity /\ logins' \in [Logins -> Login]
             /\ owner' \in [Records -> Logins \cup {None}]
             /\ grants' \subseteq Riders \X Logins
  <2>1. ids' \in Identity
    BY <1>0, <1>4, SyncedIsIdentity DEF LegacyAccountEdit, FamilyInv, FamilyTypeOK
  <2>2. logins' \in [Logins -> Login]
    BY <1>0, <1>4, FieldsKeepTypes DEF LegacyAccountEdit, FamilyInv
  <2>3. owner' \in [Records -> Logins \cup {None}]
    BY <1>4 DEF LegacyAccountEdit, FamilyInv, FamilyTypeOK
  <2>4. grants' \subseteq Riders \X Logins
    <3>1. grants' \subseteq grants \cup GrantsOf(x, u)
      BY <1>4 DEF LegacyAccountEdit
    <3> QED BY <3>1, GrantsOfType DEF FamilyInv, FamilyTypeOK
  <2> QED BY <1>4, <2>1, <2>2, <2>3, <2>4 DEF LegacyAccountEdit
<1> QED BY <1>1, <1>2, <1>3, <1>4

\* A rider and a contact made sure of one after the other are bridged to two people, or to one.
LEMMA BothEnsured ==
  ASSUME FamilyTypeOK, NEW r \in Riders, NEW g \in Contacts,
         NEW t \in Ensured(ids, r, owner[r]), NEW w \in Ensured(t, g, owner[g])
  PROVE  w \in Identity /\ w.bridge[g] \in Persons /\ w.bridge[r] \in Persons
<1>1. r \in Records /\ g \in Records /\ owner[r] \in Logins \cup {None} /\ owner[g] \in Logins \cup {None} /\ ids \in Identity
  BY DEF Records, FamilyTypeOK
<1>2. t \in Identity /\ t.bridge[r] \in Persons
  BY <1>1, EnsuredIsIdentity
<1> QED BY <1>1, <1>2, EnsuredIsIdentity, EnsuredKeepsBridges

\* Bookmarks, links and their ends: the relationship opened is between two people, and ending one opens none.
LEMMA LinkStepInv ==
  ASSUME FamilyInv, LinkStep, acting' \in Staff
  PROVE  FamilyInv'
<1>0. /\ ids \in Identity /\ \A x \in Records : owner[x] \in Logins \cup {None}
      /\ parents \in [Persons \X Persons -> Relation]
      /\ Riders \subseteq Records
  BY DEF FamilyInv, FamilyTypeOK, Records
<1>1. ASSUME NEW x \in Records, RecordOpened(x) PROVE FamilyInv'
  <2>1. ids' \in Identity
    BY <1>0, <1>1, EnsuredIsIdentity DEF RecordOpened
  <2> QED BY <1>1, <2>1 DEF RecordOpened, FamilyInv, FamilyTypeOK, NobodyIsTheirOwnParent
<1>2. ASSUME NEW r \in Riders, NEW p \in Persons, NEW u \in Logins \cup {None}, GuardianLink(r, p, u) PROVE FamilyInv'
  <2>1. PICK t \in Ensured(ids, r, owner[r]) :
          /\ ids' = t \/ (u \in Logins /\ ids' = Born(t, p, u))
          /\ p # t.bridge[r]
          /\ parents' = [parents EXCEPT ![<<p, t.bridge[r]>>] = "open"]
          /\ UNCHANGED <<logins, owner, links, grants, asked>>
    BY <1>2 DEF GuardianLink
  <2>2. t \in Identity /\ t.bridge[r] \in Persons
    BY <1>0, EnsuredIsIdentity
  <2>3. ids' \in Identity
    BY <2>1, <2>2, BornIsIdentity
  <2>4. parents' \in [Persons \X Persons -> Relation] /\ NobodyIsTheirOwnParent'
    BY <1>0, <2>1, <2>2 DEF FamilyInv, NobodyIsTheirOwnParent, Relation
  <2> QED BY <2>1, <2>3, <2>4 DEF FamilyInv, FamilyTypeOK
<1>3. ASSUME NEW r \in Riders, NEW g \in Contacts, GuardianEdit(r, g) PROVE FamilyInv'
  <2>0. PICK t \in Ensured(ids, r, owner[r]) : \E w \in Ensured(t, g, owner[g]) :
          ids' = w /\ parents' = Opened(<<w.bridge[g], w.bridge[r]>>)
    BY <1>3 DEF GuardianEdit
  <2>1. PICK w \in Ensured(t, g, owner[g]) :
          ids' = w /\ parents' = Opened(<<w.bridge[g], w.bridge[r]>>)
    BY <2>0
  <2>2. w \in Identity /\ w.bridge[g] \in Persons /\ w.bridge[r] \in Persons
    BY BothEnsured DEF FamilyInv
  <2>3. parents' \in [Persons \X Persons -> Relation] /\ NobodyIsTheirOwnParent'
    BY <1>0, <2>1, <2>2 DEF Opened, MayRelate, FamilyInv, NobodyIsTheirOwnParent, Relation
  <2> QED BY <1>3, <2>1, <2>2, <2>3 DEF GuardianEdit, FamilyInv, FamilyTypeOK
<1>4. ASSUME NEW r \in Riders, NEW g \in Contacts, GuardianUnlink(r, g) PROVE FamilyInv'
  <2>0. PICK t \in Ensured(ids, r, owner[r]) : \E w \in Ensured(t, g, owner[g]) :
          ids' = w /\ parents' = Ended(<<w.bridge[g], w.bridge[r]>>)
    BY <1>4 DEF GuardianUnlink
  <2>1. PICK w \in Ensured(t, g, owner[g]) :
          ids' = w /\ parents' = Ended(<<w.bridge[g], w.bridge[r]>>)
    BY <2>0
  <2>2. w \in Identity /\ w.bridge[g] \in Persons /\ w.bridge[r] \in Persons
    BY BothEnsured DEF FamilyInv
  <2>3. parents' \in [Persons \X Persons -> Relation] /\ NobodyIsTheirOwnParent'
    BY <1>0, <2>1, <2>2 DEF Ended, FamilyInv, NobodyIsTheirOwnParent, Relation
  <2>4. links' \subseteq Riders \X Contacts /\ grants' \subseteq Riders \X Logins
    BY <1>4 DEF GuardianUnlink, Ungranted, FamilyInv, FamilyTypeOK
  <2> QED BY <1>4, <2>1, <2>2, <2>3, <2>4 DEF GuardianUnlink, FamilyInv, FamilyTypeOK
<1> QED BY <1>1, <1>2, <1>3, <1>4 DEF LinkStep

\* The two queries read the same six routes.
LEMMA ListMatchesPages == FamilyTypeOK => PersonalListMatchesPages
<1> SUFFICES ASSUME FamilyTypeOK, NEW u \in Logins, logins[u].role \notin Staff
             PROVE  PersonalRiders(u) = {r \in Riders : CanViewPrivateRider(u, r)}
  BY DEF PersonalListMatchesPages
<1>1. ASSUME NEW r \in Riders
      PROVE  r \in PersonalRiders(u) <=> CanViewPrivateRider(u, r)
  BY DEF PersonalRiders, CanViewPrivateRider, ParentRiders, SelfRiders, HasParent
<1>2. PersonalRiders(u) \subseteq Riders
  BY DEF PersonalRiders, ParentRiders, SelfRiders
<1> QED BY <1>1, <1>2

\* Three of them reach the account.
LEMMA AccountsArePersonal == FamilyAccountsArePersonal
<1> SUFFICES ASSUME NEW u \in Logins, NEW r \in Riders, logins[u].role \notin Staff, CanViewFamilyAccount(u, r)
             PROVE  r \in PersonalRiders(u)
  BY DEF FamilyAccountsArePersonal
<1> QED BY DEF CanViewFamilyAccount, PersonalRiders, ParentRiders, HasParent

\* The steps of the people and family parts, taken by some manager
FamilyStep == \/ PeopleStep \/ RelationStep \/ LinkStep
              \/ \E by \in Staff, roles \in SUBSET Roles : acting' = by /\ AccountStep(by, roles)

\* Any request on people, relationships, links and accounts keeps the family sound.
LEMMA FamilyStepInv ==
  ASSUME FamilyInv, FamilyStep, acting' \in Staff
  PROVE  FamilyInv'
BY PeopleStepInv, RelationStepInv, LinkStepInv, AccountStepInv DEF FamilyStep

(*--------------------------- what links promise --------------------------*)

\* Only unlinking takes a link away, and with it the relationship and the grant.
LEMMA UnlinkEndsBoth ==
  ASSUME FamilyInv, FamilyStep, NEW r \in Riders, NEW g \in Contacts, <<r, g>> \in links, <<r, g>> \notin links'
  PROVE  /\ <<r, owner[g]>> \in grants' => \E h \in Contacts : <<r, h>> \in links' /\ owner[h] = owner[g]
         /\ parents'[ids'.bridge[g], ids'.bridge[r]] \in {"none", "closed"}
<1>1. ~PeopleStep
  BY DEF PeopleStep, PersonSave, PersonLoginForm
<1>2. ~RelationStep
  BY DEF RelationStep, RelationshipSave
<1>3. \A by \in Staff, roles \in SUBSET Roles : ~AccountStep(by, roles)
  BY DEF AccountStep, PersonLoginSave, UserCreate, PersonAccountEdit, LegacyAccountEdit
<1>4. LinkStep
  BY <1>1, <1>2, <1>3 DEF FamilyStep
<1>5. ASSUME NEW x \in Records, RecordOpened(x) PROVE FALSE
  BY <1>5 DEF RecordOpened
<1>6. ASSUME NEW q \in Riders, NEW p \in Persons, NEW u \in Logins \cup {None}, GuardianLink(q, p, u) PROVE FALSE
  BY <1>6 DEF GuardianLink
<1>7. ASSUME NEW q \in Riders, NEW h \in Contacts, GuardianEdit(q, h) PROVE FALSE
  BY <1>7 DEF GuardianEdit
<1>8. PICK q \in Riders, h \in Contacts : GuardianUnlink(q, h)
  BY <1>4, <1>5, <1>6, <1>7 DEF LinkStep
<1>9. q = r /\ h = g
  BY <1>8 DEF GuardianUnlink
<1>10. /\ links' = links \ {<<r, g>>} /\ grants' = Ungranted(r, g)
       /\ \E t \in Ensured(ids, r, owner[r]) : \E w \in Ensured(t, g, owner[g]) :
            ids' = w /\ parents' = Ended(<<w.bridge[g], w.bridge[r]>>)
  BY <1>8, <1>9 DEF GuardianUnlink
<1>11. <<r, owner[g]>> \in grants' => \E h1 \in Contacts : <<r, h1>> \in links' /\ owner[h1] = owner[g]
  BY <1>10 DEF Ungranted
<1>12. parents'[ids'.bridge[g], ids'.bridge[r]] \in {"none", "closed"}
  <2>1. PICK t \in Ensured(ids, r, owner[r]) : \E w \in Ensured(t, g, owner[g]) :
          ids' = w /\ parents' = Ended(<<w.bridge[g], w.bridge[r]>>)
    BY <1>10
  <2>2. PICK w \in Ensured(t, g, owner[g]) : ids' = w /\ parents' = Ended(<<w.bridge[g], w.bridge[r]>>)
    BY <2>1
  <2>3. w.bridge[g] \in Persons /\ w.bridge[r] \in Persons
    BY BothEnsured DEF FamilyInv
  <2> DEFINE p == w.bridge[g]
             q1 == w.bridge[r]
  <2>4. parents[<<p, q1>>] \in Relation /\ parents \in [Persons \X Persons -> Relation]
    BY <2>3 DEF FamilyInv, FamilyTypeOK
  <2>5. Ended(<<p, q1>>)[<<p, q1>>] \in {"none", "closed"}
    BY <2>3, <2>4 DEF Ended, Relation
  <2> QED BY <2>2, <2>5
<1> QED BY <1>11, <1>12

\* Logins change in account steps alone, one at a time, and staff accounts for an administrator only.
LEMMA CoachesLeaveStaff ==
  ASSUME FamilyInv, FamilyStep, acting' = "coach",
         NEW u \in Logins, logins[u] # logins'[u]
  PROVE  /\ logins[u].exists => logins[u].role \notin Staff
         /\ logins'[u].role \notin Staff
<1>1. ~PeopleStep /\ ~RelationStep
  BY DEF PeopleStep, PersonSave, PersonLoginForm, RelationStep, RelationshipSave
<1>2. ~LinkStep
  BY DEF LinkStep, RecordOpened, GuardianLink, GuardianEdit, GuardianUnlink
<1>3. PICK roles \in SUBSET Roles : AccountStep("coach", roles)
  BY <1>1, <1>2 DEF FamilyStep
<1>4. PICK v \in Logins, role \in roles :
        \/ \E p \in Persons : PersonLoginSave("coach", p, v, role)
        \/ \E x \in Records \cup {NoRecord} : UserCreate("coach", v, role, x)
        \/ \E active \in BOOLEAN : PersonAccountEdit("coach", v, role, active)
        \/ \E active \in BOOLEAN, x \in Records \cup {NoRecord} : LegacyAccountEdit("coach", v, role, active, x)
  BY <1>3 DEF AccountStep
<1>5. /\ logins' = NewLogin(v, role) \/ \E active \in BOOLEAN : logins' = EditedLogin(v, role, active)
      /\ MayGive("coach", role)
      /\ ~logins[v].exists \/ MayManageUser("coach", v)
  BY <1>4 DEF PersonLoginSave, UserCreate, PersonAccountEdit, LegacyAccountEdit
<1>6. role \notin Staff /\ (logins[v].exists => logins[v].role \notin Staff)
  BY <1>5 DEF MayGive, MayManageUser
<1>7. logins \in [Logins -> Login]
  BY DEF FamilyInv, FamilyTypeOK
<1>8. u = v
  BY <1>5, <1>7 DEF NewLogin, EditedLogin
<1>9. logins'[v].role = role
  <2>1. NewLogin(v, role)[v].role = role
    BY <1>7 DEF NewLogin
  <2>2. ASSUME NEW active \in BOOLEAN PROVE EditedLogin(v, role, active)[v].role = role
    <3>1. EditedLogin(v, role, active)[v] = [logins[v] EXCEPT !.role = role, !.active = active]
      BY <1>7 DEF EditedLogin
    <3> QED BY <3>1, <1>7 DEF Login
  <2> QED BY <1>5, <2>1, <2>2
<1> QED BY <1>6, <1>8, <1>9

\* Making sure of one person's record leaves the people that exist as they are.
LEMMA EnsuredKeepsPeople ==
  ASSUME NEW s \in Identity, NEW x \in Records, NEW u \in Logins \cup {None}, NEW t \in Ensured(s, x, u),
         NEW q \in Persons, s.people[q].exists
  PROVE  t.people[q] = s.people[q]
<1>1. \/ t = s \/ \E p \in Persons : t \in Bridged(s, x, p)
      \/ \E p \in Unborn(s) : t \in Bridged(Born(s, p, u), x, p)
  BY DEF Ensured, Of
<1>2. ASSUME NEW p \in Persons, t \in Bridged(s, x, p) PROVE t.people[q] = s.people[q]
  BY <1>2, BridgedIsIdentity
<1>3. ASSUME NEW p \in Unborn(s), t \in Bridged(Born(s, p, u), x, p) PROVE t.people[q] = s.people[q]
  <2>1. p \in Persons /\ p # q
    BY DEF Unborn
  <2>2. t.people = Born(s, p, u).people
    BY <1>3, <2>1, BornIsIdentity, BridgedIsIdentity
  <2>3. Born(s, p, u).people[q] = s.people[q]
    BY <2>1 DEF Born, Identity
  <2> QED BY <2>2, <2>3
<1> QED BY <1>1, <1>2, <1>3

\* Synchronising a login takes a person without a login, or its own.
LEMMA SyncedKeepsLogins ==
  ASSUME NEW s \in Identity, NEW u \in Logins, NEW x \in Records \cup {NoRecord}, NEW held \in Logins \cup {None},
         NEW t \in Synced(s, u, x, held), NEW q \in Persons, s.people[q].exists, s.people[q].login # None
  PROVE  t.people[q].login = s.people[q].login
<1> DEFINE mine      == Of(s, u)
           theirs(w) == IF x = NoRecord THEN {} ELSE {w.bridge[x]}
           chosen(w) == IF mine # {} THEN mine ELSE IF theirs(w) # {} THEN theirs(w) ELSE Unborn(w)
           from      == IF x = NoRecord THEN {s} ELSE Ensured(s, x, held)
<1>1. PICK w \in from : \E p \in {p \in chosen(w) : theirs(w) \subseteq {p} /\ w.people[p].login \in {None, u}} :
        t = [w EXCEPT !.people[p] = [exists |-> TRUE, active |-> TRUE, login |-> u]]
  BY DEF Synced
<1>2. PICK p \in chosen(w) : /\ w.people[p].login \in {None, u}
                             /\ t = [w EXCEPT !.people[p] = [exists |-> TRUE, active |-> TRUE, login |-> u]]
  BY <1>1
<1>3. w \in Identity /\ w.people[q] = s.people[q] /\ chosen(w) \subseteq Persons
  <2>1. w \in Identity /\ w.people[q] = s.people[q]
    BY <1>1, EnsuredIsIdentity, EnsuredKeepsPeople
  <2>2. x \in Records => w.bridge[x] \in Persons
    BY <1>1, EnsuredIsIdentity, FamilyAssumption
  <2> QED BY <2>1, <2>2 DEF Of, Unborn
<1>4. p \in Persons
  BY <1>3
<1> HIDE DEF chosen, from
<1>5. w.people \in [Persons -> Person]
  BY <1>3 DEF Identity
<1>6. t.people = [w.people EXCEPT ![p] = [exists |-> TRUE, active |-> TRUE, login |-> u]]
  BY <1>2, <1>3 DEF Identity
<1>7. CASE p = q
  BY <1>2, <1>3, <1>4, <1>5, <1>6, <1>7
<1>8. CASE p # q
  BY <1>3, <1>4, <1>5, <1>6, <1>8
<1> QED BY <1>7, <1>8

\* A person that has a login loses it to nobody but a login the manager chose among those that exist.
LEMMA NewLoginsDisplaceNobody ==
  ASSUME FamilyInv, FamilyStep, NEW q \in Persons,
         ids.people[q].exists, ids.people[q].login # None, ids'.people[q].login # ids.people[q].login
  PROVE  ids'.people[q].login \in {None} \cup {u \in Logins : logins[u].exists}
<1>0. ids \in Identity /\ owner \in [Records -> Logins \cup {None}] /\ ids.people \in [Persons -> Person] /\ Riders \subseteq Records
      /\ Contacts \subseteq Records
  BY DEF FamilyInv, FamilyTypeOK, Identity, Records
<1>1. CASE PeopleStep
  <2>1. PICK p \in Persons, u \in Logins \cup {None}, active \in BOOLEAN : PersonSave(p, u, active)
    BY <1>1 DEF PeopleStep, PersonLoginForm
  <2>2. ids'.people = [ids.people EXCEPT ![p] = [exists |-> TRUE, active |-> active, login |-> u]]
    BY <1>0, <2>1 DEF PersonSave, Identity
  <2>3. p = q /\ ids'.people[q].login = u
    BY <1>0, <2>2
  <2> QED BY <2>1, <2>3 DEF PersonSave
<1>2. CASE RelationStep
  BY <1>2 DEF RelationStep, RelationshipSave
<1>3. ASSUME NEW by \in Staff, NEW roles \in SUBSET Roles, AccountStep(by, roles) PROVE FALSE
  <2> PICK u \in Logins, role \in roles :
        \/ \E p \in Persons : PersonLoginSave(by, p, u, role)
        \/ \E x \in Records \cup {NoRecord} : UserCreate(by, u, role, x)
        \/ \E active \in BOOLEAN : PersonAccountEdit(by, u, role, active)
        \/ \E active \in BOOLEAN, x \in Records \cup {NoRecord} : LegacyAccountEdit(by, u, role, active, x)
    BY <1>3 DEF AccountStep
  <2>1. ASSUME NEW p \in Persons, PersonLoginSave(by, p, u, role) PROVE FALSE
    <3>1. ids' = [ids EXCEPT !.people[p].login = u] /\ ids.people[p].login = None
      BY <2>1 DEF PersonLoginSave, StillWithout
    <3>2. p # q /\ ids'.people[q] = ids.people[q]
      BY <1>0, <3>1 DEF Identity
    <3> QED BY <3>2
  <2>2. ASSUME NEW x \in Records \cup {NoRecord}, NEW held \in Logins \cup {None}, ids' \in Synced(ids, u, x, held) PROVE FALSE
    BY <1>0, <2>2, SyncedKeepsLogins
  <2>3. None \in Logins \cup {None} /\ NoRecord \in Records \cup {NoRecord} /\ u \in Logins \cup {None}
    OBVIOUS
  <2> QED BY <2>1, <2>2, <2>3 DEF UserCreate, PersonAccountEdit, LegacyAccountEdit
<1>4. CASE LinkStep
  <2>1. ASSUME NEW x \in Records, RecordOpened(x) PROVE FALSE
    BY <1>0, <2>1, EnsuredKeepsPeople DEF RecordOpened
  <2>2. ASSUME NEW r \in Riders, NEW p \in Persons, NEW u \in Logins \cup {None}, GuardianLink(r, p, u) PROVE FALSE
    <3>1. PICK t \in Ensured(ids, r, owner[r]) : ids' = t \/ (p \in Unborn(t) /\ u \in Logins /\ ids' = Born(t, p, u))
      BY <2>2 DEF GuardianLink
    <3>2. t \in Identity /\ t.people[q] = ids.people[q]
      BY <1>0, EnsuredIsIdentity, EnsuredKeepsPeople
    <3>3. ASSUME p \in Unborn(t), ids' = Born(t, p, u) PROVE ids'.people[q] = ids.people[q]
      <4>1. p # q
        BY <3>2, <3>3 DEF Unborn
      <4> QED BY <3>2, <3>3, <4>1 DEF Born, Identity
    <3> QED BY <3>1, <3>2, <3>3
  <2>3. ASSUME NEW r \in Riders, NEW g \in Contacts, NEW t \in Ensured(ids, r, owner[r]), ids' \in Ensured(t, g, owner[g]) PROVE FALSE
    <3>1. t \in Identity /\ t.people[q] = ids.people[q]
      BY <1>0, EnsuredIsIdentity, EnsuredKeepsPeople
    <3>2. ids'.people[q] = t.people[q]
      BY <1>0, <2>3, <3>1, EnsuredKeepsPeople
    <3> QED BY <3>1, <3>2
  <2>4. \A r \in Riders, g \in Contacts : ~GuardianEdit(r, g)
    BY <2>3 DEF GuardianEdit
  <2>5. \A r \in Riders, g \in Contacts : ~GuardianUnlink(r, g)
    BY <2>3 DEF GuardianUnlink
  <2> QED BY <1>4, <2>1, <2>2, <2>4, <2>5 DEF LinkStep
<1> QED BY <1>1, <1>2, <1>3, <1>4 DEF FamilyStep

(*------------------------------ dated roles ------------------------------*)
\* The rows of a person: finitely many, each in order, each with its own id
RowsOK(rows) ==
  /\ rows \subseteq RoleRow /\ IsFiniteSet(rows)
  /\ \A a \in rows : InOrder(a)
  /\ \A a, b \in rows : a.id = b.id => a = b

\* The row Manage roles works on is one, active if any is, and there is one if the role has rows.
LEMMA LatestIsOne ==
  ASSUME NEW rows, RowsOK(rows), NEW role
  PROVE  \/ Latest(rows, role) = {} /\ RowsOf(rows, role) = {}
         \/ \E a \in RowsOf(rows, role) : Latest(rows, role) = {a} /\ (ActiveRows(rows, role) # {} => a.active)
<1> DEFINE mine == IF ActiveRows(rows, role) # {} THEN ActiveRows(rows, role) ELSE RowsOf(rows, role)
<1>1. /\ mine \subseteq RowsOf(rows, role) /\ RowsOf(rows, role) \subseteq rows
      /\ Latest(rows, role) = {a \in mine : \A b \in mine : b.id <= a.id}
      /\ ActiveRows(rows, role) # {} => \A a \in mine : a.active
  BY DEF RowsOf, ActiveRows, Latest
<1>2. CASE mine = {}
  BY <1>1, <1>2 DEF ActiveRows
<1>3. CASE mine # {}
  <2> DEFINE ids0 == {[b \in mine |-> b.id][a] : a \in mine}
  <2>1. IsFiniteSet(mine)
    BY <1>1, FS_Subset DEF RowsOK
  <2>2. IsFiniteSet(ids0)
    <3> HIDE DEF mine
    <3> QED BY <2>1, FiniteImage
  <2> HIDE DEF mine
  <2>3. \A a \in mine : a.id \in Nat
    <3>1. \A a \in mine : a \in RoleRow
      BY <1>1 DEF RowsOK
    <3>2. RoleIds \subseteq Nat
      BY RolesAssumption
    <3> QED BY <3>1, <3>2 DEF RoleRow
  <2>4. ids0 \in SUBSET Int /\ ids0 # {}
    BY <1>3, <2>3
  <2> HIDE DEF ids0
  <2>5. PICK m \in ids0 : \A i \in ids0 : i <= m
    BY <2>2, <2>4, FiniteMax
  <2>6. PICK a \in mine : a.id = m
    BY <2>5 DEF ids0
  <2>7. \A b \in mine : b.id <= a.id
    BY <2>5, <2>6 DEF ids0
  <2>8. \A b \in mine : (\A c \in mine : c.id <= b.id) => b = a
    <3> SUFFICES ASSUME NEW b \in mine, a.id <= b.id PROVE b = a
      OBVIOUS
    <3>1. a.id = b.id
      BY <2>3, <2>7
    <3> QED BY <1>1, <3>1 DEF RowsOK
  <2>9. Latest(rows, role) = {a}
    BY <1>1, <2>7, <2>8
  <2> QED BY <1>1, <2>9
<1> QED BY <1>2, <1>3

\* A new row has an id nobody has, and no end.
LEMMA NewRowIsNew ==
  ASSUME NEW rows, RowsOK(rows), NEW role \in RoleSet, NEW start \in RoleDays \cup {NoDate}
  PROVE  \/ NewRow(rows, role, start) = {}
         \/ \E a \in RoleRow : /\ NewRow(rows, role, start) = {a} /\ a.role = role /\ a.active
                               /\ a.end = NoDate /\ \A b \in rows : b.id # a.id
<1>1. FirstId(rows) \subseteq RoleIds /\ \A i, j \in FirstId(rows) : i = j
  <2>1. FirstId(rows) \subseteq NewIds(rows) /\ NewIds(rows) \subseteq RoleIds
    BY DEF FirstId, NewIds
  <2>2. \A i, j \in FirstId(rows) : i \in Nat /\ j \in Nat /\ i <= j /\ j <= i
    BY <2>1, RolesAssumption DEF FirstId
  <2> QED BY <2>1, <2>2
<1>2. ASSUME NEW i \in FirstId(rows)
      PROVE  \E a \in RoleRow : /\ NewRow(rows, role, start) = {a} /\ a.role = role /\ a.active
                                /\ a.end = NoDate /\ \A b \in rows : b.id # a.id
  <2> DEFINE a == [id |-> i, role |-> role, start |-> start, end |-> NoDate, active |-> TRUE]
  <2>1. a \in RoleRow
    BY <1>1 DEF RoleRow
  <2>2. NewRow(rows, role, start) = {a}
    BY <1>1 DEF NewRow
  <2>3. \A b \in rows : b.id # i
    <3> SUFFICES ASSUME NEW b \in rows PROVE b.id # i
      OBVIOUS
    <3>1. b.id < i /\ b.id \in Nat /\ i \in Nat
      BY <1>1, RolesAssumption DEF FirstId, NewIds, RowsOK, RoleRow
    <3> QED BY <3>1
  <2> QED BY <2>1, <2>2, <2>3
<1>3. CASE FirstId(rows) = {}
  BY <1>3 DEF NewRow
<1> QED BY <1>2, <1>3

\* Rows stay sound when one row takes the place of the row with its id, or is added with a fresh one.
LEMMA OneRowReplaced ==
  ASSUME NEW rows, RowsOK(rows), NEW b \in RoleRow, InOrder(b)
  PROVE  RowsOK(OtherRows(rows, b) \cup {b})
<1>1. OtherRows(rows, b) \subseteq rows /\ \A a \in OtherRows(rows, b) : a.id # b.id
  BY DEF OtherRows
<1>2. IsFiniteSet(OtherRows(rows, b) \cup {b})
  BY <1>1, FS_Subset, FS_AddElement DEF RowsOK
<1> QED BY <1>1, <1>2 DEF RowsOK

\* A row the page changes keeps its id and its role; a chosen one is active without an end, the other is not active.
LEMMA ManagedRow ==
  ASSUME NEW a \in RoleRow, NEW chosen \in BOOLEAN, roleDay \in RoleDays
  PROVE  /\ Managed(a, chosen) \in RoleRow /\ Managed(a, chosen).id = a.id /\ Managed(a, chosen).role = a.role
         /\ Managed(a, chosen).active = chosen
         /\ chosen => Managed(a, chosen).end = NoDate
BY DEF Managed, RoleRow

\* What Manage roles leaves of one role: a chosen one is active, once and without an end, if it has rows at all;
\* one that is not chosen has no active row.
RoleDone(rows, role, selected) ==
  IF role \in selected
  THEN /\ RowsOf(rows, role) # {} => ActiveRows(rows, role) # {}
       /\ \A a \in ActiveRows(rows, role) : a.end = NoDate
  ELSE ActiveRows(rows, role) = {}
SingleActive(rows, role) == \A a, b \in ActiveRows(rows, role) : a = b
State == [rows : SUBSET RoleRow, stopped : BOOLEAN]
StateOK(s) == s \in State /\ RowsOK(s.rows)

\* b is what the page saves for a role: a row of that role with the choice in it, in place of a row of that role or
\* with an id of its own.
PageRow(rows, role, selected, b) ==
  /\ InOrder(b) /\ b.role = role
  /\ b.active = (role \in selected)
  /\ b.active => b.end = NoDate
  /\ \/ \E a \in rows : a.id = b.id /\ a.role = role /\ (ActiveRows(rows, role) # {} => a.active)
     \/ (\A a \in rows : a.id # b.id) /\ RowsOf(rows, role) = {}
NothingToDo(rows, role, selected) == IF role \in selected THEN RowsOf(rows, role) = {} ELSE ActiveRows(rows, role) = {}
\* What one role may do to the rows: the page stops, has nothing to do, or saves one row.
PageStep(s, role, selected, t) ==
  \/ t = [rows |-> s.rows, stopped |-> TRUE]
  \/ t = [rows |-> s.rows, stopped |-> FALSE] /\ NothingToDo(s.rows, role, selected)
  \/ \E b \in RoleRow : t = [rows |-> OtherRows(s.rows, b) \cup {b}, stopped |-> FALSE] /\ PageRow(s.rows, role, selected, b)

\* One role of the page stops it, changes nothing or saves one row.
LEMMA ManageOneForm ==
  ASSUME NEW s, StateOK(s), ~s.stopped, NEW role \in RoleSet, NEW selected, roleDay \in RoleDays
  PROVE  PageStep(s, role, selected, ManageOne(s, role, selected))
<1> DEFINE latest == Latest(s.rows, role)
           wanted == role \in selected
           saved  == {Managed(a, wanted) : a \in {a \in latest : wanted \/ a.active}}
                     \cup (IF wanted /\ latest = {} THEN NewRow(s.rows, role, roleDay) ELSE {})
           t == ManageOne(s, role, selected)
<1> SUFFICES PageStep(s, role, selected, t)
  OBVIOUS
<1>1. t = [rows |-> {a \in s.rows : \A b \in saved : a.id # b.id} \cup {b \in saved : RowFits(s.rows, b)}
                       \cup {a \in s.rows : \E b \in saved : a.id = b.id /\ ~RowFits(s.rows, b)},
           stopped |-> \E b \in saved : ~RowFits(s.rows, b)]
  BY DEF ManageOne
<1>2. RowsOK(s.rows) /\ wanted \in BOOLEAN /\ roleDay \in RoleDays \cup {NoDate}
  BY DEF StateOK
<1>3. ASSUME saved = {} PROVE t = [rows |-> s.rows, stopped |-> FALSE]
  BY <1>1, <1>3
<1>4. ASSUME NEW b, saved = {b}, ~RowFits(s.rows, b) PROVE t = [rows |-> s.rows, stopped |-> TRUE]
  <2>1. {a \in s.rows : \A c \in saved : a.id # c.id} \cup {c \in saved : RowFits(s.rows, c)}
           \cup {a \in s.rows : \E c \in saved : a.id = c.id /\ ~RowFits(s.rows, c)} = s.rows
    BY <1>4
  <2> QED BY <1>1, <1>4, <2>1
<1>5. ASSUME NEW b, saved = {b}, RowFits(s.rows, b) PROVE t = [rows |-> OtherRows(s.rows, b) \cup {b}, stopped |-> FALSE]
  <2>1. {a \in s.rows : \A c \in saved : a.id # c.id} \cup {c \in saved : RowFits(s.rows, c)}
           \cup {a \in s.rows : \E c \in saved : a.id = c.id /\ ~RowFits(s.rows, c)} = OtherRows(s.rows, b) \cup {b}
    BY <1>5 DEF OtherRows
  <2> QED BY <1>1, <1>5, <2>1
<1> HIDE DEF t
<1>6. ASSUME NEW a \in RowsOf(s.rows, role), latest = {a}, ActiveRows(s.rows, role) # {} => a.active
      PROVE  \/ saved = {} /\ ~wanted /\ ActiveRows(s.rows, role) = {}
             \/ saved = {Managed(a, wanted)}
  BY <1>6
<1>7. CASE latest = {} /\ RowsOf(s.rows, role) = {}
  <2>1. ActiveRows(s.rows, role) = {}
    BY <1>7 DEF ActiveRows
  <2>2. CASE ~wanted
    <3>1. saved = {}
      BY <1>7, <2>2
    <3>2. NothingToDo(s.rows, role, selected)
      BY <2>1, <2>2 DEF NothingToDo
    <3> HIDE DEF saved
    <3> QED BY <1>3, <3>1, <3>2 DEF PageStep
  <2>3. CASE wanted
    <3>1. saved = NewRow(s.rows, role, roleDay)
      BY <1>7, <2>3
    <3>2. NothingToDo(s.rows, role, selected)
      BY <1>7, <2>3 DEF NothingToDo
    <3> HIDE DEF saved, latest
    <3>3. CASE saved = {}
      BY <1>3, <3>2, <3>3 DEF PageStep
    <3>4. ASSUME NEW b \in RoleRow, saved = {b}, b.role = role, b.active, b.end = NoDate, \A a \in s.rows : a.id # b.id
          PROVE  PageStep(s, role, selected, t)
      <4>1. b.active = (role \in selected) /\ InOrder(b)
        BY <2>3, <3>4 DEF RoleRow, InOrder
      <4>2. PageRow(s.rows, role, selected, b)
        BY <1>7, <3>4, <4>1 DEF PageRow
      <4> QED BY <1>4, <1>5, <3>4, <4>2 DEF PageStep
    <3>5. saved = {} \/ \E b \in RoleRow : /\ saved = {b} /\ b.role = role /\ b.active
                                           /\ b.end = NoDate /\ \A a \in s.rows : a.id # b.id
      BY <1>2, <3>1, NewRowIsNew
    <3> QED BY <3>3, <3>4, <3>5
  <2> QED BY <2>2, <2>3
<1>8. CASE \E a \in RowsOf(s.rows, role) : latest = {a} /\ (ActiveRows(s.rows, role) # {} => a.active)
  <2> PICK a \in RowsOf(s.rows, role) : latest = {a} /\ (ActiveRows(s.rows, role) # {} => a.active)
    BY <1>8
  <2>1. a \in s.rows /\ a \in RoleRow /\ a.role = role
    BY <1>2 DEF RowsOf, RowsOK
  <2> DEFINE b == Managed(a, wanted)
  <2>2. /\ b \in RoleRow /\ b.id = a.id /\ b.role = role
        /\ b.active = wanted /\ (wanted => b.end = NoDate)
    BY <1>2, <2>1, ManagedRow
  <2>3. CASE saved = {} /\ ~wanted /\ ActiveRows(s.rows, role) = {}
    <3> HIDE DEF saved
    <3> QED BY <1>3, <2>3 DEF PageStep, NothingToDo
  <2>4. CASE saved = {b}
    <3> HIDE DEF saved, b
    <3>1. CASE ~RowFits(s.rows, b)
      BY <1>4, <2>4, <3>1 DEF PageStep
    <3>2. CASE RowFits(s.rows, b)
      <4>1. t = [rows |-> OtherRows(s.rows, b) \cup {b}, stopped |-> FALSE]
        BY <1>5, <2>4, <3>2
      <4>2. InOrder(b)
        BY <3>2 DEF RowFits
      <4>3. PageRow(s.rows, role, selected, b)
        BY <2>1, <2>2, <4>2 DEF PageRow
      <4> QED BY <2>2, <4>1, <4>3 DEF PageStep
    <3> QED BY <3>1, <3>2
  <2> QED BY <1>6, <2>3, <2>4
<1> QED BY <1>2, <1>7, <1>8, LatestIsOne

\* Every role leaves sound rows, and touches the rows of no other role.
LEMMA PageStepOK ==
  ASSUME NEW s, StateOK(s), NEW role \in RoleSet, NEW selected, NEW t, PageStep(s, role, selected, t)
  PROVE  /\ StateOK(t)
         /\ \A other : other # role => RowsOf(t.rows, other) = RowsOf(s.rows, other)
<1>1. RowsOK(s.rows) /\ s.rows \subseteq RoleRow
  BY DEF StateOK, RowsOK
<1>2. CASE t = [rows |-> s.rows, stopped |-> TRUE] \/ t = [rows |-> s.rows, stopped |-> FALSE]
  <2>1. t.rows = s.rows
    BY <1>2
  <2>2. \A stopped \in BOOLEAN : [rows |-> s.rows, stopped |-> stopped] \in State
    BY <1>1 DEF State
  <2>3. t \in State
    BY <1>2, <2>2
  <2> QED BY <1>1, <2>1, <2>3 DEF StateOK
<1>3. ASSUME NEW b \in RoleRow, t = [rows |-> OtherRows(s.rows, b) \cup {b}, stopped |-> FALSE], PageRow(s.rows, role, selected, b)
      PROVE  /\ StateOK(t)
             /\ \A other : other # role => RowsOf(t.rows, other) = RowsOf(s.rows, other)
  <2>1. RowsOK(t.rows)
    BY <1>1, <1>3, OneRowReplaced DEF PageRow
  <2>2. StateOK(t)
    BY <1>3, <2>1 DEF StateOK, State, RowsOK
  <2>3. b.role = role /\ \A a \in s.rows : a.id = b.id => a.role = role
    BY <1>1, <1>3 DEF PageRow, RowsOK, RowsOf
  <2>4. \A other : other # role => RowsOf(t.rows, other) = RowsOf(s.rows, other)
    BY <1>3, <2>3 DEF RowsOf, OtherRows
  <2> QED BY <2>2, <2>4
<1> QED BY <1>2, <1>3 DEF PageStep

\* A role that had at most one active row is done after its turn, and keeps at most one.
LEMMA PageStepDone ==
  ASSUME NEW s, StateOK(s), NEW role \in RoleSet, NEW selected, NEW t, PageStep(s, role, selected, t), ~t.stopped,
         SingleActive(s.rows, role)
  PROVE  RoleDone(t.rows, role, selected) /\ SingleActive(t.rows, role)
<1>1. RowsOK(s.rows)
  BY DEF StateOK
<1>2. CASE t = [rows |-> s.rows, stopped |-> FALSE] /\ NothingToDo(s.rows, role, selected)
  BY <1>2 DEF NothingToDo, RoleDone, ActiveRows
<1>3. ASSUME NEW b \in RoleRow, t = [rows |-> OtherRows(s.rows, b) \cup {b}, stopped |-> FALSE], PageRow(s.rows, role, selected, b)
      PROVE  RoleDone(t.rows, role, selected) /\ SingleActive(t.rows, role)
  <2>1. ActiveRows(OtherRows(s.rows, b), role) = {}
    <3> SUFFICES ASSUME NEW c \in s.rows, c.id # b.id, c.role = role, c.active PROVE FALSE
      BY DEF ActiveRows, RowsOf, OtherRows
    <3>1. c \in ActiveRows(s.rows, role)
      BY DEF ActiveRows, RowsOf
    <3>2. PICK a \in s.rows : a.id = b.id /\ a.role = role /\ a.active
      BY <1>3, <3>1 DEF PageRow, RowsOf
    <3>3. a \in ActiveRows(s.rows, role)
      BY <3>2 DEF ActiveRows, RowsOf
    <3> QED BY <3>1, <3>2, <3>3 DEF SingleActive
  <2>2. ActiveRows(t.rows, role) = {c \in {b} : c.active}
    BY <1>3, <2>1 DEF ActiveRows, RowsOf, PageRow
  <2>3. SingleActive(t.rows, role)
    BY <2>2 DEF SingleActive
  <2>4. RoleDone(t.rows, role, selected)
    BY <1>3, <2>2 DEF RoleDone, PageRow
  <2> QED BY <2>3, <2>4
<1> QED BY <1>2, <1>3 DEF PageStep

(*--------------------------- the page of roles ---------------------------*)
\* g holds what the page has done after each role.
IsManaged(g, n, selected) ==
  g = [m \in 0..n |-> IF m = 0 THEN [rows |-> roleRows, stopped |-> FALSE] ELSE ManageOne(g[m - 1], RoleOrder[m], selected)]

\* The recursive function of the page has a solution, for any number of roles.
LEMMA ManagedExists ==
  ASSUME NEW selected
  PROVE  \A n \in Nat : \E g : IsManaged(g, n, selected)
<1> DEFINE S == {m \in Nat : \E g : IsManaged(g, m, selected)}
           start == [rows |-> roleRows, stopped |-> FALSE]
<1>1. 0 \in S
  <2>1. IsManaged([i \in 0..0 |-> start], 0, selected)
    BY DEF IsManaged
  <2> QED BY <2>1
<1>2. ASSUME NEW m \in Nat, m \in S PROVE m + 1 \in S
  <2>1. PICK g : IsManaged(g, m, selected)
    BY <1>2
  <2> DEFINE h == [i \in 0..(m + 1) |-> IF i = m + 1 THEN ManageOne(g[m], RoleOrder[m + 1], selected) ELSE g[i]]
  <2>2. ASSUME NEW i \in 0..(m + 1) PROVE h[i] = IF i = 0 THEN start ELSE ManageOne(h[i - 1], RoleOrder[i], selected)
    <3>1. CASE i = m + 1
      BY <3>1
    <3>2. CASE i # m + 1
      <4>1. i \in 0..m /\ h[i] = g[i] /\ (i # 0 => h[i - 1] = g[i - 1])
        BY <3>2
      <4> QED BY <2>1, <4>1 DEF IsManaged
    <3> QED BY <3>1, <3>2
  <2>3. h = [i \in 0..(m + 1) |-> h[i]]
    OBVIOUS
  <2> HIDE DEF h
  <2>4. IsManaged(h, m + 1, selected)
    BY <2>2, <2>3 DEF IsManaged
  <2> QED BY <2>4
<1> HIDE DEF S
<1>3. Nat \subseteq S
  BY <1>1, <1>2, NatSetInduction
<1> QED BY <1>3 DEF S

\* ManagedTo reads off the last value of such a solution.
LEMMA ManagedToIs ==
  ASSUME NEW selected
  PROVE  \E g : IsManaged(g, Len(RoleOrder), selected) /\ ManagedTo(selected) = g[Len(RoleOrder)]
<1> DEFINE n == Len(RoleOrder)
           g == CHOOSE g : IsManaged(g, n, selected)
<1>0. n \in Nat
  BY RolesAssumption
<1>1. IsManaged(g, n, selected)
  BY <1>0, ManagedExists, Zenon
<1>2. ManagedTo(selected) = g[n]
  BY DEF ManagedTo, IsManaged
<1> QED BY <1>1, <1>2, Zenon

\* What the page has done after n roles: sound rows; if it has not stopped, no role has two active rows that had
\* one at most, and the roles so far are done.
PageSoFar(s, n, selected) ==
  /\ StateOK(s)
  /\ (~s.stopped /\ \A role \in RoleSet : SingleActive(roleRows, role)) =>
        /\ \A role \in RoleSet : SingleActive(s.rows, role)
        /\ \A i \in 1..n : RoleDone(s.rows, RoleOrder[i], selected)

\* The page leaves sound rows, and the chosen roles if nothing stopped it.
LEMMA ManagedToOK ==
  ASSUME RowsOK(roleRows), roleDay \in RoleDays, NEW selected
  PROVE  PageSoFar(ManagedTo(selected), Len(RoleOrder), selected)
<1> DEFINE n == Len(RoleOrder)
<1>0. n \in Nat /\ \A i \in 1..n : RoleOrder[i] \in RoleSet
  BY RolesAssumption DEF RoleSet
<1>1. PICK g : IsManaged(g, n, selected) /\ ManagedTo(selected) = g[n]
  BY ManagedToIs
<1> DEFINE S == {m \in Nat : m <= n => PageSoFar(g[m], m, selected)}
<1> HIDE DEF n
<1>2. 0 \in S
  <2>1. g[0] = [rows |-> roleRows, stopped |-> FALSE]
    BY <1>0, <1>1 DEF IsManaged
  <2>2. PageSoFar(g[0], 0, selected)
    BY <2>1 DEF PageSoFar, StateOK, State, RowsOK
  <2> QED BY <2>2
<1>3. ASSUME NEW m \in Nat, m \in S PROVE m + 1 \in S
  <2> SUFFICES ASSUME m + 1 <= n PROVE PageSoFar(g[m + 1], m + 1, selected)
    OBVIOUS
  <2> DEFINE s == g[m]
             t == g[m + 1]
             role == RoleOrder[m + 1]
  <2>1. t = ManageOne(s, role, selected) /\ role \in RoleSet /\ PageSoFar(s, m, selected)
    <3>1. m + 1 \in 0..n /\ m + 1 \in 1..n /\ m + 1 # 0 /\ (m + 1) - 1 = m /\ m <= n
      BY <1>0
    <3> QED BY <1>0, <1>1, <1>3, <3>1 DEF IsManaged
  <2> HIDE DEF s, t, role
  <2>2. StateOK(s)
    BY <2>1 DEF PageSoFar
  <2>3. CASE s.stopped
    <3>1. t = s
      BY <2>1, <2>3 DEF ManageOne
    <3>2. PageSoFar(t, m + 1, selected)
      BY <2>2, <2>3, <3>1 DEF PageSoFar
    <3> QED BY <3>2 DEF t
  <2>4. CASE ~s.stopped
    <3>1. PageStep(s, role, selected, t)
      BY <2>1, <2>2, <2>4, ManageOneForm
    <3>2. /\ StateOK(t)
          /\ \A other : other # role => RowsOf(t.rows, other) = RowsOf(s.rows, other)
      BY <2>1, <2>2, <3>1, PageStepOK
    <3>3. ASSUME ~t.stopped, \A r \in RoleSet : SingleActive(roleRows, r)
          PROVE  /\ \A r \in RoleSet : SingleActive(t.rows, r)
                 /\ \A i \in 1..(m + 1) : RoleDone(t.rows, RoleOrder[i], selected)
      <4>1. /\ \A r \in RoleSet : SingleActive(s.rows, r)
            /\ \A i \in 1..m : RoleDone(s.rows, RoleOrder[i], selected)
        BY <2>1, <2>4, <3>3 DEF PageSoFar
      <4>2. RoleDone(t.rows, role, selected) /\ SingleActive(t.rows, role)
        BY <2>1, <2>2, <3>1, <3>3, <4>1, PageStepDone
      <4>3. \A other : other # role => ActiveRows(t.rows, other) = ActiveRows(s.rows, other)
        BY <3>2 DEF ActiveRows
      <4>4. \A r \in RoleSet : SingleActive(t.rows, r)
        BY <4>1, <4>2, <4>3 DEF SingleActive
      <4>5. ASSUME NEW i \in 1..(m + 1) PROVE RoleDone(t.rows, RoleOrder[i], selected)
        <5>1. CASE RoleOrder[i] = role
          BY <4>2, <5>1
        <5>2. CASE RoleOrder[i] # role
          <6>1. i \in 1..m
            BY <5>2 DEF role
          <6> QED BY <3>2, <4>1, <4>3, <5>2, <6>1 DEF RoleDone
        <5> QED BY <5>1, <5>2
      <4> QED BY <4>4, <4>5
    <3>4. PageSoFar(t, m + 1, selected)
      BY <3>2, <3>3 DEF PageSoFar
    <3> QED BY <3>4 DEF t
  <2> QED BY <2>3, <2>4
<1> HIDE DEF S
<1>4. Nat \subseteq S
  BY <1>2, <1>3, NatSetInduction
<1>5. PageSoFar(g[n], n, selected)
  BY <1>0, <1>4 DEF S
<1> QED BY <1>1, <1>5 DEF n

\* Whatever the page was asked to do, every role is done: it lists all roles, the chosen ones have rows by the bound
\* on ids, and an active row of a role belongs to one of the roles it lists.
LEMMA ChosenRolesStay ==
  ASSUME RowsOK(roleRows), roleDay \in RoleDays,
         NEW selected \in SUBSET RoleSet, PersonRolesSave(selected), ~ManagedTo(selected).stopped,
         \A role \in RoleSet : \A a, b \in ActiveRows(roleRows, role) : a = b
  PROVE  /\ {a.role : a \in {a \in roleRows' : a.active}} = selected
         /\ \A a \in roleRows' : a.active => a.end = NoDate
<1> DEFINE rows == ManagedTo(selected).rows
<1>1. roleRows' = rows /\ selected \subseteq {a.role : a \in rows}
  BY DEF PersonRolesSave
<1>2. PageSoFar(ManagedTo(selected), Len(RoleOrder), selected)
  BY ManagedToOK
<1>3. RowsOK(rows) /\ \A i \in 1..Len(RoleOrder) : RoleDone(rows, RoleOrder[i], selected)
  BY <1>2 DEF PageSoFar, StateOK, SingleActive
<1> HIDE DEF rows
<1>4. \A role \in RoleSet : RoleDone(rows, role, selected)
  BY <1>3 DEF RoleSet
<1>5. ASSUME NEW a \in rows, a.active PROVE a.role \in selected /\ a.end = NoDate
  <2>1. a.role \in RoleSet
    BY <1>3 DEF RowsOK, RoleRow
  <2>2. a \in ActiveRows(rows, a.role)
    BY <1>5 DEF ActiveRows, RowsOf
  <2> QED BY <1>4, <2>1, <2>2 DEF RoleDone
<1>6. ASSUME NEW role \in selected PROVE \E a \in rows : a.active /\ a.role = role
  <2>1. PICK a \in rows : a.role = role
    BY <1>1
  <2>2. a \in RowsOf(rows, role)
    BY <2>1 DEF RowsOf
  <2>3. ActiveRows(rows, role) # {}
    BY <1>4, <2>2 DEF RoleDone
  <2> QED BY <2>3 DEF ActiveRows, RowsOf
<1> QED BY <1>1, <1>5, <1>6

\* The inductive invariant of the roles, and of the rider's lifecycle when no stale rider is saved
RolesInv  == RolesTypeOK /\ RowsOK(roleRows)
RosterInv == LifecycleMatchesActive /\ heldActive = riderActive

\* Roles start without rows, so nothing contradicts a date or a state.
LEMMA RolesInitInv == RolesInit => RolesInv /\ RosterInv
<1> SUFFICES ASSUME RolesInit PROVE RolesInv /\ RosterInv
  OBVIOUS
<1>1. RowsOK({})
  BY FS_EmptySet DEF RowsOK
<1>2. roleRows = {} /\ 1 \in RoleDays
  BY RolesAssumption DEF RolesInit
<1>3. RolesTypeOK /\ RosterInv
  BY <1>2 DEF RolesInit, RolesTypeOK, RosterInv, LifecycleMatchesActive, Statuses
<1> QED BY <1>1, <1>2, <1>3 DEF RolesInv

\* Rows stay sound when a role gets a new row.
LEMMA NewRowKept ==
  ASSUME NEW rows, RowsOK(rows), NEW role \in RoleSet, NEW start \in RoleDays \cup {NoDate}
  PROVE  RowsOK(rows \cup NewRow(rows, role, start))
<1>1. CASE NewRow(rows, role, start) = {}
  BY <1>1
<1>2. ASSUME NEW a \in RoleRow, NewRow(rows, role, start) = {a}, a.end = NoDate, \A b \in rows : b.id # a.id
      PROVE  RowsOK(rows \cup NewRow(rows, role, start))
  <2>1. OtherRows(rows, a) = rows /\ InOrder(a)
    BY <1>2 DEF OtherRows, InOrder
  <2> QED BY <1>2, <2>1, OneRowReplaced
<1>3. \/ NewRow(rows, role, start) = {}
      \/ \E a \in RoleRow : /\ NewRow(rows, role, start) = {a} /\ a.role = role /\ a.active
                            /\ a.end = NoDate /\ \A b \in rows : b.id # a.id
  BY NewRowIsNew
<1> QED BY <1>1, <1>2, <1>3

\* Only the undated rows that come back change, and lose their end.
LEMMA UndatedRowsKept ==
  ASSUME NEW rows, RowsOK(rows), NEW undated \in SUBSET rows
  PROVE  RowsOK((rows \ undated) \cup {[a EXCEPT !.active = TRUE, !.end = NoDate] : a \in undated})
<1> DEFINE back == [a \in undated |-> [a EXCEPT !.active = TRUE, !.end = NoDate]]
           after == (rows \ undated) \cup {back[a] : a \in undated}
<1>1. ASSUME NEW a \in undated PROVE back[a] \in RoleRow /\ back[a].id = a.id /\ InOrder(back[a])
  <2>1. a \in RoleRow
    BY DEF RowsOK
  <2> QED BY <2>1 DEF RoleRow, InOrder
<1>2. IsFiniteSet({back[a] : a \in undated}) /\ IsFiniteSet(rows \ undated)
  <2>1. IsFiniteSet(undated) /\ IsFiniteSet(rows \ undated)
    BY FS_Subset DEF RowsOK
  <2> HIDE DEF back
  <2> QED BY <2>1, FiniteImage
<1>3. IsFiniteSet(after)
  <2> HIDE DEF back
  <2> QED BY <1>2, FS_Union
<1> HIDE DEF back
<1>4. RowsOK(after)
  BY <1>1, <1>3 DEF RowsOK
<1>5. {back[a] : a \in undated} = {[a EXCEPT !.active = TRUE, !.end = NoDate] : a \in undated}
  BY DEF back
<1> QED BY <1>4, <1>5

\* The roles a person starts with: one row each.
LEMMA FirstRolesOK ==
  ASSUME NEW roles \in SUBSET RoleSet, NEW idOf \in [roles -> RoleIds], roleDay \in RoleDays,
         \A r, q \in roles : idOf[r] = idOf[q] => r = q
  PROVE  RowsOK({[id |-> idOf[r], role |-> r, start |-> roleDay, end |-> NoDate, active |-> TRUE] : r \in roles})
<1> DEFINE row == [r \in roles |-> [id |-> idOf[r], role |-> r, start |-> roleDay, end |-> NoDate, active |-> TRUE]]
           rows == {row[r] : r \in roles}
<1>1. ASSUME NEW r \in roles PROVE row[r] \in RoleRow /\ InOrder(row[r]) /\ row[r].id = idOf[r]
  BY DEF RoleRow, InOrder
<1>2. IsFiniteSet(roles)
  <2>1. RoleSet = {RoleOrder[i] : i \in 1..Len(RoleOrder)} /\ Len(RoleOrder) \in Nat
    BY RolesAssumption DEF RoleSet
  <2>2. IsFiniteSet(1..Len(RoleOrder))
    BY <2>1, FS_Interval
  <2>3. IsFiniteSet(RoleSet)
    BY <2>1, <2>2, FiniteImage
  <2> QED BY <2>3, FS_Subset
<1>3. IsFiniteSet(rows)
  <2> HIDE DEF row
  <2> QED BY <1>2, FiniteImage
<1>4. rows = {[id |-> idOf[r], role |-> r, start |-> roleDay, end |-> NoDate, active |-> TRUE] : r \in roles}
  OBVIOUS
<1> HIDE DEF row
<1>5. RowsOK(rows)
  BY <1>1, <1>3 DEF RowsOK
<1> QED BY <1>4, <1>5

\* Every page, bridge and default leaves rows that are in order.
LEMMA RoleStepInv ==
  ASSUME RolesInv, RoleStep
  PROVE  RolesInv' /\ (RosterInv => RosterInv')
<1>0. /\ RolesTypeOK /\ RowsOK(roleRows) /\ roleDay \in RoleDays /\ {"rider", "parent_guardian"} \subseteq RoleSet
      /\ NoDate \in RoleDays \cup {NoDate}
      /\ RoleSet \cap {"rider", "parent_guardian"} \subseteq RoleSet
  BY RolesAssumption DEF RolesInv, RolesTypeOK
<1>1. rosterUnchanged /\ (RosterInv => RosterInv')
  <2>1. rosterUnchanged
    BY DEF RoleStep, PersonRolesSave, PersonCreate, PersonRoleEdit, EnsureActiveRole, IeaMembershipOpen, IeaMembershipSave,
           GuardianRole, RoleDayPasses
  <2> QED BY <2>1 DEF rosterUnchanged, RosterInv, LifecycleMatchesActive
<1>2. RowsOK(roleRows') => roleRows' \subseteq RoleRow
  BY DEF RowsOK
<1>3. ASSUME RowsOK(roleRows'), UNCHANGED roleDay, UNCHANGED member PROVE RolesInv'
  BY <1>0, <1>1, <1>2, <1>3 DEF RolesInv, RolesTypeOK, rosterUnchanged
<1>4. ASSUME NEW selected \in SUBSET RoleSet, PersonRolesSave(selected) PROVE RolesInv'
  <2>1. RowsOK(ManagedTo(selected).rows)
    BY <1>0, ManagedToOK DEF PageSoFar, StateOK
  <2> QED BY <1>3, <1>4, <2>1 DEF PersonRolesSave
<1>5. ASSUME NEW involvement \in SUBSET RoleSet, NEW joins \in BOOLEAN, PersonCreate(involvement, joins) PROVE RolesInv'
  <2> DEFINE roles == involvement \cup (IF joins THEN {"rider"} ELSE {})
  <2>1. roles \in SUBSET RoleSet
    BY <1>0
  <2>2. PICK idOf \in [roles -> RoleIds] :
          /\ \A r, q \in roles : idOf[r] = idOf[q] => r = q
          /\ roleRows' = {[id |-> idOf[r], role |-> r, start |-> roleDay, end |-> NoDate, active |-> TRUE] : r \in roles}
    BY <1>5 DEF PersonCreate
  <2>3. RowsOK(roleRows')
    <3> HIDE DEF roles
    <3> QED BY <1>0, <2>1, <2>2, FirstRolesOK
  <2>4. member' \in [created : BOOLEAN, participant : BOOLEAN, season : BOOLEAN] /\ UNCHANGED roleDay
    BY <1>5 DEF PersonCreate
  <2> QED BY <1>0, <1>1, <1>2, <2>3, <2>4 DEF RolesInv, RolesTypeOK, rosterUnchanged
<1>6. ASSUME NEW a \in roleRows, NEW start \in RoleDays \cup {NoDate}, NEW end \in RoleDays \cup {NoDate},
             NEW active \in BOOLEAN, PersonRoleEdit(a, start, end, active) PROVE RolesInv'
  <2> DEFINE edited == [a EXCEPT !.start = start, !.end = end, !.active = active]
  <2>1. a \in RoleRow
    BY <1>0 DEF RowsOK
  <2>2. edited \in RoleRow /\ edited.id = a.id
    BY <2>1 DEF RoleRow
  <2>3. InOrder(edited) /\ roleRows' = OtherRows(roleRows, a) \cup {edited} /\ UNCHANGED <<roleDay, member>>
    BY <1>6 DEF PersonRoleEdit, RowFits
  <2> HIDE DEF edited
  <2>4. OtherRows(roleRows, a) = OtherRows(roleRows, edited)
    BY <2>2 DEF OtherRows
  <2> QED BY <1>0, <1>3, <2>2, <2>3, <2>4, OneRowReplaced
<1>7. ASSUME NEW role \in RoleSet, EnsureActiveRole(role) PROVE RolesInv'
  <2> DEFINE undated == {a \in RowsOf(roleRows, role) : a.start = NoDate}
  <2>1. undated \in SUBSET roleRows
    BY DEF RowsOf
  <2>2. /\ roleRows' = IF undated # {} THEN (roleRows \ undated) \cup {[a EXCEPT !.active = TRUE, !.end = NoDate] : a \in undated}
                       ELSE roleRows \cup NewRow(roleRows, role, NoDate)
        /\ UNCHANGED <<roleDay, member>>
    BY <1>7 DEF EnsureActiveRole
  <2> HIDE DEF undated
  <2>3. RowsOK(roleRows')
    BY <1>0, <2>1, <2>2, NewRowKept, UndatedRowsKept
  <2> QED BY <1>3, <2>2, <2>3
<1>8. CASE IeaMembershipOpen
  <2>1. member' \in [created : BOOLEAN, participant : BOOLEAN, season : BOOLEAN]
    BY <1>0, <1>8 DEF IeaMembershipOpen, RolesTypeOK
  <2> QED BY <1>0, <1>1, <1>8, <2>1 DEF IeaMembershipOpen, RolesInv, RolesTypeOK, rosterUnchanged
<1>9. ASSUME NEW role \in RoleSet, roleRows' = AddRole(role), UNCHANGED <<member, roleDay>> PROVE RolesInv'
  <2>1. RowsOK(roleRows')
    BY <1>0, <1>9, NewRowKept DEF AddRole
  <2> QED BY <1>3, <1>9, <2>1
<1>10. CASE GuardianRole
  <2>1. roleRows' = AddRole("parent_guardian") /\ UNCHANGED <<member, roleDay>> /\ "parent_guardian" \in RoleSet
    BY <1>0, <1>10 DEF GuardianRole
  <2> QED BY <1>1, <1>9, <2>1
<1>11. CASE IeaMembershipSave
  <2>1. roleRows' = AddRole("rider") /\ UNCHANGED <<member, roleDay>> /\ "rider" \in RoleSet
    BY <1>0, <1>11 DEF IeaMembershipSave
  <2> QED BY <1>1, <1>9, <2>1
<1>12. CASE RoleDayPasses
  BY <1>0, <1>1, <1>12 DEF RoleDayPasses, RolesInv, RolesTypeOK, rosterUnchanged
<1> QED BY <1>0, <1>1, <1>4, <1>5, <1>6, <1>7, <1>8, <1>10, <1>11, <1>12 DEF RoleStep

\* The lifecycle and Rider.active move together as long as no stale rider is saved.
LEMMA LifecycleStepInv ==
  ASSUME RolesInv, LifecycleStep
  PROVE  RolesInv' /\ ((RosterInv /\ ~StaleRiders) => RosterInv')
<1>1. UNCHANGED <<roleRows, member, roleDay>>
  BY DEF LifecycleStep, LifecycleEdit, RiderRead, RiderResave
<1>2. /\ lifecycle' \in [status : Statuses, dated : BOOLEAN]
      /\ riderActive' \in BOOLEAN /\ heldActive' \in BOOLEAN
  <2>0. /\ lifecycle \in [status : Statuses, dated : BOOLEAN] /\ riderActive \in BOOLEAN /\ heldActive \in BOOLEAN
        /\ "active" \in Statuses /\ "inactive" \in Statuses
    BY DEF RolesInv, RolesTypeOK, Statuses
  <2>1. ASSUME NEW status \in Statuses, NEW year \in BOOLEAN, NEW ended \in BOOLEAN, LifecycleEdit(status, year, ended)
        PROVE  /\ lifecycle' \in [status : Statuses, dated : BOOLEAN]
               /\ riderActive' \in BOOLEAN /\ heldActive' \in BOOLEAN
    <3>1. lifecycle' = [status |-> status, dated |-> year \/ ended] /\ (year \/ ended) \in BOOLEAN
      BY <2>1 DEF LifecycleEdit
    <3>2. riderActive' \in BOOLEAN
      BY <2>1 DEF LifecycleEdit, RosterActive
    <3>3. heldActive' \in BOOLEAN
      BY <2>0, <2>1, <3>2 DEF LifecycleEdit
    <3> QED BY <3>1, <3>2, <3>3
  <2>2. CASE RiderRead
    BY <2>0, <2>2 DEF RiderRead
  <2>3. CASE RiderResave
    <3>1. FollowActive(lifecycle, heldActive) \in [status : Statuses, dated : BOOLEAN]
      BY <2>0 DEF FollowActive
    <3> QED BY <2>0, <2>3, <3>1 DEF RiderResave
  <2> QED BY <2>1, <2>2, <2>3 DEF LifecycleStep
<1>3. RolesInv'
  BY <1>1, <1>2 DEF RolesInv, RolesTypeOK
<1>4. ASSUME RosterInv, ~StaleRiders PROVE RosterInv'
  <2>1. ASSUME NEW status \in Statuses, NEW year \in BOOLEAN, NEW ended \in BOOLEAN, LifecycleEdit(status, year, ended) PROVE RosterInv'
    BY <1>4, <2>1 DEF LifecycleEdit, RosterActive, RosterInv, LifecycleMatchesActive
  <2>2. CASE RiderRead
    BY <1>4, <2>2 DEF RiderRead, RosterInv, LifecycleMatchesActive
  <2>3. CASE RiderResave
    BY <1>4, <2>3 DEF RiderResave, FollowActive, RosterInv, LifecycleMatchesActive
  <2> QED BY <2>1, <2>2, <2>3 DEF LifecycleStep
<1> QED BY <1>3, <1>4

\* A rider saved for another reason from an instance that is not stale finds the lifecycle that goes with it.
LEMMA ResaveChangesNothing ==
  ASSUME RosterInv, RiderResave
  PROVE  lifecycle' = lifecycle
BY DEF RosterInv, LifecycleMatchesActive, RiderResave, FollowActive

(*------------------------------ committees -------------------------------*)
\* Two logins never share a person, and no one holds the same role of a season twice.
OwnPersons  == \A u, v \in Members : (personOf[u] # 0 /\ personOf[u] = personOf[v]) => u = v
HeldOnce    == \A i, j \in Held(assignments) :
                 (assignments[i].user = assignments[j].user /\ assignments[i].role = assignments[j].role) => i = j
\* A mirror has its assignment, and begins with the season as no membership entered by hand does.
MirrorsHeld == /\ \A i \in Held(mirrors) : i \in Held(assignments) /\ mirrors[i].start = SeasonStart
               /\ \A n \in manual : n.start # SeasonStart
\* The inductive invariant of the committees
CommitteesInv ==
  CommitteesTypeOK /\ MirrorsFollowAssignments /\ OwnPersons /\ HeldOnce /\ MirrorsHeld

\* The empty row is no assignment and no membership.
LEMMA NoRowIsNoRow == NoRow \notin Assignment /\ NoRow \notin Mirror
<1>1. \A a \in Assignment : DOMAIN a = {"user", "role", "active"}
  BY DEF Assignment
<1>2. \A m \in Mirror : DOMAIN m = {"person", "role", "position", "start", "active"}
  BY DEF Mirror
<1>3. DOMAIN NoRow = {"role"}
  BY DEF NoRow
<1>4. "user" \notin {"role"} /\ "person" \notin {"role"}
  OBVIOUS
<1> QED BY <1>1, <1>2, <1>3, <1>4

\* Committees start without members, so no mirror is wrong.
LEMMA CommitteesInitInv == CommitteesInit => CommitteesInv
<1> SUFFICES ASSUME CommitteesInit PROVE CommitteesInv
  OBVIOUS
<1>1. Held(assignments) = {} /\ Held(mirrors) = {}
  BY DEF CommitteesInit, Held
<1>2. CommitteesTypeOK /\ OwnPersons
  BY DEF CommitteesInit, CommitteesTypeOK, OwnPersons
<1> QED BY <1>1, <1>2 DEF CommitteesInv, MirrorsFollowAssignments, HeldOnce, MirrorsHeld, CommitteesInit

\* An assignment saved is mirrored: no other mirror is of that role and person, and none entered by hand begins with
\* the season.
LEMMA AssignmentSaveInv ==
  ASSUME CommitteesInv, NEW i \in AssignmentIds, NEW a \in Assignment, CommitteeAssignmentSave(i, a)
  PROVE  CommitteesInv'
<1>0. /\ personOf \in [Members -> CommitteePeople \cup {0}]
      /\ assignments \in [AssignmentIds -> Assignment \cup {NoRow}]
      /\ mirrors \in [AssignmentIds -> Mirror \cup {NoRow}]
      /\ a.user \in Members /\ a.role \in IeaRoles /\ a.active \in BOOLEAN
  BY DEF CommitteesInv, CommitteesTypeOK, Assignment
<1>1. PICK p \in PersonForAssignment(a.user) :
        /\ personOf' = [personOf EXCEPT ![a.user] = p]
        /\ mirrors' = IF Clash(i, MirrorOf(i, a, p)) THEN mirrors ELSE [mirrors EXCEPT ![i] = MirrorOf(i, a, p)]
  BY DEF CommitteeAssignmentSave
<1> DEFINE m == MirrorOf(i, a, p)
<1>2. /\ assignments' = [assignments EXCEPT ![i] = a]
      /\ ~Duplicate(i, a) /\ UNCHANGED <<groupParent, manual>>
  BY DEF CommitteeAssignmentSave
<1>3. /\ p \in CommitteePeople /\ p # 0
      /\ personOf[a.user] # 0 => p = personOf[a.user]
      /\ personOf[a.user] = 0 => \A u \in Members : personOf[u] # p
  BY <1>0, <1>1, CommitteesAssumption DEF PersonForAssignment, People
<1>4. m \in Mirror /\ m.role = a.role /\ m.person = p /\ m.start = SeasonStart /\ m.active = a.active
  BY <1>0, <1>3 DEF MirrorOf, Mirror, PositionOf, SeasonStart
<1> HIDE DEF m
<1>5. ASSUME NEW u \in Members, personOf[u] = p PROVE u = a.user
  BY <1>0, <1>3, <1>5 DEF CommitteesInv, OwnPersons
<1>6. ASSUME NEW j \in Held(mirrors), j # i PROVE Period(mirrors[j]) # Period(m)
  <2>1. j \in Held(assignments) /\ mirrors[j].role = assignments[j].role /\ mirrors[j].person = personOf[assignments[j].user]
    BY <1>6 DEF CommitteesInv, MirrorsHeld, MirrorsFollowAssignments
  <2>2. assignments[j].user \in Members
    BY <1>0, <2>1 DEF Held, Assignment
  <2> SUFFICES ASSUME mirrors[j].role = m.role, mirrors[j].person = m.person PROVE FALSE
    BY DEF Period
  <2>3. assignments[j].user = a.user /\ assignments[j].role = a.role
    BY <1>4, <1>5, <2>1, <2>2
  <2> QED BY <1>2, <1>6, <2>1, <2>3 DEF Duplicate
<1>7. ~Clash(i, m)
  <2>1. \A n \in manual : Period(n) # Period(m)
    BY <1>4 DEF Period, CommitteesInv, MirrorsHeld
  <2> QED BY <1>6, <2>1 DEF Clash
<1>8. mirrors' = [mirrors EXCEPT ![i] = m]
  BY <1>1, <1>7 DEF m
<1>9. /\ Held(assignments') = Held(assignments) \cup {i}
      /\ Held(mirrors') = Held(mirrors) \cup {i}
  <2>1. a # NoRow /\ m # NoRow
    BY <1>4, NoRowIsNoRow
  <2> QED BY <1>0, <1>2, <1>8, <2>1 DEF Held
<1>10. CommitteesTypeOK'
  BY <1>0, <1>1, <1>2, <1>3, <1>4, <1>8 DEF CommitteesInv, CommitteesTypeOK
<1>11. OwnPersons'
  BY <1>0, <1>1, <1>3 DEF CommitteesInv, OwnPersons
<1>12. HeldOnce'
  BY <1>0, <1>2, <1>9 DEF CommitteesInv, HeldOnce, Duplicate, Held
<1>13. MirrorsHeld'
  <2>1. ASSUME NEW j \in Held(mirrors') PROVE j \in Held(assignments') /\ mirrors'[j].start = SeasonStart
    BY <1>0, <1>4, <1>8, <1>9, <2>1 DEF CommitteesInv, MirrorsHeld, Held
  <2> QED BY <1>2, <2>1 DEF CommitteesInv, MirrorsHeld
<1>14. MirrorsFollowAssignments'
  <2> SUFFICES ASSUME NEW j \in Held(assignments')
               PROVE  /\ mirrors'[j] # NoRow
                      /\ mirrors'[j].role = assignments'[j].role /\ mirrors'[j].active = assignments'[j].active
                      /\ mirrors'[j].person = personOf'[assignments'[j].user]
    BY DEF MirrorsFollowAssignments
  <2>1. CASE j = i
    <3>1. assignments'[i] = a /\ mirrors'[i] = m /\ personOf'[a.user] = p
      BY <1>0, <1>1, <1>2, <1>8
    <3> QED BY <1>4, <2>1, <3>1, NoRowIsNoRow
  <2>2. CASE j # i
    <3>1. j \in Held(assignments) /\ j \in AssignmentIds /\ assignments'[j] = assignments[j] /\ mirrors'[j] = mirrors[j]
      BY <1>0, <1>2, <1>8, <1>9, <2>2 DEF Held
    <3>2. /\ mirrors[j] # NoRow
          /\ mirrors[j].role = assignments[j].role /\ mirrors[j].active = assignments[j].active
          /\ mirrors[j].person = personOf[assignments[j].user]
      BY <3>1 DEF CommitteesInv, MirrorsFollowAssignments
    <3>3. mirrors[j].person # 0 /\ assignments[j].user \in Members
      BY <1>0, <3>1, <3>2, CommitteesAssumption DEF Held, Mirror, Assignment
    <3>4. personOf'[assignments[j].user] = personOf[assignments[j].user]
      BY <1>0, <1>1, <1>3, <3>2, <3>3
    <3> QED BY <3>1, <3>2, <3>4
  <2> QED BY <2>1, <2>2
<1> QED BY <1>10, <1>11, <1>12, <1>13, <1>14 DEF CommitteesInv

\* A membership entered by hand never begins with the season.
LEMMA CommitteeStepInv ==
  ASSUME CommitteesInv, CommitteeStep, SeasonStart \notin ManualStarts
  PROVE  CommitteesInv'
<1>1. ASSUME NEW i \in Assigned, NEW a \in Assignment, CommitteeAssignmentSave(i, a) PROVE CommitteesInv'
  BY <1>1, AssignmentSaveInv DEF Assigned
<1>2. ASSUME NEW old \in SUBSET manual, NEW p \in People \ {0}, NEW role \in IeaRoles, NEW start \in ManualStarts, NEW active \in BOOLEAN,
             PersonCommitteeSave(old, [person |-> p, role |-> role, position |-> PositionOf(role), start |-> start, active |-> active])
      PROVE  CommitteesInv'
  <2> DEFINE m == [person |-> p, role |-> role, position |-> PositionOf(role), start |-> start, active |-> active]
  <2>1. p \in CommitteePeople
    BY DEF People, CommitteesInv, CommitteesTypeOK
  <2>2. m \in Mirror /\ m.start # SeasonStart
    BY <2>1, CommitteesAssumption DEF Mirror, PositionOf
  <2>3. manual' = (manual \ old) \cup {m} /\ UNCHANGED <<groupParent, personOf, assignments, mirrors>>
    BY <1>2 DEF PersonCommitteeSave
  <2> HIDE DEF m
  <2>4. manual' \subseteq Mirror /\ \A n \in manual' : n.start # SeasonStart
    BY <2>2, <2>3 DEF CommitteesInv, CommitteesTypeOK, MirrorsHeld
  <2>5. CommitteesTypeOK' /\ MirrorsHeld'
    BY <2>3, <2>4 DEF CommitteesInv, CommitteesTypeOK, MirrorsHeld
  <2>6. MirrorsFollowAssignments' /\ OwnPersons' /\ HeldOnce'
    BY <2>3 DEF CommitteesInv, MirrorsFollowAssignments, OwnPersons, HeldOnce
  <2> QED BY <2>5, <2>6 DEF CommitteesInv
<1> QED BY <1>1, <1>2 DEF CommitteeStep

\* Groups have nothing to do with it.
LEMMA GroupStepInv ==
  ASSUME CommitteesInv, GroupStep
  PROVE  CommitteesInv'
<1> PICK g \in GroupIds, parent \in GroupIds \cup {0} : GroupSave(g, parent)
  BY DEF GroupStep
<1>1. UNCHANGED <<personOf, assignments, mirrors, manual>> /\ groupParent' \in [GroupIds -> GroupIds \cup {0}]
  BY DEF GroupSave, CommitteesInv, CommitteesTypeOK
<1> QED BY <1>1 DEF CommitteesInv, CommitteesTypeOK, MirrorsFollowAssignments, OwnPersons, HeldOnce, MirrorsHeld

(*---------------------------- account security ---------------------------*)
SecurityStep ==
  \/ SignInStep \/ ChallengeStep \/ FactorStep \/ PasswordsStep \/ EmailStep
  \/ AddressStep(Users) \/ \E users : EnableStep(users)

\* A session that is not out is a user's; one that reads the codes waits at the challenge with its list.
SessionsOwned == \A s \in Sessions : sessions[s].stage # "out" => sessions[s].user \in Users
Reading(s)    == sessions[s].code # NoCode
ReadersWait   == \A s \in Sessions : Reading(s) => sessions[s].stage = "pending" /\ sessions[s].code \in sessions[s].list
AccountsInv   == SecurityTypeOK /\ SessionsOwned /\ ReadersWait

\* The sessions that sign-in makes: out, waiting at the challenge, and in.
LEMMA OutIsSession ==
  /\ Out \in Session /\ Out.stage = "out" /\ Out.code = NoCode /\ Out.user = NoUser
  /\ \A u \in Users : LET new == [Out EXCEPT !.user = u, !.stage = "pending"]
                      IN new \in Session /\ new.user = u /\ new.stage = "pending" /\ new.code = NoCode /\ new.list = {}
  /\ \A u \in Users, second \in BOOLEAN : password \in [Users -> 0..MaxPasswords] => Entered(u, second) \in Session
<1>1. 0 \in 0..MaxPasswords
  BY SecurityAssumption
<1>2. Out \in Session
  BY <1>1 DEF Out, Session, Stage
<1>3. \A u \in Users : LET new == [Out EXCEPT !.user = u, !.stage = "pending"]
                       IN new \in Session /\ new.user = u /\ new.stage = "pending" /\ new.code = NoCode /\ new.list = {}
  <2> SUFFICES ASSUME NEW u \in Users
               PROVE  LET new == [Out EXCEPT !.user = u, !.stage = "pending"]
                      IN new \in Session /\ new.user = u /\ new.stage = "pending" /\ new.code = NoCode /\ new.list = {}
    OBVIOUS
  <2> DEFINE new == [Out EXCEPT !.user = u, !.stage = "pending"]
  <2>1. new \in Session
    BY <1>2 DEF Session, Stage
  <2>2. new.user = u /\ new.stage = "pending"
    BY <1>2 DEF Session
  <2>3. new.code = Out.code /\ new.list = Out.list
    BY <1>2 DEF Session
  <2>4. Out.code = NoCode /\ Out.list = {}
    BY DEF Out
  <2> HIDE DEF new
  <2> QED BY <2>1, <2>2, <2>3, <2>4 DEF new
<1>4. ASSUME NEW u \in Users, NEW second \in BOOLEAN, password \in [Users -> 0..MaxPasswords] PROVE Entered(u, second) \in Session
  <2>1. password[u] \in 0..MaxPasswords
    BY <1>4
  <2> QED BY <1>2, <2>1 DEF Entered, Session, Stage
<1> QED BY <1>2, <1>3, <1>4 DEF Out

\* What entering makes of a session.
LEMMA EnteredIs ==
  ASSUME NEW u, NEW second
  PROVE  /\ Entered(u, second).user = u /\ Entered(u, second).stage = "in" /\ Entered(u, second).code = NoCode
         /\ Entered(u, second).second = second
BY DEF Entered, Out

\* Nobody is signed in at the start.
LEMMA SecurityInitInv == SecurityInit => AccountsInv
<1> SUFFICES ASSUME SecurityInit PROVE AccountsInv
  OBVIOUS
<1>0. 0 \in 0..MaxPasswords /\ 0 \in 0..MaxEnrolments
  BY SecurityAssumption
<1>1. /\ password \in [Users -> 0..MaxPasswords] /\ mustChange \in [Users -> BOOLEAN] /\ enabled \in [Users -> BOOLEAN]
      /\ address \in [Users -> Addresses] /\ pending \in [Users -> Addresses \cup {NoAddress}] /\ verified \in [Users -> BOOLEAN]
      /\ mailed \subseteq Users \X Addresses /\ proved \subseteq Users \X Addresses
  BY <1>0 DEF SecurityInit
<1>2. factor \in [Users -> Factor]
  BY <1>0 DEF SecurityInit, Factor
<1>3. sessions \in [Sessions -> Session] /\ uses \in [Codes -> Nat]
  BY OutIsSession DEF SecurityInit
<1>4. \A s \in Sessions : sessions[s] = Out
  BY DEF SecurityInit
<1> QED BY <1>1, <1>2, <1>3, <1>4, OutIsSession DEF AccountsInv, SecurityTypeOK, SessionsOwned, ReadersWait, Reading

\* One session changes, and its new state is fit for one: the sessions stay owned and the readers wait.
LEMMA OneSession ==
  ASSUME AccountsInv, NEW s \in Sessions, NEW new \in Session, sessions' = [sessions EXCEPT ![s] = new],
         new.stage # "out" => new.user \in Users,
         new.code # NoCode => new.stage = "pending" /\ new.code \in new.list
  PROVE  sessions' \in [Sessions -> Session] /\ SessionsOwned' /\ ReadersWait'
<1>1. sessions \in [Sessions -> Session]
  BY DEF AccountsInv, SecurityTypeOK
<1> QED BY <1>1 DEF AccountsInv, SessionsOwned, ReadersWait, Reading

\* Somebody comes in.
LEMMA OneEntered ==
  ASSUME AccountsInv, NEW s \in Sessions, NEW u \in Users, NEW second \in BOOLEAN, sessions' = [sessions EXCEPT ![s] = Entered(u, second)]
  PROVE  sessions' \in [Sessions -> Session] /\ SessionsOwned' /\ ReadersWait'
<1> DEFINE new == Entered(u, second)
<1>1. new \in Session
  BY OutIsSession DEF AccountsInv, SecurityTypeOK
<1>2. new.user \in Users /\ new.code = NoCode
  BY EnteredIs
<1>3. sessions' = [sessions EXCEPT ![s] = new]
  OBVIOUS
<1> HIDE DEF new
<1> QED BY <1>1, <1>2, <1>3, OneSession

\* Passwords, challenges and logouts.
LEMMA SignInInv ==
  ASSUME AccountsInv, SignInStep \/ ChallengeStep
  PROVE  AccountsInv'
<1>0. /\ sessions \in [Sessions -> Session] /\ password \in [Users -> 0..MaxPasswords]
      /\ factor \in [Users -> Factor] /\ uses \in [Codes -> Nat]
      /\ SessionsOwned /\ ReadersWait
  BY DEF AccountsInv, SecurityTypeOK
<1>1. ASSUME sessions' \in [Sessions -> Session] /\ SessionsOwned' /\ ReadersWait', UNCHANGED <<accessVars, mailVars, factorVars>>
      PROVE  AccountsInv'
  BY <1>1 DEF AccountsInv, SecurityTypeOK, accessVars, mailVars, factorVars
<1>2. ASSUME NEW s \in Sessions, NEW u \in Users, PasswordStep(s, u) PROVE AccountsInv'
  <2> DEFINE new == IF Challenged(u) THEN [Out EXCEPT !.user = u, !.stage = "pending"] ELSE Entered(u, FALSE)
  <2>1. new \in Session /\ new.user = u /\ new.code = NoCode
    <3>1. CASE Challenged(u)
      BY <3>1, OutIsSession
    <3>2. CASE ~Challenged(u)
      <4>1. Entered(u, FALSE) \in Session
        BY <1>0, OutIsSession
      <4>2. Entered(u, FALSE).user = u /\ Entered(u, FALSE).code = NoCode
        BY EnteredIs
      <4> QED BY <3>2, <4>1, <4>2
    <3> QED BY <3>1, <3>2
  <2>2. sessions' = [sessions EXCEPT ![s] = new] /\ UNCHANGED <<accessVars, mailVars, factorVars>>
    BY <1>2 DEF PasswordStep
  <2> HIDE DEF new
  <2> QED BY <1>1, <2>1, <2>2, OneSession
<1>3. ASSUME NEW s \in Sessions, sessions' = [sessions EXCEPT ![s] = Out], UNCHANGED <<accessVars, mailVars, factorVars>>
      PROVE AccountsInv'
  BY <1>1, <1>3, OutIsSession, OneSession
<1>4. ASSUME NEW s \in Sessions, TotpChallenge(s) PROVE AccountsInv'
  <2>1. UserOf(s) \in Users
    BY <1>0, <1>4 DEF TotpChallenge, InChallenge, SessionsOwned, UserOf
  <2>2. Entered(UserOf(s), TRUE) \in Session
    BY <1>0, <2>1, OutIsSession
  <2>3. sessions' = [sessions EXCEPT ![s] = Entered(UserOf(s), TRUE)] /\ UNCHANGED <<accessVars, mailVars, factorVars>>
    BY <1>4 DEF TotpChallenge
  <2>4. sessions' \in [Sessions -> Session] /\ SessionsOwned' /\ ReadersWait'
    BY <2>1, <2>3, OneEntered
  <2> QED BY <1>1, <2>3, <2>4
<1>5. ASSUME NEW s \in Sessions, NEW c \in Codes, RecoveryCodeRead(s, c) PROVE AccountsInv'
  <2> DEFINE new == [sessions[s] EXCEPT !.code = c, !.list = factor[UserOf(s)].codes]
  <2>1. UserOf(s) \in Users /\ sessions[s].stage = "pending" /\ c \in factor[UserOf(s)].codes
    BY <1>0, <1>5 DEF RecoveryCodeRead, InChallenge, SessionsOwned, UserOf
  <2>2. factor[UserOf(s)].codes \in SUBSET Codes
    BY <1>0, <2>1 DEF Factor
  <2>3. new \in Session /\ new.stage = "pending" /\ new.code \in new.list /\ new.user \in Users
    <3> HIDE DEF Codes
    <3> QED BY <1>0, <2>1, <2>2 DEF Session, UserOf
  <2>4. sessions' = [sessions EXCEPT ![s] = new] /\ UNCHANGED <<accessVars, mailVars, factorVars>>
    BY <1>0, <1>5 DEF RecoveryCodeRead
  <2> HIDE DEF new
  <2> QED BY <1>1, <2>3, <2>4, OneSession
<1>6. ASSUME NEW s \in Sessions, RecoveryCodeSave(s) PROVE AccountsInv'
  <2>1. UserOf(s) \in Users /\ sessions[s] \in Session /\ sessions[s].code # NoCode
    BY <1>0, <1>6 DEF RecoveryCodeSave, ReadersWait, Reading, SessionsOwned, UserOf
  <2>2. sessions[s].code \in Codes /\ Remaining(s) \in SUBSET Codes
    BY <2>1 DEF Session, Remaining
  <2>3. Entered(UserOf(s), TRUE) \in Session
    BY <1>0, <2>1, OutIsSession
  <2>4. sessions' = [sessions EXCEPT ![s] = Entered(UserOf(s), TRUE)] /\ UNCHANGED <<accessVars, mailVars>>
    BY <1>6 DEF RecoveryCodeSave
  <2>5. factor' \in [Users -> Factor]
    <3>1. factor' = [factor EXCEPT ![UserOf(s)] = [factor[UserOf(s)] EXCEPT !.codes = Remaining(s)]]
      BY <1>0, <1>6 DEF RecoveryCodeSave
    <3>2. [factor[UserOf(s)] EXCEPT !.codes = Remaining(s)] \in Factor
      BY <1>0, <2>1, <2>2 DEF Factor
    <3> QED BY <1>0, <3>1, <3>2
  <2>6. uses' \in [Codes -> Nat]
    BY <1>0, <1>6, <2>2 DEF RecoveryCodeSave
  <2>7. sessions' \in [Sessions -> Session] /\ SessionsOwned' /\ ReadersWait'
    BY <2>1, <2>4, OneEntered
  <2> QED BY <2>4, <2>5, <2>6, <2>7 DEF AccountsInv, SecurityTypeOK, accessVars, mailVars
<1>7. ASSUME NEW s \in Sessions, ChallengeDropped(s) \/ Logout(s) PROVE AccountsInv'
  BY <1>3, <1>7 DEF ChallengeDropped, Logout
<1> QED BY <1>2, <1>4, <1>5, <1>6, <1>7 DEF SignInStep, ChallengeStep

\* Whoever is in is a user.
LEMMA FreeIsUser ==
  ASSUME AccountsInv, NEW s \in Sessions, Live(s)
  PROVE  UserOf(s) \in Users /\ sessions[s].stage = "in" /\ sessions[s] \in Session
BY DEF AccountsInv, SecurityTypeOK, SessionsOwned, Live, UserOf

\* The number of the next enrolment is above all others.
LEMMA NextEnrolmentIsNew ==
  ASSUME factor \in [Users -> Factor], Users # {}
  PROVE  NextEnrolment \in Nat /\ \A u \in Users : factor[u].enrolment < NextEnrolment
<1>1. Enrolments \in SUBSET Int /\ Enrolments \subseteq 0..MaxEnrolments /\ Enrolments # {} /\ \A u \in Users : factor[u].enrolment \in Enrolments
  BY SecurityAssumption DEF Enrolments, Factor
<1>2. IsFiniteSet(0..MaxEnrolments)
  BY SecurityAssumption, FS_Interval
<1>3. IsFiniteSet(Enrolments)
  BY <1>1, <1>2, FS_Subset
<1>4. \E n \in Enrolments : \A m \in Enrolments : m <= n
  BY <1>1, <1>3, FiniteMax
<1> DEFINE top == CHOOSE n \in Enrolments : \A m \in Enrolments : m <= n
<1>5. top \in Enrolments /\ \A m \in Enrolments : m <= top
  BY <1>4
<1>6. NextEnrolment = 1 + top
  BY DEF NextEnrolment
<1> HIDE DEF top
<1>7. top \in 0..MaxEnrolments
  BY <1>1, <1>5
<1>8. \A u \in Users : factor[u].enrolment \in 0..MaxEnrolments /\ factor[u].enrolment <= top
  BY <1>1, <1>5
<1> HIDE DEF NextEnrolment
<1> QED BY <1>6, <1>7, <1>8, SecurityAssumption

\* Enrolment, passwords, edits and mail.
LEMMA FactorInv ==
  ASSUME AccountsInv, FactorStep
  PROVE  AccountsInv'
<1>0. /\ sessions \in [Sessions -> Session] /\ factor \in [Users -> Factor] /\ SessionsOwned /\ ReadersWait
  BY DEF AccountsInv, SecurityTypeOK
<1>1. PICK s \in Sessions : MfaSetup(s) \/ MfaConfirm(s) \/ MfaDisable(s)
  BY DEF FactorStep
<1>2. UserOf(s) \in Users /\ sessions[s].stage = "in" /\ sessions[s] \in Session
  BY <1>1, FreeIsUser DEF MfaSetup, MfaConfirm, MfaDisable, Free
<1>3. sessions' \in [Sessions -> Session] /\ SessionsOwned' /\ ReadersWait'
  <2>1. ASSUME NEW enrolling \in BOOLEAN, sessions' = [sessions EXCEPT ![s].enrolling = enrolling]
        PROVE  sessions' \in [Sessions -> Session] /\ SessionsOwned' /\ ReadersWait'
    <3> DEFINE new == [sessions[s] EXCEPT !.enrolling = enrolling]
    <3>1. new \in Session /\ new.user = sessions[s].user /\ new.stage = sessions[s].stage /\ new.code = sessions[s].code
          /\ new.list = sessions[s].list
      BY <1>2 DEF Session
    <3>2. sessions' = [sessions EXCEPT ![s] = new]
      BY <1>0, <2>1
    <3>3. new.code = NoCode /\ new.user \in Users
      BY <1>0, <1>2, <3>1 DEF ReadersWait, Reading, UserOf
    <3> HIDE DEF new
    <3> QED BY <3>1, <3>2, <3>3, OneSession
  <2> QED BY <1>1, <2>1 DEF MfaSetup, MfaConfirm, MfaDisable
<1>4. factor' \in [Users -> Factor]
  <2>1. CASE MfaSetup(s)
    BY <1>0, <2>1 DEF MfaSetup, factorVars
  <2>2. CASE MfaConfirm(s)
    <3> DEFINE new == [on |-> TRUE, enrolment |-> NextEnrolment, codes |-> {NextEnrolment} \X (1..CodesEach)]
    <3>1. NextEnrolment \in 1..MaxEnrolments
      <4>1. \A u \in Users : factor[u].enrolment \in Nat
        BY <1>0, SecurityAssumption DEF Factor
      <4>2. NextEnrolment \in Nat /\ \A u \in Users : factor[u].enrolment < NextEnrolment
        BY <1>0, <1>2, NextEnrolmentIsNew
      <4>3. NextEnrolment <= MaxEnrolments
        BY <2>2 DEF MfaConfirm
      <4> QED BY <1>2, <4>1, <4>2, <4>3, SecurityAssumption
    <3> HIDE DEF NextEnrolment
    <3>2. new.codes \subseteq Codes
      BY <3>1 DEF Codes
    <3>3. new \in Factor
      BY <3>1, <3>2 DEF Factor
    <3>4. factor' = [factor EXCEPT ![UserOf(s)] = new]
      BY <2>2 DEF MfaConfirm
    <3> HIDE DEF new
    <3> QED BY <1>0, <3>3, <3>4
  <2>3. CASE MfaDisable(s)
    <3>1. [factor[UserOf(s)] EXCEPT !.on = FALSE, !.codes = {}] \in Factor
      BY <1>0, <1>2 DEF Factor
    <3>2. factor' = [factor EXCEPT ![UserOf(s)] = [factor[UserOf(s)] EXCEPT !.on = FALSE, !.codes = {}]]
      BY <1>0, <1>2, <2>3 DEF MfaDisable
    <3> QED BY <1>0, <3>1, <3>2
  <2> QED BY <1>1, <2>1, <2>2, <2>3
<1>5. UNCHANGED <<accessVars, mailVars, uses>>
  BY <1>1 DEF MfaSetup, MfaConfirm, MfaDisable, factorVars
<1> QED BY <1>3, <1>4, <1>5 DEF AccountsInv, SecurityTypeOK, accessVars, mailVars

\* Passwords that are changed or reset.
LEMMA PasswordsInv ==
  ASSUME AccountsInv, PasswordsStep
  PROVE  AccountsInv'
<1>0. /\ sessions \in [Sessions -> Session] /\ password \in [Users -> 0..MaxPasswords] /\ mustChange \in [Users -> BOOLEAN]
      /\ SessionsOwned /\ ReadersWait
  BY DEF AccountsInv, SecurityTypeOK
<1>1. ASSUME NEW u \in Users, UserResetPassword(u) PROVE AccountsInv'
  <2>1. password[u] \in Nat /\ password[u] < MaxPasswords /\ password[u] + 1 \in 0..MaxPasswords
    BY <1>0, <1>1, SecurityAssumption DEF UserResetPassword
  <2>2. password' \in [Users -> 0..MaxPasswords] /\ mustChange' \in [Users -> BOOLEAN]
    BY <1>0, <1>1, <2>1 DEF UserResetPassword
  <2>3. UNCHANGED <<enabled, mailVars, factorVars, sessions>>
    BY <1>1 DEF UserResetPassword
  <2> QED BY <2>2, <2>3 DEF AccountsInv, SecurityTypeOK, SessionsOwned, ReadersWait, Reading, mailVars, factorVars
<1>2. ASSUME NEW s \in Sessions, PasswordChange(s) PROVE AccountsInv'
  <2> DEFINE new == [sessions[s] EXCEPT !.hash = NewPassword(UserOf(s))]
  <2>1. UserOf(s) \in Users /\ sessions[s].stage = "in" /\ sessions[s] \in Session
    BY <1>2, FreeIsUser DEF PasswordChange
  <2>2. NewPassword(UserOf(s)) \in 0..MaxPasswords
    <3>1. password[UserOf(s)] \in Nat /\ password[UserOf(s)] < MaxPasswords
      BY <1>0, <1>2, <2>1, SecurityAssumption DEF PasswordChange
    <3> QED BY <3>1, SecurityAssumption DEF NewPassword
  <2>3. password' \in [Users -> 0..MaxPasswords] /\ mustChange' \in [Users -> BOOLEAN]
    BY <1>0, <1>2, <2>1, <2>2 DEF PasswordChange
  <2>4. new \in Session /\ new.user = sessions[s].user /\ new.code = sessions[s].code
    BY <2>1, <2>2 DEF Session
  <2>5. new.code = NoCode /\ new.user \in Users
    BY <1>0, <2>1, <2>4 DEF ReadersWait, Reading, UserOf
  <2>6. sessions' = [sessions EXCEPT ![s] = new]
    BY <1>0, <1>2 DEF PasswordChange
  <2> HIDE DEF new
  <2>7. sessions' \in [Sessions -> Session] /\ SessionsOwned' /\ ReadersWait'
    BY <2>4, <2>5, <2>6, OneSession
  <2>8. UNCHANGED <<enabled, mailVars, factorVars>>
    BY <1>2 DEF PasswordChange
  <2> QED BY <2>3, <2>7, <2>8 DEF AccountsInv, SecurityTypeOK, mailVars, factorVars
<1> QED BY <1>1, <1>2 DEF PasswordsStep

\* What is expected of a user is an address.
LEMMA ExpectedIsAddress ==
  ASSUME AccountsInv, NEW u \in Users
  PROVE  Expected(u) \in Addresses
BY DEF Expected, AccountsInv, SecurityTypeOK

\* Addresses that are requested, mailed to and proved.
LEMMA EmailInv ==
  ASSUME AccountsInv, EmailStep
  PROVE  AccountsInv'
<1>0. /\ address \in [Users -> Addresses] /\ pending \in [Users -> Addresses \cup {NoAddress}] /\ verified \in [Users -> BOOLEAN]
      /\ mailed \subseteq Users \X Addresses /\ proved \subseteq Users \X Addresses
  BY DEF AccountsInv, SecurityTypeOK
<1>1. ASSUME /\ address' \in [Users -> Addresses] /\ pending' \in [Users -> Addresses \cup {NoAddress}] /\ verified' \in [Users -> BOOLEAN]
             /\ mailed' \subseteq Users \X Addresses /\ proved' \subseteq Users \X Addresses,
             UNCHANGED <<accessVars, factorVars, sessions>>
      PROVE  AccountsInv'
  BY <1>1 DEF AccountsInv, SecurityTypeOK, SessionsOwned, ReadersWait, Reading, accessVars, factorVars
<1>2. ASSUME NEW s \in Sessions, NEW e \in Addresses, EmailChange(s, e) PROVE AccountsInv'
  <2>1. UserOf(s) \in Users
    BY <1>2, FreeIsUser DEF EmailChange, Free
  <2> QED BY <1>0, <1>1, <1>2, <2>1 DEF EmailChange
<1>3. ASSUME NEW s \in Sessions, EmailVerificationResend(s) PROVE AccountsInv'
  <2>1. UserOf(s) \in Users
    BY <1>3, FreeIsUser DEF EmailVerificationResend, Free
  <2>2. Expected(UserOf(s)) \in Addresses
    BY <2>1, ExpectedIsAddress
  <2> QED BY <1>0, <1>1, <1>3, <2>1, <2>2 DEF EmailVerificationResend
<1>4. ASSUME NEW s \in Sessions, NEW t \in mailed, EmailVerify(s, t) PROVE AccountsInv'
  <2>1. UserOf(s) \in Users
    BY <1>4, FreeIsUser DEF EmailVerify, Free
  <2>2. Expected(UserOf(s)) \in Addresses
    BY <2>1, ExpectedIsAddress
  <2>3. proved' \subseteq Users \X Addresses /\ UNCHANGED <<mailed, accessVars, factorVars, sessions>>
    BY <1>0, <1>4 DEF EmailVerify
  <2>4. /\ address' \in [Users -> Addresses] /\ pending' \in [Users -> Addresses \cup {NoAddress}] /\ verified' \in [Users -> BOOLEAN]
    <3>1. CASE Completes(UserOf(s), t[2])
      BY <1>0, <1>4, <2>1, <2>2, <3>1 DEF EmailVerify
    <3>2. CASE ~Completes(UserOf(s), t[2])
      BY <1>0, <1>4, <3>2 DEF EmailVerify
    <3> QED BY <3>1, <3>2
  <2> QED BY <1>0, <1>1, <2>3, <2>4
<1>5. ASSUME NEW t \in mailed, LinkExpires(t) PROVE AccountsInv'
  BY <1>0, <1>1, <1>5 DEF LinkExpires
<1> QED BY <1>2, <1>3, <1>4, <1>5 DEF EmailStep

\* Logins that a manager edits.
LEMMA UserEditInv ==
  ASSUME AccountsInv, (\E users : EnableStep(users)) \/ AddressStep(Users)
  PROVE  AccountsInv'
<1>0. enabled \in [Users -> BOOLEAN] /\ address \in [Users -> Addresses]
  BY DEF AccountsInv, SecurityTypeOK
<1>1. PICK u, active, e : UserEdit(u, active, e) /\ (u \in Users => active \in BOOLEAN /\ e \in Addresses)
  BY <1>0 DEF EnableStep, AddressStep
<1>2. enabled' \in [Users -> BOOLEAN] /\ address' \in [Users -> Addresses]
  <2>1. enabled' = [enabled EXCEPT ![u] = active] /\ address' = [address EXCEPT ![u] = e]
    BY <1>1 DEF UserEdit
  <2> QED BY <1>0, <1>1, <2>1
<1>3. UNCHANGED <<password, mustChange, pending, verified, mailed, proved, factorVars, sessions>>
  BY <1>1 DEF UserEdit
<1> QED BY <1>2, <1>3 DEF AccountsInv, SecurityTypeOK, SessionsOwned, ReadersWait, Reading, factorVars

\* Every request on accounts keeps sessions with their users and codes with those who wait.
LEMMA SecurityStepInv ==
  ASSUME AccountsInv, SecurityStep
  PROVE  AccountsInv'
BY SignInInv, FactorInv, PasswordsInv, EmailInv, UserEditInv DEF SecurityStep

(*----------------------------- recovery codes ----------------------------*)
\* A code is held by a user as long as the factor lists it, or a challenge that has read the list.
HeldBy(c, u)  == \/ c \in factor[u].codes
                 \/ \E s \in Sessions : Reading(s) /\ sessions[s].user = u /\ c \in sessions[s].list
OneReader     == \A s, t \in Sessions : Reading(s) /\ Reading(t) => s = t
HeldAreKnown  == \A u \in Users, c \in Codes : HeldBy(c, u) => c[1] <= factor[u].enrolment
HeldByOne     == \A u, v \in Users, c \in Codes : HeldBy(c, u) /\ HeldBy(c, v) => u = v
UsedAreGone   == \A c \in Codes :
                   \/ uses[c] = 0
                   \/ uses[c] = 1 /\ (\E u \in Users : c[1] <= factor[u].enrolment) /\ \A u \in Users : ~HeldBy(c, u)
CodesInv      == OneReader /\ HeldAreKnown /\ HeldByOne /\ UsedAreGone

\* No code used twice, from its being gone once it was used.
LEMMA CodesOnce ==
  ASSUME CodesInv
  PROVE  RecoveryCodesWorkOnce
<1> SUFFICES ASSUME NEW c \in Codes PROVE uses[c] <= 1
  BY DEF RecoveryCodesWorkOnce
<1>1. uses[c] = 0 \/ uses[c] = 1
  BY DEF CodesInv, UsedAreGone
<1> QED BY <1>1

\* No code has been used at the start.
LEMMA CodesInitInv == SecurityInit => CodesInv
<1> SUFFICES ASSUME SecurityInit PROVE CodesInv
  OBVIOUS
<1>1. /\ \A s \in Sessions : sessions[s] = Out
      /\ \A u \in Users : factor[u].codes = {}
      /\ \A c \in Codes : uses[c] = 0
  BY DEF SecurityInit
<1>2. \A s \in Sessions : ~Reading(s)
  BY <1>1, OutIsSession DEF Reading
<1>3. \A u \in Users, c \in Codes : ~HeldBy(c, u)
  BY <1>1, <1>2 DEF HeldBy
<1> QED BY <1>1, <1>2, <1>3 DEF CodesInv, OneReader, HeldAreKnown, HeldByOne, UsedAreGone

\* The enrolments of the users are numbers, and a code's is.
LEMMA EnrolmentsAreNumbers ==
  ASSUME AccountsInv
  PROVE  /\ \A u \in Users : factor[u].enrolment \in Nat /\ factor[u].codes \subseteq Codes
         /\ \A c \in Codes : c[1] \in Nat
<1>1. \A u \in Users : factor[u] \in Factor
  BY DEF AccountsInv, SecurityTypeOK
<1>2. \A c \in Codes : c[1] \in 1..MaxEnrolments
  BY DEF Codes
<1> QED BY <1>1, <1>2, SecurityAssumption DEF Factor

\* When no more codes are held than before, no enrolment is taken back and none is used, all is kept.
LEMMA FewerHeld ==
  ASSUME AccountsInv, CodesInv, AccountsInv', OneReader', uses' = uses,
         \A u \in Users : factor'[u].enrolment >= factor[u].enrolment,
         \A u \in Users, c \in Codes : HeldBy(c, u)' => HeldBy(c, u)
  PROVE  CodesInv'
<1>0. /\ \A u \in Users : factor[u].enrolment \in Nat /\ factor'[u].enrolment \in Nat
      /\ \A c \in Codes : c[1] \in Nat
  <2>1. (\A u \in Users : factor[u].enrolment \in Nat) /\ (\A c \in Codes : c[1] \in Nat)
    BY EnrolmentsAreNumbers
  <2>2. \A u \in Users : factor'[u] \in Factor
    BY DEF AccountsInv, SecurityTypeOK
  <2> QED BY <2>1, <2>2, SecurityAssumption DEF Factor
<1>1. \A u \in Users, c \in Codes : c[1] <= factor[u].enrolment => c[1] <= factor'[u].enrolment
  BY <1>0
<1> HIDE DEF Codes, HeldBy
<1>2. HeldAreKnown'
  BY <1>1 DEF CodesInv, HeldAreKnown
<1>3. HeldByOne'
  BY DEF CodesInv, HeldByOne
<1>4. UsedAreGone'
  BY <1>1 DEF CodesInv, UsedAreGone
<1> QED BY <1>2, <1>3, <1>4 DEF CodesInv

\* Who reads the list reads the one of the factor, or goes on with what was read.
ReadersFollow ==
  \A s \in Sessions : Reading(s)' =>
    /\ sessions'[s].user = sessions[s].user
    /\ \/ Reading(s) /\ sessions'[s].list = sessions[s].list
       \/ sessions'[s].list = factor[sessions[s].user].codes

\* When lists only shrink and readers follow, nobody comes to hold a code that was gone.
LEMMA FollowersHold ==
  ASSUME ReadersFollow, \A u \in Users : factor'[u].codes \subseteq factor[u].codes
  PROVE  \A u \in Users, c \in Codes : HeldBy(c, u)' => HeldBy(c, u)
<1> SUFFICES ASSUME NEW u \in Users, NEW c \in Codes, HeldBy(c, u)' PROVE HeldBy(c, u)
  OBVIOUS
<1> HIDE DEF Codes, Reading
<1>1. CASE c \in factor'[u].codes
  BY <1>1 DEF HeldBy
<1>2. ASSUME NEW s \in Sessions, Reading(s)', sessions'[s].user = u, c \in sessions'[s].list PROVE HeldBy(c, u)
  BY <1>2 DEF HeldBy, ReadersFollow
<1> QED BY <1>1, <1>2 DEF HeldBy

\* A step after which nobody reads who did not, and that touches no factor.
LEMMA NobodyReads ==
  ASSUME AccountsInv, CodesInv, AccountsInv', uses' = uses, factor' = factor,
         \A s \in Sessions : Reading(s)' => Reading(s) /\ sessions'[s].user = sessions[s].user /\ sessions'[s].list = sessions[s].list
  PROVE  CodesInv'
<1> HIDE DEF Reading, Codes
<1>1. OneReader'
  BY DEF CodesInv, OneReader
<1>2. \A u \in Users, c \in Codes : HeldBy(c, u)' => HeldBy(c, u)
  BY FollowersHold DEF ReadersFollow
<1>3. \A u \in Users : factor'[u].enrolment >= factor[u].enrolment
  BY EnrolmentsAreNumbers
<1> QED BY <1>1, <1>2, <1>3, FewerHeld

\* A session that does not read afterwards.
LEMMA StopsReading ==
  ASSUME AccountsInv, CodesInv, AccountsInv', uses' = uses, factor' = factor,
         NEW s \in Sessions, NEW new, sessions' = [sessions EXCEPT ![s] = new], new.code = NoCode
  PROVE  CodesInv'
<1>1. ASSUME NEW r \in Sessions, Reading(r)'
      PROVE  Reading(r) /\ sessions'[r].user = sessions[r].user /\ sessions'[r].list = sessions[r].list
  BY <1>1 DEF Reading, AccountsInv, SecurityTypeOK
<1> QED BY <1>1, NobodyReads

\* Everything but the codes themselves.
LEMMA SignInCodes ==
  ASSUME AccountsInv, CodesInv, AccountsInv', NEW s \in Sessions,
         (\E u \in Users : PasswordStep(s, u)) \/ Logout(s) \/ TotpChallenge(s) \/ ChallengeDropped(s) \/ MfaSetup(s) \/ PasswordChange(s)
  PROVE  CodesInv'
<1>0. sessions \in [Sessions -> Session] /\ ReadersWait
  BY DEF AccountsInv, SecurityTypeOK
<1>1. ASSUME NEW u \in Users, PasswordStep(s, u) PROVE CodesInv'
  <2> DEFINE new == IF Challenged(u) THEN [Out EXCEPT !.user = u, !.stage = "pending"] ELSE Entered(u, FALSE)
  <2>1. new.code = NoCode
    <3>1. CASE Challenged(u)
      BY <3>1, OutIsSession
    <3>2. CASE ~Challenged(u)
      <4>1. Entered(u, FALSE).code = NoCode
        BY EnteredIs
      <4> QED BY <3>2, <4>1
    <3> QED BY <3>1, <3>2
  <2>2. sessions' = [sessions EXCEPT ![s] = new] /\ uses' = uses /\ factor' = factor
    BY <1>1 DEF PasswordStep, factorVars
  <2> HIDE DEF new
  <2> QED BY <2>1, <2>2, StopsReading
<1>2. ASSUME Logout(s) \/ ChallengeDropped(s) PROVE CodesInv'
  <2>1. sessions' = [sessions EXCEPT ![s] = Out] /\ uses' = uses /\ factor' = factor
    BY <1>2 DEF Logout, ChallengeDropped, factorVars
  <2> QED BY <2>1, OutIsSession, StopsReading
<1>3. ASSUME TotpChallenge(s) PROVE CodesInv'
  <2> DEFINE new == Entered(UserOf(s), TRUE)
  <2>1. new.code = NoCode
    BY EnteredIs
  <2>2. sessions' = [sessions EXCEPT ![s] = new] /\ uses' = uses /\ factor' = factor
    BY <1>3 DEF TotpChallenge, factorVars
  <2> HIDE DEF new
  <2> QED BY <2>1, <2>2, StopsReading
<1>4. ASSUME MfaSetup(s) PROVE CodesInv'
  <2> DEFINE new == [sessions[s] EXCEPT !.enrolling = TRUE]
  <2>1. sessions[s].stage = "in" /\ sessions[s] \in Session
    BY <1>4, FreeIsUser DEF MfaSetup, Free
  <2>2. new.code = NoCode
    BY <1>0, <2>1 DEF ReadersWait, Reading, Session
  <2>3. sessions' = [sessions EXCEPT ![s] = new] /\ uses' = uses /\ factor' = factor
    BY <1>0, <1>4 DEF MfaSetup, factorVars
  <2> HIDE DEF new
  <2> QED BY <2>2, <2>3, StopsReading
<1>5. ASSUME PasswordChange(s) PROVE CodesInv'
  <2> DEFINE new == [sessions[s] EXCEPT !.hash = NewPassword(UserOf(s))]
  <2>1. sessions[s].stage = "in" /\ sessions[s] \in Session
    BY <1>5, FreeIsUser DEF PasswordChange
  <2>2. new.code = NoCode
    BY <1>0, <2>1 DEF ReadersWait, Reading, Session
  <2>3. sessions' = [sessions EXCEPT ![s] = new] /\ uses' = uses /\ factor' = factor
    BY <1>0, <1>5 DEF PasswordChange, factorVars
  <2> HIDE DEF new
  <2> QED BY <2>2, <2>3, StopsReading
<1> QED BY <1>1, <1>2, <1>3, <1>4, <1>5

\* Reading a code, with nobody else at it.
LEMMA ReadCodes ==
  ASSUME AccountsInv, CodesInv, AccountsInv', NEW s \in Sessions, NEW c \in Codes, RecoveryCodeRead(s, c), MaxConsumers = 1
  PROVE  CodesInv'
<1> DEFINE readers == {t \in Sessions : sessions[t].code # NoCode}
           new     == [sessions[s] EXCEPT !.code = c, !.list = factor[UserOf(s)].codes]
<1>0. sessions \in [Sessions -> Session]
  BY DEF AccountsInv, SecurityTypeOK
<1>1. readers = {}
  <2>1. IsFiniteSet(readers)
    BY SecurityAssumption, FS_Subset
  <2>2. Cardinality(readers) < 1
    BY DEF RecoveryCodeRead
  <2>3. Cardinality(readers) = 0
    BY <2>1, <2>2, FS_CardinalityType
  <2> QED BY <2>1, <2>3, FS_EmptySet
<1>2. \A r \in Sessions : ~Reading(r)
  BY <1>1 DEF Reading
<1>3. new.user = sessions[s].user /\ new.list = factor[sessions[s].user].codes
  BY <1>0 DEF Session, UserOf
<1>4. sessions' = [sessions EXCEPT ![s] = new] /\ uses' = uses /\ factor' = factor
  BY <1>0 DEF RecoveryCodeRead, factorVars
<1> HIDE DEF readers, new
<1>5. \A r \in Sessions : r # s => sessions'[r] = sessions[r]
  BY <1>0, <1>4
<1>6. \A r \in Sessions : Reading(r)' => r = s
  BY <1>2, <1>5 DEF Reading
<1>7. OneReader'
  BY <1>6 DEF OneReader
<1>8. ReadersFollow
  BY <1>0, <1>3, <1>4, <1>6 DEF ReadersFollow
<1>9. \A u \in Users, d \in Codes : HeldBy(d, u)' => HeldBy(d, u)
  BY <1>4, <1>8, FollowersHold
<1>10. \A u \in Users : factor'[u].enrolment >= factor[u].enrolment
  BY <1>4, EnrolmentsAreNumbers
<1> QED BY <1>4, <1>7, <1>9, <1>10, FewerHeld

\* Coming in with a code: it was held by this user alone, and is held by nobody afterwards.
LEMMA SaveCodes ==
  ASSUME AccountsInv, CodesInv, AccountsInv', NEW s \in Sessions, RecoveryCodeSave(s)
  PROVE  CodesInv'
<1> DEFINE u == sessions[s].user
           c == sessions[s].code
<1>0. /\ sessions \in [Sessions -> Session] /\ factor \in [Users -> Factor] /\ uses \in [Codes -> Nat]
      /\ SessionsOwned /\ ReadersWait
  BY DEF AccountsInv, SecurityTypeOK
<1>1. Reading(s) /\ u \in Users /\ c \in Codes /\ c \in sessions[s].list
  <2>1. Reading(s)
    BY DEF RecoveryCodeSave, Reading
  <2>2. sessions[s].stage = "pending" /\ c \in sessions[s].list
    BY <1>0, <2>1 DEF ReadersWait
  <2>3. sessions[s] \in Session
    BY <1>0
  <2>4. c \in Codes
    BY <2>1, <2>3 DEF Session, Reading
  <2> QED BY <1>0, <2>1, <2>2, <2>4 DEF SessionsOwned
<1>2. HeldBy(c, u)
  BY <1>1 DEF HeldBy
<1>3. /\ factor'[u].codes = sessions[s].list \ {c} /\ factor'[u].enrolment = factor[u].enrolment
      /\ \A v \in Users : v # u => factor'[v] = factor[v]
  BY <1>0, <1>1 DEF RecoveryCodeSave, Remaining, UserOf, Factor
<1>4. /\ uses'[c] = uses[c] + 1
      /\ \A d \in Codes : d # c => uses'[d] = uses[d]
  BY <1>0, <1>1 DEF RecoveryCodeSave
<1>5. \A r \in Sessions : ~Reading(r)'
  <2>1. \A r \in Sessions : r # s => ~Reading(r)
    BY <1>1 DEF CodesInv, OneReader
  <2>2. sessions' = [sessions EXCEPT ![s] = Entered(UserOf(s), TRUE)]
    BY DEF RecoveryCodeSave
  <2>3. Entered(UserOf(s), TRUE).code = NoCode
    BY EnteredIs
  <2>4. ~Reading(s)'
    BY <1>0, <2>2, <2>3 DEF Reading
  <2>5. \A r \in Sessions : r # s => ~Reading(r)'
    BY <1>0, <2>1, <2>2 DEF Reading
  <2> QED BY <2>4, <2>5
<1> HIDE DEF Codes, Reading
<1>6. \A v \in Users, d \in Codes : HeldBy(d, v)' => HeldBy(d, v) /\ ~(d = c /\ v = u)
  <2> SUFFICES ASSUME NEW v \in Users, NEW d \in Codes, HeldBy(d, v)' PROVE HeldBy(d, v) /\ ~(d = c /\ v = u)
    OBVIOUS
  <2>1. d \in factor'[v].codes
    BY <1>5 DEF HeldBy
  <2>2. CASE v = u
    BY <1>1, <1>3, <2>1, <2>2 DEF HeldBy
  <2>3. CASE v # u
    BY <1>3, <2>1, <2>3 DEF HeldBy
  <2> QED BY <2>2, <2>3
<1>7. \A v \in Users : factor'[v].enrolment = factor[v].enrolment
  BY <1>3
<1>8. OneReader'
  BY <1>5 DEF OneReader
<1>9. HeldAreKnown'
  BY <1>6, <1>7 DEF CodesInv, HeldAreKnown
<1>10. HeldByOne'
  BY <1>6 DEF CodesInv, HeldByOne
<1>11. UsedAreGone'
  <2> SUFFICES ASSUME NEW d \in Codes
               PROVE  \/ uses'[d] = 0
                      \/ uses'[d] = 1 /\ (\E v \in Users : d[1] <= factor'[v].enrolment) /\ \A v \in Users : ~HeldBy(d, v)'
    BY DEF UsedAreGone
  <2>1. CASE d = c
    <3>1. uses[c] = 0
      BY <1>1, <1>2 DEF CodesInv, UsedAreGone
    <3>2. uses'[c] = 1
      BY <1>4, <3>1
    <3>3. c[1] <= factor'[u].enrolment
      BY <1>1, <1>2, <1>7 DEF CodesInv, HeldAreKnown
    <3>4. \A v \in Users : ~HeldBy(d, v)'
      BY <1>1, <1>2, <1>6, <2>1 DEF CodesInv, HeldByOne
    <3> QED BY <1>1, <2>1, <3>2, <3>3, <3>4
  <2>2. CASE d # c
    BY <1>4, <1>6, <1>7, <2>2 DEF CodesInv, UsedAreGone
  <2> QED BY <2>1, <2>2
<1> QED BY <1>8, <1>9, <1>10, <1>11 DEF CodesInv

\* A new enrolment: its codes are above all that are held or used.
LEMMA ConfirmCodes ==
  ASSUME AccountsInv, CodesInv, AccountsInv', NEW s \in Sessions, MfaConfirm(s)
  PROVE  CodesInv'
<1>0. /\ sessions \in [Sessions -> Session] /\ factor \in [Users -> Factor] /\ ReadersWait
      /\ UserOf(s) \in Users /\ sessions[s].stage = "in" /\ sessions[s] \in Session
  BY FreeIsUser DEF AccountsInv, SecurityTypeOK, MfaConfirm, Free
<1> PICK u \in Users : u = sessions[s].user
  BY <1>0 DEF UserOf
<1> PICK n \in Nat : n = NextEnrolment /\ \A v \in Users : factor[v].enrolment < n
  BY <1>0, NextEnrolmentIsNew
<1>1. \A v \in Users : factor[v].enrolment \in Nat
  BY EnrolmentsAreNumbers
<1>2. \A c \in Codes : c[1] \in Nat
  BY EnrolmentsAreNumbers
<1>3. factor' = [factor EXCEPT ![u] = [on |-> TRUE, enrolment |-> n, codes |-> {n} \X (1..CodesEach)]]
  BY DEF MfaConfirm, UserOf
<1>4. /\ factor'[u].enrolment = n /\ \A c \in factor'[u].codes : c[1] = n
      /\ \A v \in Users : v # u => factor'[v] = factor[v]
  BY <1>0, <1>3
<1>5. uses' = uses
  BY DEF MfaConfirm
<1>6. \A r \in Sessions : sessions'[r].user = sessions[r].user /\ sessions'[r].list = sessions[r].list /\ sessions'[r].code = sessions[r].code
  <2> DEFINE new == [sessions[s] EXCEPT !.enrolling = FALSE]
  <2>1. sessions' = [sessions EXCEPT ![s] = new]
    BY <1>0 DEF MfaConfirm
  <2>2. new.user = sessions[s].user /\ new.list = sessions[s].list /\ new.code = sessions[s].code
    BY <1>0 DEF Session
  <2> HIDE DEF new
  <2> QED BY <1>0, <2>1, <2>2
<1>7. \A r \in Sessions : Reading(r)' <=> Reading(r)
  BY <1>6 DEF Reading
<1> HIDE DEF Codes, Reading
<1>8. \A v \in Users, c \in Codes : HeldBy(c, v)' => HeldBy(c, v) \/ (v = u /\ c[1] = n)
  <2> SUFFICES ASSUME NEW v \in Users, NEW c \in Codes, HeldBy(c, v)' PROVE HeldBy(c, v) \/ (v = u /\ c[1] = n)
    OBVIOUS
  <2>1. ASSUME c \in factor'[v].codes PROVE HeldBy(c, v) \/ (v = u /\ c[1] = n)
    BY <1>4, <2>1 DEF HeldBy
  <2>2. ASSUME NEW r \in Sessions, Reading(r)', sessions'[r].user = v, c \in sessions'[r].list PROVE HeldBy(c, v)
    BY <1>6, <1>7, <2>2 DEF HeldBy
  <2> QED BY <2>1, <2>2 DEF HeldBy
<1>9. \A v \in Users, c \in Codes : HeldBy(c, v) => c[1] < n
  <2> SUFFICES ASSUME NEW v \in Users, NEW c \in Codes, HeldBy(c, v) PROVE c[1] < n
    OBVIOUS
  <2>1. c[1] <= factor[v].enrolment /\ factor[v].enrolment < n
    BY DEF CodesInv, HeldAreKnown
  <2> QED BY <1>1, <1>2, <2>1
<1>10. \A v \in Users : factor'[v].enrolment \in Nat /\ factor'[v].enrolment >= factor[v].enrolment
  BY <1>1, <1>4
<1>11. OneReader'
  BY <1>7 DEF CodesInv, OneReader
<1>12. HeldAreKnown'
  <2> SUFFICES ASSUME NEW v \in Users, NEW c \in Codes, HeldBy(c, v)' PROVE c[1] <= factor'[v].enrolment
    BY DEF HeldAreKnown
  <2>1. CASE HeldBy(c, v)
    <3>1. c[1] <= factor[v].enrolment
      BY <2>1 DEF CodesInv, HeldAreKnown
    <3> QED BY <1>1, <1>2, <1>10, <3>1
  <2>2. CASE v = u /\ c[1] = n
    BY <1>4, <2>2
  <2> QED BY <1>8, <2>1, <2>2
<1>13. HeldByOne'
  <2> SUFFICES ASSUME NEW v \in Users, NEW w \in Users, NEW c \in Codes, HeldBy(c, v)', HeldBy(c, w)' PROVE v = w
    BY DEF HeldByOne
  <2>1. CASE HeldBy(c, v) /\ HeldBy(c, w)
    BY <2>1 DEF CodesInv, HeldByOne
  <2>2. CASE c[1] = n
    <3>1. ~HeldBy(c, v) /\ ~HeldBy(c, w)
      BY <1>2, <1>9, <2>2
    <3> QED BY <1>8, <3>1
  <2> QED BY <1>8, <2>1, <2>2
<1>14. UsedAreGone'
  <2> SUFFICES ASSUME NEW c \in Codes, uses[c] # 0
               PROVE  uses'[c] = 1 /\ (\E v \in Users : c[1] <= factor'[v].enrolment) /\ \A v \in Users : ~HeldBy(c, v)'
    BY <1>5 DEF UsedAreGone
  <2>1. PICK v \in Users : c[1] <= factor[v].enrolment
    BY DEF CodesInv, UsedAreGone
  <2>2. c[1] <= factor'[v].enrolment /\ c[1] < n
    BY <1>1, <1>2, <1>10, <2>1
  <2>3. uses[c] = 1 /\ \A w \in Users : ~HeldBy(c, w)
    BY DEF CodesInv, UsedAreGone
  <2>4. \A w \in Users : ~HeldBy(c, w)'
    BY <1>2, <1>8, <2>2, <2>3
  <2> QED BY <1>5, <2>2, <2>3, <2>4
<1> QED BY <1>11, <1>12, <1>13, <1>14 DEF CodesInv

\* No codes left of an enrolment that ends.
LEMMA DisableCodes ==
  ASSUME AccountsInv, CodesInv, AccountsInv', NEW s \in Sessions, MfaDisable(s)
  PROVE  CodesInv'
<1> DEFINE new == [sessions[s] EXCEPT !.enrolling = FALSE]
           off == [factor[UserOf(s)] EXCEPT !.on = FALSE, !.codes = {}]
<1>0. /\ sessions \in [Sessions -> Session] /\ factor \in [Users -> Factor] /\ ReadersWait
      /\ UserOf(s) \in Users /\ sessions[s].stage = "in" /\ sessions[s] \in Session
  BY FreeIsUser DEF AccountsInv, SecurityTypeOK, MfaDisable, Free
<1>1. new.code = NoCode
  BY <1>0 DEF ReadersWait, Reading, Session
<1>2. off.codes = {} /\ off.enrolment = factor[UserOf(s)].enrolment
  BY <1>0 DEF Factor
<1>3. sessions' = [sessions EXCEPT ![s] = new] /\ factor' = [factor EXCEPT ![UserOf(s)] = off] /\ uses' = uses
  BY <1>0 DEF MfaDisable
<1> HIDE DEF new, off
<1>4. \A r \in Sessions : Reading(r)' => Reading(r) /\ sessions'[r] = sessions[r]
  BY <1>0, <1>1, <1>3 DEF Reading
<1>5. \A u \in Users : factor'[u].codes \subseteq factor[u].codes /\ factor'[u].enrolment = factor[u].enrolment
  BY <1>0, <1>2, <1>3
<1> HIDE DEF Reading, Codes
<1>6. OneReader'
  BY <1>4 DEF CodesInv, OneReader
<1>7. \A u \in Users, c \in Codes : HeldBy(c, u)' => HeldBy(c, u)
  BY <1>4, <1>5, FollowersHold DEF ReadersFollow
<1>8. \A u \in Users : factor'[u].enrolment >= factor[u].enrolment
  BY <1>5, EnrolmentsAreNumbers
<1> QED BY <1>3, <1>6, <1>7, <1>8, FewerHeld

\* One challenge reading the codes at a time: every step keeps what is known of them.
LEMMA CodesStepInv ==
  ASSUME AccountsInv, CodesInv, AccountsInv', SecurityStep, MaxConsumers = 1
  PROVE  CodesInv'
<1>1. CASE SignInStep \/ ChallengeStep
  BY <1>1, SignInCodes, ReadCodes, SaveCodes DEF SignInStep, ChallengeStep
<1>2. CASE FactorStep
  BY <1>2, SignInCodes, ConfirmCodes, DisableCodes DEF FactorStep
<1>3. ASSUME uses' = uses, factor' = factor, sessions' = sessions PROVE CodesInv'
  BY <1>3, NobodyReads DEF Reading
<1>4. CASE PasswordsStep
  <2>1. ASSUME NEW s \in Sessions, PasswordChange(s) PROVE CodesInv'
    BY <2>1, SignInCodes
  <2>2. ASSUME NEW u \in Users, UserResetPassword(u) PROVE CodesInv'
    BY <1>3, <2>2 DEF UserResetPassword, factorVars
  <2> QED BY <1>4, <2>1, <2>2 DEF PasswordsStep
<1>5. CASE EmailStep
  BY <1>3, <1>5 DEF EmailStep, EmailChange, EmailVerificationResend, EmailVerify, LinkExpires, factorVars
<1>6. CASE AddressStep(Users) \/ \E users : EnableStep(users)
  BY <1>3, <1>6 DEF AddressStep, EnableStep, UserEdit, factorVars
<1> QED BY <1>1, <1>2, <1>4, <1>5, <1>6 DEF SecurityStep

\* A session as it was, which is not a stutter of the whole: stuttering keeps both.
LEMMA SecurityStutter ==
  ASSUME UNCHANGED securityVars
  PROVE  (AccountsInv => AccountsInv') /\ (CodesInv => CodesInv')
BY DEF securityVars, accessVars, mailVars, factorVars, AccountsInv, SecurityTypeOK, SessionsOwned, ReadersWait, Reading,
       CodesInv, OneReader, HeldAreKnown, HeldByOne, UsedAreGone, HeldBy

\* An address that is no longer pending is the login's, and was proved.
LEMMA ChangesAreProved ==
  ASSUME AccountsInv, SecurityStep
  PROVE  \A u \in Users : (pending[u] # NoAddress /\ pending'[u] = NoAddress) =>
           address'[u] = pending[u] /\ <<u, pending[u]>> \in proved'
<1> SUFFICES ASSUME NEW u \in Users, pending[u] # NoAddress, pending'[u] = NoAddress
             PROVE  address'[u] = pending[u] /\ <<u, pending[u]>> \in proved'
  OBVIOUS
<1>0. /\ pending \in [Users -> Addresses \cup {NoAddress}] /\ address \in [Users -> Addresses]
      /\ mailed \subseteq Users \X Addresses /\ NoAddress \notin Addresses
  BY SecurityAssumption DEF AccountsInv, SecurityTypeOK
<1>1. pending' # pending
  OBVIOUS
<1>2. EmailStep
  BY <1>1 DEF SecurityStep, SignInStep, ChallengeStep, FactorStep, PasswordsStep, AddressStep, EnableStep, PasswordStep, Logout,
              TotpChallenge, RecoveryCodeRead, RecoveryCodeSave, ChallengeDropped, MfaSetup, MfaConfirm, MfaDisable,
              PasswordChange, UserResetPassword, UserEdit, mailVars
<1>3. ASSUME NEW s \in Sessions, NEW e \in Addresses, EmailChange(s, e) PROVE FALSE
  BY <1>0, <1>3 DEF EmailChange
<1>4. PICK s \in Sessions, t \in mailed : EmailVerify(s, t)
  BY <1>1, <1>2, <1>3 DEF EmailStep, EmailVerificationResend, LinkExpires
<1>5. Completes(UserOf(s), t[2]) /\ u = UserOf(s)
  BY <1>0, <1>1, <1>4 DEF EmailVerify
<1>6. Expected(u) = pending[u] /\ t[2] = pending[u] /\ t[1] = u
  BY <1>4, <1>5 DEF Completes, Expected, EmailVerify
<1>7. address'[u] = pending[u]
  BY <1>0, <1>4, <1>5, <1>6 DEF EmailVerify
<1>8. t = <<u, pending[u]>> /\ t \in proved'
  BY <1>0, <1>4, <1>6 DEF EmailVerify
<1> QED BY <1>7, <1>8

\* A temporary password goes with a new one.
LEMMA NewPasswordsAreNew ==
  ASSUME AccountsInv, SecurityStep
  PROVE  \A u \in Users : (mustChange[u] /\ ~mustChange'[u]) => password'[u] # password[u]
<1> SUFFICES ASSUME NEW u \in Users, mustChange[u], ~mustChange'[u] PROVE password'[u] # password[u]
  OBVIOUS
<1>0. mustChange \in [Users -> BOOLEAN] /\ password \in [Users -> 0..MaxPasswords]
  BY DEF AccountsInv, SecurityTypeOK
<1>1. mustChange' # mustChange
  OBVIOUS
<1>2. PasswordsStep
  BY <1>1 DEF SecurityStep, SignInStep, ChallengeStep, FactorStep, EmailStep, AddressStep, EnableStep, PasswordStep, Logout,
              TotpChallenge, RecoveryCodeRead, RecoveryCodeSave, ChallengeDropped, MfaSetup, MfaConfirm, MfaDisable,
              EmailChange, EmailVerificationResend, EmailVerify, LinkExpires, UserEdit, accessVars
<1>3. ASSUME NEW v \in Users, UserResetPassword(v) PROVE FALSE
  BY <1>0, <1>3 DEF UserResetPassword
<1>4. PICK s \in Sessions : PasswordChange(s)
  BY <1>2, <1>3 DEF PasswordsStep
<1>5. u = UserOf(s)
  BY <1>0, <1>4 DEF PasswordChange
<1>6. password'[u] = password[u] + 1 /\ password[u] \in Nat
  BY <1>0, <1>4, <1>5, SecurityAssumption DEF PasswordChange, NewPassword
<1> QED BY <1>6

\* Who comes in while the factor is on has shown it.
LEMMA FactorShown ==
  ASSUME AccountsInv, SecurityStep
  PROVE  \A s \in Sessions : (sessions[s].stage # "in" /\ sessions'[s].stage = "in" /\ factor[sessions'[s].user].on) => sessions'[s].second
<1> SUFFICES ASSUME NEW s \in Sessions, sessions[s].stage # "in", sessions'[s].stage = "in", factor[sessions'[s].user].on
             PROVE  sessions'[s].second
  OBVIOUS
<1>0. sessions \in [Sessions -> Session] /\ \A r \in Sessions : sessions[r] \in Session
  BY DEF AccountsInv, SecurityTypeOK
<1>1. sessions' # sessions
  OBVIOUS
<1>2. SignInStep \/ ChallengeStep \/ FactorStep \/ \E r \in Sessions : PasswordChange(r)
  BY <1>1 DEF SecurityStep, PasswordsStep, EmailStep, AddressStep, EnableStep, UserResetPassword, UserEdit,
              EmailChange, EmailVerificationResend, EmailVerify, LinkExpires
<1>3. ASSUME NEW r \in Sessions, NEW new, sessions' = [sessions EXCEPT ![r] = new], new.stage = sessions[r].stage \/ new.stage = "out" PROVE FALSE
  BY <1>0, <1>3
<1>4. ASSUME NEW r \in Sessions, NEW u \in Users, PasswordStep(r, u) PROVE FALSE
  <2>1. CASE Challenged(u)
    <3> DEFINE new == [Out EXCEPT !.user = u, !.stage = "pending"]
    <3>1. sessions' = [sessions EXCEPT ![r] = new]
      BY <1>4, <2>1 DEF PasswordStep
    <3>2. new.stage = "pending"
      BY OutIsSession
    <3> HIDE DEF new
    <3> QED BY <1>0, <3>1, <3>2
  <2>2. CASE ~Challenged(u)
    <3> DEFINE new == Entered(u, FALSE)
    <3>1. sessions' = [sessions EXCEPT ![r] = new]
      BY <1>4, <2>2 DEF PasswordStep
    <3>2. new.user = u
      BY EnteredIs
    <3> HIDE DEF new
    <3> QED BY <1>0, <2>2, <3>1, <3>2 DEF Challenged
  <2> QED BY <2>1, <2>2
<1>5. ASSUME NEW r \in Sessions, sessions' = [sessions EXCEPT ![r] = Out] PROVE FALSE
  BY <1>3, <1>5, OutIsSession
<1>6. ASSUME NEW r \in Sessions, sessions' = [sessions EXCEPT ![r] = Entered(UserOf(r), TRUE)] PROVE sessions'[s].second
  <2> DEFINE new == Entered(UserOf(r), TRUE)
  <2>1. new.second = TRUE
    BY EnteredIs
  <2>2. sessions' = [sessions EXCEPT ![r] = new]
    BY <1>6
  <2> HIDE DEF new
  <2> QED BY <1>0, <2>1, <2>2
<1>7. ASSUME NEW r \in Sessions, NEW c \in Codes, RecoveryCodeRead(r, c) PROVE FALSE
  <2> DEFINE new == [sessions[r] EXCEPT !.code = c, !.list = factor[UserOf(r)].codes]
  <2>1. sessions' = [sessions EXCEPT ![r] = new]
    BY <1>0, <1>7 DEF RecoveryCodeRead
  <2>2. new.stage = sessions[r].stage
    BY <1>0 DEF Session
  <2> HIDE DEF new
  <2> QED BY <1>3, <2>1, <2>2
<1>8. ASSUME NEW r \in Sessions, NEW to \in BOOLEAN, sessions' = [sessions EXCEPT ![r].enrolling = to] PROVE FALSE
  <2> DEFINE new == [sessions[r] EXCEPT !.enrolling = to]
  <2>1. sessions' = [sessions EXCEPT ![r] = new]
    BY <1>0, <1>8
  <2>2. new.stage = sessions[r].stage
    BY <1>0 DEF Session
  <2> HIDE DEF new
  <2> QED BY <1>3, <2>1, <2>2
<1>9. ASSUME NEW r \in Sessions, PasswordChange(r) PROVE FALSE
  <2> DEFINE new == [sessions[r] EXCEPT !.hash = NewPassword(UserOf(r))]
  <2>1. sessions' = [sessions EXCEPT ![r] = new]
    BY <1>0, <1>9 DEF PasswordChange
  <2>2. new.stage = sessions[r].stage
    BY <1>0 DEF Session
  <2> HIDE DEF new
  <2> QED BY <1>3, <2>1, <2>2
<1>10. CASE SignInStep
  BY <1>4, <1>5, <1>10 DEF SignInStep, Logout
<1>11. CASE ChallengeStep
  BY <1>5, <1>6, <1>7, <1>11 DEF ChallengeStep, TotpChallenge, RecoveryCodeSave, ChallengeDropped
<1>12. CASE FactorStep
  BY <1>8, <1>12 DEF FactorStep, MfaSetup, MfaConfirm, MfaDisable
<1> QED BY <1>2, <1>9, <1>10, <1>11, <1>12

(*------------------------------ all together -----------------------------*)
\* The inductive invariant of people and accounts.  What needs it is said under the condition of the code it needs:
\* committees as long as no membership entered by hand begins with the season, the lifecycle as long as no stale rider
\* is saved, and the codes as long as one challenge reads them at a time.
PeopleInv ==
  /\ FamilyInv /\ (part = "family" => acting = "admin")
  /\ RolesInv /\ (~StaleRiders => RosterInv)
  /\ (SeasonStart \notin ManualStarts => CommitteesInv)
  /\ AccountsInv /\ (MaxConsumers = 1 => CodesInv)

\* Every part starts in its invariant.
LEMMA PeopleInitInv == PeopleInit => PeopleInv
<1> SUFFICES ASSUME PeopleInit PROVE PeopleInv
  OBVIOUS
<1>1. FamilyInit /\ RolesInit /\ CommitteesInit /\ SecurityInit
  BY DEF PeopleInit
<1>2. acting = "admin"
  BY <1>1 DEF FamilyInit
<1> QED BY <1>1, <1>2, FamilyInitInv, RolesInitInv, CommitteesInitInv, SecurityInitInv, CodesInitInv DEF PeopleInv

\* What a step of the whole is to each part.
FamilyMoves == FamilyStep /\ acting' \in Staff

\* Every step of people is a step of its parts, and leaves the others alone.
LEMMA PartsMove ==
  ASSUME PeopleInv, [PeopleNext]_peopleVars
  PROVE  /\ part' = part /\ (part = "family" => acting' = acting)
         /\ FamilyMoves \/ UNCHANGED familyVars
         /\ RoleStep \/ LifecycleStep \/ UNCHANGED roleVars
         /\ CommitteeStep \/ GroupStep \/ UNCHANGED committeeVars
         /\ SecurityStep \/ UNCHANGED securityVars
<1> DEFINE Goal == /\ part' = part /\ (part = "family" => acting' = acting)
                   /\ FamilyMoves \/ UNCHANGED familyVars
                   /\ RoleStep \/ LifecycleStep \/ UNCHANGED roleVars
                   /\ CommitteeStep \/ GroupStep \/ UNCHANGED committeeVars
                   /\ SecurityStep \/ UNCHANGED securityVars
<1> SUFFICES Goal
  OBVIOUS
<1>1. CASE UNCHANGED peopleVars
  BY <1>1 DEF peopleVars, familyVars
<1>2. CASE part = "accounts" /\ (\E by \in Staff : acting' = by /\ (PeopleStep \/ AccountStep(by, AccountRoles))) /\ OnlyFamily /\ UNCHANGED part
  <2>1. PICK by \in Staff : acting' = by /\ (PeopleStep \/ AccountStep(by, AccountRoles))
    BY <1>2
  <2>2. FamilyMoves
    BY <2>1, AccountsAssumption DEF FamilyMoves, FamilyStep
  <2> QED BY <1>2, <2>2 DEF OnlyFamily
<1>3. CASE part = "family" /\ acting' = acting /\ (LinkStep \/ FewRelations \/ PeopleStep \/ AccountStep("admin", {"parent"})) /\ OnlyFamily /\ UNCHANGED part
  <2>1. acting' = "admin" /\ "admin" \in Staff /\ {"parent"} \in SUBSET Roles
    BY <1>3 DEF PeopleInv, Staff, Roles
  <2>2. LinkStep \/ RelationStep \/ PeopleStep \/ AccountStep("admin", {"parent"})
    BY <1>3 DEF FewRelations
  <2>3. FamilyStep
    BY <2>1, <2>2 DEF FamilyStep
  <2>4. FamilyMoves
    BY <2>1, <2>3 DEF FamilyMoves
  <2> QED BY <1>3, <2>4 DEF OnlyFamily
<1>4. CASE part # "family" /\ (RoleStep \/ LifecycleStep) /\ OnlyRoles /\ UNCHANGED part
  BY <1>4 DEF OnlyRoles
<1>5. CASE part # "family" /\ (CommitteeStep \/ GroupStep) /\ OnlyCommittees /\ UNCHANGED part
  BY <1>5 DEF OnlyCommittees
<1>6. CASE /\ part # "family" /\ OnlySecurity /\ UNCHANGED part
           /\ SignInStep \/ EmailStep \/ AddressStep(Users) \/ ChallengeStep \/ FactorStep \/ PasswordsStep \/ EnableStep({"bob"})
  <2>1. SecurityStep
    BY <1>6 DEF SecurityStep
  <2> QED BY <1>6, <2>1 DEF OnlySecurity
<1> HIDE DEF Goal
<1>7. CASE PeopleNext
  BY <1>2, <1>3, <1>4, <1>5, <1>6, <1>7 DEF PeopleNext
<1> QED BY <1>1, <1>7

\* Nothing moves, nothing is lost.
LEMMA PartsStutter ==
  /\ UNCHANGED familyVars /\ FamilyInv => FamilyInv'
  /\ UNCHANGED roleVars => (RolesInv => RolesInv') /\ (RosterInv => RosterInv')
  /\ UNCHANGED committeeVars /\ CommitteesInv => CommitteesInv'
<1>1. UNCHANGED familyVars /\ FamilyInv => FamilyInv'
  BY DEF familyVars, FamilyInv, FamilyTypeOK, NobodyIsTheirOwnParent
<1>2. UNCHANGED roleVars => (RolesInv => RolesInv') /\ (RosterInv => RosterInv')
  BY DEF roleVars, RolesInv, RolesTypeOK, RosterInv, LifecycleMatchesActive
<1>3. UNCHANGED committeeVars /\ CommitteesInv => CommitteesInv'
  BY DEF committeeVars, CommitteesInv, CommitteesTypeOK, MirrorsFollowAssignments, OwnPersons, HeldOnce, MirrorsHeld
<1> QED BY <1>1, <1>2, <1>3

\* Every step of people keeps the invariants of all the parts.
LEMMA PeopleNextInv ==
  ASSUME PeopleInv, [PeopleNext]_peopleVars
  PROVE  PeopleInv'
<1>0. /\ part' = part /\ (part = "family" => acting' = acting)
      /\ FamilyMoves \/ UNCHANGED familyVars
      /\ RoleStep \/ LifecycleStep \/ UNCHANGED roleVars
      /\ CommitteeStep \/ GroupStep \/ UNCHANGED committeeVars
      /\ SecurityStep \/ UNCHANGED securityVars
  BY PartsMove
<1>1. FamilyInv'
  BY <1>0, PartsStutter, FamilyStepInv DEF PeopleInv, FamilyMoves
<1>2. RolesInv' /\ (~StaleRiders => RosterInv')
  BY <1>0, PartsStutter, RoleStepInv, LifecycleStepInv DEF PeopleInv
<1>3. SeasonStart \notin ManualStarts => CommitteesInv'
  BY <1>0, PartsStutter, CommitteeStepInv, GroupStepInv DEF PeopleInv
<1>4. AccountsInv'
  BY <1>0, SecurityStutter, SecurityStepInv DEF PeopleInv
<1>5. MaxConsumers = 1 => CodesInv'
  BY <1>0, <1>4, SecurityStutter, CodesStepInv DEF PeopleInv
<1>6. (part = "family" => acting = "admin")'
  BY <1>0 DEF PeopleInv
<1> QED BY <1>1, <1>2, <1>3, <1>4, <1>5, <1>6 DEF PeopleInv

\* The invariant people keep, for any persons, riders, contacts, roles, committees, users and sessions; what a race
\* breaks (a rider saved from a stale copy, a role that starts a season by hand, two consumers of one code) is conditional.
THEOREM PeopleInvariantHolds == PeopleSpec => []PeopleInv
<1>1. PeopleInit => PeopleInv
  BY PeopleInitInv
<1>2. PeopleInv /\ [PeopleNext]_peopleVars => PeopleInv'
  BY PeopleNextInv
<1> QED BY <1>1, <1>2, PTL DEF PeopleSpec

\* What holds of people and accounts between two requests, as MCPeople states it.
THEOREM PeopleHold ==
  ASSUME ~StaleRiders, SeasonStart \notin ManualStarts, MaxConsumers = 1
  PROVE  PeopleSpec => []PeopleInvariant
<1>1. PeopleInv => PeopleInvariant
  <2> SUFFICES ASSUME PeopleInv PROVE PeopleInvariant
    OBVIOUS
  <2>1. FamilyTypeOK /\ NobodyIsTheirOwnParent /\ PersonalListMatchesPages /\ FamilyAccountsArePersonal
    BY ListMatchesPages, AccountsArePersonal DEF PeopleInv, FamilyInv
  <2>2. RolesTypeOK /\ RoleDatesAreOrdered /\ LifecycleMatchesActive
    BY DEF PeopleInv, RolesInv, RosterInv, RowsOK, RoleDatesAreOrdered
  <2>3. CommitteesTypeOK /\ MirrorsFollowAssignments
    BY DEF PeopleInv, CommitteesInv
  <2>4. SecurityTypeOK /\ RecoveryCodesWorkOnce
    BY CodesOnce DEF PeopleInv, AccountsInv
  <2> QED BY <2>1, <2>2, <2>3, <2>4 DEF PeopleInvariant
<1> QED BY <1>1, PeopleInvariantHolds, PTL

\* Unlinking a guardian ends what the link gave.
THEOREM UnlinkEnds == PeopleSpec => UnlinkEndsAccess
<1> DEFINE Ends == \A r \in Riders, g \in Contacts : (<<r, g>> \in links /\ <<r, g>> \notin links') =>
                     /\ <<r, owner[g]>> \in grants' => \E h \in Contacts : <<r, h>> \in links' /\ owner[h] = owner[g]
                     /\ parents'[ids'.bridge[g], ids'.bridge[r]] \in {"none", "closed"}
<1>1. PeopleInv /\ [PeopleNext]_peopleVars => [Ends]_familyVars
  <2> SUFFICES ASSUME PeopleInv, [PeopleNext]_peopleVars PROVE Ends \/ UNCHANGED familyVars
    OBVIOUS
  <2>1. FamilyMoves \/ UNCHANGED familyVars
    BY PartsMove
  <2>2. ASSUME FamilyMoves PROVE Ends
    BY <2>2, UnlinkEndsBoth DEF FamilyMoves, PeopleInv
  <2> QED BY <2>1, <2>2
<1> QED BY <1>1, PeopleInvariantHolds, PTL DEF UnlinkEndsAccess, PeopleSpec

\* The second factor is shown by whoever comes in while it is on.
THEOREM FactorAtTheDoor == PeopleSpec => SecondFactorAtTheDoor
<1> DEFINE Shown == \A s \in Sessions : (sessions[s].stage # "in" /\ sessions'[s].stage = "in" /\ factor[sessions'[s].user].on)
                      => sessions'[s].second
<1>1. PeopleInv /\ [PeopleNext]_peopleVars => [Shown]_securityVars
  <2> SUFFICES ASSUME PeopleInv, [PeopleNext]_peopleVars PROVE Shown \/ UNCHANGED securityVars
    OBVIOUS
  <2>1. SecurityStep \/ UNCHANGED securityVars
    BY PartsMove
  <2>2. ASSUME SecurityStep PROVE Shown
    BY <2>2, FactorShown DEF PeopleInv
  <2> QED BY <2>1, <2>2
<1> QED BY <1>1, PeopleInvariantHolds, PTL DEF SecondFactorAtTheDoor, PeopleSpec

\* The six things no request does with people, their roles and their accounts.
THEOREM CoachesNever == PeopleSpec => CoachesNeverTouchStaff
<1> DEFINE Left == acting' = "coach" => \A u \in Logins : (logins[u] # logins'[u]) =>
                     /\ logins[u].exists => logins[u].role \notin Staff
                     /\ logins'[u].role \notin Staff
<1>1. PeopleInv /\ [PeopleNext]_peopleVars => [Left]_familyVars
  <2> SUFFICES ASSUME PeopleInv, [PeopleNext]_peopleVars PROVE Left \/ UNCHANGED familyVars
    OBVIOUS
  <2>1. FamilyMoves \/ UNCHANGED familyVars
    BY PartsMove
  <2>2. ASSUME FamilyMoves PROVE Left
    BY <2>2, CoachesLeaveStaff DEF FamilyMoves, PeopleInv
  <2> QED BY <2>1, <2>2
<1> QED BY <1>1, PeopleInvariantHolds, PTL DEF CoachesNeverTouchStaff, PeopleSpec

\* A new login takes no person from a login that exists (sync_person_for_user).
THEOREM NewLoginsNever == PeopleSpec => NewLoginsDisplaceNoOne
<1> DEFINE Kept == \A p \in Persons :
                     (ids.people[p].exists /\ ids.people[p].login # None /\ ids'.people[p].login # ids.people[p].login)
                       => ids'.people[p].login \in {None} \cup {u \in Logins : logins[u].exists}
<1>1. PeopleInv /\ [PeopleNext]_peopleVars => [Kept]_familyVars
  <2> SUFFICES ASSUME PeopleInv, [PeopleNext]_peopleVars PROVE Kept \/ UNCHANGED familyVars
    OBVIOUS
  <2>1. FamilyMoves \/ UNCHANGED familyVars
    BY PartsMove
  <2>2. ASSUME FamilyMoves PROVE Kept
    BY <2>2, NewLoginsDisplaceNobody DEF FamilyMoves, PeopleInv
  <2> QED BY <2>1, <2>2
<1> QED BY <1>1, PeopleInvariantHolds, PTL DEF NewLoginsDisplaceNoOne, PeopleSpec

\* The page of roles leaves the chosen roles, open-ended, and no other active one.
THEOREM ManagedRolesHold == PeopleSpec => ManagedRolesAreChosen
<1> DEFINE Chosen == \A selected \in SUBSET RoleSet :
                       (/\ PersonRolesSave(selected) /\ ~ManagedTo(selected).stopped
                        /\ \A role \in RoleSet : \A a, b \in ActiveRows(roleRows, role) : a = b)
                       => /\ {a.role : a \in {a \in roleRows' : a.active}} = selected
                          /\ \A a \in roleRows' : a.active => a.end = NoDate
<1>1. PeopleInv => Chosen
  BY ChosenRolesStay DEF PeopleInv, RolesInv, RolesTypeOK
<1>2. PeopleInv /\ [PeopleNext]_peopleVars => [Chosen]_roleVars
  BY <1>1
<1> QED BY <1>2, PeopleInvariantHolds, PTL DEF ManagedRolesAreChosen, PeopleSpec

\* Saving a rider whose state did not move changes no lifecycle.
THEOREM GraduatesHold ==
  ASSUME ~StaleRiders
  PROVE  PeopleSpec => GraduatesStay
<1> DEFINE Stay == (RiderResave /\ heldActive = riderActive) => lifecycle' = lifecycle
<1>1. PeopleInv /\ [PeopleNext]_peopleVars => [Stay]_roleVars
  BY ResaveChangesNothing DEF PeopleInv
<1> QED BY <1>1, PeopleInvariantHolds, PTL DEF GraduatesStay, PeopleSpec

\* An address becomes the account's when its link was opened, and only the pending one.
THEOREM AddressesAreProved == PeopleSpec => VerifiedChangesAreProved
<1> DEFINE Proved == \A u \in Users : (pending[u] # NoAddress /\ pending'[u] = NoAddress) =>
                       address'[u] = pending[u] /\ <<u, pending[u]>> \in proved'
<1>1. PeopleInv /\ [PeopleNext]_peopleVars => [Proved]_securityVars
  <2> SUFFICES ASSUME PeopleInv, [PeopleNext]_peopleVars PROVE Proved \/ UNCHANGED securityVars
    OBVIOUS
  <2>1. SecurityStep \/ UNCHANGED securityVars
    BY PartsMove
  <2>2. ASSUME SecurityStep PROVE Proved
    BY <2>2, ChangesAreProved DEF PeopleInv
  <2> QED BY <2>1, <2>2
<1> QED BY <1>1, PeopleInvariantHolds, PTL DEF VerifiedChangesAreProved, PeopleSpec

\* A temporary password is done with when another one is set.
THEOREM TemporaryPasswordsEnd == PeopleSpec => TemporaryPasswordsGo
<1> DEFINE New == \A u \in Users : (mustChange[u] /\ ~mustChange'[u]) => password'[u] # password[u]
<1>1. PeopleInv /\ [PeopleNext]_peopleVars => [New]_securityVars
  <2> SUFFICES ASSUME PeopleInv, [PeopleNext]_peopleVars PROVE New \/ UNCHANGED securityVars
    OBVIOUS
  <2>1. SecurityStep \/ UNCHANGED securityVars
    BY PartsMove
  <2>2. ASSUME SecurityStep PROVE New
    BY <2>2, NewPasswordsAreNew DEF PeopleInv
  <2> QED BY <2>1, <2>2
<1> QED BY <1>1, PeopleInvariantHolds, PTL DEF TemporaryPasswordsGo, PeopleSpec

\* What no request does with people, their roles and their accounts, as MCPeople states it.
THEOREM PeopleStepsHold ==
  ASSUME ~StaleRiders
  PROVE  PeopleSpec => PeopleSteps
BY CoachesNever, NewLoginsNever, ManagedRolesHold, GraduatesHold, AddressesAreProved, TemporaryPasswordsEnd DEF PeopleSteps
=============================================================================
