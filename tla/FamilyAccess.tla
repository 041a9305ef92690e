---------------------------- MODULE FamilyAccess ----------------------------
(***************************************************************************)
(* Who a login is, and which riders it reaches: canonical people with      *)
(* their login and parent relationships, the legacy rider and guardian     *)
(* records bridged to them, the legacy links between those records and the *)
(* grants of riders to logins (people_services.py, people_compat.py,       *)
(* people_accounts.py, the account forms and the family views).            *)
(***************************************************************************)
EXTENDS Integers, FiniteSets

CONSTANTS Persons,       \* ids of the people that may ever exist
          Logins,        \* user accounts that may ever exist
          Riders,        \* legacy rider records
          Contacts,      \* legacy guardian contacts
          LegacyLinks,   \* RiderGuardian rows left by earlier releases
          Migrated       \* the identities the upgrade may have left

None     == "none"
Records  == Riders \cup Contacts
NoRecord == "no record"
NoOne    == 0
Staff    == {"admin", "coach"}
Roles    == Staff \cup {"parent", "rider"}
Relation == {"none", "open", "lapsed", "closed"}   \* open and lapsed rows are active, a lapsed one is out of its dates
Person   == [exists : BOOLEAN, active : BOOLEAN, login : Logins \cup {None}]
Login    == [exists : BOOLEAN, active : BOOLEAN, role : Roles]
Identity == [people : [Persons -> Person], bridge : [Records -> Persons \cup {NoOne}]]

ASSUME FamilyAssumption ==
  /\ Persons \subseteq Nat \ {NoOne} /\ None \notin Logins /\ NoRecord \notin Records
  /\ LegacyLinks \subseteq Riders \X Contacts
  /\ Migrated \subseteq [ids : Identity, owner : [Records -> Logins \cup {None}], logins : [Logins -> Login]]

VARIABLES ids,      \* the people and the bridges from legacy records
          logins,   \* the accounts
          owner,    \* the login of each legacy record
          links,    \* RiderGuardian rows
          grants,   \* Rider.guardians: the riders granted to logins
          parents,  \* the parent relationship of each ordered pair
          asked,    \* people whose login form passed its checks
          acting    \* the role of the manager behind the last step

familyVars == <<ids, logins, owner, links, grants, parents, asked, acting>>

GrantsOf(x, u) == {<<r, u>> : r \in {r \in Riders : <<r, x>> \in links}}

FamilyInit ==
  /\ \E m \in Migrated :
       /\ ids = m.ids /\ owner = m.owner /\ logins = m.logins
       /\ links = LegacyLinks
       /\ grants = {<<l[1], m.owner[l[2]]>> : l \in {l \in LegacyLinks : m.owner[l[2]] # None}}
       /\ parents = [pq \in Persons \X Persons |->
            IF \E l \in LegacyLinks : pq = <<m.ids.bridge[l[2]], m.ids.bridge[l[1]]>> /\ pq[1] # pq[2] THEN "open" ELSE "none"]
  /\ asked = {}
  /\ acting = "admin"

(*------------------------------ identities -------------------------------*)
Active(s, p) == s.people[p].exists /\ s.people[p].active
Of(s, u)     == {p \in Persons : s.people[p].exists /\ s.people[p].login = u}
\* The row the next insert gets; empty when the bound on people is met.
Unborn(s)    == {p \in Persons : ~s.people[p].exists /\ \A q \in 1..(p - 1) : s.people[q].exists}
Born(s, p, u) == [s EXCEPT !.people[p] = [exists |-> TRUE, active |-> TRUE, login |-> u]]
SameKind(x)  == IF x \in Riders THEN Riders ELSE Contacts
Bridged(s, x, p) == {[s EXCEPT !.bridge[x] = p] : t \in {t \in {0} : \A y \in SameKind(x) : s.bridge[y] # p}}

\* ensure_rider_person and ensure_guardian_person: u is the record's login; no result is a refusal.
Ensured(s, x, u) ==
  IF s.bridge[x] # NoOne THEN {s}
  ELSE IF u # None /\ Of(s, u) # {} THEN UNION {Bridged(s, x, p) : p \in Of(s, u)}
  ELSE UNION {Bridged(Born(s, p, u), x, p) : p \in Unborn(s)}

\* sync_user_person_identity: the login's person is its own, the record's, or a new one.
Synced(s, u, x, held) ==
  UNION {LET mine   == Of(s, u)
             theirs == IF x = NoRecord THEN {} ELSE {t.bridge[x]}
             chosen == IF mine # {} THEN mine ELSE IF theirs # {} THEN theirs ELSE Unborn(t)
         IN {[t EXCEPT !.people[p] = [exists |-> TRUE, active |-> TRUE, login |-> u]] :
               p \in {p \in chosen : theirs \subseteq {p} /\ t.people[p].login \in {None, u}}}
         : t \in IF x = NoRecord THEN {s} ELSE Ensured(s, x, held)}

(*-------------------------------- people ---------------------------------*)
\* person_create and person_edit: an archived person is out of the directory and cannot be edited.
PersonSave(p, u, active) ==
  /\ Active(ids, p) \/ p \in Unborn(ids)
  /\ u \in {None, ids.people[p].login} \cup {v \in Logins : logins[v].exists /\ Of(ids, v) = {}}
  /\ ids' = [ids EXCEPT !.people[p] = [exists |-> TRUE, active |-> active, login |-> u]]
  /\ UNCHANGED <<logins, owner, links, grants, parents, asked>>

RelationshipSave(p, q, relation) ==
  /\ Active(ids, p) /\ Active(ids, q) /\ p # q
  /\ parents' = [parents EXCEPT ![<<p, q>>] = relation]
  /\ UNCHANGED <<ids, logins, owner, links, grants, asked>>

(*------------------------------- accounts --------------------------------*)
MayGive(by, role) == role \in Staff => by = "admin"
\* Mutant: any manager edits any account.
MayManageUser_Any(by, u) == logins[u].exists
MayManageUser(by, u) == logins[u].exists /\ (logins[u].role \in Staff => by = "admin")
Suits(role, x) ==
  /\ (role = "rider") = (x \in Riders)
  /\ role = "parent" => x \in Contacts
NewLogin(u, role) == [logins EXCEPT ![u] = [exists |-> TRUE, active |-> TRUE, role |-> role]]

PersonLoginForm(p) ==
  /\ Active(ids, p) /\ ids.people[p].login = None
  /\ asked' = asked \cup {p}
  /\ UNCHANGED <<ids, logins, owner, links, grants, parents>>

\* Mutant: trusts the check the form made.
StillWithout_Form(p) == TRUE
\* The save looks again at the locked row.
StillWithout(p) == ids.people[p].login = None

PersonLoginSave(by, p, u, role) ==
  /\ p \in asked /\ StillWithout(p)
  /\ ~logins[u].exists /\ MayGive(by, role)
  /\ logins' = NewLogin(u, role)
  /\ ids' = [ids EXCEPT !.people[p].login = u]
  /\ owner' = [x \in Records |-> IF ids.bridge[x] = p THEN u ELSE owner[x]]
  /\ grants' = grants \cup UNION {GrantsOf(x, u) : x \in {x \in Contacts : ids.bridge[x] = p}}
  /\ UNCHANGED <<links, parents, asked>>

\* user_create: the synchronised record is the one the form read, without its new login.
UserCreate(by, u, role, x) ==
  /\ ~logins[u].exists /\ MayGive(by, role) /\ Suits(role, x)
  /\ x # NoRecord => owner[x] = None
  /\ ids' \in Synced(ids, u, x, None)
  /\ logins' = NewLogin(u, role)
  /\ owner' = [y \in Records |-> IF y = x THEN u ELSE owner[y]]
  /\ grants' = grants \cup GrantsOf(x, u)
  /\ UNCHANGED <<links, parents, asked>>

EditedLogin(u, role, active) == [logins EXCEPT ![u].role = role, ![u].active = active]

\* user_edit of a login with a person: the legacy records are left alone, the person comes back.
PersonAccountEdit(by, u, role, active) ==
  /\ MayManageUser(by, u) /\ MayGive(by, role)
  /\ Of(ids, u) # {}
  /\ logins' = EditedLogin(u, role, active)
  /\ ids' \in Synced(ids, u, NoRecord, None)
  /\ UNCHANGED <<owner, links, grants, parents, asked>>

\* user_edit of a login without one: its records are exchanged for x.
LegacyAccountEdit(by, u, role, active, x) ==
  LET left == {y \in Records : owner[y] = u /\ y # x}
  IN /\ MayManageUser(by, u) /\ MayGive(by, role) /\ Suits(role, x)
     /\ Of(ids, u) = {}
     /\ x # NoRecord => owner[x] \in {None, u}
     /\ logins' = EditedLogin(u, role, active)
     /\ owner' = [y \in Records |-> IF y = x THEN u ELSE IF y \in left THEN None ELSE owner[y]]
     /\ grants' = (grants \ UNION {GrantsOf(y, u) : y \in left}) \cup GrantsOf(x, u)
     /\ ids' \in Synced(ids, u, x, u)
     /\ UNCHANGED <<links, parents, asked>>

(*-------------------------------- family ---------------------------------*)
\* Old bookmarks into the rider and guardian pages only make sure of the person.
RecordOpened(x) ==
  /\ ids' \in Ensured(ids, x, owner[x])
  /\ UNCHANGED <<logins, owner, links, grants, parents, asked>>

\* rider_guardian_link: the parent is a person, or a login that becomes one.
GuardianLink(r, p, u) ==
  \E t \in Ensured(ids, r, owner[r]) :
    LET child == t.bridge[r]
    IN /\ IF u = None THEN Active(t, p) /\ ids' = t
          ELSE /\ logins[u].exists /\ logins[u].active
               /\ IF Of(t, u) # {} THEN p \in Of(t, u) /\ ids' = t
                  ELSE p \in Unborn(t) /\ ids' = Born(t, p, u)
       /\ p # child
       /\ parents' = [parents EXCEPT ![<<p, child>>] = "open"]
       /\ UNCHANGED <<logins, owner, links, grants, asked>>

\* Mutant: the bridge of one human to both records is not noticed.
MayRelate_All(p, q) == TRUE
MayRelate(p, q) == p # q

Opened(pair) ==
  IF MayRelate(pair[1], pair[2]) /\ parents[pair] \notin {"open", "lapsed"} THEN [parents EXCEPT ![pair] = "open"] ELSE parents
Ended(pair) == IF parents[pair] \in {"open", "lapsed"} THEN [parents EXCEPT ![pair] = "closed"] ELSE parents

\* rider_guardian_edit: a link without an active relationship opens one.
GuardianEdit(r, g) ==
  /\ <<r, g>> \in links
  /\ \E t \in Ensured(ids, r, owner[r]) : \E w \in Ensured(t, g, owner[g]) :
       LET pair == <<w.bridge[g], w.bridge[r]>>
       IN /\ ids' = w
          /\ parents' = Opened(pair)
  /\ UNCHANGED <<logins, owner, links, grants, asked>>

\* Mutant: the grant stays behind.
Ungranted_Kept(r, g) == grants
\* The grant goes unless the same login is linked to the rider in another way.
Ungranted(r, g) ==
  IF \E h \in Contacts : <<r, h>> \in links /\ h # g /\ owner[h] = owner[g] THEN grants
  ELSE grants \ {<<r, owner[g]>>}

GuardianUnlink(r, g) ==
  /\ <<r, g>> \in links
  /\ \E t \in Ensured(ids, r, owner[r]) : \E w \in Ensured(t, g, owner[g]) :
       LET pair == <<w.bridge[g], w.bridge[r]>>
       IN /\ ids' = w
          /\ parents' = Ended(pair)
  /\ links' = links \ {<<r, g>>}
  /\ grants' = Ungranted(r, g)
  /\ UNCHANGED <<logins, owner, asked>>

(*-------------------------------- access ---------------------------------*)
Viewer(u)      == Of(ids, u)
Guards(p, q)   == parents[p, q] = "open"
Children(u)    == {q \in Persons : \E p \in Viewer(u) : Guards(p, q)}
RiderPerson(r) == {ids.bridge[r]} \ {NoOne}
Granted(u, r)  == <<r, u>> \in grants
Linked(u, r)   == \E g \in Contacts : <<r, g>> \in links /\ owner[g] = u
SelfRiders(u)  == {r \in Riders : RiderPerson(r) \cap Viewer(u) # {}}
ParentRiders(u) == {r \in Riders : RiderPerson(r) \cap Children(u) # {}}

PersonalRiders(u) ==
  ParentRiders(u) \cup SelfRiders(u) \cup {r \in Riders : owner[r] = u \/ Granted(u, r) \/ Linked(u, r)}
VisibleRiders(u) ==
  CASE logins[u].role = "parent" -> PersonalRiders(u)
    [] logins[u].role = "rider"  -> SelfRiders(u) \cup {r \in Riders : owner[r] = u}
    [] OTHER                     -> Riders

HasParent(u, r) == RiderPerson(r) \cap Children(u) # {}
\* Mutant: forgets the grants that outlive a link.
CanViewPrivateRider_Linked(u, r) ==
  logins[u].role \in Staff \/ owner[r] = u \/ RiderPerson(r) \cap Viewer(u) # {} \/ HasParent(u, r) \/ Linked(u, r)
CanViewPrivateRider(u, r) ==
  logins[u].role \in Staff \/ owner[r] = u \/ RiderPerson(r) \cap Viewer(u) # {} \/ HasParent(u, r) \/ Granted(u, r) \/ Linked(u, r)

CanViewPrivatePerson(u, q) == logins[u].role \in Staff \/ q \in Viewer(u) \/ q \in Children(u)
\* Mutant: a relationship out of its dates still opens the account.
CanViewFamilyAccount_Lapsed(u, r) ==
  /\ logins[u].role # "rider"
  /\ \/ logins[u].role \in Staff
     \/ \E p \in Viewer(u), q \in RiderPerson(r) : parents[p, q] # "none"
     \/ Granted(u, r) \/ Linked(u, r)
\* The finance roles of committees are in Access; here staff stand for them.
CanViewFamilyAccount(u, r) ==
  /\ logins[u].role # "rider"
  /\ logins[u].role \in Staff \/ HasParent(u, r) \/ Granted(u, r) \/ Linked(u, r)

\* The family shown on a rider's page, and the people it may be linked to.
FamilyRows(r) == {p \in Persons : Active(ids, p) /\ \E q \in RiderPerson(r) : parents[p, q] \in {"open", "lapsed"}}
LinkCandidates(r) ==
  [people |-> {p \in Persons : Active(ids, p) /\ \A q \in RiderPerson(r) : p # q /\ parents[p, q] \notin {"open", "lapsed"}},
   users  |-> {u \in Logins : logins[u].exists /\ logins[u].active /\ Of(ids, u) = {}}]

(*--------------------------------- steps ---------------------------------*)
PeopleStep ==
  \/ \E p \in Persons, u \in Logins \cup {None}, active \in BOOLEAN : PersonSave(p, u, active)
  \/ \E p \in Persons : PersonLoginForm(p)
RelationStep == \E p, q \in Persons, relation \in Relation \ {"none"} : RelationshipSave(p, q, relation)
AccountStep(by, roles) ==
  \E u \in Logins, role \in roles :
    \/ \E p \in Persons : PersonLoginSave(by, p, u, role)
    \/ \E x \in Records \cup {NoRecord} : UserCreate(by, u, role, x)
    \/ \E active \in BOOLEAN : PersonAccountEdit(by, u, role, active)
    \/ \E active \in BOOLEAN, x \in Records \cup {NoRecord} : LegacyAccountEdit(by, u, role, active, x)
LinkStep ==
  \/ \E x \in Records : RecordOpened(x)
  \/ \E r \in Riders, p \in Persons, u \in Logins \cup {None} : GuardianLink(r, p, u)
  \/ \E r \in Riders, g \in Contacts : GuardianEdit(r, g) \/ GuardianUnlink(r, g)

FamilyTypeOK ==
  /\ ids \in Identity
  /\ logins \in [Logins -> Login]
  /\ owner \in [Records -> Logins \cup {None}]
  /\ links \subseteq Riders \X Contacts /\ grants \subseteq Riders \X Logins
  /\ parents \in [Persons \X Persons -> Relation]
  /\ asked \subseteq Persons /\ acting \in Staff

\* The riders a parent's pages list are exactly those whose private page opens for that login: the
\* two queries of people_services.py are written apart and read six routes each.
PersonalListMatchesPages ==
  \A u \in Logins : (logins[u].exists /\ logins[u].role \notin Staff) => PersonalRiders(u) = {r \in Riders : CanViewPrivateRider(u, r)}

\* Whoever reaches the money of a rider without a staff role reaches the rider.
FamilyAccountsArePersonal ==
  \A u \in Logins, r \in Riders :
    (logins[u].exists /\ logins[u].role \notin Staff /\ CanViewFamilyAccount(u, r)) => r \in PersonalRiders(u)

\* Nobody is recorded as their own parent, also when one human holds both legacy records.
NobodyIsTheirOwnParent == \A p \in Persons : parents[p, p] = "none"

\* Unlinking a guardian takes the relationship of its person with it and the grant of its login, unless that login
\* is linked to the rider by another contact.
UnlinkEndsAccess ==
  [][\A r \in Riders, g \in Contacts : (<<r, g>> \in links /\ <<r, g>> \notin links') =>
       /\ <<r, owner[g]>> \in grants' => \E h \in Contacts : <<r, h>> \in links' /\ owner[h] = owner[g]
       /\ parents'[ids'.bridge[g], ids'.bridge[r]] \in {"none", "closed"}]_familyVars

\* A coach makes, changes and ends no staff account.
CoachesNeverTouchStaff ==
  [][acting' = "coach" => \A u \in Logins : (logins[u] # logins'[u]) =>
       /\ logins[u].exists => logins[u].role \notin Staff
       /\ logins'[u].role \notin Staff]_familyVars

\* A login that has just been made never takes a person away from another login.
NewLoginsDisplaceNoOne ==
  [][\A p \in Persons : (ids.people[p].exists /\ ids.people[p].login # None /\ ids'.people[p].login # ids.people[p].login)
       => ids'.people[p].login \in {None} \cup {u \in Logins : logins[u].exists}]_familyVars
=============================================================================
