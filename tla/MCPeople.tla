------------------------------ MODULE MCPeople ------------------------------
(***************************************************************************)
(* People and accounts for TLC: one family, the roles and the rider record *)
(* of one person, committees, and the security of two logins.  The parts   *)
(* share no state and are explored one at a time: `part` says which one    *)
(* moves.                                                                  *)
(***************************************************************************)
EXTENDS FamilyAccess, PeopleRoles, Committees, AccountSecurity

CONSTANTS Parts, AccountRoles, MaxManual, MaxMailed   \* bounds on the memberships entered by hand and on the links that are out

ASSUME AccountsAssumption == AccountRoles \subseteq Roles

VARIABLE part
peopleVars == <<part, familyVars, roleVars, committeeVars, securityVars>>

MCLinks     == {<<"rider", "contact">>}
MCAddress   == CHOOSE f \in [Users -> Addresses] : \A u, v \in Users : f[u] = f[v] => u = v
MCRoleOrder == <<"parent_guardian", "rider">>
Unmade      == [exists |-> FALSE, active |-> FALSE, login |-> None]
Nobody      == [exists |-> FALSE, active |-> TRUE, role |-> "parent"]
MCPerson(u) == [exists |-> TRUE, active |-> TRUE, login |-> u]
\* One rider and one contact: the contact of login "ann", both of one login, or not upgraded at all.
MCMigrated ==
  {[ids |-> [people |-> [p \in Persons |-> IF p = 1 THEN MCPerson(None) ELSE IF p = 2 THEN MCPerson("ann") ELSE Unmade],
             bridge |-> [x \in Records |-> IF x \in Riders THEN 1 ELSE 2]],
    owner |-> [x \in Records |-> IF x \in Contacts THEN "ann" ELSE None],
    logins |-> [u \in Logins |-> IF u = "ann" THEN [Nobody EXCEPT !.exists = TRUE] ELSE Nobody]],
   [ids |-> [people |-> [p \in Persons |-> IF p = 1 THEN MCPerson("ann") ELSE Unmade],
             bridge |-> [x \in Records |-> 1]],
    owner |-> [x \in Records |-> "ann"],
    logins |-> [u \in Logins |-> IF u = "ann" THEN [Nobody EXCEPT !.exists = TRUE, !.role = "coach"] ELSE Nobody]],
   [ids |-> [people |-> [p \in Persons |-> Unmade], bridge |-> [x \in Records |-> NoOne]],
    owner |-> [x \in Records |-> IF x \in Contacts THEN "ann" ELSE None],
    logins |-> [u \in Logins |-> IF u = "ann" THEN [Nobody EXCEPT !.exists = TRUE] ELSE Nobody]]}

OnlyFamily     == UNCHANGED <<roleVars, committeeVars, securityVars>>
OnlyRoles      == UNCHANGED <<familyVars, committeeVars, securityVars>>
OnlyCommittees == UNCHANGED <<familyVars, roleVars, securityVars>>
OnlySecurity   == UNCHANGED <<familyVars, roleVars, committeeVars>>

\* Enabled logins, one login form that is left open, and one person archived at a time.
Enabled == /\ \A u \in Logins : logins'[u].exists => logins'[u].active
           /\ asked' \subseteq {1}
           /\ Cardinality({p \in Persons : ids'.people[p].exists /\ ~ids'.people[p].active}) <= 1
\* Relationships of one dated kind besides those the links open, and no one archived.
FewRelations == RelationStep /\ \A pq \in Persons \X Persons : parents'[pq] # parents[pq] => parents'[pq] = "lapsed"
Steady == /\ \A p \in Persons : ids'.people[p].exists => ids'.people[p].active
          /\ Enabled
\* Each browser signs in one user.
OwnBrowsers == sessions'["s"].user # "bob" /\ sessions'["t"].user # "ann"

PeopleInit ==
  /\ part \in Parts
  /\ FamilyInit /\ RolesInit /\ CommitteesInit /\ SecurityInit
  /\ part # "email" => \A u \in Users : ~verified[u]
  /\ address = MCAddress
  /\ part # "factor" => \A u \in Users : ~mustChange[u]
  /\ (part # "family") => (owner["rider"] = None /\ (ids.bridge["rider"] = NoOne \/ part = "accounts"))
  /\ part = "email" => verified["bob"]

PeopleNext ==
  /\ UNCHANGED part
  /\ \/ part = "accounts" /\ (\E by \in Staff : acting' = by /\ (PeopleStep \/ AccountStep(by, AccountRoles))) /\ Enabled /\ OnlyFamily
     \/ part = "family" /\ acting' = acting /\ (LinkStep \/ FewRelations \/ PeopleStep \/ AccountStep("admin", {"parent"})) /\ Steady /\ OnlyFamily
     \/ part = "roles" /\ RoleStep /\ OnlyRoles
     \/ part = "lifecycle" /\ LifecycleStep /\ OnlyRoles
     \/ part = "committees" /\ CommitteeStep /\ Cardinality(manual') <= MaxManual /\ OnlyCommittees
     \/ part = "groups" /\ GroupStep /\ OnlyCommittees
     \/ part = "email" /\ (SignInStep \/ EmailStep \/ AddressStep(Users)) /\ OwnBrowsers /\ Cardinality(mailed') <= MaxMailed /\ OnlySecurity
     \/ part = "factor" /\ (SignInStep \/ ChallengeStep \/ FactorStep \/ PasswordsStep \/ EnableStep({"bob"})) /\ OnlySecurity

PeopleSpec == PeopleInit /\ [][PeopleNext]_peopleVars

(*------------------------------ properties -------------------------------*)

\* What holds of people and accounts between two requests: the personal list shows the pages that
\* open, family accounts are opened by family only, no one is their own parent, roles are dated in
\* order, the lifecycle says whether a rider is active, committee memberships follow the
\* assignments, and a recovery code that was used is gone.
PeopleInvariant ==
  /\ FamilyTypeOK /\ RolesTypeOK /\ CommitteesTypeOK /\ SecurityTypeOK
  /\ PersonalListMatchesPages /\ FamilyAccountsArePersonal /\ NobodyIsTheirOwnParent
  /\ RoleDatesAreOrdered /\ LifecycleMatchesActive
  /\ MirrorsFollowAssignments
  /\ RecoveryCodesWorkOnce

\* What no request may do with them: change a staff login as a coach, take a record from its login
\* by making another, end a role nobody unticked, take a graduate back by saving the roster,
\* confirm an address its owner did not prove or keep a temporary password for good.
PeopleSteps ==
  /\ CoachesNeverTouchStaff /\ NewLoginsDisplaceNoOne
  /\ ManagedRolesAreChosen /\ GraduatesStay
  /\ VerifiedChangesAreProved /\ TemporaryPasswordsGo
=============================================================================
