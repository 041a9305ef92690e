----------------------------- MODULE Committees -----------------------------
(***************************************************************************)
(* Groups, committees and their members, and the mirror of the IEA         *)
(* committee assignments among them (committee_compat.py, signals.py,      *)
(* CommitteeAssignmentForm, the group and committee views of people.py).   *)
(* Committees are named by the role they mirror.                           *)
(***************************************************************************)
EXTENDS Integers, FiniteSets

CONSTANTS GroupIds,
          Members,         \* logins that may hold an assignment
          CommitteePeople, \* people ids; a login without a person gets the next one
          IeaRoles,        \* upper_parent, treasurer, ...
          AssignmentIds,
          ManualStarts     \* the starts of the memberships entered by hand

NoRow       == [role |-> "no row"]
SeasonStart == 1
PositionOf(role) == IF role = "treasurer" THEN "treasurer" ELSE IF role = "points_secretary" THEN "secretary" ELSE "chair"
Assignment  == [user : Members, role : IeaRoles, active : BOOLEAN]
Mirror      == [person : CommitteePeople, role : IeaRoles, position : {"chair", "treasurer", "secretary", "member"},
                start : Nat, active : BOOLEAN]

ASSUME CommitteesAssumption == 0 \notin GroupIds /\ CommitteePeople \subseteq Nat \ {0} /\ ManualStarts \subseteq Nat

VARIABLES groupParent,   \* the parent of each group, 0 for none
          personOf,      \* the person of each login, 0 for none
          assignments,   \* CommitteeAssignment rows of the season
          mirrors,       \* the CommitteeMembership of each assignment
          manual         \* memberships entered by hand

committeeVars == <<groupParent, personOf, assignments, mirrors, manual>>

CommitteesInit ==
  /\ groupParent = [g \in GroupIds |-> 0]
  /\ personOf = [m \in Members |-> 0]
  /\ assignments = [i \in AssignmentIds |-> NoRow]
  /\ mirrors = [i \in AssignmentIds |-> NoRow]
  /\ manual = {}

\* organization_group_edit: a group is only kept from being its own parent.
GroupSave(g, parent) ==
  /\ parent # g
  /\ groupParent' = [groupParent EXCEPT ![g] = parent]
  /\ UNCHANGED <<personOf, assignments, mirrors, manual>>
Subgroups(g) == {h \in GroupIds : groupParent[h] = g}

Held(rows)   == {i \in AssignmentIds : rows[i] # NoRow}
Duplicate(i, a) == \E j \in Held(assignments) \ {i} : assignments[j].user = a.user /\ assignments[j].role = a.role

People == {personOf[m] : m \in Members}
PersonForAssignment(u) ==
  IF personOf[u] # 0 THEN {personOf[u]} ELSE {p \in CommitteePeople \ People : \A q \in CommitteePeople \ People : p <= q}

\* Mutant: a mirror that exists is left as it was.
MirrorOf_Once(i, a, p) ==
  IF mirrors[i] # NoRow THEN mirrors[i]
  ELSE [person |-> p, role |-> a.role, position |-> PositionOf(a.role), start |-> SeasonStart, active |-> a.active]
MirrorOf(i, a, p) == [person |-> p, role |-> a.role, position |-> PositionOf(a.role), start |-> SeasonStart, active |-> a.active]

Period(m) == <<m.role, m.person, m.position, m.start>>
Clash(i, m) == \E n \in manual \cup {mirrors[j] : j \in Held(mirrors) \ {i}} : Period(n) = Period(m)

\* committee_assignment_create and _edit: the mirror is written once the assignment is saved, and a
\* clash with a membership entered by hand leaves it behind.
CommitteeAssignmentSave(i, a) ==
  /\ ~Duplicate(i, a)
  /\ \E p \in PersonForAssignment(a.user) :
       /\ personOf' = [personOf EXCEPT ![a.user] = p]
       /\ mirrors' = IF Clash(i, MirrorOf(i, a, p)) THEN mirrors ELSE [mirrors EXCEPT ![i] = MirrorOf(i, a, p)]
  /\ assignments' = [assignments EXCEPT ![i] = a]
  /\ UNCHANGED <<groupParent, manual>>

\* Only memberships that mirror no assignment are edited on a person.
PersonCommitteeSave(old, m) ==
  /\ old \subseteq manual /\ Cardinality(old) <= 1
  /\ \A n \in (manual \ old) \cup {mirrors[j] : j \in Held(mirrors)} : Period(n) # Period(m)
  /\ manual' = (manual \ old) \cup {m}
  /\ UNCHANGED <<groupParent, personOf, assignments, mirrors>>

ActiveMembers(role) == {n.person : n \in {n \in manual \cup {mirrors[j] : j \in Held(mirrors)} : n.role = role /\ n.active}}

Assigned == {i \in AssignmentIds : i <= Cardinality(Held(assignments)) + 1}
CommitteeStep ==
  \/ \E i \in Assigned, a \in Assignment : CommitteeAssignmentSave(i, a)
  \/ \E old \in SUBSET manual, p \in People \ {0}, role \in IeaRoles, start \in ManualStarts, active \in BOOLEAN :
       PersonCommitteeSave(old, [person |-> p, role |-> role, position |-> PositionOf(role), start |-> start, active |-> active])
GroupStep == \E g \in GroupIds, parent \in GroupIds \cup {0} : GroupSave(g, parent)

CommitteesTypeOK ==
  /\ groupParent \in [GroupIds -> GroupIds \cup {0}]
  /\ personOf \in [Members -> CommitteePeople \cup {0}]
  /\ assignments \in [AssignmentIds -> Assignment \cup {NoRow}]
  /\ mirrors \in [AssignmentIds -> Mirror \cup {NoRow}]
  /\ manual \subseteq Mirror

\* Every assignment has its membership with the same role, person and state, whatever the earlier ones of
\* the same row were: a chair who was replaced or made inactive is not listed any more.
MirrorsFollowAssignments ==
  \A i \in Held(assignments) :
    /\ mirrors[i] # NoRow
    /\ mirrors[i].role = assignments[i].role /\ mirrors[i].active = assignments[i].active
    /\ mirrors[i].person = personOf[assignments[i].user]
=============================================================================
