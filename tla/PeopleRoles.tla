----------------------------- MODULE PeopleRoles -----------------------------
(***************************************************************************)
(* The dated roles of one person, that person's part in the season, and    *)
(* the lifecycle of its rider record (view_modules/people.py,              *)
(* people_forms.py, people_compat.py, view_modules/lifecycle.py,           *)
(* lifecycle_models.py).  Days are numbers, NoDate an empty date.          *)
(***************************************************************************)
EXTENDS Integers, Sequences, FiniteSets

CONSTANTS RoleOrder,     \* the roles in the order the page goes through them
          RoleDays, RoleIds,
          StaleRiders    \* TRUE: a rider may be saved from an instance read earlier

NoDate   == -1
RoleSet  == {RoleOrder[i] : i \in 1..Len(RoleOrder)}
RoleRow  == [id : RoleIds, role : RoleSet, start : RoleDays \cup {NoDate}, end : RoleDays \cup {NoDate}, active : BOOLEAN]
Statuses == {"active", "graduated", "left_team", "inactive"}
Nothing  == "nothing"

ASSUME RolesAssumption ==
  /\ RoleOrder \in Seq(STRING) /\ {"rider", "parent_guardian"} \subseteq RoleSet
  /\ RoleDays \subseteq Nat /\ 1 \in RoleDays /\ RoleIds \subseteq Nat

VARIABLES roleRows,       \* OrganizationRoleAssignment rows of the person
          member,         \* [created, participant, season]: the person and its part in the season
          roleDay,        \* the current day
          lifecycle,      \* [status, dated]: the lifecycle row, with a graduation year or an end date
          riderActive,    \* Rider.active in the database
          heldActive      \* Rider.active in an instance some request read

roleVars == <<roleRows, member, roleDay, lifecycle, riderActive, heldActive>>
rosterUnchanged == UNCHANGED <<lifecycle, riderActive, heldActive>>

RolesInit ==
  /\ roleRows = {}
  /\ member = [created |-> FALSE, participant |-> FALSE, season |-> FALSE]
  /\ roleDay = 1
  /\ lifecycle = [status |-> "active", dated |-> FALSE]
  /\ riderActive = TRUE
  /\ heldActive = TRUE

(*--------------------------------- rows ----------------------------------*)
InOrder(a)  == a.start = NoDate \/ a.end = NoDate \/ a.start <= a.end
OtherRows(rows, a) == {b \in rows : b.id # a.id}
\* The unique constraints: one row per role and start, an empty start included.
PeriodFree(rows, a) == \A b \in OtherRows(rows, a) : b.role # a.role \/ b.start # a.start
RowsOf(rows, role)  == {a \in rows : a.role = role}
ActiveRows(rows, role) == {a \in RowsOf(rows, role) : a.active}
EffectiveToday(a) == a.active /\ (a.start = NoDate \/ a.start <= roleDay) /\ (a.end = NoDate \/ a.end > roleDay)
CurrentRoles == {a.role : a \in {a \in roleRows : EffectiveToday(a)}}
NewIds(rows) == {i \in RoleIds : \A b \in rows : b.id < i}
FirstId(rows) == {i \in NewIds(rows) : \A j \in NewIds(rows) : i <= j}
NewRow(rows, role, start) == {[id |-> i, role |-> role, start |-> start, end |-> NoDate, active |-> TRUE] : i \in FirstId(rows)}

\* The row the page works on: an active one before the others, the newest first.
Latest(rows, role) ==
  LET mine == IF ActiveRows(rows, role) # {} THEN ActiveRows(rows, role) ELSE RowsOf(rows, role)
  IN {a \in mine : \A b \in mine : b.id <= a.id}

(*------------------------------ Manage roles -----------------------------*)
\* Mutant: a role that comes back keeps its end, an end that is set again loses its start.
Managed_Today(a, chosen) ==
  IF chosen THEN [a EXCEPT !.active = TRUE, !.start = IF @ = NoDate THEN roleDay ELSE @]
  ELSE [a EXCEPT !.active = FALSE, !.end = IF @ = NoDate THEN roleDay ELSE @]
Managed(a, chosen) ==
  IF chosen THEN [a EXCEPT !.active = TRUE, !.end = NoDate, !.start = IF @ = NoDate THEN roleDay ELSE @]
  ELSE [a EXCEPT !.active = FALSE, !.end = IF @ = NoDate THEN roleDay ELSE @]

\* Mutant: the row is saved without full_clean.
RowFits_Unchecked(rows, a) == PeriodFree(rows, a)
RowFits(rows, a) == InOrder(a) /\ PeriodFree(rows, a)

\* What the page does to one role: the new rows, or a stop where full_clean raises.
ManageOne(s, role, selected) ==
  LET latest == Latest(s.rows, role)
      wanted == role \in selected
      saved  == {Managed(a, wanted) : a \in {a \in latest : wanted \/ a.active}}
                \cup (IF wanted /\ latest = {} THEN NewRow(s.rows, role, roleDay) ELSE {})
  IN IF s.stopped THEN s
     ELSE [rows    |-> {a \in s.rows : \A b \in saved : a.id # b.id} \cup {b \in saved : RowFits(s.rows, b)}
                       \cup {a \in s.rows : \E b \in saved : a.id = b.id /\ ~RowFits(s.rows, b)},
           stopped |-> \E b \in saved : ~RowFits(s.rows, b)]
\* One role after the other, without a transaction.
ManagedTo(selected) ==
  LET after[n \in 0..Len(RoleOrder)] ==
        IF n = 0 THEN [rows |-> roleRows, stopped |-> FALSE] ELSE ManageOne(after[n - 1], RoleOrder[n], selected)
  IN after[Len(RoleOrder)]

\* Not when the ids run out before every chosen role has a row.
PersonRolesSave(selected) ==
  LET managed == ManagedTo(selected)
  IN /\ member.created
     /\ managed.stopped \/ selected \subseteq {a.role : a \in managed.rows}
     /\ roleRows' = managed.rows
     /\ UNCHANGED <<member, roleDay>> /\ rosterUnchanged

PersonRoleEdit(a, start, end, active) ==
  LET edited == [a EXCEPT !.start = start, !.end = end, !.active = active]
  IN /\ a \in roleRows
     /\ RowFits(roleRows, edited)
     /\ roleRows' = OtherRows(roleRows, a) \cup {edited}
     /\ UNCHANGED <<member, roleDay>> /\ rosterUnchanged

\* person_create: the roles it starts with begin today.
PersonCreate(involvement, joins) ==
  LET roles == involvement \cup (IF joins THEN {"rider"} ELSE {})
  IN /\ ~member.created
     /\ \E idOf \in [roles -> RoleIds] :
          /\ \A r, q \in roles : idOf[r] = idOf[q] => r = q
          /\ \A r \in roles : idOf[r] <= Cardinality(roles)
          /\ roleRows' = {[id |-> idOf[r], role |-> r, start |-> roleDay, end |-> NoDate, active |-> TRUE] : r \in roles}
     /\ member' = [created |-> TRUE, participant |-> joins, season |-> joins]
     /\ UNCHANGED roleDay /\ rosterUnchanged

\* _ensure_active_role, behind every bridge of a legacy record.
EnsureActiveRole(role) ==
  LET undated == {a \in RowsOf(roleRows, role) : a.start = NoDate}
  IN /\ member.created
     /\ ActiveRows(roleRows, role) = {}
     /\ roleRows' = IF undated # {} THEN (roleRows \ undated) \cup {[a EXCEPT !.active = TRUE, !.end = NoDate] : a \in undated}
                    ELSE roleRows \cup NewRow(roleRows, role, NoDate)
     /\ UNCHANGED <<member, roleDay>> /\ rosterUnchanged

(*------------------------------ the season -------------------------------*)
\* Opening the form is enough to make the participant and the membership.
IeaMembershipOpen ==
  /\ member.created /\ ~member.season
  /\ member' = [member EXCEPT !.participant = TRUE, !.season = TRUE]
  /\ UNCHANGED <<roleRows, roleDay>> /\ rosterUnchanged

\* get_or_create of an active row: it needs at most one, and no undated row in its way.
AddableRole(role) ==
  /\ Cardinality(ActiveRows(roleRows, role)) <= 1
  /\ ActiveRows(roleRows, role) = {} => \A a \in RowsOf(roleRows, role) : a.start # NoDate
AddRole(role) == IF ActiveRows(roleRows, role) # {} THEN roleRows ELSE roleRows \cup NewRow(roleRows, role, NoDate)

IeaMembershipSave ==
  /\ member.season /\ AddableRole("rider")
  /\ roleRows' = AddRole("rider")
  /\ UNCHANGED <<member, roleDay>> /\ rosterUnchanged

\* rider_guardian_link gives the parent the role in the same way.
GuardianRole ==
  /\ member.created /\ AddableRole("parent_guardian")
  /\ roleRows' = AddRole("parent_guardian")
  /\ UNCHANGED <<member, roleDay>> /\ rosterUnchanged

RoleDayPasses ==
  /\ roleDay + 1 \in RoleDays
  /\ roleDay' = roleDay + 1
  /\ UNCHANGED <<roleRows, member>> /\ rosterUnchanged

(*-------------------------- the rider's lifecycle ------------------------*)
LifecycleClean(status, year, ended) ==
  /\ year => status = "graduated"
  /\ ended => status # "active"

\* Mutant: alumni stay on the roster.
RosterActive_Kept(status) == status # "inactive"
RosterActive(status) == status = "active"

LifecycleEdit(status, year, ended) ==
  /\ LifecycleClean(status, year, ended)
  /\ lifecycle' = [status |-> status, dated |-> year \/ ended]
  /\ riderActive' = RosterActive(status)
  /\ heldActive' = IF StaleRiders THEN heldActive ELSE riderActive'
  /\ UNCHANGED <<roleRows, member, roleDay>>

RiderRead ==
  /\ heldActive' = riderActive
  /\ UNCHANGED <<roleRows, member, roleDay, lifecycle, riderActive>>

\* Mutant: any rider that is not active is set back to inactive.
FollowActive_Plain(row, active) == [status |-> IF active THEN "active" ELSE "inactive", dated |-> row.dated /\ ~active]
\* ensure_rider_lifecycle: the row follows the instance that was saved.
FollowActive(row, active) ==
  IF active = (row.status = "active") THEN row
  ELSE [status |-> IF active THEN "active" ELSE "inactive", dated |-> row.dated /\ ~active]

\* A save of other fields of the rider (its login, its e-mail) still runs the signal.
RiderResave ==
  /\ lifecycle' = FollowActive(lifecycle, heldActive)
  /\ UNCHANGED <<roleRows, member, roleDay, riderActive, heldActive>>

FormerRiders(statuses) == lifecycle.status # "active" /\ (statuses = {} \/ lifecycle.status \in statuses)

RoleStep ==
  \/ \E roles \in SUBSET RoleSet : PersonRolesSave(roles) \/ \E joins \in BOOLEAN : PersonCreate(roles, joins)
  \/ \E a \in roleRows, start, end \in RoleDays \cup {NoDate}, active \in BOOLEAN : PersonRoleEdit(a, start, end, active)
  \/ \E role \in RoleSet \cap {"rider", "parent_guardian"} : EnsureActiveRole(role)
  \/ IeaMembershipOpen \/ IeaMembershipSave \/ GuardianRole \/ RoleDayPasses
LifecycleStep ==
  \/ \E status \in Statuses, year, ended \in BOOLEAN : LifecycleEdit(status, year, ended)
  \/ RiderRead \/ RiderResave

RolesTypeOK ==
  /\ roleRows \subseteq RoleRow
  /\ member \in [created : BOOLEAN, participant : BOOLEAN, season : BOOLEAN]
  /\ roleDay \in RoleDays
  /\ lifecycle \in [status : Statuses, dated : BOOLEAN]
  /\ riderActive \in BOOLEAN /\ heldActive \in BOOLEAN

\* A role never ends before it begins, whichever page, bridge or default wrote its dates.
RoleDatesAreOrdered == \A a \in roleRows : InOrder(a)

\* Unless a role was already doubled or the page stopped, Manage roles leaves exactly the chosen roles active
\* and each chosen one without an end.
ManagedRolesAreChosen ==
  [][\A selected \in SUBSET RoleSet :
       (/\ PersonRolesSave(selected) /\ ~ManagedTo(selected).stopped
        /\ \A role \in RoleSet : \A a, b \in ActiveRows(roleRows, role) : a = b)
       => /\ {a.role : a \in {a \in roleRows' : a.active}} = selected
          /\ \A a \in roleRows' : a.active => a.end = NoDate]_roleVars

\* lifecycle_models.py: the lifecycle and Rider.active say the same.
LifecycleMatchesActive == riderActive = (lifecycle.status = "active")

\* A rider saved for another reason, from an instance that is not stale, keeps its lifecycle: a graduate stays one,
\* with the dates.
GraduatesStay == [][(RiderResave /\ heldActive = riderActive) => lifecycle' = lifecycle]_roleVars
=============================================================================
