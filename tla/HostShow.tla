------------------------------ MODULE HostShow ------------------------------
(***************************************************************************)
(* Hosting a show: its managers, the host plan with personnel, readiness   *)
(* checkpoints and duties, the family information page, and the closing    *)
(* and reopening of the show (host_show_views.py, host_show_ops_views.py,  *)
(* host_show_family_views.py, host_show_models.py).  It shares the show's  *)
(* status with LiveShow.  A request is one step.                           *)
(***************************************************************************)
EXTENDS LiveShow, Access

CONSTANTS Hosts,          \* user accounts of the team
          HostFacts,      \* account -> what Access reads of it
          StaffRoles,     \* personnel roles of the host plan
          Sections,       \* sections of the family information page
          MaxCheckpoints  \* bound on checkpoints, and on duties

ASSUME HostShowAssumption ==
  /\ Hosts \subseteq DOMAIN HostFacts
  /\ "nobody" \notin Hosts

VARIABLES hosted,         \* Show.financial_role is hosting_attending
          managers,       \* accounts with an active ShowManagerAssignment
          hostPlan,       \* HostShowOperations and what hangs on it, or NoPlan
          updatedBy       \* who made the last change (HostShowOperations.updated_by)

hostVars == <<hosted, managers, hostPlan, updatedBy>>

NoPlan == [exists |-> FALSE]
CheckpointStatuses == {"open", "complete", "waived"}
DutyStatuses == {"planned", "checked_in", "active", "handed_off", "complete"}
Checkpoint == [status : CheckpointStatuses, stamped : BOOLEAN]
Duty       == [status : DutyStatuses, relieved : Hosts \cup {"nobody"}]
FamilyPage == [published : BOOLEAN, sections : SUBSET Sections]
HostPlan   == [exists : {TRUE}, staff : SUBSET StaffRoles, checkpoints : SUBSET ((1..MaxCheckpoints) \X Checkpoint),
               duties : SUBSET ((1..MaxCheckpoints) \X Duty), family : FamilyPage]
EmptyPlan  == [exists |-> TRUE, staff |-> {}, checkpoints |-> {}, duties |-> {},
               family |-> [published |-> FALSE, sections |-> {}]]

HostShowClosed == showStatus \in {"complete", "cancelled"}
\* Mutant: managers keep their controls when the show closes.
ManagesHost_Always(u) == CanManage(HostFacts[u]) \/ u \in managers

ManagesHost(u) == CanManage(HostFacts[u]) \/ (u \in managers /\ ~HostShowClosed)
SeesHost(u)    == CanManage(HostFacts[u]) \/ u \in managers \/ HostFacts[u].leads
\* Open hosted shows of a login's show-manager board.
OnBoard(u)     == hosted /\ ~HostShowClosed /\ (CanManage(HostFacts[u]) \/ u \in managers)

Plan == IF hostPlan.exists THEN hostPlan ELSE EmptyPlan       \* get_or_create

\* What the host plan still lacks (its texts are left out).
ReadinessMissing == (StaffRoles \ Plan.staff) \cup (IF managers = {} THEN {"manager"} ELSE {})

HostShowInit ==
  /\ hosted = TRUE
  /\ managers = {}
  /\ hostPlan = NoPlan
  /\ updatedBy = "nobody"

\* The common part of the requests that edit the host plan.
EditPlan(u, new) ==
  /\ hosted
  /\ ManagesHost(u)
  /\ hostPlan' = new
  /\ updatedBy' = u
  /\ UNCHANGED <<hosted, managers, liveShowVars>>

\* Opening the command center creates the plan; so does the plan form.
HostPlanOpen(u) == EditPlan(u, Plan)

HostStaffAdd(u, role)    == EditPlan(u, [Plan EXCEPT !.staff = @ \cup {role}])
HostStaffRemove(u, role) == hostPlan.exists /\ EditPlan(u, [hostPlan EXCEPT !.staff = @ \ {role}])

IsComplete(status) == status = "complete"

HostCheckpointAdd(u, k, status) ==
  /\ \A c \in Plan.checkpoints : c[1] # k                                        \* a new row
  /\ EditPlan(u, [Plan EXCEPT !.checkpoints = @ \cup {<<k, [status |-> status, stamped |-> IsComplete(status)]>>}])

\* Mutant: the time of completion is never dropped.
HostCheckpointEdit_Stamped(u, c, status) ==
  EditPlan(u, [hostPlan EXCEPT !.checkpoints =
                 (@ \ {c}) \cup {<<c[1], [status |-> status, stamped |-> c[2].stamped \/ IsComplete(status)]>>}])

\* The time of completion is kept while the checkpoint stays complete, and dropped otherwise.
HostCheckpointEdit(u, c, status) ==
  EditPlan(u, [hostPlan EXCEPT !.checkpoints =
                 (@ \ {c}) \cup {<<c[1], [status |-> status, stamped |-> IsComplete(status)]>>}])

HostCheckpointComplete(u, c) ==
  EditPlan(u, [hostPlan EXCEPT !.checkpoints = (@ \ {c}) \cup {<<c[1], [status |-> "complete", stamped |-> TRUE]>>}])

HostDutyAdd(u, k, status) ==
  /\ \A d \in Plan.duties : d[1] # k                                             \* a new row
  /\ EditPlan(u, [Plan EXCEPT !.duties = @ \cup {<<k, [status |-> status, relieved |-> "nobody"]>>}])

HostDutyStatus(u, d, status) ==
  EditPlan(u, [hostPlan EXCEPT !.duties =
     (@ \ {d}) \cup {<<d[1], [status |-> status, relieved |-> IF status = "handed_off" THEN u ELSE d[2].relieved]>>}])

\* The duty form sets the status and the relief without looking at each other.
HostDutyEdit(u, d, status, relieved) ==
  EditPlan(u, [hostPlan EXCEPT !.duties = (@ \ {d}) \cup {<<d[1], [status |-> status, relieved |-> relieved]>>}])

HostFamilyPublicationEdit(u, page) == EditPlan(u, [Plan EXCEPT !.family = page])

(*------------------- managers, closing and reopening ---------------------*)

ManagerAdd(u, m) ==
  /\ hosted /\ CanManage(HostFacts[u])
  /\ m \notin managers
  /\ managers' = managers \cup {m}
  /\ updatedBy' = u
  /\ UNCHANGED <<hosted, hostPlan, liveShowVars>>

ManagerRemove(u, m) ==
  /\ hosted /\ CanManage(HostFacts[u])
  /\ managers' = managers \ {m}
  /\ updatedBy' = u
  /\ UNCHANGED <<hosted, hostPlan, liveShowVars>>

\* Neither request looks at the season.
SetStatus(u, status) ==
  /\ hosted /\ CanManage(HostFacts[u])
  /\ showStatus' = status
  /\ updatedBy' = u
  /\ UNCHANGED <<hosted, managers, hostPlan, seasonClosed, classes, publication>>

HostShowMarkComplete(u) == showStatus # "cancelled" /\ SetStatus(u, "complete")
HostShowReopen(u)       == HostShowClosed /\ SetStatus(u, "entered")

\* The show form changes the role and the status; assignments and plan stay.
HostRoleEdit(u, role, status) ==
  /\ CanManage(HostFacts[u])
  /\ ~seasonClosed
  /\ hosted' = role
  /\ showStatus' = status
  /\ updatedBy' = u
  /\ UNCHANGED <<managers, hostPlan, seasonClosed, classes, publication>>

HostShowNext ==
  \/ \E u \in Hosts :
       \/ HostPlanOpen(u)
       \/ \E role \in StaffRoles : HostStaffAdd(u, role) \/ HostStaffRemove(u, role)
       \/ \E k \in 1..MaxCheckpoints, status \in CheckpointStatuses : HostCheckpointAdd(u, k, status)
       \/ hostPlan.exists /\ \E c \in hostPlan.checkpoints, status \in CheckpointStatuses : HostCheckpointEdit(u, c, status)
       \/ hostPlan.exists /\ \E c \in hostPlan.checkpoints : HostCheckpointComplete(u, c)
       \/ \E k \in 1..MaxCheckpoints : HostDutyAdd(u, k, "planned")
       \/ hostPlan.exists /\ \E d \in hostPlan.duties, status \in {"active", "handed_off"} : HostDutyStatus(u, d, status)
       \/ hostPlan.exists /\ \E d \in hostPlan.duties, r \in {u, "nobody"} : HostDutyEdit(u, d, "planned", r)
       \/ \E p \in BOOLEAN : HostFamilyPublicationEdit(u, [published |-> p, sections |-> Sections])
       \/ \E m \in Hosts : ManagerAdd(u, m) \/ ManagerRemove(u, m)
       \/ HostShowMarkComplete(u)
       \/ HostShowReopen(u)
       \/ \E role \in BOOLEAN, status \in FormStatuses : HostRoleEdit(u, role, status)
  \/ (\E closed \in BOOLEAN : SeasonClosing(closed)) /\ UNCHANGED hostVars

\* What a family sees of the host plan.
FamilyInformation == IF hosted /\ hostPlan.exists /\ hostPlan.family.published THEN hostPlan.family.sections ELSE {}

(*------------------------------ properties -------------------------------*)

HostShowTypeOK ==
  /\ hosted \in BOOLEAN
  /\ managers \subseteq Hosts
  /\ hostPlan = NoPlan \/ hostPlan \in HostPlan
  /\ updatedBy \in Hosts \cup {"nobody"}

\* A closed hosted show is history: while it stays complete or cancelled only a coach or an
\* administrator changes its plan, whoever was its manager and whatever request was open.
ClosedHostShowIsReadOnly ==
  [][(HostShowClosed /\ HostShowClosed' /\ hostPlan' # hostPlan) => CanManage(HostFacts[updatedBy'])]_<<liveShowVars, hostVars>>

\* A checkpoint carries a time of completion exactly while it is complete, through adding,
\* editing, waiving, reopening and the one-click completion.
CheckpointsAreStamped ==
  hostPlan.exists => \A c \in hostPlan.checkpoints : c[2].stamped <=> c[2].status = "complete"

=============================================================================
