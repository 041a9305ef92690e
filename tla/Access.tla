------------------------------- MODULE Access -------------------------------
(***************************************************************************)
(* Who may do what.  The permission helpers of view_modules/common.py,     *)
(* show_day_helpers.py and platform.py, as operators over the facts they   *)
(* read of a login: its profile role, its active committee assignments in  *)
(* the season, and whether it leads the show at hand.                      *)
(***************************************************************************)
EXTENDS FiniteSets

ProfileRoles   == {"admin", "coach", "parent", "rider", "none"}
CommitteeRoles == {"upper_parent", "futures_parent", "treasurer", "points_secretary"}
TeamLevels     == {"futures", "upper"}

\* A login as the helpers see it for one season and one show ("none": no profile).
Login == [super     : BOOLEAN,
          role      : ProfileRoles,
          committee : SUBSET CommitteeRoles,
          leads     : BOOLEAN]

CanManage(u)      == u.super \/ u.role \in {"admin", "coach"}
IsAdmin(u)        == u.super \/ u.role = "admin"
IsRiderAccount(u) == u.role = "rider"
CanManagePoints(u) == CanManage(u) \/ "points_secretary" \in u.committee
CanFinance(u) ==
  /\ ~IsRiderAccount(u)
  /\ IsAdmin(u) \/ "treasurer" \in u.committee
CanCoordinateTeam(u, level) ==
  \/ CanManage(u)
  \/ level = "futures" /\ "futures_parent" \in u.committee
  \/ level = "upper" /\ "upper_parent" \in u.committee
CanRunShow(u)     == CanManage(u) \/ u.leads   \* the class, ring and spectator controls

\* The levels a login holds as a team parent.
ParentLevels(u) == {level \in TeamLevels : \/ level = "futures" /\ "futures_parent" \in u.committee
                                           \/ level = "upper" /\ "upper_parent" \in u.committee}

PlanningLevels(u) ==
  IF IsRiderAccount(u) THEN {}
  ELSE IF CanRunShow(u) THEN {"all"} \cup TeamLevels
  ELSE ParentLevels(u)

ScheduleEditLevels(u) ==
  IF IsRiderAccount(u) THEN {}
  ELSE IF CanRunShow(u) \/ "points_secretary" \in u.committee THEN {"both"} \cup TeamLevels
  ELSE IF ParentLevels(u) = {} THEN {} ELSE {"both"} \cup ParentLevels(u)

UpdateAudiences(u) ==
  IF IsRiderAccount(u) THEN {}
  ELSE IF CanRunShow(u) THEN {"all"} \cup TeamLevels
  ELSE ParentLevels(u)

ShowDayOperational(u) ==
  /\ ~IsRiderAccount(u)
  /\ CanManagePoints(u) \/ u.leads \/ ParentLevels(u) # {}

\* The levels whose riders the show-day board lists ("everyone" for the whole team).
OperationalLevels(u) ==
  IF IsRiderAccount(u) THEN {}
  ELSE IF CanManagePoints(u) \/ u.leads THEN {"everyone"}
  ELSE ParentLevels(u)
=============================================================================
