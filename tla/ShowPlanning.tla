---------------------------- MODULE ShowPlanning ----------------------------
(***************************************************************************)
(* The plan of a show: checklist, volunteer and supply items that managers,*)
(* show leads and team parents keep and families claim (show_planning.py). *)
(* A request is one step; the season of the show is open.                  *)
(***************************************************************************)
EXTENDS Naturals, Sequences, SequencesExt, Access

CONSTANTS Planners,       \* user accounts
          PlannerFacts,   \* account -> what Access reads of it
          FamilyLevels,   \* account -> team levels of the riders it can see
          Defaults,       \* sequence of the starter items of a show of this kind
          MaxItems        \* items are added by hand to plans shorter than this

ASSUME ShowPlanningAssumption ==
  /\ PlannerFacts \in [Planners -> Login]
  /\ "nobody" \notin Planners
  /\ Defaults \in Seq(ToSet(Defaults)) /\ \A j, k \in DOMAIN Defaults : Defaults[j] = Defaults[k] => j = k
  \* "other" stands for the titles that are no starter item's
  /\ \A d \in ToSet(Defaults) : d.name # "other"

VARIABLES items,          \* ShowPlanningItem rows in the order they were made
          planner         \* who made the last request (AuditEvent.actor)

showPlanningVars == <<items, planner>>

ItemTypes  == {"checklist", "volunteer", "supply"}
ItemLevels == {"all", "futures", "upper"}
Owners     == Planners \cup {"nobody"}
PlanningItem == [title : ToSet(Defaults) \cup {[type |-> t, name |-> "other"] : t \in ItemTypes}, level : ItemLevels,
                 assigned : Owners, claimed : Owners, completed : BOOLEAN, family : BOOLEAN]

ManagesItem(u, item) == item.level \in PlanningLevels(PlannerFacts[u])

ItemVisible(u, item) ==
  \/ CanRunShow(PlannerFacts[u])
  \/ /\ item.family
     /\ item.level = "all" \/ item.level \in ParentLevels(PlannerFacts[u]) \cup FamilyLevels[u]

\* Mutant: claims do not count.
Owner_Assigned(item) == item.assigned

Owner(item) == IF item.claimed # "nobody" THEN item.claimed ELSE item.assigned

\* The lists of the planning page and of the show-day pages.
OpenVolunteers(u) == {i \in DOMAIN items : /\ items[i].title.type = "volunteer" /\ ItemVisible(u, items[i])
                                            /\ Owner(items[i]) = "nobody" /\ ~items[i].completed}
MyAssignments(u)  == {i \in DOMAIN items : /\ ItemVisible(u, items[i]) /\ ~items[i].completed
                                            /\ u \in {items[i].claimed, items[i].assigned}}
\* The board reads the owner instead.
BoardAssignments(u) == {i \in MyAssignments(u) : Owner(items[i]) = u}

Titles == {items[i].title : i \in DOMAIN items}

\* Mutant: the starter items are added every time.
SeedDefaults_Again(u) ==
  /\ CanRunShow(PlannerFacts[u])
  /\ Len(items) < 3
  /\ items' = items \o [k \in DOMAIN Defaults |->
                 [title |-> Defaults[k], level |-> "all", assigned |-> "nobody", claimed |-> "nobody",
                  completed |-> FALSE, family |-> TRUE]]
  /\ planner' = u

\* The starter items whose titles are not in the plan yet are added, in their order, for everyone.
SeedDefaults(u) ==
  /\ CanRunShow(PlannerFacts[u])
  /\ \E missing \in SetToSeqs({k \in DOMAIN Defaults : Defaults[k] \notin Titles}) :
       /\ \A j, k \in DOMAIN missing : j < k => missing[j] < missing[k]
       /\ items' = items \o [k \in DOMAIN missing |->
                     [title |-> Defaults[missing[k]], level |-> "all", assigned |-> "nobody",
                      claimed |-> "nobody", completed |-> FALSE, family |-> TRUE]]
  /\ planner' = u

ItemAdd(u, title, level, assigned, family) ==
  /\ Len(items) < MaxItems                                     \* bound
  /\ level \in PlanningLevels(PlannerFacts[u])
  /\ items' = Append(items, [title |-> title, level |-> level, assigned |-> assigned, claimed |-> "nobody",
                             completed |-> FALSE, family |-> family])
  /\ planner' = u

\* Mutant: any item can be edited.
ItemEdit_AnyItem(u, i, level, assigned, family) ==
  /\ level \in PlanningLevels(PlannerFacts[u])
  /\ items' = [items EXCEPT ![i].level = level, ![i].assigned = assigned, ![i].family = family]
  /\ planner' = u

\* The form edits everything but the claim.
ItemEdit(u, i, level, assigned, family) ==
  /\ ManagesItem(u, items[i])
  /\ level \in PlanningLevels(PlannerFacts[u])
  /\ items' = [items EXCEPT ![i].level = level, ![i].assigned = assigned, ![i].family = family]
  /\ planner' = u

\* Mutant: whoever asks takes the claim over.
ItemClaim_Taken(u, i, clear) ==
  /\ items[i].family /\ ItemVisible(u, items[i])
  /\ items' = [items EXCEPT ![i].claimed = IF clear THEN "nobody" ELSE u]
  /\ planner' = u

ItemClaim(u, i, clear) ==
  LET item    == items[i]
      manages == ManagesItem(u, item)
  IN /\ item.family
     /\ ItemVisible(u, item)
     /\ item.claimed \notin {"nobody", u} => manages
     /\ items' = [items EXCEPT ![i].claimed =
                    IF clear /\ (@ = u \/ manages) THEN "nobody" ELSE IF @ = "nobody" THEN u ELSE @]
     /\ planner' = u

ItemComplete(u, i) ==
  /\ ManagesItem(u, items[i]) \/ u \in {items[i].claimed, items[i].assigned}
  /\ items' = [items EXCEPT ![i].completed = ~@]
  /\ planner' = u

ShowPlanningInit == items = <<>> /\ planner = "nobody"

ShowPlanningNext ==
  \E u \in Planners :
    \/ SeedDefaults(u)
    \/ \E level \in ItemLevels, a \in {"nobody", u}, f \in BOOLEAN :
         ItemAdd(u, [type |-> "volunteer", name |-> "other"], level, a, f)
    \/ \E i \in DOMAIN items, level \in ItemLevels, a \in {"nobody", u}, f \in BOOLEAN : ItemEdit(u, i, level, a, f)
    \/ \E i \in DOMAIN items, clear \in BOOLEAN : ItemClaim(u, i, clear)
    \/ \E i \in DOMAIN items : ItemComplete(u, i)

(*------------------------------ properties -------------------------------*)

ShowPlanningTypeOK ==
  /\ items \in Seq(PlanningItem)
  /\ planner \in Owners

\* A claim is honoured: whoever volunteered keeps the item until they release it themselves or
\* someone who manages items of its level clears it; another family never takes it over.
ClaimsAreHonoured ==
  [][\A i \in DOMAIN items : (items[i].claimed # "nobody" /\ items'[i].claimed # items[i].claimed)
       => /\ items'[i].claimed = "nobody"
          /\ planner' = items[i].claimed \/ ManagesItem(planner', items[i])]_showPlanningVars

\* The starter plan is duplicate-safe: however often and by whomever it is generated, each
\* starter item is in the plan at most once, with whatever was added and edited in between.
StarterItemsOnce ==
  \A i, j \in DOMAIN items : (items[i].title = items[j].title /\ items[i].title \in ToSet(Defaults)) => i = j

\* Team parents stay within their squad: a login that manages neither all levels nor an item's
\* old level neither moves it, nor moves an item to a level that is not theirs.
PlannersKeepToTheirLevel ==
  [][\A i \in DOMAIN items : (items'[i].level # items[i].level)
       => {items[i].level, items'[i].level} \subseteq PlanningLevels(PlannerFacts[planner'])]_showPlanningVars

\* An item is never both open for volunteers and on somebody's own list.
OpenItemsHaveNoOwner ==
  \A u, v \in Planners : OpenVolunteers(u) \cap MyAssignments(v) = {}
=============================================================================
