---------------------------- MODULE BillingRuns -----------------------------
(***************************************************************************)
(* Charges and credits generated under a key (services/finance_billing.py, *)
(* finance_earned_credits.py), by requests that overlap.  A run bills a    *)
(* sequence of keys in one transaction at READ COMMITTED: for each key it  *)
(* looks for a row, validates, and inserts; the unique index makes an      *)
(* insert wait for another run's uncommitted row.  What a key pays for and *)
(* how much is left out.                                                   *)
(***************************************************************************)
EXTENDS Naturals, Sequences, FiniteSets, SequencesExt

CONSTANTS Rules,      \* monthly billing rules, numbered in the order of their queryset
          Months, Riders, Shifts,
          MaxRuns     \* bound on the requests

ASSUME BillingAssumption ==
  /\ Rules \subseteq Nat /\ IsFiniteSet(Rules) /\ Riders \subseteq Nat /\ IsFiniteSet(Riders)
  /\ MaxRuns \in Nat

\* A charge is keyed by rule and month, or by lesson and rider (one lesson, one rule); a credit by shift.
BillingKeys == ({"monthly"} \X (Rules \X Months)) \cup ({"lesson"} \X Riders) \cup ({"work"} \X Shifts)
Run  == [keys : Seq(BillingKeys), next : Nat, own : SUBSET BillingKeys,
         at : {"look", "clean", "insert", "done", "refused", "lost"}]

VARIABLES rules,      \* the monthly rules that exist
          billed,     \* committed rows: [key, by], by the run that wrote it
          runs        \* the requests so far, running or ended
billingVars == <<rules, billed, runs>>

BillingInit == rules \in SUBSET Rules /\ billed = {} /\ runs = <<>>

Open(i)      == runs[i].at \in {"look", "clean", "insert"}
Running(i)   == Open(i) /\ runs[i].next <= Len(runs[i].keys)
KeyOf(i)     == runs[i].keys[runs[i].next]
Committed(k) == \E b \in billed : b.key = k
\* Another run has inserted the key and not ended: the index makes this one wait for it.
Holds(j, k)  == Open(j) /\ k \in runs[j].own
WaitsFor(i, j) == i # j /\ Running(i) /\ runs[i].at = "insert" /\ Holds(j, KeyOf(i))

Start(keys) ==
  /\ Len(runs) < MaxRuns
  /\ runs' = Append(runs, [keys |-> keys, next |-> 1, own |-> {}, at |-> "look"])
  /\ UNCHANGED <<rules, billed>>

\* create_billing_rule_for_user: it may come anywhere in the order.
CreateBillingRule(r) == r \notin rules /\ rules' = rules \cup {r} /\ UNCHANGED <<billed, runs>>

\* The numbers of a set in the order of the rows, as a sequence.
InOrder(numbers) == CHOOSE f \in [1..Cardinality(numbers) -> numbers] : \A p, q \in DOMAIN f : p < q => f[p] < f[q]

\* Mutant: the rules are billed in no particular order.
MonthlyRules_Unordered == IF Len(runs) % 2 = 0 THEN InOrder(rules) ELSE Reverse(InOrder(rules))

\* generate_monthly_charges: every active monthly rule, in the order of the model.
MonthlyRules == InOrder(rules)

GenerateMonthlyCharges(month) == Start([n \in 1..Len(MonthlyRules) |-> <<"monthly", <<MonthlyRules[n], month>>>>])

\* bill_lesson_occurrence: the riders whose attendance is billable, in the order of the rows.
BillLessonOccurrence(present) ==
  LET order == InOrder(present) IN Start([n \in 1..Len(order) |-> <<"lesson", order[n]>>])

\* generate_rule_credit for an approved shift.
GenerateRuleCredit(shift) == Start(<< <<"work", shift>> >>)

Advance(i, at, own, next) == runs' = [runs EXCEPT ![i].at = at, ![i].own = own, ![i].next = next]
Exists(i) == Advance(i, "look", runs[i].own, runs[i].next + 1)
Rollback(i, at) == Advance(i, at, {}, runs[i].next)

\* `existing`: what is committed, or written by this run.
Look(i) ==
  /\ Running(i) /\ runs[i].at = "look"
  /\ IF Committed(KeyOf(i)) \/ KeyOf(i) \in runs[i].own THEN Exists(i)
     ELSE Advance(i, "clean", runs[i].own, runs[i].next)
  /\ UNCHANGED <<rules, billed>>

\* Mutant: the rows of a refused run were committed one by one.
Clean_Kept(i) ==
  /\ Running(i) /\ runs[i].at = "clean"
  /\ IF Committed(KeyOf(i)) THEN /\ Rollback(i, "refused")
                               /\ billed' = billed \cup {[key |-> k, by |-> i] : k \in runs[i].own}
     ELSE Advance(i, "insert", runs[i].own, runs[i].next) /\ UNCHANGED billed
  /\ UNCHANGED rules

\* full_clean checks the constraint too: a row committed meanwhile refuses the whole run.
Clean(i) ==
  /\ Running(i) /\ runs[i].at = "clean"
  /\ IF Committed(KeyOf(i)) THEN Rollback(i, "refused") ELSE Advance(i, "insert", runs[i].own, runs[i].next)
  /\ UNCHANGED <<rules, billed>>

\* Mutant: a key another run has inserted but not committed counts as billed.
Insert_NoWait(i) ==
  /\ Running(i) /\ runs[i].at = "insert"
  /\ IF Committed(KeyOf(i)) \/ \E j \in DOMAIN runs : WaitsFor(i, j) THEN Exists(i)
     ELSE Advance(i, "look", runs[i].own \cup {KeyOf(i)}, runs[i].next + 1)
  /\ UNCHANGED <<rules, billed>>

\* Mutant: nothing in the database is unique.
Insert_NotUnique(i) ==
  /\ Running(i) /\ runs[i].at = "insert"
  /\ Advance(i, "look", runs[i].own \cup {KeyOf(i)}, runs[i].next + 1)
  /\ UNCHANGED <<rules, billed>>

\* The savepoint around the insert: on a conflict the row of the other run is the result.
Insert(i) ==
  /\ Running(i) /\ runs[i].at = "insert"
  /\ ~\E j \in DOMAIN runs : WaitsFor(i, j)
  /\ IF Committed(KeyOf(i)) THEN Exists(i)
     ELSE Advance(i, "look", runs[i].own \cup {KeyOf(i)}, runs[i].next + 1)
  /\ UNCHANGED <<rules, billed>>

Commit(i) ==
  /\ runs[i].at = "look" /\ runs[i].next > Len(runs[i].keys)
  /\ billed' = billed \cup {[key |-> k, by |-> i] : k \in runs[i].own}
  /\ Advance(i, "done", {}, runs[i].next)
  /\ UNCHANGED rules

\* The worker dies and the database rolls its transaction back.
Die(i) ==
  /\ Open(i)
  /\ Rollback(i, "lost")
  /\ UNCHANGED <<rules, billed>>

(*------------------------------ properties -------------------------------*)
BillingTypeOK ==
  /\ rules \subseteq Rules
  /\ \A b \in billed : b.key \in BillingKeys /\ b.by \in DOMAIN runs
  /\ Len(runs) <= MaxRuns /\ \A i \in DOMAIN runs : runs[i] \in Run

\* A month, a lesson or a shift that is billed by requests that overlap, are
\* repeated or die is charged, or credited, once.
ChargedOnce == \A b, c \in billed : b.key = c.key => b = c

\* A run that reports success has left every one of its keys billed, also
\* those it found with another run that had not committed yet.
DoneMeansBilled == \A i \in DOMAIN runs : runs[i].at = "done" => \A k \in ToSet(runs[i].keys) : Committed(k)

\* A run that was refused or died has billed nobody.
FailedRunsBillNobody == \A b \in billed : runs[b.by].at = "done"

\* Batches with the same keys wait for each other's rows, but never in a
\* circle: in any group of runs one waits for none of the others.
BatchesNeverDeadlock ==
  \A group \in SUBSET DOMAIN runs : group # {} => \E i \in group : \A j \in group : ~WaitsFor(i, j)

(*------------------------------- behaviour -------------------------------*)
BillingStep ==
  \/ \E r \in Rules : CreateBillingRule(r)
  \/ \E m \in Months : GenerateMonthlyCharges(m)
  \/ \E present \in SUBSET Riders : BillLessonOccurrence(present)
  \/ \E s \in Shifts : GenerateRuleCredit(s)
  \/ \E i \in DOMAIN runs : Look(i) \/ Clean(i) \/ Insert(i) \/ Commit(i) \/ Die(i)
=============================================================================
