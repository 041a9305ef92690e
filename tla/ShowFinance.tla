---------------------------- MODULE ShowFinance -----------------------------
(***************************************************************************)
(* Show finance (view_modules/show_finance.py, finance_core.py,            *)
(* services/finance_budget_compat.py): show and season budget lines and    *)
(* the generic budgets that mirror them, the show fees billed to families, *)
(* and reimbursements, whose payment posts an expense and allocates it to  *)
(* the show it was for.  A review is a read of the request followed by a   *)
(* save of the whole row, with no lock between them.                       *)
(***************************************************************************)
EXTENDS FamilyAccount, Access

CONSTANTS FeePolicy,    \* the fee policy of the season for each show
          Riding,       \* the memberships entered in each show
          Logins, LoginOf,   \* the logins, and what the access helpers know of each
          MaxReviews    \* bound: reviews in flight at once, numbered from 1

FeePolicies == {"included", "package", "family", "manual"}
Statuses == {"draft", "submitted", "approved", "rejected", "paid"}
Request == [id : LedgerIds, by : Logins, season : Seasons, show : Shows \cup {None}, scope : Scopes \cup {"none"}, cat : Categories,
            amount : 1..MaxAmount, status : Statuses, link : 0..MaxTx]
SeasonLine == [season : Seasons, cat : Categories, kind : Kinds, amount : 0..MaxAmount]
ASSUME ShowFinanceAssumption ==
  /\ FeePolicy \in [Shows -> FeePolicies] /\ Riding \in [Shows -> SUBSET Memberships] /\ LoginOf \in [Logins -> Login]
  /\ MaxReviews \in Nat

VARIABLES seasonLines,   \* SeasonBudget rows, one per season, category and kind
          generic,       \* BudgetLine amounts: <<budget, category, kind>> -> amount, for the mirrored budgets
          requests,      \* ReimbursementRequest rows
          reviews        \* the reviews in flight: <<number, the row it has read>>

showFinanceVars == <<seasonLines, generic, requests, reviews>>
allFinanceVars  == <<familyVars, showFinanceVars>>

ShowFinanceInit ==
  /\ seasonLines = {}
  /\ generic = {}
  /\ requests = {}
  /\ reviews = {}

(*-------------------------------- budgets --------------------------------*)
\* update_or_create of the given lines; a line whose group is gone stays.
Mirrored(budget, lines) ==
  {g \in generic : g.budget # budget \/ \A l \in lines : l.cat # g.cat \/ l.kind # g.kind}
    \cup {[budget |-> budget, cat |-> l.cat, kind |-> l.kind, amount |-> l.amount] : l \in lines}
GroupTotal(rows, cat, kind) == Total({l \in rows : l.cat = cat /\ l.kind = kind})

\* Mutant: the last line of a group is mirrored instead of their total.
ShowGroups_Last(rows) ==
  {[cat |-> l.cat, kind |-> l.kind, amount |-> (CHOOSE last \in rows : last.cat = l.cat /\ last.kind = l.kind).amount] : l \in rows}

\* One generic line for the lines of a show with the same category and kind.
ShowGroups(rows) == {[cat |-> l.cat, kind |-> l.kind, amount |-> GroupTotal(rows, l.cat, l.kind)] : l \in rows}

\* sync_show_budget_to_generic, of the lines after the save.
SyncShowBudget(show, rows) == generic' = Mirrored(<<"show", show>>, ShowGroups({l \in rows : l.show = show}))
SyncSeasonBudget(s, rows)  == generic' = Mirrored(<<"season", s>>, {l \in rows : l.season = s})

\* show_budget_add and show_budget_edit: the new line, then the mirror.
ShowBudgetSave(l) ==
  /\ \A old \in budgetLines : old.id = l.id => old.show = l.show
  /\ l.scope = "hosting" => l.show \in Hosted
  /\ categories[l.cat].active /\ Allows(l.cat, l.kind)
  /\ budgetLines' = ById(budgetLines, l)
  /\ SyncShowBudget(l.show, budgetLines')
  /\ UNCHANGED <<categories, tx, allocations, accountVars, seasonLines, requests, reviews>>

\* finance_budget_create (old = {}) and finance_budget_edit.
FinanceBudgetSave(old, l) ==
  /\ old \subseteq seasonLines /\ Cardinality(old) <= 1 /\ \A o \in old : o.season = l.season
  /\ \A o \in seasonLines \ old : o.cat # l.cat \/ o.kind # l.kind \/ o.season # l.season
  /\ categories[l.cat].active \/ \E o \in old : o.cat = l.cat
  /\ Allows(l.cat, l.kind)
  /\ seasonLines' = (seasonLines \ old) \cup {l}
  /\ SyncSeasonBudget(l.season, seasonLines')
  /\ UNCHANGED <<familyVars, requests, reviews>>

\* _budget_report_rows: planned and actual of each line, and the season's totals.
BudgetRow(l) == [actual |-> Actual(l.cat, l.kind, l.season), variance |-> Variance(l.kind, l.amount, Actual(l.cat, l.kind, l.season))]
Planned(s, kind) == Total({l \in seasonLines : l.season = s /\ l.kind = kind})
SeasonActual(s, kind) == SumFunction([l \in {x \in seasonLines : x.season = s /\ x.kind = kind} |-> Actual(l.cat, l.kind, s)])
NetVariance(s) == SeasonActual(s, "income") - SeasonActual(s, "expense") - (Planned(s, "income") - Planned(s, "expense"))

(*------------------------------- show fees -------------------------------*)
\* Mutant: a waived fee is billed again.
HasFee_Open(m, show) == \E c \in ChargesOf(m) : c.show = show /\ c.type = "show_fee" /\ c.status = "open"

HasFee(m, show) == \E c \in ChargesOf(m) : c.show = show /\ c.type = "show_fee"

\* The riders of the show that are chosen and have no fee for it; refused when dues or a package cover it.
ShowFamilyChargesGenerate(show, chosen, amount) ==
  /\ FeePolicy[show] \notin {"included", "package"}
  /\ LET who == {m \in chosen \cap Riding[show] : ~HasFee(m, show)} IN
     \E ids \in FreeIds(Cardinality(who)) : \E number \in [who -> ids] :
       /\ \A m, n \in who : m # n => number[m] # number[n]
       /\ charges' = charges \cup {[id |-> number[m], member |-> m, type |-> "show_fee", amount |-> amount, due |-> 0,
                                    show |-> show, status |-> "open", rate |-> None] : m \in who}
  /\ UNCHANGED <<duesVars, credits, services, awards, claims, payments, ledgerVars, showFinanceVars>>
FamilyBilled(show)      == Total({c \in charges : c.show = show})
FamilyOutstanding(show) == SumFunction([c \in {x \in charges : x.show = show} |-> Balance(c)])

(*----------------------------- reimbursements ----------------------------*)
MayTakePart(u) == ~IsRiderAccount(LoginOf[u])
RequestClean(r) ==
  /\ r.show # None => SeasonOf[r.show] = r.season
  /\ (r.show = None) = (r.scope = "none")
  /\ r.scope = "hosting" => r.show \in Hosted
  /\ categories[r.cat].kind # "income"

\* reimbursement_create, as a draft or submitted.
ReimbursementCreate(r) ==
  /\ MayTakePart(r.by) /\ NewIn(requests, r) /\ r.status \in {"draft", "submitted"} /\ r.link = None
  /\ categories[r.cat].active /\ RequestClean(r)
  /\ requests' = requests \cup {r}
  /\ UNCHANGED <<familyVars, seasonLines, generic, reviews>>

\* reimbursement_edit, by the submitter: the form's fields of a draft, saved or submitted.
ReimbursementEdit(r, new) ==
  /\ r.status = "draft" /\ new.status \in {"draft", "submitted"}
  /\ new.id = r.id /\ new.by = r.by /\ new.link = r.link
  /\ categories[new.cat].active /\ RequestClean(new)
  /\ requests' = ById(requests, new)
  /\ UNCHANGED <<familyVars, seasonLines, generic, reviews>>

ReimbursementSubmit(r) ==
  /\ r.status = "draft" /\ RequestClean(r)
  /\ requests' = ById(requests, [r EXCEPT !.status = "submitted"])
  /\ UNCHANGED <<familyVars, seasonLines, generic, reviews>>

\* Mutant: a paid request may be rejected again.
NextStatuses_Reject(status) ==
  CASE status = "submitted" -> {"submitted", "approved", "rejected"}
    [] status = "approved"  -> {"approved", "rejected", "paid"}
    [] status = "rejected"  -> {"rejected", "submitted"}
    [] status = "paid"      -> {"paid", "rejected"}

\* The decisions open to a reviewer.
NextStatuses(status) ==
  CASE status = "submitted" -> {"submitted", "approved", "rejected"}
    [] status = "approved"  -> {"approved", "rejected", "paid"}
    [] status = "rejected"  -> {"rejected", "submitted"}
    [] status = "paid"      -> {"paid"}

\* reimbursement_review reads the request; any number of reviewers may have read one row.
ReviewRead(n, r) ==
  /\ r.status # "draft" /\ \A v \in reviews : v[1] # n
  /\ reviews' = reviews \cup {<<n, r>>}
  /\ UNCHANGED <<familyVars, seasonLines, generic, requests>>

\* The ledger row of a paid request; one that exists keeps its kind.
Expense(r) ==
  [Posting("expense", r.cat, r.season, r.amount, <<"reimbursement", r.id>>) EXCEPT
     !.show = r.show, !.kind = IF r.link = None THEN "expense" ELSE tx[r.link].kind]
OwnAllocation(r, i) == {a \in AllocatedOf(i) : a.origin = r.id}
\* The allocation of row i to the show of the request: the one it made before, or a new one.
Allocate(r, i) ==
  LET old == OwnAllocation(r, i)
      made == {[id |-> id, tx |-> i, show |-> r.show, scope |-> r.scope, line |-> None, amount |-> r.amount, origin |-> r.id] :
                 id \in {id \in LedgerIds : \A a \in allocations : a.id # id}}
      kept == {[a EXCEPT !.show = r.show, !.scope = r.scope, !.amount = r.amount] : a \in old}
      fits(a) == /\ tx'[i].season = SeasonOf[a.show]
                 /\ Total({b \in AllocatedOf(i) : b.id # a.id}) + a.amount <= tx'[i].amount
                 /\ \A l \in LineOf(a) : l.show = a.show /\ l.scope = a.scope /\ l.cat = tx'[i].cat /\ l.kind = tx'[i].kind
  IN IF r.show = None THEN UNCHANGED allocations
     ELSE \E a \in IF old = {} THEN made ELSE kept :
            IF fits(a) THEN allocations' = ById(allocations, a) ELSE UNCHANGED allocations  \* the row is saved and the page fails

\* reimbursement_review, from the row it read: post the expense when paid, then save the whole row.
ReviewSave(v, status) ==
  LET r == v[2] IN
  /\ v \in reviews /\ reviews' = reviews \ {v}
  /\ status \in NextStatuses(r.status) /\ RequestClean(r)
  /\ IF status = "paid"
     THEN /\ PostFor(r.link, Expense(r))
          /\ requests' = ById(requests, [r EXCEPT !.status = status, !.link = RowOf(r.link)])
          /\ Allocate(r, RowOf(r.link))
     ELSE /\ requests' = ById(requests, [r EXCEPT !.status = status])
          /\ UNCHANGED <<tx, allocations>>
  /\ UNCHANGED <<categories, budgetLines, accountVars, seasonLines, generic>>

\* reimbursement_list and reimbursement_receipt: whose requests a login sees.
FinanceSeasons(u) == IF IsRiderAccount(LoginOf[u]) THEN {}
                     ELSE IF IsAdmin(LoginOf[u]) THEN Seasons
                     ELSE IF "treasurer" \in LoginOf[u].committee THEN {CurrentSeason} ELSE {}
ListedFor(u) == {r \in requests : r.by = u \/ (r.season \in FinanceSeasons(u) /\ r.status # "draft")}
MayReceipt(u, r) == MayTakePart(u) /\ (r.by = u \/ r.season \in FinanceSeasons(u))

(*------------------------------ properties -------------------------------*)
ShowFinanceTypeOK ==
  /\ FamilyTypeOK
  /\ seasonLines \subseteq SeasonLine /\ requests \subseteq Request /\ reviews \subseteq (1..MaxReviews) \X Request
  /\ \A g \in generic : g.amount \in 0..(MaxAmount * Cardinality(LedgerIds))

\* Every group of budget lines of a show, and every season budget line, moved
\* and edited as they may be, has a generic line with their total.
BudgetsAreMirrored ==
  /\ \A l \in seasonLines : [budget |-> <<"season", l.season>>, cat |-> l.cat, kind |-> l.kind, amount |-> l.amount] \in generic
  /\ \A show \in Shows : \A g \in ShowGroups({l \in budgetLines : l.show = show}) :
       [budget |-> <<"show", show>>, cat |-> g.cat, kind |-> g.kind,
        amount |-> GroupTotal({l \in budgetLines : l.show = show}, g.cat, g.kind)] \in generic

\* An expense is posted for a request exactly when it is paid.
ExpenseIffPaid == \A r \in requests : (r.status = "paid") = (r.link # None)

\* A show bills a rider's family at most once for its fee unless a charge is typed in or edited by hand.
FeesAreGeneratedOnce ==
  [][\A m \in Memberships, show \in Shows :
       LET fees(set) == {c \in set : c.member = m /\ c.show = show /\ c.type = "show_fee"} IN
       fees(charges) # {} => Cardinality(fees(charges')) <= Cardinality(fees(charges))]_allFinanceVars

(*------------------------------- behaviour -------------------------------*)
ShowBudgetStep == \E l \in BudgetLine : ShowBudgetSave(l)
SeasonBudgetStep == \E l \in SeasonLine : \E old \in {{}} \cup {{o} : o \in seasonLines} : FinanceBudgetSave(old, l)
FeeStep == \E show \in Shows, chosen \in SUBSET Memberships, amount \in Amounts : ShowFamilyChargesGenerate(show, chosen, amount)
\* The steps of the reimbursements with the given forms.
ReimbursementStep(forms) ==
  \/ \E r \in forms : ReimbursementCreate(r)
  \/ \E r \in requests : \/ \E new \in forms : ReimbursementEdit(r, new)
                         \/ ReimbursementSubmit(r)
                         \/ \E n \in 1..MaxReviews : ReviewRead(n, r)
  \/ \E v \in reviews, status \in Statuses : ReviewSave(v, status)
=============================================================================
