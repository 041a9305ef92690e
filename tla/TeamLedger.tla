----------------------------- MODULE TeamLedger -----------------------------
(***************************************************************************)
(* The team's ledger and what its rows are spent on                        *)
(* (view_modules/finance_core.py, show_finance.py, models.py): categories, *)
(* transactions, their void and reversal, and the shows a transaction is   *)
(* allocated to.  One team with one account; amounts are small numbers of  *)
(* cents.  A season, show, category or budget line named by 0 is no one.   *)
(***************************************************************************)
EXTENDS Integers, Sequences, FiniteSets, FiniteSetsExt

CONSTANTS Seasons, Shows,
          SeasonOf,      \* the season of a show
          Hosted,        \* the shows the team hosts
          Categories, Amounts, MaxAmount,
          LedgerIds,     \* ids of the rows of each table
          MaxTx          \* bound on the transactions

ASSUME TeamLedgerAssumption ==
  /\ SeasonOf \in [Shows -> Seasons] /\ Hosted \subseteq Shows
  /\ MaxAmount \in Nat /\ MaxTx \in Nat /\ IsFiniteSet(LedgerIds) /\ LedgerIds # {}
  /\ Amounts \subseteq 1..MaxAmount /\ 0 \notin Seasons \cup Shows \cup Categories \cup LedgerIds

None   == 0
Kinds  == {"income", "expense"}
Scopes == {"participation", "hosting"}
\* Where a transaction comes from: typed in, the reversal of another, or written for a row of another table.
Origins == ({"hand", "reversal"} \X {0}) \cup ({"payment", "claim", "gift", "reimbursement", "payable"} \X LedgerIds)
Category == [kind : Kinds \cup {"both"}, active : BOOLEAN]
Transaction == [kind : Kinds, cat : Categories, season : Seasons \cup {None}, show : Shows \cup {None},
                amount : 1..MaxAmount, status : {"posted", "void"}, origin : Origins]
Allocation == [id : LedgerIds, tx : 1..MaxTx, show : Shows, scope : Scopes, line : LedgerIds \cup {None},
               amount : 1..MaxAmount, origin : {0} \cup LedgerIds]
BudgetLine == [id : LedgerIds, show : Shows, scope : Scopes, cat : Categories, kind : Kinds, amount : 0..MaxAmount]

VARIABLES categories,   \* FinancialCategory rows
          tx,           \* FinancialTransaction rows, in the order they were posted
          allocations,  \* ShowTransactionAllocation rows
          budgetLines   \* ShowBudgetLine rows

ledgerVars == <<categories, tx, allocations, budgetLines>>

ById(rows, a)   == {b \in rows : b.id # a.id} \cup {a}
NewIn(rows, a)  == \A b \in rows : b.id # a.id
Total(rows)     == SumFunction([r \in rows |-> r.amount])
Larger(a, b)    == IF a > b THEN a ELSE b

LedgerInit ==
  /\ categories = [c \in Categories |-> [kind |-> "both", active |-> TRUE]]
  /\ tx = <<>>
  /\ allocations = {}
  /\ budgetLines = {}

(*----------------------------- transactions ------------------------------*)
Allows(c, kind)  == categories[c].kind \in {kind, "both"}
AllocatedOf(i)   == {a \in allocations : a.tx = i}
LineOf(a)        == {l \in budgetLines : l.id = a.line}

\* FinancialTransaction.clean: what row i may look like, given the allocations that name it.
TxClean(i, t) ==
  /\ Allows(t.cat, t.kind)
  /\ Total(AllocatedOf(i)) <= t.amount
  /\ \A a \in AllocatedOf(i) :
       /\ t.season # None => SeasonOf[a.show] = t.season
       /\ \A l \in LineOf(a) : l.cat = t.cat /\ l.kind = t.kind

Posting(kind, cat, season, amount, origin) ==
  [kind |-> kind, cat |-> cat, season |-> season, show |-> None, amount |-> amount, status |-> "posted", origin |-> origin]

\* The ledger row of another row: `link` is its number, or None when there is none yet.
RowOf(link)      == IF link = None THEN Len(tx) + 1 ELSE link
Synced(link, t)  == IF link = None THEN Append(tx, t)
                    ELSE [tx EXCEPT ![link].kind = t.kind, ![link].cat = t.cat, ![link].amount = t.amount, ![link].show = t.show]
\* full_clean and save of the ledger row of another row: an existing row keeps its status and season.
PostFor(link, t) ==
  /\ link = None => Len(tx) < MaxTx
  /\ TxClean(RowOf(link), Synced(link, t)[RowOf(link)])
  /\ tx' = Synced(link, t)
VoidRow(link)    == IF link = None THEN tx ELSE [tx EXCEPT ![link].status = "void"]

\* finance_category_create and finance_category_edit: the kind may change while rows use it.
FinanceCategorySave(c, category) ==
  /\ categories' = [categories EXCEPT ![c] = category]
  /\ UNCHANGED <<tx, allocations, budgetLines>>

FinanceTransactionCreate(kind, cat, season, amount) ==
  /\ Len(tx) < MaxTx /\ categories[cat].active
  /\ Allows(cat, kind)
  /\ tx' = Append(tx, Posting(kind, cat, season, amount, <<"hand", 0>>))
  /\ UNCHANGED <<categories, allocations, budgetLines>>

\* Mutant: the row of a contribution may be changed in the ledger.
Editable_Gift(i) == tx[i].status = "posted"

\* A void row is kept as it is, and the row of a contribution is changed through the contribution.
Editable(i) == tx[i].status = "posted" /\ tx[i].origin[1] # "gift"

\* The season may be left empty; the show of the row is not on the form.
FinanceTransactionEdit(i, kind, cat, season, amount) ==
  /\ Editable(i)
  /\ categories[cat].active \/ cat = tx[i].cat
  /\ LET t == [tx[i] EXCEPT !.kind = kind, !.cat = cat, !.season = season, !.amount = amount]
     IN TxClean(i, t) /\ tx' = [tx EXCEPT ![i] = t]
  /\ UNCHANGED <<categories, allocations, budgetLines>>

Opposite(kind) == IF kind = "income" THEN "expense" ELSE "income"

\* Void, and on request post the opposite row, which is not validated.
FinanceTransactionDelete(i, reversed) ==
  /\ Editable(i) /\ (reversed => Len(tx) < MaxTx)
  /\ LET voided == [tx EXCEPT ![i].status = "void"]
         reversal == [tx[i] EXCEPT !.kind = Opposite(tx[i].kind), !.origin = <<"reversal", 0>>]
     IN tx' = IF reversed THEN Append(voided, reversal) ELSE voided
  /\ UNCHANGED <<categories, allocations, budgetLines>>

(*------------------------------ allocations ------------------------------*)
LinesFor(t, show, scope) ==
  {l \in budgetLines : l.show = show /\ l.scope = scope /\ l.cat = t.cat /\ l.kind = t.kind}

\* Mutant: an edited allocation is measured without the others.
AllocationFits_Alone(a) == a.amount <= tx[a.tx].amount

\* The allocations of a transaction never exceed it.
AllocationFits(a) == Total({b \in AllocatedOf(a.tx) : b.id # a.id}) + a.amount <= tx[a.tx].amount

AllocationClean(a) ==
  /\ tx[a.tx].season = SeasonOf[a.show]
  /\ a.scope = "hosting" => a.show \in Hosted
  /\ a.line # None => a.line \in {l.id : l \in LinesFor(tx[a.tx], a.show, a.scope)}
  /\ AllocationFits(a)

\* The shows offered are those of the transaction's season.
TransactionAllocationSave(a) ==
  /\ a.tx \in DOMAIN tx /\ tx[a.tx].status = "posted"
  /\ (\A b \in allocations : b.id = a.id => b.tx = a.tx /\ b.origin = a.origin)
  /\ NewIn(allocations, a) => a.origin = 0
  /\ AllocationClean(a)
  /\ allocations' = ById(allocations, a)
  /\ UNCHANGED <<categories, tx, budgetLines>>

TransactionAllocationDelete(a) ==
  /\ allocations' = allocations \ {a}
  /\ UNCHANGED <<categories, tx, budgetLines>>

(*-------------------------------- reports --------------------------------*)
Live(kind) == {i \in DOMAIN tx : tx[i].status = "posted" /\ tx[i].kind = kind}
TotalOf(rows) == SumFunction([i \in rows |-> tx[i].amount])
\* The balance of the account over its opening balance, and the net of a season.
AccountBalance == TotalOf(Live("income")) - TotalOf(Live("expense"))
SeasonNet(s)   == LET in(kind) == {i \in Live(kind) : tx[i].season = s} IN TotalOf(in("income")) - TotalOf(in("expense"))
Actual(cat, kind, s) == TotalOf({i \in Live(kind) : tx[i].season = s /\ tx[i].cat = cat})
\* What a budget row is ahead (income) or under (expense).
Variance(kind, planned, actual) == IF kind = "income" THEN actual - planned ELSE planned - actual
CategoryReport(s, cats, kinds) ==
  [kind \in kinds |-> TotalOf({i \in Live(kind) : tx[i].season = s /\ tx[i].cat \in cats})]

ShowAllocations(show) == {a \in allocations : a.show = show /\ tx[a.tx].status = "posted"}
ShowTotal(show, scopes, kind) == Total({a \in ShowAllocations(show) : a.scope \in scopes /\ tx[a.tx].kind = kind})
ShowNet(show, scopes) == ShowTotal(show, scopes, "income") - ShowTotal(show, scopes, "expense")
LegacyUnallocated(show) ==
  {i \in DOMAIN tx : tx[i].show = show /\ tx[i].season = SeasonOf[show] /\ tx[i].status = "posted" /\ AllocatedOf(i) = {}}
UnassignedOf(show) == {a \in ShowAllocations(show) : a.line = None}
LineActual(l)   == Total({a \in ShowAllocations(l.show) : a.line = l.id})
LineVariance(l) == Variance(l.kind, l.amount, LineActual(l))
ScopePlanned(show, scope, kind) == Total({l \in budgetLines : l.show = show /\ l.scope = scope /\ l.kind = kind})
ScopeActual(show, scope, kind) ==
  SumFunction([l \in {x \in budgetLines : x.show = show /\ x.scope = scope /\ x.kind = kind} |-> LineActual(l)])

(*------------------------------ properties -------------------------------*)
LedgerTypeOK ==
  /\ categories \in [Categories -> Category]
  /\ tx \in Seq(Transaction) /\ Len(tx) <= MaxTx
  /\ allocations \subseteq Allocation /\ budgetLines \subseteq BudgetLine

\* However a transaction is edited, paid, resynchronised or allocated, its
\* shows never account for more than the transaction itself.
AllocationsFit == \A i \in DOMAIN tx : Total(AllocatedOf(i)) <= tx[i].amount

\* The rows of one source (a payment, a claim, a contribution, a
\* reimbursement) count once: at most one of them is posted.
OnePostingPerSource ==
  \A i, j \in DOMAIN tx :
    i < j /\ tx[i].origin = tx[j].origin /\ tx[i].origin[1] \notin {"hand", "reversal"}
      => tx[i].status = "void" \/ tx[j].status = "void"

(*------------------------------- behaviour -------------------------------*)
FinanceCategoryStep == \E c \in Categories, category \in Category : FinanceCategorySave(c, category)
TransactionStep ==
  \/ \E kind \in Kinds, cat \in Categories, season \in Seasons \cup {None}, amount \in Amounts :
       \/ FinanceTransactionCreate(kind, cat, season, amount)
       \/ \E i \in DOMAIN tx : FinanceTransactionEdit(i, kind, cat, season, amount)
  \/ \E i \in DOMAIN tx, reversed \in BOOLEAN : FinanceTransactionDelete(i, reversed)
AllocationStep ==
  \/ \E id \in LedgerIds, i \in DOMAIN tx, show \in Shows, scope \in Scopes, line \in LedgerIds \cup {None}, amount \in Amounts :
       TransactionAllocationSave([id |-> id, tx |-> i, show |-> show, scope |-> scope, line |-> line, amount |-> amount,
         origin |-> IF \E a \in allocations : a.id = id THEN (CHOOSE a \in allocations : a.id = id).origin ELSE 0])
  \/ \E a \in allocations : TransactionAllocationDelete(a)
=============================================================================
