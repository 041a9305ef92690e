------------------------------ MODULE Payables ------------------------------
(***************************************************************************)
(* What the team owes (services/finance_payables.py, its operations,       *)
(* model_modules/finance.py): obligations, the payments against            *)
(* them, and the expense each payment posts in the ledger, which somebody  *)
(* may edit or void there.  One payee, one account; due dates are left out.*)
(***************************************************************************)
EXTENDS TeamLedger

Obligation == [id : LedgerIds, cat : Categories, season : Seasons \cup {None}, amount : Amounts]
PayablePayment == [id : LedgerIds, obligation : LedgerIds, amount : Amounts, status : {"posted", "void"}, link : 1..MaxTx]

VARIABLES obligations,      \* PayableObligation rows: no operation voids one
          payablePayments   \* PayablePayment rows
payableVars == <<obligations, payablePayments>>

PayablesInit == obligations = {} /\ payablePayments = {}

PaymentsOf(o) == {q \in payablePayments : q.obligation = o.id}

PaidTotal(o) == Total({q \in PaymentsOf(o) : q.status = "posted"})
PayableBalance(o) == Larger(o.amount - PaidTotal(o), 0)

\* The form offers active categories that can be spent on.
CreateObligation(o) ==
  /\ NewIn(obligations, o)
  /\ categories[o.cat].active /\ Allows(o.cat, "expense")
  /\ obligations' = obligations \cup {o}
  /\ UNCHANGED <<payablePayments, ledgerVars>>

\* Mutant: a payment is measured against the obligation alone.
PaymentFits_Alone(o, amount) == amount <= o.amount

\* PayablePayment.clean; the form only shows the balance.
PaymentFits(o, amount) == PaidTotal(o) + amount <= o.amount

\* The payment and its expense, both or, when the category no longer allows it, neither.
PostPayablePayment(o, id, amount) ==
  /\ id \notin {q.id : q \in payablePayments} /\ PaymentFits(o, amount)
  /\ PostFor(None, Posting("expense", o.cat, o.season, amount, <<"payable", id>>))
  /\ payablePayments' = payablePayments \cup {[id |-> id, obligation |-> o.id, amount |-> amount, status |-> "posted", link |-> Len(tx')]}
  /\ UNCHANGED <<obligations, categories, allocations, budgetLines>>

\* Mutant: voiding a payment leaves its expense.
VoidPayablePayment_Booked(q) ==
  /\ q.status = "posted"
  /\ payablePayments' = ById(payablePayments, [q EXCEPT !.status = "void"])
  /\ UNCHANGED <<obligations, ledgerVars>>

\* A payment whose expense was voided in the ledger cannot be voided any more.
VoidPayablePayment(q) ==
  /\ q.status = "posted" /\ tx[q.link].status = "posted"
  /\ tx' = VoidRow(q.link)
  /\ payablePayments' = ById(payablePayments, [q EXCEPT !.status = "void"])
  /\ UNCHANGED <<obligations, categories, allocations, budgetLines>>

(*------------------------------ properties -------------------------------*)
PayablesTypeOK == obligations \subseteq Obligation /\ payablePayments \subseteq PayablePayment

\* Through payments, voids and new payments in any order, no more than what
\* is owed is ever posted against an obligation, so a balance clamped at zero
\* hides no overpayment.
NeverOverpaid == \A o \in obligations : o.amount - PaidTotal(o) = PayableBalance(o)

\* Each payment has an expense of its own, and money that is not paid any
\* more is not spent in the ledger: the expense of a void payment is void.
PaymentsAreBooked ==
  /\ \A q \in payablePayments : tx[q.link].origin = <<"payable", q.id>>
  /\ \A q \in payablePayments : q.status = "void" => tx[q.link].status = "void"

(*------------------------------- behaviour -------------------------------*)
PayablesStep ==
  \/ \E o \in Obligation : CreateObligation(o)
  \/ \E o \in obligations, id \in LedgerIds, amount \in Amounts : PostPayablePayment(o, id, amount)
  \/ \E q \in payablePayments : VoidPayablePayment(q)
=============================================================================
