---------------------------- MODULE Receivables ----------------------------
(***************************************************************************)
(* The receivables ledger of ArenaLine: what each account owes (charges),  *)
(* what it has brought in (payments and credits, here "sources") and the   *)
(* allocation rows that apply a source to a charge.                        *)
(*                                                                         *)
(* One action per operation of services/finance_operations.py, together    *)
(* with the service of services/finance_receivables.py it calls, plus the  *)
(* ledger view that voids a bookkeeping transaction behind the payment it  *)
(* belongs to.  Every action is one whole request: what concurrent         *)
(* requests do to the same rows is the subject of ReceivablesRace.         *)
(*                                                                         *)
(* Rows are never deleted, so each table is a sequence and a row's primary *)
(* key is its position.  Balances are not stored: the code sums POSTED     *)
(* allocation rows every time, and so does this module.                    *)
(***************************************************************************)
EXTENDS LedgerSums, Sequences, SequencesExt

CONSTANTS
    Accounts,       \* receivable accounts
    ChargeAmounts,  \* amounts a charge can be created with
    SourceAmounts,  \* amounts a payment or a credit can be posted with
    Dates,          \* due dates (or charge dates, when there is no due date)
    MaxCharges,     \* bound: charge rows ever created
    MaxSources,     \* bound: payment and credit rows ever created
    MaxAllocations, \* bound: allocation rows ever created
    None            \* an argument the caller left out

ASSUME ReceivablesAssumption ==
    /\ ChargeAmounts \subseteq Nat \ {0}
    /\ SourceAmounts \subseteq Nat \ {0}
    /\ Dates \subseteq Nat
    /\ MaxCharges \in Nat /\ MaxSources \in Nat /\ MaxAllocations \in Nat
    /\ None \notin Nat

VARIABLES
    status,       \* account -> "active" or "closed"
    charges,      \* the charge rows
    sources,      \* the payment and credit rows
    allocations   \* the allocation rows

vars == <<status, charges, sources, allocations>>

Amounts == ChargeAmounts \union SourceAmounts

ChargeRow == [account : Accounts, amount : ChargeAmounts, due : Dates]

\* "ledger" is the status of the one-to-one FinancialTransaction of a payment.
SourceRow == [kind    : {"payment", "credit"},
              account : Accounts,
              amount  : SourceAmounts,
              status  : {"posted", "void"},
              ledger  : {"none", "posted", "void"}]

AllocationRow == [charge : Nat, source : Nat, amount : Nat \ {0},
                  status : {"posted", "void"}]

-----------------------------------------------------------------------------
(* Balances, as the model properties compute them.                         *)

Least(m, n)  == IF m <= n THEN m ELSE n
NotBelow0(n) == IF n >= 0 THEN n ELSE 0

\* allocated_total of one end of the allocations, a charge or a source: the
\* sum of the POSTED rows that name it
PostedShare(rows, end, id) ==
    [i \in 1..Len(rows) |->
        IF rows[i].status = "posted" /\ rows[i][end] = id THEN rows[i].amount ELSE 0]

PostedTotal(rows, end, id) == SumTo(PostedShare(rows, end, id), Len(rows))

Allocated(c) == PostedTotal(allocations, "charge", c)
Applied(s)   == PostedTotal(allocations, "source", s)

\* Mutation: the balance forgets what is already allocated.
ChargeBalance_Unreduced(c) == charges[c].amount

ChargeBalance(c) == NotBelow0(charges[c].amount - Allocated(c))

\* Mutation: a VOID payment still counts as unapplied money.
Unapplied_OfVoidToo(s) == NotBelow0(sources[s].amount - Applied(s))

Unapplied(s) ==
    IF sources[s].status = "posted"
    THEN NotBelow0(sources[s].amount - Applied(s)) ELSE 0

\* ReceivableAccount.balance: amount due less what is still unapplied
AmountDue(a) ==
    SumTo([c \in 1..Len(charges) |-> IF charges[c].account = a THEN ChargeBalance(c) ELSE 0],
          Len(charges))
UnappliedTotal(a) ==
    SumTo([s \in 1..Len(sources) |-> IF sources[s].account = a THEN Unapplied(s) ELSE 0],
          Len(sources))
Balance(a) == AmountDue(a) - UnappliedTotal(a)

-----------------------------------------------------------------------------
Init ==
    /\ status = [a \in Accounts |-> "active"]
    /\ charges = <<>>
    /\ sources = <<>>
    /\ allocations = <<>>

\* _require_active_account
Active(a) == status[a] = "active"

CreateCharge(a) ==
    /\ Active(a)
    /\ Len(charges) < MaxCharges
    /\ \E amount \in ChargeAmounts, due \in Dates :
         charges' = Append(charges, [account |-> a, amount |-> amount, due |-> due])
    /\ UNCHANGED <<status, sources, allocations>>

\* Mutation: the early return on nothing to allocate is dropped.
NewAllocation_OfNothing(s, c, amount) ==
    <<[charge |-> c, source |-> s, amount |-> amount, status |-> "posted"]>>

\* The rows allocate_source adds: one of the amount given, or none at all when
\* there is nothing to allocate.
NewAllocation(s, c, amount) ==
    IF amount > 0
    THEN <<[charge |-> c, source |-> s, amount |-> amount, status |-> "posted"]>>
    ELSE <<>>

\* post_payment and post_credit: insert the row, then allocate it to the charge
\* the caller named, all in one transaction.
PostSource(a, kind, amount, ledger, c) ==
    /\ Active(a)
    /\ Len(sources) < MaxSources
    /\ sources' = Append(sources, [kind |-> kind, account |-> a, amount |-> amount,
                                   status |-> "posted", ledger |-> ledger])
    /\ IF c = None
       THEN UNCHANGED allocations
       ELSE /\ charges[c].account = a
            /\ Len(allocations) < MaxAllocations
            /\ allocations' = allocations \o
                  NewAllocation(Len(sources) + 1, c, Least(ChargeBalance(c), amount))
    /\ UNCHANGED <<status, charges>>

\* A payment with a deposit account and an income category books a POSTED
\* income transaction; without them it books none.
PostPayment(a) ==
    \E amount \in SourceAmounts, ledger \in {"none", "posted"},
       c \in {None} \union (1..Len(charges)) :
        PostSource(a, "payment", amount, ledger, c)

PostCredit(a) ==
    \E amount \in SourceAmounts, c \in {None} \union (1..Len(charges)) :
        PostSource(a, "credit", amount, "none", c)

\* Mutation: no _require_active_account.
Allocate_OnClosed(s, c, requested) ==
    /\ charges[c].account = sources[s].account
    /\ sources[s].status = "posted"
    /\ Len(allocations) < MaxAllocations
    /\ Least(ChargeBalance(c), Unapplied(s)) > 0
    /\ allocations' = allocations \o
          NewAllocation(s, c, Least(ChargeBalance(c), Unapplied(s)))
    /\ UNCHANGED <<status, charges, sources>>

\* allocate_payment_for_user, allocate_credit_for_user
Allocate(s, c, requested) ==
    /\ Active(sources[s].account)
    /\ charges[c].account = sources[s].account
    /\ sources[s].status = "posted"
    /\ Len(allocations) < MaxAllocations
    /\ LET available == Least(ChargeBalance(c), Unapplied(s))
           amount    == IF requested = None THEN available ELSE Least(requested, available)
       IN  /\ amount > 0
           /\ allocations' = allocations \o NewAllocation(s, c, amount)
    /\ UNCHANGED <<status, charges, sources>>

\* Mutation: charges taken in the order they were entered.
Older_ByEntry(c, d) == c < d

\* The sort key of allocate_source_oldest; the primary key breaks ties.
Older(c, d) ==
    \/ charges[c].due < charges[d].due
    \/ charges[c].due = charges[d].due /\ c < d

\* Charges of the source's account that allocate_source_oldest does not skip
OpenCharges(s) ==
    {c \in 1..Len(charges) : charges[c].account = sources[s].account /\ ChargeBalance(c) > 0}

\* allocate_source_oldest: walk the open charges from the oldest one, giving
\* each what it needs or what is left, and stop when nothing is left.  left(i)
\* is what remains after the first i charges, n the number that get a row.
AllocateOldest(s) ==
    /\ Active(sources[s].account)
    /\ sources[s].status = "posted"
    /\ Unapplied(s) > 0
    /\ \E queue \in SetToSeqs(OpenCharges(s)) :
         LET need    == [i \in 1..Len(queue) |-> ChargeBalance(queue[i])]
             left(i) == NotBelow0(Unapplied(s) - SumTo(need, i))
         IN  /\ \A i, j \in 1..Len(queue) : i < j => Older(queue[i], queue[j])
             /\ \E n \in 1..Len(queue) :
                  /\ \A i \in 1..n : left(i - 1) > 0
                  /\ n = Len(queue) \/ left(n) = 0
                  /\ Len(allocations) + n <= MaxAllocations
                  /\ allocations' = allocations \o
                        [i \in 1..n |-> [charge |-> queue[i], source |-> s,
                                         amount |-> Least(need[i], left(i - 1)),
                                         status |-> "posted"]]
    /\ UNCHANGED <<status, charges, sources>>

\* unallocate_payment_for_user, unallocate_credit_for_user.  full_clean of the
\* row about to become VOID still insists on a POSTED source.
Unallocate(i) ==
    /\ allocations[i].status = "posted"
    /\ sources[allocations[i].source].status = "posted"
    /\ allocations' = [allocations EXCEPT ![i].status = "void"]
    /\ UNCHANGED <<status, charges, sources>>

\* Mutation: no check for POSTED allocations.
VoidPayment_Allocated(s) ==
    /\ sources[s].kind = "payment"
    /\ sources[s].status = "posted"
    /\ sources[s].ledger # "void"
    /\ sources' = [sources EXCEPT ![s].status = "void",
                                  ![s].ledger = IF @ = "posted" THEN "void" ELSE @]
    /\ UNCHANGED <<status, charges, allocations>>

\* void_payment: refused while a POSTED allocation remains, and when the linked
\* transaction is no longer POSTED; otherwise both become VOID.
VoidPayment(s) ==
    /\ sources[s].kind = "payment"
    /\ sources[s].status = "posted"
    /\ ~ \E i \in 1..Len(allocations) :
            allocations[i].source = s /\ allocations[i].status = "posted"
    /\ sources[s].ledger # "void"
    /\ sources' = [sources EXCEPT ![s].status = "void",
                                  ![s].ledger = IF @ = "posted" THEN "void" ELSE @]
    /\ UNCHANGED <<status, charges, allocations>>

\* finance_transaction_delete on the transaction linked to a payment: the view
\* redirects only fundraising contributions away.
DirectLedgerVoid(s) ==
    /\ sources[s].ledger = "posted"
    /\ sources' = [sources EXCEPT ![s].ledger = "void"]
    /\ UNCHANGED <<status, charges, allocations>>

\* No code in src/ closes an account; the status is changed out of band (tests
\* set it directly) and every operation honours it.
CloseAccount(a) ==
    /\ Active(a)
    /\ status' = [status EXCEPT ![a] = "closed"]
    /\ UNCHANGED <<charges, sources, allocations>>

Next ==
    \/ \E a \in Accounts : CreateCharge(a) \/ PostPayment(a) \/ PostCredit(a) \/ CloseAccount(a)
    \/ \E s \in 1..Len(sources) :
          \/ \E c \in 1..Len(charges), requested \in {None} \union Amounts :
                Allocate(s, c, requested)
          \/ AllocateOldest(s)
          \/ VoidPayment(s)
          \/ DirectLedgerVoid(s)
    \/ \E i \in 1..Len(allocations) : Unallocate(i)

Spec == Init /\ [][Next]_vars

-----------------------------------------------------------------------------
(* Properties.                                                             *)

\* Every table holds rows of its type, and an allocation refers to rows that
\* exist.
TypeOK ==
    /\ status \in [Accounts -> {"active", "closed"}]
    /\ charges \in Seq(ChargeRow)
    /\ sources \in Seq(SourceRow)
    /\ allocations \in Seq(AllocationRow)
    /\ \A i \in 1..Len(allocations) :
          /\ allocations[i].charge \in 1..Len(charges)
          /\ allocations[i].source \in 1..Len(sources)

\* However payments, credits, manual and oldest-first allocations, corrections
\* and voids follow each other, no charge is paid beyond its amount and no
\* payment or credit is spent beyond its amount (allocate_source: "leaving any
\* excess unapplied").
NoOverAllocation ==
    /\ \A c \in 1..Len(charges) : Allocated(c) <= charges[c].amount
    /\ \A s \in 1..Len(sources) : Applied(s) <= sources[s].amount

\* A charge counts as paid only by money that is still there: every POSTED
\* allocation comes from a POSTED source of the charge's own account, so no
\* void can leave a charge paid by a payment that no longer exists.
PostedAllocationsAreBacked ==
    \A i \in 1..Len(allocations) :
        allocations[i].status = "posted" =>
            LET source == sources[allocations[i].source]
            IN  /\ source.status = "posted"
                /\ source.account = charges[allocations[i].charge].account

\* The balance a family is shown (amount due less unapplied money, computed
\* from the allocation rows) always equals what was charged less what was
\* received and not voided: allocating and unallocating move money around but
\* never create or lose any.
Charged(a) ==
    SumTo([c \in 1..Len(charges) |-> IF charges[c].account = a THEN charges[c].amount ELSE 0],
          Len(charges))
Received(a) ==
    SumTo([s \in 1..Len(sources) |->
              IF sources[s].account = a /\ sources[s].status = "posted"
              THEN sources[s].amount ELSE 0],
          Len(sources))
BalanceIsConserved == \A a \in Accounts : Balance(a) = Charged(a) - Received(a)

\* "Apply an unapplied payment or credit to oldest outstanding posted charges":
\* a charge receives money from allocate_source_oldest only if every older open
\* charge of the account is then fully paid, and money stays unapplied only if
\* no charge of the account is left open.
OldestFirst ==
    [][\A s \in 1..Len(sources) : AllocateOldest(s) =>
         /\ \A i \in Len(allocations) + 1 .. Len(allocations') : \A c \in OpenCharges(s) :
               LET d == allocations'[i].charge
               IN  (\/ charges[c].due < charges[d].due
                    \/ charges[c].due = charges[d].due /\ c < d) => ChargeBalance(c)' = 0
         /\ Unapplied(s)' = 0 \/ OpenCharges(s)' = {}
      ]_vars

\* "Closed receivable accounts are read-only for normal new activity while
\* historical correction/void workflows remain available": on a closed account
\* a step may take back allocations and void payments, but it adds no charge,
\* no source and no allocation.
ClosedAccountsOnlyUnwind ==
    [][\A a \in Accounts : status[a] = "closed" =>
         /\ \A c \in Len(charges) + 1 .. Len(charges') : charges'[c].account # a
         /\ \A s \in Len(sources) + 1 .. Len(sources') : sources'[s].account # a
         /\ \A i \in Len(allocations) + 1 .. Len(allocations') :
               charges'[allocations'[i].charge].account # a
         /\ Received(a)' <= Received(a)
      ]_vars

=============================================================================
