-------------------------- MODULE ReceivablesRace --------------------------
(***************************************************************************)
(* The same allocation, void and unallocate requests as Receivables, run   *)
(* by several workers at once.  The services open a transaction but lock   *)
(* no row, and the database runs at READ COMMITTED, so between two queries *)
(* of one request any number of others may commit.  One step here is one   *)
(* query, or one write together with the commit that ends the request.     *)
(*                                                                         *)
(* One account with its charges and payments already posted; each payment  *)
(* was banked, so it has a linked transaction.                             *)
(***************************************************************************)
EXTENDS LedgerSums, Sequences

CONSTANTS
    Workers,        \* concurrent requests (gunicorn workers)
    ChargeAmounts,  \* sequence: the amount of each charge
    PaymentAmounts, \* sequence: the amount of each payment
    MaxAllocations, \* bound: allocation rows ever created
    Account,        \* the account
    None            \* no argument

ASSUME RaceAssumption ==
    /\ ChargeAmounts \in Seq(Nat \ {0})
    /\ PaymentAmounts \in Seq(Nat \ {0})
    /\ MaxAllocations \in Nat

VARIABLES
    sources,      \* the payment rows
    allocations,  \* the allocation rows
    job           \* worker -> the request it is running and what it has read

vars == <<sources, allocations, job>>

charges == [c \in 1..Len(ChargeAmounts) |->
               [account |-> Account, amount |-> ChargeAmounts[c], due |-> 0]]

\* The serial ledger over the same tables.
Ledger == INSTANCE Receivables WITH
    Accounts       <- {Account},
    ChargeAmounts  <- {ChargeAmounts[c] : c \in 1..Len(ChargeAmounts)},
    SourceAmounts  <- {PaymentAmounts[s] : s \in 1..Len(PaymentAmounts)},
    Dates          <- {0},
    MaxCharges     <- Len(ChargeAmounts),
    MaxSources     <- Len(PaymentAmounts),
    status         <- [a \in {Account} |-> "active"]

Idle == [at |-> "idle"]

Init ==
    /\ sources = [s \in 1..Len(PaymentAmounts) |->
                     [kind |-> "payment", account |-> Account, amount |-> PaymentAmounts[s],
                      status |-> "posted", ledger |-> "posted"]]
    /\ allocations = <<>>
    /\ job = [w \in Workers |-> Idle]

Continue(w, state) == job' = [job EXCEPT ![w] = state]

-----------------------------------------------------------------------------
(* allocate_payment_for_user, calling allocate_source                      *)

\* Load the charge and the payment, both required to be POSTED.
BeginAllocate(w, s, c, requested) ==
    /\ job[w] = Idle
    /\ sources[s].status = "posted"
    /\ Len(allocations) < MaxAllocations
    /\ Continue(w, [at |-> "balance", source |-> s, charge |-> c, requested |-> requested])
    /\ UNCHANGED <<sources, allocations>>

\* charge.balance
ReadBalance(w) ==
    /\ job[w].at = "balance"
    /\ Continue(w, [at |-> "unapplied", source |-> job[w].source, charge |-> job[w].charge,
                    requested |-> job[w].requested,
                    balance |-> Ledger!ChargeBalance(job[w].charge)])
    /\ UNCHANGED <<sources, allocations>>

\* source.unapplied_amount: the payment's own status is the one loaded above.
StillUnapplied(s) == Ledger!NotBelow0(sources[s].amount - Ledger!Applied(s))

ReadUnapplied(w) ==
    /\ job[w].at = "unapplied"
    /\ LET available == Ledger!Least(job[w].balance, StillUnapplied(job[w].source))
           amount    == IF job[w].requested = None THEN available
                        ELSE Ledger!Least(job[w].requested, available)
       IN  Continue(w, IF amount <= 0 THEN Idle
                       ELSE [at |-> "clean", source |-> job[w].source,
                             charge |-> job[w].charge, amount |-> amount])
    /\ UNCHANGED <<sources, allocations>>

\* full_clean of the new row compares its amount with both sums once more.
CleanSource(w) ==
    /\ job[w].at = "clean"
    /\ Continue(w, IF job[w].amount <= StillUnapplied(job[w].source)
                   THEN [job[w] EXCEPT !.at = "clean charge"] ELSE Idle)
    /\ UNCHANGED <<sources, allocations>>

CleanCharge(w) ==
    /\ job[w].at = "clean charge"
    /\ Continue(w, IF job[w].amount <= Ledger!ChargeBalance(job[w].charge)
                   THEN [job[w] EXCEPT !.at = "insert"] ELSE Idle)
    /\ UNCHANGED <<sources, allocations>>

\* allocation.save() and the commit
Insert(w) ==
    /\ job[w].at = "insert"
    /\ Len(allocations) < MaxAllocations
    /\ allocations' = allocations \o
          Ledger!NewAllocation(job[w].source, job[w].charge, job[w].amount)
    /\ Continue(w, Idle)
    /\ UNCHANGED sources

-----------------------------------------------------------------------------
(* void_payment_for_user, calling void_payment                             *)

BeginVoid(w, s) ==
    /\ job[w] = Idle
    /\ sources[s].status = "posted"
    /\ Continue(w, [at |-> "unused", source |-> s])
    /\ UNCHANGED <<sources, allocations>>

\* Mutation: the check for allocations is dropped.
CheckUnused_Never(w) ==
    /\ job[w].at = "unused"
    /\ Continue(w, [job[w] EXCEPT !.at = "ledger"])
    /\ UNCHANGED <<sources, allocations>>

\* payment.allocations.filter(status=POSTED).exists()
CheckUnused(w) ==
    /\ job[w].at = "unused"
    /\ Continue(w, IF \E i \in 1..Len(allocations) :
                         /\ allocations[i].source = job[w].source
                         /\ allocations[i].status = "posted"
                   THEN Idle ELSE [job[w] EXCEPT !.at = "ledger"])
    /\ UNCHANGED <<sources, allocations>>

\* payment.financial_transaction
CheckLedger(w) ==
    /\ job[w].at = "ledger"
    /\ Continue(w, IF sources[job[w].source].ledger = "void"
                   THEN Idle ELSE [job[w] EXCEPT !.at = "void"])
    /\ UNCHANGED <<sources, allocations>>

\* Both rows are saved whatever they hold by now, and the request commits.
WriteVoid(w) ==
    /\ job[w].at = "void"
    /\ sources' = [sources EXCEPT ![job[w].source].status = "void",
                                  ![job[w].source].ledger = "void"]
    /\ Continue(w, Idle)
    /\ UNCHANGED allocations

-----------------------------------------------------------------------------
(* unallocate_payment_for_user                                             *)

\* Load the POSTED allocation joined with its payment, whose status full_clean
\* will judge by.
BeginUnallocate(w, i) ==
    /\ job[w] = Idle
    /\ allocations[i].status = "posted"
    /\ sources[allocations[i].source].status = "posted"
    /\ Continue(w, [at |-> "unallocate", row |-> i])
    /\ UNCHANGED <<sources, allocations>>

WriteUnallocated(w) ==
    /\ job[w].at = "unallocate"
    /\ allocations' = [allocations EXCEPT ![job[w].row].status = "void"]
    /\ Continue(w, Idle)
    /\ UNCHANGED sources

-----------------------------------------------------------------------------
Step(w) ==
    \/ ReadBalance(w) \/ ReadUnapplied(w)
    \/ CleanSource(w) \/ CleanCharge(w) \/ Insert(w)
    \/ CheckUnused(w) \/ CheckLedger(w) \/ WriteVoid(w)
    \/ WriteUnallocated(w)

Begin(w) ==
    \/ \E s \in 1..Len(sources) :
          \/ \E c \in 1..Len(charges), requested \in {None} \union Ledger!Amounts :
                BeginAllocate(w, s, c, requested)
          \/ BeginVoid(w, s)
    \/ \E i \in 1..Len(allocations) : BeginUnallocate(w, i)

Next == \E w \in Workers : Begin(w) \/ Step(w)

Spec == Init /\ [][Next]_vars

-----------------------------------------------------------------------------
(* Properties.                                                             *)

\* A request that runs alone is one step of the serial ledger, however many
\* queries it takes: the writes it ends with are those that Receivables makes
\* of the tables as the request found them.  (With one worker.)
Serial == [][Ledger!Next]_<<sources, allocations>>

\* "Safely allocate a payment/credit, leaving any excess unapplied": no charge
\* and no payment is allocated beyond its amount.  Two workers break it: both
\* read the sums before either inserts its row.
NoOverAllocation == Ledger!NoOverAllocation

=============================================================================
