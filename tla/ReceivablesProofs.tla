------------------------- MODULE ReceivablesProofs -------------------------
(***************************************************************************)
(* Proofs about Receivables, for every set of accounts, amounts and dates  *)
(* and every bound.  The inductive invariant is the conjunction of three   *)
(* of the checked properties; it is handled as Sound, a predicate of the   *)
(* three tables, so that one lemma per kind of change (a new charge, a new *)
(* source, a new allocation, a voided allocation) serves every action that *)
(* makes it.  The last section is about ReceivablesRace: its requests, one *)
(* at a time, are steps of this ledger.                                    *)
(***************************************************************************)
EXTENDS Receivables, LedgerSumsTheorems, FiniteSetTheorems

\* The inductive invariant.
IInv == TypeOK /\ NoOverAllocation /\ PostedAllocationsAreBacked

\* Every allocated_total is a natural.
LEMMA PostedTotalNat ==
  ASSUME NEW rows \in Seq(AllocationRow), NEW end, NEW id
  PROVE  PostedTotal(rows, end, id) \in Nat
<1>1. Len(rows) \in Nat /\ \A i \in 1..Len(rows) : rows[i] \in AllocationRow
  OBVIOUS
<1>2. \A i \in 1..Len(rows) : PostedShare(rows, end, id)[i] \in Nat
  BY <1>1 DEF PostedShare, AllocationRow
<1>3. QED
  BY <1>1, <1>2, SumToNat DEF PostedTotal

\* A new POSTED row adds its amount to the two ends it names, and to no other.
LEMMA PostedTotalAppend ==
  ASSUME NEW rows \in Seq(AllocationRow), NEW row \in AllocationRow, NEW end, NEW id,
         row.status = "posted"
  PROVE  /\ Append(rows, row) \in Seq(AllocationRow)
         /\ PostedTotal(Append(rows, row), end, id)
              = PostedTotal(rows, end, id) + (IF row[end] = id THEN row.amount ELSE 0)
<1> DEFINE after == Append(rows, row)
           n == Len(rows)
<1>1. /\ n \in Nat
      /\ after \in Seq(AllocationRow)
      /\ Len(after) = n + 1
      /\ after[n + 1] = row
      /\ \A i \in 1..n : after[i] = rows[i]
  OBVIOUS
<1> HIDE DEF after
<1>2. SumTo(PostedShare(after, end, id), n + 1)
        = SumTo(PostedShare(after, end, id), n) + PostedShare(after, end, id)[n + 1]
  BY <1>1, SumToStep
<1>3. PostedShare(after, end, id)[n + 1] = IF row[end] = id THEN row.amount ELSE 0
  BY <1>1 DEF PostedShare
<1>4. SumTo(PostedShare(after, end, id), n) = SumTo(PostedShare(rows, end, id), n)
  <2>1. \A i \in 1..n : PostedShare(after, end, id)[i] = PostedShare(rows, end, id)[i]
    BY <1>1 DEF PostedShare
  <2>2. QED BY <1>1, <2>1, SumToExtensional
<1>5. QED
  BY <1>1, <1>2, <1>3, <1>4 DEF PostedTotal, after

\* Voiding a row changes its status and nothing else.
LEMMA VoidedRow ==
  ASSUME NEW rows \in Seq(AllocationRow), NEW p \in 1..Len(rows)
  PROVE  LET after == [rows EXCEPT ![p].status = "void"]
         IN  /\ after \in Seq(AllocationRow)
             /\ Len(after) = Len(rows)
             /\ \A i \in 1..Len(rows) : i # p => after[i] = rows[i]
             /\ after[p] \in AllocationRow
             /\ after[p].status = "void"
             /\ after[p].charge = rows[p].charge
             /\ after[p].source = rows[p].source
<1> DEFINE row == [rows[p] EXCEPT !.status = "void"]
           after == [rows EXCEPT ![p] = row]
<1>1. rows[p] \in AllocationRow
  OBVIOUS
<1>2. /\ row \in AllocationRow /\ row.status = "void"
      /\ row.charge = rows[p].charge /\ row.source = rows[p].source
  BY <1>1 DEF AllocationRow
<1> HIDE DEF row
<1>3. after \in Seq(AllocationRow) /\ Len(after) = Len(rows) /\ after[p] = row
  BY <1>2
<1>4. \A i \in 1..Len(rows) : i # p => after[i] = rows[i]
  OBVIOUS
<1>5. after = [rows EXCEPT ![p].status = "void"]
  BY DEF row
<1> HIDE DEF after
<1>6. QED
  BY <1>2, <1>3, <1>4, <1>5

\* Voiding a row raises no total.
LEMMA PostedTotalVoid ==
  ASSUME NEW rows \in Seq(AllocationRow), NEW p \in 1..Len(rows), NEW end, NEW id
  PROVE  PostedTotal([rows EXCEPT ![p].status = "void"], end, id)
           <= PostedTotal(rows, end, id)
<1> DEFINE after == [rows EXCEPT ![p].status = "void"]
           f == PostedShare(rows, end, id)
           h == PostedShare(after, end, id)
<1>1. /\ after \in Seq(AllocationRow)
      /\ Len(after) = Len(rows)
      /\ \A i \in 1..Len(rows) : i # p => after[i] = rows[i]
      /\ after[p].status = "void"
  BY VoidedRow
<1> HIDE DEF after
<1>2. PICK n \in Nat : n = Len(rows)
  OBVIOUS
<1>3. ASSUME NEW i \in 1..n PROVE f[i] \in Nat /\ h[i] \in Nat
  <2>1. after[i] \in AllocationRow /\ rows[i] \in AllocationRow
    BY <1>1, <1>2
  <2>2. QED BY <1>1, <1>2, <2>1 DEF PostedShare, AllocationRow
<1>4. \A i \in 1..n : i # p => h[i] = f[i]
  BY <1>1, <1>2 DEF PostedShare
<1>5. h[p] = 0 /\ p \in 1..n
  BY <1>1, <1>2 DEF PostedShare
<1> HIDE DEF f, h
<1>6. \A i \in 1..n : f[i] \in Int /\ h[i] \in Int
  BY <1>3
<1>7. SumTo(h, n) = SumTo(f, n) + h[p] - f[p]
  BY <1>4, <1>5, <1>6, SumToChange
<1>8. SumTo(f, n) \in Int /\ SumTo(h, n) \in Int
  BY <1>6, SumToType
<1>9. SumTo(h, n) <= SumTo(f, n)
  BY <1>3, <1>5, <1>7, <1>8
<1>10. QED
  BY <1>1, <1>2, <1>9 DEF PostedTotal, f, h, after

\* What no POSTED row names has a total of zero.
LEMMA PostedTotalUnused ==
  ASSUME NEW rows \in Seq(AllocationRow), NEW end, NEW id,
         \A i \in 1..Len(rows) : ~ (rows[i].status = "posted" /\ rows[i][end] = id)
  PROVE  PostedTotal(rows, end, id) = 0
<1>1. Len(rows) \in Nat
  OBVIOUS
<1>2. \A i \in 1..Len(rows) : PostedShare(rows, end, id)[i] = 0
  BY DEF PostedShare
<1>3. QED
  BY <1>1, <1>2, SumToAllZero DEF PostedTotal

-----------------------------------------------------------------------------
\* No charge and no source is over-allocated, and every POSTED row is backed.
Sound(chs, srcs, rows) ==
    /\ rows \in Seq(AllocationRow)
    /\ \A i \in 1..Len(rows) :
          /\ rows[i].charge \in 1..Len(chs)
          /\ rows[i].source \in 1..Len(srcs)
          /\ rows[i].status = "posted" =>
                /\ srcs[rows[i].source].status = "posted"
                /\ srcs[rows[i].source].account = chs[rows[i].charge].account
    /\ \A c \in 1..Len(chs)  : PostedTotal(rows, "charge", c) <= chs[c].amount
    /\ \A s \in 1..Len(srcs) : PostedTotal(rows, "source", s) <= srcs[s].amount

Tables ==
    /\ status \in [Accounts -> {"active", "closed"}]
    /\ charges \in Seq(ChargeRow)
    /\ sources \in Seq(SourceRow)

\* The inductive invariant, split into the tables and what relates them.
LEMMA InvIsSound == IInv <=> Tables /\ Sound(charges, sources, allocations)
  BY DEF IInv, TypeOK, NoOverAllocation, PostedAllocationsAreBacked, Tables, Sound,
         Allocated, Applied

\* The same for the state after a step.
LEMMA NextInvIsSound ==
  ASSUME Tables', Sound(charges', sources', allocations') PROVE IInv'
  BY DEF IInv, TypeOK, NoOverAllocation, PostedAllocationsAreBacked, Tables, Sound,
         Allocated, Applied

\* Adding an allocation that fits what is left of both its ends keeps the
\* tables sound.
LEMMA SoundAppend ==
  ASSUME NEW chs \in Seq(ChargeRow), NEW srcs \in Seq(SourceRow), NEW rows,
         Sound(chs, srcs, rows),
         NEW row \in AllocationRow, row.status = "posted",
         row.charge \in 1..Len(chs), row.source \in 1..Len(srcs),
         srcs[row.source].status = "posted",
         srcs[row.source].account = chs[row.charge].account,
         PostedTotal(rows, "charge", row.charge) + row.amount <= chs[row.charge].amount,
         PostedTotal(rows, "source", row.source) + row.amount <= srcs[row.source].amount
  PROVE  Sound(chs, srcs, Append(rows, row))
<1> DEFINE after == Append(rows, row)
<1>1. rows \in Seq(AllocationRow)
  BY DEF Sound
<1>2. /\ after \in Seq(AllocationRow)
      /\ Len(after) = Len(rows) + 1 /\ Len(rows) \in Nat
      /\ after[Len(rows) + 1] = row
      /\ \A i \in 1..Len(rows) : after[i] = rows[i]
  BY <1>1
<1>3. \A end, id : PostedTotal(after, end, id)
                      = PostedTotal(rows, end, id) + (IF row[end] = id THEN row.amount ELSE 0)
  BY <1>1, PostedTotalAppend
<1>4. \A end, id : PostedTotal(rows, end, id) \in Nat
  BY <1>1, PostedTotalNat
<1> HIDE DEF after
<1>5. ASSUME NEW i \in 1..Len(after)
      PROVE  /\ after[i].charge \in 1..Len(chs)
             /\ after[i].source \in 1..Len(srcs)
             /\ after[i].status = "posted" =>
                   /\ srcs[after[i].source].status = "posted"
                   /\ srcs[after[i].source].account = chs[after[i].charge].account
  <2>1. CASE i = Len(rows) + 1
    BY <2>1, <1>2
  <2>2. CASE i # Len(rows) + 1
    <3>1. i \in 1..Len(rows)
      BY <2>2, <1>2
    <3>2. QED BY <3>1, <1>2 DEF Sound
  <2>3. QED BY <2>1, <2>2
<1>6. ASSUME NEW c \in 1..Len(chs) PROVE PostedTotal(after, "charge", c) <= chs[c].amount
  <2>1. CASE row.charge = c
    BY <1>3, <2>1
  <2>2. CASE row.charge # c
    <3>1. PostedTotal(after, "charge", c) = PostedTotal(rows, "charge", c)
      BY <1>3, <1>4, <2>2
    <3>2. QED BY <3>1 DEF Sound
  <2>3. QED BY <2>1, <2>2
<1>7. ASSUME NEW s \in 1..Len(srcs) PROVE PostedTotal(after, "source", s) <= srcs[s].amount
  <2>1. CASE row.source = s
    BY <1>3, <2>1
  <2>2. CASE row.source # s
    <3>1. PostedTotal(after, "source", s) = PostedTotal(rows, "source", s)
      BY <1>3, <1>4, <2>2
    <3>2. QED BY <3>1 DEF Sound
  <2>3. QED BY <2>1, <2>2
<1>8. QED
  BY <1>2, <1>5, <1>6, <1>7 DEF Sound, after

\* Unallocating keeps the tables sound.
LEMMA SoundVoid ==
  ASSUME NEW chs \in Seq(ChargeRow), NEW srcs \in Seq(SourceRow), NEW rows,
         Sound(chs, srcs, rows), NEW p \in 1..Len(rows)
  PROVE  Sound(chs, srcs, [rows EXCEPT ![p].status = "void"])
<1> DEFINE after == [rows EXCEPT ![p].status = "void"]
<1>1. rows \in Seq(AllocationRow)
  BY DEF Sound
<1>2. /\ after \in Seq(AllocationRow)
      /\ Len(after) = Len(rows)
      /\ \A i \in 1..Len(rows) : i # p => after[i] = rows[i]
      /\ after[p].status = "void"
      /\ after[p].charge = rows[p].charge
      /\ after[p].source = rows[p].source
  BY <1>1, VoidedRow
<1>3. \A end, id : /\ PostedTotal(after, end, id) <= PostedTotal(rows, end, id)
                   /\ PostedTotal(after, end, id) \in Nat
                   /\ PostedTotal(rows, end, id) \in Nat
  BY <1>1, <1>2, PostedTotalVoid, PostedTotalNat
<1>4. /\ \A c \in 1..Len(chs) : chs[c].amount \in Int
      /\ \A s \in 1..Len(srcs) : srcs[s].amount \in Int
  <2>1. ASSUME NEW c \in 1..Len(chs) PROVE chs[c].amount \in Int
    <3>1. chs[c] \in ChargeRow
      OBVIOUS
    <3>2. chs[c].amount \in ChargeAmounts
      BY <3>1 DEF ChargeRow
    <3>3. chs[c].amount \in Nat
      BY <3>2, ReceivablesAssumption
    <3>4. QED BY <3>3
  <2>2. ASSUME NEW s \in 1..Len(srcs) PROVE srcs[s].amount \in Int
    <3>1. srcs[s] \in SourceRow
      OBVIOUS
    <3>2. srcs[s].amount \in SourceAmounts
      BY <3>1 DEF SourceRow
    <3>3. srcs[s].amount \in Nat
      BY <3>2, ReceivablesAssumption
    <3>4. QED BY <3>3
  <2>3. QED BY <2>1, <2>2
<1> HIDE DEF after
<1>5. \A c \in 1..Len(chs) : PostedTotal(after, "charge", c) <= chs[c].amount
  BY <1>3, <1>4 DEF Sound
<1>6. \A s \in 1..Len(srcs) : PostedTotal(after, "source", s) <= srcs[s].amount
  BY <1>3, <1>4 DEF Sound
<1>7. QED
  BY <1>2, <1>5, <1>6 DEF Sound, after

\* A new charge has no allocations, so it is not over-allocated.
LEMMA SoundNewCharge ==
  ASSUME NEW chs \in Seq(ChargeRow), NEW srcs \in Seq(SourceRow), NEW rows,
         Sound(chs, srcs, rows), NEW row \in ChargeRow
  PROVE  Sound(Append(chs, row), srcs, rows)
<1> DEFINE more == Append(chs, row)
<1>1. /\ more \in Seq(ChargeRow) /\ Len(chs) \in Nat
      /\ Len(more) = Len(chs) + 1
      /\ more[Len(chs) + 1] = row
      /\ \A c \in 1..Len(chs) : more[c] = chs[c] /\ c \in 1..Len(more)
  OBVIOUS
<1> HIDE DEF more
<1>2. ASSUME NEW c \in 1..Len(more) PROVE PostedTotal(rows, "charge", c) <= more[c].amount
  <2>1. CASE c \in 1..Len(chs)
    BY <1>1, <2>1 DEF Sound
  <2>2. CASE c = Len(chs) + 1
    <3>1. \A i \in 1..Len(rows) : rows[i].charge # c
      BY <1>1, <2>2 DEF Sound
    <3>2. PostedTotal(rows, "charge", c) = 0
      BY <3>1, PostedTotalUnused DEF Sound
    <3>3. row.amount \in Nat
      BY ReceivablesAssumption DEF ChargeRow
    <3>4. QED BY <1>1, <2>2, <3>2, <3>3
  <2>3. QED BY <1>1, <2>1, <2>2
<1>3. QED
  BY <1>1, <1>2 DEF Sound, more

\* A new payment or credit has none either, and is wholly unapplied.
LEMMA SoundNewSource ==
  ASSUME NEW chs \in Seq(ChargeRow), NEW srcs \in Seq(SourceRow), NEW rows,
         Sound(chs, srcs, rows), NEW row \in SourceRow
  PROVE  /\ Sound(chs, Append(srcs, row), rows)
         /\ PostedTotal(rows, "source", Len(srcs) + 1) = 0
<1> DEFINE more == Append(srcs, row)
<1>1. /\ more \in Seq(SourceRow) /\ Len(srcs) \in Nat
      /\ Len(more) = Len(srcs) + 1
      /\ more[Len(srcs) + 1] = row
      /\ \A s \in 1..Len(srcs) : more[s] = srcs[s] /\ s \in 1..Len(more)
  OBVIOUS
<1> HIDE DEF more
<1>2. PostedTotal(rows, "source", Len(srcs) + 1) = 0
  <2>1. \A i \in 1..Len(rows) : rows[i].source # Len(srcs) + 1
    BY <1>1 DEF Sound
  <2>2. QED BY <2>1, PostedTotalUnused DEF Sound
<1>3. ASSUME NEW s \in 1..Len(more) PROVE PostedTotal(rows, "source", s) <= more[s].amount
  <2>1. CASE s \in 1..Len(srcs)
    BY <1>1, <2>1 DEF Sound
  <2>2. CASE s = Len(srcs) + 1
    <3>1. row.amount \in Nat
      BY ReceivablesAssumption DEF SourceRow
    <3>2. QED BY <1>1, <1>2, <2>2, <3>1
  <2>3. QED BY <1>1, <2>1, <2>2
<1>4. QED
  BY <1>1, <1>2, <1>3 DEF Sound, more

-----------------------------------------------------------------------------
\* In a sound state the clipping at zero in balance and unapplied_amount never
\* bites: both are plain differences.
LEMMA RowFacts ==
  ASSUME Tables, Sound(charges, sources, allocations)
  PROVE  /\ \A c \in 1..Len(charges) :
               /\ charges[c] \in ChargeRow
               /\ charges[c].amount \in Nat
               /\ Allocated(c) \in Nat
               /\ ChargeBalance(c) \in Nat
               /\ ChargeBalance(c) = charges[c].amount - Allocated(c)
         /\ \A s \in 1..Len(sources) :
               /\ sources[s] \in SourceRow
               /\ sources[s].amount \in Nat
               /\ Applied(s) \in Nat
               /\ Unapplied(s) \in Nat
               /\ sources[s].status = "posted" =>
                     Unapplied(s) = sources[s].amount - Applied(s)
<1>1. \A end, id : PostedTotal(allocations, end, id) \in Nat
  BY PostedTotalNat DEF Sound
<1>2. ASSUME NEW c \in 1..Len(charges)
      PROVE  /\ charges[c] \in ChargeRow
             /\ charges[c].amount \in Nat
             /\ Allocated(c) \in Nat
             /\ ChargeBalance(c) \in Nat
             /\ ChargeBalance(c) = charges[c].amount - Allocated(c)
  <2>1. charges[c] \in ChargeRow
    BY DEF Tables
  <2>2. charges[c].amount \in Nat
    BY <2>1, ReceivablesAssumption DEF ChargeRow
  <2>3. Allocated(c) <= charges[c].amount /\ Allocated(c) \in Nat
    BY <1>1 DEF Sound, Allocated
  <2>4. QED BY <2>1, <2>2, <2>3 DEF ChargeBalance, NotBelow0
<1>3. ASSUME NEW s \in 1..Len(sources)
      PROVE  /\ sources[s] \in SourceRow
             /\ sources[s].amount \in Nat
             /\ Applied(s) \in Nat
             /\ Unapplied(s) \in Nat
             /\ sources[s].status = "posted" =>
                   Unapplied(s) = sources[s].amount - Applied(s)
  <2>1. sources[s] \in SourceRow
    BY DEF Tables
  <2>2. sources[s].amount \in Nat
    BY <2>1, ReceivablesAssumption DEF SourceRow
  <2>3. Applied(s) <= sources[s].amount /\ Applied(s) \in Nat
    BY <1>1 DEF Sound, Applied
  <2>4. QED BY <2>1, <2>2, <2>3 DEF Unapplied, NotBelow0
<1>4. QED BY <1>2, <1>3

\* create_charge_for_user keeps the invariant.
LEMMA CreateChargeStep ==
  ASSUME IInv, NEW a \in Accounts, CreateCharge(a)
  PROVE  IInv'
<1>1. Tables /\ Sound(charges, sources, allocations)
  BY InvIsSound
<1>2. PICK amount \in ChargeAmounts, due \in Dates :
        charges' = Append(charges, [account |-> a, amount |-> amount, due |-> due])
  BY DEF CreateCharge
<1>3. [account |-> a, amount |-> amount, due |-> due] \in ChargeRow
  BY DEF ChargeRow
<1>4. Sound(charges', sources, allocations)
  BY <1>1, <1>2, <1>3, SoundNewCharge DEF Tables
<1>5. Tables'
  BY <1>1, <1>2, <1>3 DEF Tables, CreateCharge
<1>6. QED
  BY <1>4, <1>5, NextInvIsSound DEF CreateCharge

\* post_payment and post_credit keep it, with or without a charge to pay.
LEMMA PostSourceStep ==
  ASSUME IInv, NEW a \in Accounts, NEW kind \in {"payment", "credit"},
         NEW amount \in SourceAmounts, NEW ledger \in {"none", "posted"},
         NEW c \in {None} \union (1..Len(charges)),
         PostSource(a, kind, amount, ledger, c)
  PROVE  IInv'
<1> DEFINE row == [kind |-> kind, account |-> a, amount |-> amount,
                   status |-> "posted", ledger |-> ledger]
           s == Len(sources) + 1
           given == Least(ChargeBalance(c), amount)
<1>1. Tables /\ Sound(charges, sources, allocations)
  BY InvIsSound
<1>2. row \in SourceRow /\ amount \in Nat
  BY ReceivablesAssumption DEF SourceRow
<1>3. /\ sources' = Append(sources, row)
      /\ sources' \in Seq(SourceRow)
      /\ s \in 1..Len(sources') /\ s \in Nat
      /\ sources'[s] = row
      /\ UNCHANGED <<status, charges>>
  BY <1>1, <1>2 DEF PostSource, Tables
<1>4. Sound(charges, sources', allocations) /\ PostedTotal(allocations, "source", s) = 0
  BY <1>1, <1>2, <1>3, SoundNewSource DEF Tables
<1>5. Tables'
  BY <1>1, <1>3 DEF Tables
<1>6. Sound(charges, sources', allocations')
  <2>1. CASE c = None
    BY <2>1, <1>4 DEF PostSource
  <2>2. CASE c # None
    <3>1. /\ c \in 1..Len(charges)
          /\ charges[c].account = a
          /\ allocations' = allocations \o NewAllocation(s, c, given)
      BY <2>2 DEF PostSource
    <3>2. /\ charges[c].amount \in Nat /\ Allocated(c) \in Nat
          /\ ChargeBalance(c) \in Nat
          /\ ChargeBalance(c) = charges[c].amount - Allocated(c)
      BY <3>1, <1>1, RowFacts
    <3>3. given \in Nat /\ given <= ChargeBalance(c) /\ given <= amount
      BY <1>2, <3>2 DEF Least
    <3> HIDE DEF given
    <3>4. CASE given = 0
      <4>1. allocations' = allocations
        BY <3>1, <3>4, <1>1 DEF NewAllocation, Sound
      <4>2. QED BY <4>1, <1>4
    <3>5. CASE given # 0
      <4> DEFINE new == [charge |-> c, source |-> s, amount |-> given, status |-> "posted"]
      <4>1. /\ new \in AllocationRow /\ new.status = "posted" /\ new.charge = c
            /\ new.source = s /\ new.amount = given
        BY <3>1, <3>3, <3>5, <1>3 DEF AllocationRow
      <4>2. allocations' = Append(allocations, new)
        <5>1. given > 0
          BY <3>3, <3>5
        <5>2. allocations' = allocations \o <<new>>
          BY <3>1, <5>1 DEF NewAllocation
        <5>3. QED BY <5>2, <1>1 DEF Sound
      <4> HIDE DEF new
      <4>3. /\ PostedTotal(allocations, "charge", new.charge) + new.amount <= charges[c].amount
            /\ PostedTotal(allocations, "source", new.source) + new.amount <= row.amount
        BY <4>1, <3>2, <3>3, <1>2, <1>4 DEF Allocated
      <4>4. Sound(charges, sources', Append(allocations, new))
        <5>1. /\ sources'[new.source].status = "posted"
              /\ sources'[new.source].account = charges[new.charge].account
              /\ PostedTotal(allocations, "source", new.source) + new.amount
                   <= sources'[new.source].amount
          BY <4>1, <4>3, <3>1, <1>3
        <5>2. charges \in Seq(ChargeRow)
          BY <1>1 DEF Tables
        <5>3. QED BY <5>1, <5>2, <4>1, <4>3, <3>1, <1>3, <1>4, SoundAppend
      <4>5. QED BY <4>2, <4>4
    <3>6. QED BY <3>4, <3>5
  <2>3. QED BY <2>1, <2>2
<1>7. QED
  BY <1>3, <1>5, <1>6, NextInvIsSound

\* allocate_source keeps it, whatever amount is requested.
LEMMA AllocateStep ==
  ASSUME IInv, NEW s \in 1..Len(sources), NEW c \in 1..Len(charges),
         NEW requested \in {None} \union Amounts, Allocate(s, c, requested)
  PROVE  IInv'
<1> DEFINE available == Least(ChargeBalance(c), Unapplied(s))
           amount == IF requested = None THEN available ELSE Least(requested, available)
           new == [charge |-> c, source |-> s, amount |-> amount, status |-> "posted"]
<1>1. Tables /\ Sound(charges, sources, allocations)
  BY InvIsSound
<1>2. /\ sources[s].status = "posted"
      /\ charges[c].account = sources[s].account
      /\ amount > 0
      /\ allocations' = allocations \o NewAllocation(s, c, amount)
      /\ UNCHANGED <<status, charges, sources>>
  BY DEF Allocate
<1>3. /\ ChargeBalance(c) \in Nat /\ Unapplied(s) \in Nat
      /\ charges[c].amount \in Nat /\ Allocated(c) \in Nat
      /\ sources[s].amount \in Nat /\ Applied(s) \in Nat
      /\ ChargeBalance(c) = charges[c].amount - Allocated(c)
      /\ Unapplied(s) = sources[s].amount - Applied(s)
  BY <1>1, <1>2, RowFacts
<1>4. amount \in Nat /\ amount <= ChargeBalance(c) /\ amount <= Unapplied(s)
  <2>1. requested # None => requested \in Nat
    BY ReceivablesAssumption DEF Amounts
  <2>2. QED BY <1>3, <2>1 DEF Least
<1> HIDE DEF amount
<1>5. /\ new \in AllocationRow /\ new.status = "posted" /\ new.charge = c
      /\ new.source = s /\ new.amount = amount
  BY <1>1, <1>2, <1>4 DEF AllocationRow
<1>6. allocations' = Append(allocations, new)
  BY <1>1, <1>2 DEF NewAllocation, Sound
<1> HIDE DEF new
<1>7. /\ PostedTotal(allocations, "charge", new.charge) + new.amount <= charges[new.charge].amount
      /\ PostedTotal(allocations, "source", new.source) + new.amount <= sources[new.source].amount
  BY <1>3, <1>4, <1>5 DEF Allocated, Applied
<1>8. Sound(charges, sources, Append(allocations, new))
  <2>1. charges \in Seq(ChargeRow) /\ sources \in Seq(SourceRow)
    BY <1>1 DEF Tables
  <2>2. QED BY <2>1, <1>1, <1>2, <1>5, <1>7, SoundAppend
<1>9. Tables'
  BY <1>1, <1>2 DEF Tables
<1>10. QED
  BY <1>2, <1>6, <1>8, <1>9, NextInvIsSound

\* Unallocating keeps it.
LEMMA UnallocateStep ==
  ASSUME IInv, NEW i \in 1..Len(allocations), Unallocate(i)
  PROVE  IInv'
<1>1. Tables /\ Sound(charges, sources, allocations)
  BY InvIsSound
<1>2. /\ allocations' = [allocations EXCEPT ![i].status = "void"]
      /\ UNCHANGED <<status, charges, sources>>
  BY DEF Unallocate
<1>3. Sound(charges, sources, [allocations EXCEPT ![i].status = "void"])
  BY <1>1, SoundVoid DEF Tables
<1>4. Tables'
  BY <1>1, <1>2 DEF Tables
<1>5. QED
  BY <1>2, <1>3, <1>4, NextInvIsSound

\* A step that changes only the status and ledger of one source keeps the
\* invariant when a source that becomes void has no POSTED allocation.
LEMMA SourceUpdate ==
  ASSUME IInv, NEW s \in 1..Len(sources), NEW st \in {"posted", "void"},
         NEW ld \in {"none", "posted", "void"},
         sources' = [sources EXCEPT ![s].status = st, ![s].ledger = ld],
         UNCHANGED <<status, charges, allocations>>,
         st = "posted" \/ ~ \E i \in 1..Len(allocations) :
            allocations[i].source = s /\ allocations[i].status = "posted",
         sources[s].status = "posted" \/ st = sources[s].status
  PROVE  IInv'
<1>1. Tables /\ Sound(charges, sources, allocations)
  BY InvIsSound
<1> DEFINE row == [sources[s] EXCEPT !.status = st, !.ledger = ld]
<1>2. sources[s] \in SourceRow
  BY <1>1 DEF Tables
<1>3. /\ row \in SourceRow /\ row.status = st /\ row.account = sources[s].account
      /\ row.amount = sources[s].amount
  BY <1>2 DEF SourceRow
<1>4. sources' = [sources EXCEPT ![s] = row]
  OBVIOUS
<1> HIDE DEF row
<1>5. /\ sources' \in Seq(SourceRow)
      /\ Len(sources') = Len(sources)
      /\ sources'[s] = row
      /\ \A t \in 1..Len(sources) : t # s => sources'[t] = sources[t]
  <2>1. sources \in Seq(SourceRow)
    BY <1>1 DEF Tables
  <2> DEFINE after == [sources EXCEPT ![s] = row]
  <2>2. after \in Seq(SourceRow) /\ Len(after) = Len(sources) /\ after[s] = row
    BY <2>1, <1>3
  <2>3. \A t \in 1..Len(sources) : t # s => after[t] = sources[t]
    BY <2>1
  <2>4. sources' = after
    BY <1>4
  <2> HIDE DEF after
  <2>5. QED BY <2>2, <2>3, <2>4
<1>6. Tables'
  BY <1>1, <1>5 DEF Tables
<1>7. Sound(charges', sources', allocations')
  <2>1. \A t \in 1..Len(sources) : /\ sources'[t].account = sources[t].account
                                   /\ sources'[t].amount = sources[t].amount
    BY <1>3, <1>5
  <2>2. ASSUME NEW i \in 1..Len(allocations), allocations[i].status = "posted"
        PROVE  sources'[allocations[i].source].status = "posted"
    <3>1. sources[allocations[i].source].status = "posted" /\ allocations[i].source \in 1..Len(sources)
      BY <1>1, <2>2 DEF Sound
    <3>2. CASE allocations[i].source = s
      BY <1>3, <1>5, <2>2, <3>2
    <3>3. CASE allocations[i].source # s
      BY <1>5, <3>1, <3>3
    <3>4. QED BY <3>2, <3>3
  <2>3. QED BY <1>1, <1>5, <2>1, <2>2 DEF Sound
<1>8. QED
  BY <1>6, <1>7, NextInvIsSound

\* void_payment keeps it.
LEMMA VoidPaymentStep ==
  ASSUME IInv, NEW s \in 1..Len(sources), VoidPayment(s)
  PROVE  IInv'
<1> DEFINE ld == IF sources[s].ledger = "posted" THEN "void" ELSE sources[s].ledger
<1>1. sources[s] \in SourceRow
  BY DEF IInv, TypeOK
<1>2. ld \in {"none", "posted", "void"}
  BY <1>1 DEF SourceRow
<1>3. sources' = [sources EXCEPT ![s].status = "void", ![s].ledger = ld]
  BY <1>1 DEF VoidPayment, SourceRow, IInv, TypeOK
<1> HIDE DEF ld
<1>4. QED
  BY <1>2, <1>3, SourceUpdate DEF VoidPayment

\* Voiding the linked transaction keeps it: it touches the ledger status only.
LEMMA DirectLedgerVoidStep ==
  ASSUME IInv, NEW s \in 1..Len(sources), DirectLedgerVoid(s)
  PROVE  IInv'
<1>1. sources[s] \in SourceRow
  BY DEF IInv, TypeOK
<1> DEFINE st == sources[s].status
<1>2. st \in {"posted", "void"}
  BY <1>1 DEF SourceRow
<1>3. sources' = [sources EXCEPT ![s].status = st, ![s].ledger = "void"]
  BY <1>1 DEF DirectLedgerVoid, SourceRow, IInv, TypeOK
<1>4. st = "posted" \/ ~ \E i \in 1..Len(allocations) :
            allocations[i].source = s /\ allocations[i].status = "posted"
  BY DEF IInv, PostedAllocationsAreBacked
<1> HIDE DEF st
<1>5. QED
  BY <1>2, <1>3, <1>4, SourceUpdate DEF DirectLedgerVoid, st

\* Closing an account keeps it.
LEMMA CloseAccountStep ==
  ASSUME IInv, NEW a \in Accounts, CloseAccount(a)
  PROVE  IInv'
<1>1. Tables /\ Sound(charges, sources, allocations)
  BY InvIsSound
<1>2. Tables'
  BY <1>1 DEF Tables, CloseAccount
<1>3. QED
  BY <1>1, <1>2, NextInvIsSound DEF CloseAccount

-----------------------------------------------------------------------------
\* One turn of the loop of allocate_source_oldest, in numbers.
LEMMA TakeWhatIsLeft ==
  ASSUME NEW u \in Nat, NEW before \in Nat, NEW need \in Nat, need > 0,
         NotBelow0(u - before) > 0
  PROVE  /\ Least(need, NotBelow0(u - before)) \in Nat
         /\ Least(need, NotBelow0(u - before)) > 0
         /\ Least(need, NotBelow0(u - before)) <= need
         /\ NotBelow0(u - (before + need))
              = NotBelow0(u - before) - Least(need, NotBelow0(u - before))
         /\ NotBelow0(u - (before + need)) > 0 => Least(need, NotBelow0(u - before)) = need
  BY DEF Least, NotBelow0

\* A sequence that lists a finite set without repetition lists all of it.
LEMMA QueueIsComplete ==
  ASSUME NEW S, IsFiniteSet(S), NEW queue \in SetToSeqs(S)
  PROVE  \A c \in S : \E j \in 1..Len(queue) : c = queue[j]
<1>1. Cardinality(S) \in Nat
  BY FS_CardinalityType
<1>2. Len(queue) = Cardinality(S)
  BY <1>1 DEF SetToSeqs
<1>3. /\ queue \in [1..Len(queue) -> S]
      /\ \A i, j \in 1..Len(queue) : i # j => queue[i] # queue[j]
  BY <1>1, <1>2 DEF SetToSeqs
<1>4. queue \in Injection(1..Len(queue), S)
  BY <1>3 DEF Injection, IsInjective
<1>5. Cardinality(1..Len(queue)) = Cardinality(S)
  BY <1>1, <1>2, FS_Interval
<1>6. queue \in Surjection(1..Len(queue), S)
  BY <1>4, <1>5, FS_Injection
<1>7. QED
  BY <1>6 DEF Surjection

\* What OldestFirst says of a run of allocate_source_oldest.
ServedOldestFirst(s) ==
    /\ \A i \in Len(allocations) + 1 .. Len(allocations') : \A c \in OpenCharges(s) :
          LET d == allocations'[i].charge
          IN  (\/ charges[c].due < charges[d].due
               \/ charges[c].due = charges[d].due /\ c < d) => ChargeBalance(c)' = 0
    /\ Unapplied(s)' = 0 \/ OpenCharges(s)' = {}

\* The whole loop of allocate_source_oldest keeps the invariant: by induction
\* on the rows written so far, each of which fits what the ones before it left.
\* The same induction shows that the charges behind are paid as long as money
\* is left, and that no other charge has received anything.
LEMMA AllocateOldestStep ==
  ASSUME IInv, NEW s \in 1..Len(sources), AllocateOldest(s)
  PROVE  /\ IInv'
         /\ ServedOldestFirst(s)
         /\ \E rows \in Seq(AllocationRow) :
               /\ allocations' = allocations \o rows
               /\ \A i \in 1..Len(rows) : charges[rows[i].charge].account = sources[s].account
<1>1. Tables /\ Sound(charges, sources, allocations)
  BY InvIsSound
<1>2. PICK queue \in SetToSeqs(OpenCharges(s)) :
         LET need    == [i \in 1..Len(queue) |-> ChargeBalance(queue[i])]
             left(i) == NotBelow0(Unapplied(s) - SumTo(need, i))
         IN  /\ \A i, j \in 1..Len(queue) : i < j => Older(queue[i], queue[j])
             /\ \E n \in 1..Len(queue) :
                  /\ \A i \in 1..n : left(i - 1) > 0
                  /\ n = Len(queue) \/ left(n) = 0
                  /\ allocations' = allocations \o
                        [i \in 1..n |-> [charge |-> queue[i], source |-> s,
                                         amount |-> Least(need[i], left(i - 1)),
                                         status |-> "posted"]]
  BY DEF AllocateOldest
<1> DEFINE need    == [i \in 1..Len(queue) |-> ChargeBalance(queue[i])]
           left(i) == NotBelow0(Unapplied(s) - SumTo(need, i))
           new(i)  == [charge |-> queue[i], source |-> s,
                       amount |-> Least(need[i], left(i - 1)), status |-> "posted"]
<1>3. PICK n \in 1..Len(queue) :
         /\ \A i \in 1..n : left(i - 1) > 0
         /\ n = Len(queue) \/ left(n) = 0
         /\ allocations' = allocations \o [i \in 1..n |-> new(i)]
  BY <1>2
<1>4. /\ sources[s].status = "posted"
      /\ UNCHANGED <<status, charges, sources>>
      /\ Unapplied(s) \in Nat /\ Applied(s) \in Nat /\ sources[s].amount \in Nat
      /\ Unapplied(s) = sources[s].amount - Applied(s)
  BY <1>1, RowFacts DEF AllocateOldest
<1>5. /\ Len(queue) \in Nat /\ n \in Nat
      /\ \A i \in 1..Len(queue) : queue[i] \in OpenCharges(s)
      /\ \A i, j \in 1..Len(queue) : i # j => queue[i] # queue[j]
  <2>1. IsFiniteSet(OpenCharges(s))
    <3>1. IsFiniteSet(1..Len(charges)) /\ OpenCharges(s) \subseteq 1..Len(charges)
      BY <1>1, FS_Interval DEF OpenCharges, Tables
    <3>2. QED BY <3>1, FS_Subset
  <2>2. Cardinality(OpenCharges(s)) \in Nat
    BY <2>1, FS_CardinalityType
  <2>3. Len(queue) = Cardinality(OpenCharges(s))
    BY <2>2 DEF SetToSeqs
  <2>4. QED BY <2>2, <2>3 DEF SetToSeqs
<1>6. ASSUME NEW i \in 1..Len(queue)
      PROVE  /\ queue[i] \in 1..Len(charges)
             /\ charges[queue[i]].account = sources[s].account
             /\ need[i] \in Nat /\ need[i] > 0
             /\ need[i] = ChargeBalance(queue[i])
             /\ charges[queue[i]].amount \in Nat /\ Allocated(queue[i]) \in Nat
             /\ need[i] = charges[queue[i]].amount - Allocated(queue[i])
  <2>1. queue[i] \in OpenCharges(s) /\ need[i] = ChargeBalance(queue[i])
    BY <1>5
  <2>2. queue[i] \in 1..Len(charges) /\ ChargeBalance(queue[i]) > 0
        /\ charges[queue[i]].account = sources[s].account
    BY <2>1 DEF OpenCharges
  <2>3. QED BY <1>1, <2>1, <2>2, RowFacts
<1> HIDE DEF need
<1>7. ASSUME NEW k \in 0..Len(queue) PROVE SumTo(need, k) \in Nat
  <2>1. k \in Nat /\ \A i \in 1..k : need[i] \in Nat
    BY <1>5, <1>6
  <2>2. QED BY <2>1, SumToNat
<1>8. ASSUME NEW k \in 0..Len(queue) PROVE left(k) \in Nat
  BY <1>4, <1>7 DEF NotBelow0
<1>9. left(0) = Unapplied(s)
  BY <1>4, SumToZero DEF NotBelow0
<1>10. ASSUME NEW k \in Nat, k + 1 <= n
       PROVE  /\ new(k + 1).amount \in Nat /\ new(k + 1).amount > 0
              /\ new(k + 1).amount <= need[k + 1]
              /\ left(k + 1) = left(k) - new(k + 1).amount
              /\ left(k + 1) > 0 => new(k + 1).amount = need[k + 1]
  <2>1. k + 1 \in 1..n /\ (k + 1) - 1 = k /\ k + 1 \in 1..Len(queue)
        /\ k \in 0..Len(queue) /\ k + 1 \in 0..Len(queue)
    BY <1>5, <1>10
  <2>2. left(k) > 0 /\ left(k) \in Nat /\ SumTo(need, k) \in Nat
        /\ need[k + 1] \in Nat /\ need[k + 1] > 0
    BY <1>3, <1>6, <1>7, <1>8, <2>1
  <2>3. SumTo(need, k + 1) = SumTo(need, k) + need[k + 1]
    BY SumToStep
  <2>4. new(k + 1).amount = Least(need[k + 1], left(k))
    BY <2>1
  <2>5. /\ left(k) = NotBelow0(Unapplied(s) - SumTo(need, k))
        /\ left(k + 1) = NotBelow0(Unapplied(s) - (SumTo(need, k) + need[k + 1]))
    BY <2>3
  <2> HIDE DEF left, new
  <2>6. Unapplied(s) \in Nat /\ SumTo(need, k) \in Nat /\ need[k + 1] \in Nat
    BY <1>4, <2>2
  <2>7. need[k + 1] > 0 /\ NotBelow0(Unapplied(s) - SumTo(need, k)) > 0
    BY <2>2, <2>5
  <2>8. LET before == SumTo(need, k)
            given  == Least(need[k + 1], NotBelow0(Unapplied(s) - before))
        IN  /\ given \in Nat /\ given > 0
            /\ given <= need[k + 1]
            /\ NotBelow0(Unapplied(s) - (before + need[k + 1]))
                 = NotBelow0(Unapplied(s) - before) - given
            /\ NotBelow0(Unapplied(s) - (before + need[k + 1])) > 0 => given = need[k + 1]
    BY <2>6, <2>7, TakeWhatIsLeft
  <2>9. QED BY <2>4, <2>5, <2>8
<1> DEFINE rows(k) == allocations \o [i \in 1..k |-> new(i)]
           Progress(k) ==
              /\ Sound(charges, sources, rows(k))
              /\ PostedTotal(rows(k), "source", s) = Applied(s) + Unapplied(s) - left(k)
              /\ \A c \in 1..Len(charges) : (\A j \in 1..k : queue[j] # c) =>
                    PostedTotal(rows(k), "charge", c) = Allocated(c)
              /\ \A j \in 1..k : left(j) > 0 =>
                    PostedTotal(rows(k), "charge", queue[j]) = charges[queue[j]].amount
           S == {k \in Nat : k <= n => Progress(k)}
<1>11. 0 \in S
  <2>1. rows(0) = allocations
    BY <1>1 DEF Sound
  <2>2. Progress(0)
    <3> HIDE DEF left, rows
    <3> QED BY <1>1, <1>4, <1>9, <2>1 DEF Applied, Allocated
  <2>3. QED BY <2>2
<1>12. ASSUME NEW k \in Nat, k \in S PROVE k + 1 \in S
  <2> HIDE DEF Progress
  <2>1. SUFFICES ASSUME k + 1 <= n PROVE Progress(k + 1)
    OBVIOUS
  <2>2. Progress(k)
    BY <1>5, <1>12, <2>1
  <2> USE DEF Progress
  <2>3. /\ k + 1 \in 1..n /\ k + 1 \in 1..Len(queue)
        /\ k \in 0..Len(queue) /\ k + 1 \in 0..Len(queue)
    BY <1>5, <2>1
  <2> DEFINE row == new(k + 1)
  <2>4. /\ row \in AllocationRow /\ row.status = "posted"
        /\ row.charge = queue[k + 1] /\ row.source = s
        /\ row.amount \in Nat /\ row.amount > 0
        /\ row.amount <= need[k + 1]
        /\ left(k + 1) = left(k) - row.amount
        /\ left(k) \in Nat /\ left(k + 1) \in Nat
    <3>1. /\ row.amount \in Nat /\ row.amount > 0
          /\ row.amount <= need[k + 1]
          /\ left(k + 1) = left(k) - row.amount
      BY <1>10, <2>1
    <3>2. queue[k + 1] \in Nat /\ s \in Nat
      BY <1>6, <2>3
    <3>3. left(k) \in Nat /\ left(k + 1) \in Nat
      BY <1>8, <2>3
    <3> HIDE DEF left
    <3>4. row \in AllocationRow
      BY <3>1, <3>2 DEF AllocationRow
    <3>5. QED BY <3>1, <3>3, <3>4
  <2>5. rows(k + 1) = Append(rows(k), row)
    <3> HIDE DEF row, left
    <3>1. [i \in 1..(k + 1) |-> new(i)] = Append([i \in 1..k |-> new(i)], new(k + 1))
      OBVIOUS
    <3>2. QED BY <3>1, <1>1 DEF row, Sound
  <2> HIDE DEF row, rows, left, new, S
  <2>6. rows(k) \in Seq(AllocationRow)
    BY <2>2 DEF Sound
  <2>7. \A end, id : PostedTotal(rows(k + 1), end, id)
                       = PostedTotal(rows(k), end, id) + (IF row[end] = id THEN row.amount ELSE 0)
    <3>1. \A end, id : PostedTotal(Append(rows(k), row), end, id)
                       = PostedTotal(rows(k), end, id) + (IF row[end] = id THEN row.amount ELSE 0)
      BY <2>4, <2>6, PostedTotalAppend
    <3>2. QED BY <2>5, <3>1
  <2>8. \A end, id : PostedTotal(rows(k), end, id) \in Nat
    BY <2>6, PostedTotalNat
  <2>9. PostedTotal(rows(k), "charge", queue[k + 1]) = Allocated(queue[k + 1])
    <3>1. \A c \in 1..Len(charges) : (\A j \in 1..k : queue[j] # c) =>
             PostedTotal(rows(k), "charge", c) = Allocated(c)
      BY <2>2
    <3>2. queue[k + 1] \in 1..Len(charges)
      BY <1>6, <2>3
    <3>3. \A j \in 1..k : queue[j] # queue[k + 1]
      <4> TAKE j \in 1..k
      <4>1. j \in 1..Len(queue) /\ j # k + 1
        BY <2>3
      <4>2. QED BY <1>5, <2>3, <4>1
    <3>4. QED BY <3>1, <3>2, <3>3
  <2>10. /\ PostedTotal(rows(k), "charge", row.charge) + row.amount <= charges[row.charge].amount
        /\ PostedTotal(rows(k), "source", row.source) + row.amount <= sources[row.source].amount
    <3>1. PostedTotal(rows(k), "charge", queue[k + 1]) = Allocated(queue[k + 1])
      BY <2>9
    <3>2. /\ charges[queue[k + 1]].amount \in Nat /\ Allocated(queue[k + 1]) \in Nat
          /\ need[k + 1] = charges[queue[k + 1]].amount - Allocated(queue[k + 1])
      BY <1>6, <2>3
    <3>3. PostedTotal(rows(k), "source", s) = sources[s].amount - left(k)
      BY <1>4, <2>2, <2>4
    <3> HIDE DEF Progress
    <3>4. row.amount \in Nat /\ row.amount <= need[k + 1]
      BY <2>4
    <3>5. PostedTotal(rows(k), "charge", queue[k + 1]) + row.amount
            <= charges[queue[k + 1]].amount
      BY <3>1, <3>2, <3>4
    <3>6. /\ left(k) \in Nat /\ left(k + 1) \in Nat /\ sources[s].amount \in Nat
          /\ left(k + 1) = left(k) - row.amount
      BY <1>4, <2>4
    <3>7. PostedTotal(rows(k), "source", s) + row.amount <= sources[s].amount
      BY <3>3, <3>4, <3>6
    <3>8. row.charge = queue[k + 1] /\ row.source = s
      BY <2>4
    <3>9. QED BY <3>5, <3>7, <3>8
  <2>11. Sound(charges, sources, Append(rows(k), row))
    <3>1. charges \in Seq(ChargeRow) /\ sources \in Seq(SourceRow)
      BY <1>1 DEF Tables
    <3>2. /\ row.charge \in 1..Len(charges)
          /\ sources[row.source].account = charges[row.charge].account
          /\ sources[row.source].status = "posted"
          /\ row.source \in 1..Len(sources)
      BY <1>4, <1>6, <2>3, <2>4
    <3>3. QED BY <2>2, <2>4, <2>10, <3>1, <3>2, SoundAppend
  <2>12. PostedTotal(rows(k + 1), "source", s) = Applied(s) + Unapplied(s) - left(k + 1)
    <3>1. PostedTotal(rows(k + 1), "source", s) = PostedTotal(rows(k), "source", s) + row.amount
      BY <2>4, <2>7
    <3>2. PostedTotal(rows(k), "source", s) = Applied(s) + Unapplied(s) - left(k)
      BY <2>2
    <3> HIDE DEF Progress
    <3>3. /\ left(k) \in Nat /\ left(k + 1) \in Nat /\ row.amount \in Nat
          /\ left(k + 1) = left(k) - row.amount
          /\ Applied(s) \in Nat /\ Unapplied(s) \in Nat
      BY <1>4, <2>4
    <3>4. QED BY <3>1, <3>2, <3>3
  <2>13. ASSUME NEW c \in 1..Len(charges), \A j \in 1..(k + 1) : queue[j] # c
         PROVE  PostedTotal(rows(k + 1), "charge", c) = Allocated(c)
    <3>1. row.charge # c /\ \A j \in 1..k : queue[j] # c
      BY <2>4, <2>13
    <3>2. PostedTotal(rows(k + 1), "charge", c) = PostedTotal(rows(k), "charge", c)
      BY <2>7, <2>8, <3>1
    <3>3. QED BY <2>2, <3>1, <3>2
  <2>14. left(k + 1) > 0 => row.amount = need[k + 1]
    BY <1>10, <2>1, <2>3 DEF row
  <2>15. ASSUME NEW j \in 1..(k + 1), left(j) > 0
         PROVE  PostedTotal(rows(k + 1), "charge", queue[j]) = charges[queue[j]].amount
    <3>1. CASE j = k + 1
      <4>1. PostedTotal(rows(k), "charge", queue[j]) = Allocated(queue[j])
        BY <2>9, <3>1
      <4>2. row.charge = queue[j] /\ row.amount = need[j]
        BY <2>4, <2>14, <2>15, <3>1
      <4>3. /\ need[j] = charges[queue[j]].amount - Allocated(queue[j])
            /\ charges[queue[j]].amount \in Nat /\ Allocated(queue[j]) \in Nat
        BY <1>6, <2>3, <3>1
      <4>4. PostedTotal(rows(k + 1), "charge", queue[j])
              = PostedTotal(rows(k), "charge", queue[j]) + row.amount
        BY <2>7, <4>2
      <4> HIDE DEF Progress
      <4>5. QED BY <4>1, <4>2, <4>3, <4>4
    <3>2. CASE j # k + 1
      <4>1. j \in 1..k /\ j \in 1..Len(queue)
        BY <2>3, <3>2
      <4>2. row.charge # queue[j]
        BY <1>5, <2>3, <2>4, <3>2, <4>1
      <4>3. PostedTotal(rows(k + 1), "charge", queue[j]) = PostedTotal(rows(k), "charge", queue[j])
        BY <2>7, <2>8, <4>2
      <4>4. QED BY <2>2, <2>15, <4>1, <4>3
    <3>3. QED BY <3>1, <3>2
  <2>16. QED
    BY <2>5, <2>11, <2>12, <2>13, <2>15
<1> HIDE DEF S, Progress
<1>13. Nat \subseteq S
  BY <1>11, <1>12, NatSetInduction
<1>14. Progress(n)
  BY <1>5, <1>13 DEF S
<1>15. Sound(charges, sources, allocations')
  BY <1>3, <1>14 DEF Progress
<1>16. Tables'
  BY <1>1, <1>4 DEF Tables
<1>17. IInv'
  BY <1>4, <1>15, <1>16, NextInvIsSound
<1>18. \A c \in OpenCharges(s) : \E j \in 1..Len(queue) : c = queue[j]
  <2>1. IsFiniteSet(OpenCharges(s))
    <3>1. IsFiniteSet(1..Len(charges)) /\ OpenCharges(s) \subseteq 1..Len(charges)
      BY <1>1, FS_Interval DEF OpenCharges, Tables
    <3>2. QED BY <3>1, FS_Subset
  <2>2. QED BY <1>2, <2>1, QueueIsComplete
\* A charge before the last one that got a row, and the last one too if money
\* is left, is paid.
<1>19. ASSUME NEW j \in 1..n, left(j) > 0 PROVE ChargeBalance(queue[j])' = 0
  <2>1. PostedTotal(allocations', "charge", queue[j]) = charges[queue[j]].amount
    BY <1>3, <1>14, <1>19 DEF Progress
  <2>2. charges[queue[j]].amount \in Nat /\ charges' = charges
    <3>1. j \in 1..Len(queue)
      BY <1>5
    <3>2. QED BY <1>4, <1>6, <3>1
  <2>3. QED BY <2>1, <2>2 DEF ChargeBalance, Allocated, NotBelow0
<1>20. ASSUME NEW i \in Len(allocations) + 1 .. Len(allocations'), NEW c \in OpenCharges(s),
              \/ charges[c].due < charges[allocations'[i].charge].due
              \/ /\ charges[c].due = charges[allocations'[i].charge].due
                 /\ c < allocations'[i].charge
       PROVE  ChargeBalance(c)' = 0
  <2>1. PICK k \in 1..n : allocations'[i].charge = queue[k]
    <3> DEFINE more == [m \in 1..n |-> new(m)]
    <3>1. /\ allocations \in Seq(AllocationRow) /\ allocations' = allocations \o more
          /\ Len(more) = n /\ Len(allocations) \in Nat
          /\ \A m \in 1..n : more[m].charge = queue[m]
      BY <1>1, <1>3, <1>5 DEF Sound
    <3> HIDE DEF more
    <3>2. i - Len(allocations) \in 1..n /\ allocations'[i] = more[i - Len(allocations)]
      BY <1>5, <3>1
    <3>3. QED BY <3>1, <3>2
  <2>2. PICK j \in 1..Len(queue) : c = queue[j]
    BY <1>18
  <2>3. /\ \A x \in {queue[j], queue[k]} : x \in 1..Len(charges) /\ charges[x].due \in Nat
        /\ k \in 1..Len(queue)
    <3>1. \A x \in 1..Len(charges) : charges[x].due \in Nat
      <4> TAKE x \in 1..Len(charges)
      <4>1. charges[x] \in ChargeRow
        BY <1>1 DEF Tables
      <4>2. charges[x].due \in Dates
        BY <4>1 DEF ChargeRow
      <4>3. QED BY <4>2, ReceivablesAssumption
    <3>2. j \in 1..Len(queue) /\ k \in 1..Len(queue)
      BY <1>5
    <3>3. queue[j] \in 1..Len(charges) /\ queue[k] \in 1..Len(charges)
      BY <1>6, <3>2
    <3>4. QED BY <3>1, <3>2, <3>3
  <2>4. ~ (k < j)
    <3>1. SUFFICES ASSUME k < j PROVE FALSE
      OBVIOUS
    <3>2. Older(queue[k], queue[j])
      BY <1>2, <2>3, <3>1
    <3>3. QED BY <1>20, <2>1, <2>2, <2>3, <3>2 DEF Older
  <2>5. j # k
    BY <1>20, <2>1, <2>2, <2>3
  <2>6. j + 1 \in 1..n /\ (j + 1) - 1 = j /\ j \in 1..n
    BY <1>5, <2>4, <2>5
  <2>7. left(j) > 0
    <3>1. left((j + 1) - 1) > 0
      BY <1>3, <2>6
    <3>2. QED BY <2>6, <3>1
  <2>8. QED BY <1>19, <2>2, <2>6, <2>7
\* Either nothing is left, or the queue was served to its end.
<1>21. Unapplied(s)' = 0 \/ OpenCharges(s)' = {}
  <2>1. CASE left(n) = 0
    <3>1. PostedTotal(allocations', "source", s) = Applied(s) + Unapplied(s)
      BY <1>3, <1>4, <1>14, <2>1 DEF Progress
    <3>2. Unapplied(s)' = 0
      BY <1>4, <3>1 DEF Unapplied, Applied, NotBelow0
    <3>3. QED BY <3>2
  <2>2. CASE left(n) # 0
    <3>1. n = Len(queue)
      BY <1>3, <2>2
    <3>2. \A j \in 1..n : left(j) > 0
      <4> TAKE j \in 1..n
      <4>1. CASE j = n
        <5>1. left(j) \in Nat /\ left(j) # 0
          BY <1>5, <1>8, <2>2, <4>1
        <5> HIDE DEF left
        <5>2. QED BY <5>1
      <4>2. CASE j # n
        <5>1. j + 1 \in 1..n /\ (j + 1) - 1 = j
          BY <1>5, <4>2
        <5>2. left((j + 1) - 1) > 0
          BY <1>3, <5>1
        <5>3. QED BY <5>1, <5>2
      <4>3. QED BY <4>1, <4>2
    <3>3. ASSUME NEW c \in OpenCharges(s)' PROVE FALSE
      <4>1. /\ c \in 1..Len(charges) /\ ChargeBalance(c)' > 0
            /\ charges[c].account = sources[s].account
        BY <1>4, <3>3 DEF OpenCharges
      <4>2. c \notin OpenCharges(s)
        <5>1. ASSUME NEW j \in 1..n, c = queue[j] PROVE FALSE
          BY <1>19, <3>2, <4>1, <5>1
        <5>2. QED BY <1>18, <3>1, <5>1
      <4>3. ChargeBalance(c) = 0
        <5>1. ~ (ChargeBalance(c) > 0)
          BY <4>1, <4>2 DEF OpenCharges
        <5>2. ChargeBalance(c) \in Nat
          BY <1>1, <4>1, RowFacts
        <5>3. QED BY <5>1, <5>2
      <4>4. \A j \in 1..n : queue[j] # c
        BY <1>5, <3>1, <4>2
      <4>5. PostedTotal(allocations', "charge", c) = Allocated(c)
        BY <1>3, <1>14, <4>1, <4>4 DEF Progress
      <4>6. ChargeBalance(c)' = ChargeBalance(c)
        BY <1>4, <4>5 DEF ChargeBalance, Allocated
      <4>7. QED BY <4>1, <4>3, <4>6
    <3>4. QED BY <3>3
  <2>3. QED BY <2>1, <2>2
<1>22. ServedOldestFirst(s)
  BY <1>20, <1>21 DEF ServedOldestFirst
<1>23. \E more \in Seq(AllocationRow) :
         /\ allocations' = allocations \o more
         /\ \A i \in 1..Len(more) : charges[more[i].charge].account = sources[s].account
  <2> DEFINE more == [m \in 1..n |-> new(m)]
  <2>1. \A m \in 1..n : new(m) \in AllocationRow /\ new(m).charge = queue[m]
    <3> TAKE m \in 1..n
    <3>1. m - 1 \in Nat /\ (m - 1) + 1 = m /\ m \in 1..Len(queue)
      BY <1>5
    <3>2. new(m).amount \in Nat /\ new(m).amount > 0
      BY <1>5, <1>10, <3>1
    <3>3. queue[m] \in Nat /\ s \in Nat
      BY <1>6, <3>1
    <3> HIDE DEF left
    <3>4. QED BY <3>2, <3>3 DEF AllocationRow
  <2> HIDE DEF new
  <2>2. more \in Seq(AllocationRow) /\ Len(more) = n /\ \A m \in 1..n : more[m] = new(m)
    BY <1>5, <2>1
  <2>3. \A m \in 1..n : charges[queue[m]].account = sources[s].account
    BY <1>5, <1>6
  <2>4. allocations' = allocations \o more
    BY <1>3
  <2> HIDE DEF more
  <2>5. \A m \in 1..Len(more) : charges[more[m].charge].account = sources[s].account
    BY <2>1, <2>2, <2>3
  <2>6. QED BY <2>2, <2>4, <2>5
<1>24. QED
  BY <1>17, <1>22, <1>23

-----------------------------------------------------------------------------
\* The empty ledger satisfies the invariant.
LEMMA InitInv ==
  ASSUME Init PROVE IInv
<1>1. Tables
  BY DEF Init, Tables
<1>2. Sound(charges, sources, allocations)
  BY DEF Init, Sound
<1>3. QED BY <1>1, <1>2, InvIsSound

\* Every step keeps it.
LEMMA NextInv ==
  ASSUME IInv, [Next]_vars PROVE IInv'
<1>1. CASE UNCHANGED vars
  <2>1. Tables' /\ Sound(charges', sources', allocations')
    BY <1>1, InvIsSound DEF vars, Tables
  <2>2. QED BY <2>1, NextInvIsSound
<1>2. CASE \E a \in Accounts : CreateCharge(a)
  BY <1>2, CreateChargeStep
<1>3. CASE \E a \in Accounts : PostPayment(a)
  <2>1. PICK a \in Accounts, amount \in SourceAmounts, ledger \in {"none", "posted"},
             c \in {None} \union (1..Len(charges)) :
                PostSource(a, "payment", amount, ledger, c)
    BY <1>3 DEF PostPayment
  <2>2. QED BY <2>1, PostSourceStep
<1>4. CASE \E a \in Accounts : PostCredit(a)
  <2>1. PICK a \in Accounts, amount \in SourceAmounts, c \in {None} \union (1..Len(charges)) :
                PostSource(a, "credit", amount, "none", c)
    BY <1>4 DEF PostCredit
  <2>2. QED BY <2>1, PostSourceStep
<1>5. CASE \E a \in Accounts : CloseAccount(a)
  BY <1>5, CloseAccountStep
<1>6. CASE \E s \in 1..Len(sources) : \E c \in 1..Len(charges), requested \in {None} \union Amounts :
              Allocate(s, c, requested)
  BY <1>6, AllocateStep
<1>7. CASE \E s \in 1..Len(sources) : AllocateOldest(s)
  BY <1>7, AllocateOldestStep
<1>8. CASE \E s \in 1..Len(sources) : VoidPayment(s)
  BY <1>8, VoidPaymentStep
<1>9. CASE \E s \in 1..Len(sources) : DirectLedgerVoid(s)
  BY <1>9, DirectLedgerVoidStep
<1>10. CASE \E i \in 1..Len(allocations) : Unallocate(i)
  BY <1>10, UnallocateStep
<1>11. QED
  BY <1>1, <1>2, <1>3, <1>4, <1>5, <1>6, <1>7, <1>8, <1>9, <1>10 DEF Next

\* The inductive invariant holds in every reachable state.
THEOREM Invariance == Spec => []IInv
<1>1. Init => IInv
  BY InitInv
<1>2. IInv /\ [Next]_vars => IInv'
  BY NextInv
<1>3. QED
  BY <1>1, <1>2, PTL DEF Spec

\* Every table holds rows of its type and every allocation names rows that
\* exist, for any accounts, amounts and bounds.
THEOREM TypeCorrect == Spec => []TypeOK
<1>1. IInv => TypeOK
  BY DEF IInv
<1>2. QED
  BY <1>1, Invariance, PTL

\* No sequence of requests, each run by itself, pays a charge or spends a
\* payment or credit beyond its amount.
THEOREM NeverOverAllocated == Spec => []NoOverAllocation
<1>1. IInv => NoOverAllocation
  BY DEF IInv
<1>2. QED
  BY <1>1, Invariance, PTL

\* Every POSTED allocation comes from a POSTED source of the same account.
THEOREM AllocationsStayBacked == Spec => []PostedAllocationsAreBacked
<1>1. IInv => PostedAllocationsAreBacked
  BY DEF IInv
<1>2. QED
  BY <1>1, Invariance, PTL

-----------------------------------------------------------------------------
\* What a row of the allocation table moves
Moved(rows) == [i \in 1..Len(rows) |-> IF rows[i].status = "posted" THEN rows[i].amount ELSE 0]

\* The totals of the ids in keep, and what the rows naming one of them move.
KeptTotals(rows, end, m, keep) ==
    [x \in 1..m |-> IF x \in keep THEN PostedTotal(rows, end, x) ELSE 0]
KeptRows(rows, end, keep) ==
    [i \in 1..Len(rows) |-> IF rows[i][end] \in keep THEN Moved(rows)[i] ELSE 0]

\* Adding up the totals of the ids in keep is adding up the rows that name one.
LEMMA TotalsOfKept ==
  ASSUME NEW rows \in Seq(AllocationRow), NEW end, NEW m \in Nat, NEW keep,
         \A i \in 1..Len(rows) : rows[i][end] \in 1..m
  PROVE  SumTo(KeptTotals(rows, end, m, keep), m) = SumTo(KeptRows(rows, end, keep), Len(rows))
<1> DEFINE n   == Len(rows)
           f   == Moved(rows)
           key == [i \in 1..n |-> rows[i][end]]
<1>1. n \in Nat
  OBVIOUS
<1>2. ASSUME NEW i \in 1..n PROVE f[i] \in Int /\ key[i] \in 1..m
  <2>1. rows[i] \in AllocationRow
    OBVIOUS
  <2>2. rows[i].amount \in Nat
    BY <2>1 DEF AllocationRow
  <2>3. QED BY <2>2 DEF Moved
<1>3. SumTo(GroupSums(f, key, n, m, keep), m) = SumTo(KeptTerms(f, key, n, keep), n)
  <2> HIDE DEF f, key, n
  <2>1. QED BY <1>1, <1>2, SumByGroup
<1>4. ASSUME NEW x \in 1..m PROVE SumTo(Group(f, key, n, x), n) = PostedTotal(rows, end, x)
  <2>1. \A i \in 1..n : Group(f, key, n, x)[i] = PostedShare(rows, end, x)[i]
    BY DEF Group, PostedShare, Moved
  <2> HIDE DEF f, key
  <2>2. SumTo(Group(f, key, n, x), n) = SumTo(PostedShare(rows, end, x), n)
    BY <1>1, <2>1, SumToExtensional
  <2>3. QED BY <2>2 DEF PostedTotal
<1>5. GroupSums(f, key, n, m, keep) = KeptTotals(rows, end, m, keep)
  BY <1>4 DEF GroupSums, KeptTotals
<1>6. KeptTerms(f, key, n, keep) = KeptRows(rows, end, keep)
  BY DEF KeptTerms, KeptRows
<1>7. QED
  BY <1>3, <1>5, <1>6

\* Conservation needs no induction of its own: it is a consequence of the
\* invariant.  What the charges of an account have received and what its
\* sources have spent are two ways of adding up the same rows.
LEMMA BalanceFollowsFromInv ==
  ASSUME IInv PROVE BalanceIsConserved
<1>1. Tables /\ Sound(charges, sources, allocations)
  BY InvIsSound
<1>2. SUFFICES ASSUME NEW a \in Accounts PROVE Balance(a) = Charged(a) - Received(a)
  BY DEF BalanceIsConserved
<1> DEFINE nc == Len(charges)
           ns == Len(sources)
           n  == Len(allocations)
           owed  == [c \in 1..nc |-> IF charges[c].account = a THEN charges[c].amount ELSE 0]
           due   == [c \in 1..nc |-> IF charges[c].account = a THEN ChargeBalance(c) ELSE 0]
           paid  == [c \in 1..nc |-> IF charges[c].account = a THEN Allocated(c) ELSE 0]
           got   == [s \in 1..ns |-> IF sources[s].account = a /\ sources[s].status = "posted"
                                     THEN sources[s].amount ELSE 0]
           spare == [s \in 1..ns |-> IF sources[s].account = a THEN Unapplied(s) ELSE 0]
           spent == [s \in 1..ns |-> IF sources[s].account = a THEN Applied(s) ELSE 0]
<1>3. nc \in Nat /\ ns \in Nat /\ n \in Nat /\ allocations \in Seq(AllocationRow)
  BY <1>1 DEF Tables, Sound
<1>4. ASSUME NEW c \in 1..nc
      PROVE owed[c] \in Int /\ paid[c] \in Int /\ due[c] = owed[c] - paid[c]
  BY <1>1, RowFacts
<1>5. SumTo(due, nc) = SumTo(owed, nc) - SumTo(paid, nc)
  <2> HIDE DEF owed, due, paid, nc
  <2> QED BY <1>3, <1>4, SumToPointwise
<1>6. ASSUME NEW s \in 1..ns
      PROVE got[s] \in Int /\ spent[s] \in Int /\ spare[s] = got[s] - spent[s]
  <2>1. /\ sources[s].amount \in Nat /\ Applied(s) \in Nat
        /\ sources[s].status = "posted" => Unapplied(s) = sources[s].amount - Applied(s)
    BY <1>1, RowFacts
  <2>2. CASE sources[s].status = "posted"
    BY <2>1, <2>2
  <2>3. CASE sources[s].status # "posted"
    <3>1. \A i \in 1..Len(allocations) :
             ~ (allocations[i].status = "posted" /\ allocations[i].source = s)
      BY <1>1, <2>3 DEF Sound
    <3>2. Applied(s) = 0
      BY <1>3, <3>1, PostedTotalUnused DEF Applied
    <3>3. Unapplied(s) = 0
      BY <2>3 DEF Unapplied
    <3>4. QED BY <2>3, <3>2, <3>3
  <2>4. QED BY <2>2, <2>3
<1>7. SumTo(spare, ns) = SumTo(got, ns) - SumTo(spent, ns)
  <2> HIDE DEF got, spare, spent, ns
  <2> QED BY <1>3, <1>6, SumToPointwise
<1>8. SumTo(paid, nc) = SumTo(spent, ns)
  <2> DEFINE myCharges == {c \in 1..nc : charges[c].account = a}
             mySources == {s \in 1..ns : sources[s].account = a}
             byCharge  == KeptRows(allocations, "charge", myCharges)
             bySource  == KeptRows(allocations, "source", mySources)
  <2>1. SumTo(paid, nc) = SumTo(byCharge, n)
    <3>1. paid = KeptTotals(allocations, "charge", nc, myCharges)
      BY DEF Allocated, KeptTotals
    <3>2. \A i \in 1..Len(allocations) : allocations[i]["charge"] \in 1..nc
      BY <1>1 DEF Sound
    <3> HIDE DEF paid, myCharges, nc
    <3>3. QED BY <1>3, <3>1, <3>2, TotalsOfKept
  <2>2. SumTo(spent, ns) = SumTo(bySource, n)
    <3>1. spent = KeptTotals(allocations, "source", ns, mySources)
      BY DEF Applied, KeptTotals
    <3>2. \A i \in 1..Len(allocations) : allocations[i]["source"] \in 1..ns
      BY <1>1 DEF Sound
    <3> HIDE DEF spent, mySources, ns
    <3>3. QED BY <1>3, <3>1, <3>2, TotalsOfKept
  <2>3. \A i \in 1..n : byCharge[i] = bySource[i]
    <3> TAKE i \in 1..n
    <3>1. CASE allocations[i].status = "posted"
      BY <1>1, <3>1 DEF Sound, KeptRows
    <3>2. CASE allocations[i].status # "posted"
      BY <3>2 DEF Moved, KeptRows
    <3>3. QED BY <3>1, <3>2
  <2> HIDE DEF byCharge, bySource
  <2>4. SumTo(byCharge, n) = SumTo(bySource, n)
    BY <1>3, <2>3, SumToExtensional
  <2>5. QED BY <2>1, <2>2, <2>4
<1>9. /\ SumTo(owed, nc) \in Int /\ SumTo(paid, nc) \in Int
      /\ SumTo(got, ns) \in Int /\ SumTo(spent, ns) \in Int
  <2> HIDE DEF owed, due, paid, got, spare, spent, nc, ns
  <2> QED BY <1>3, <1>4, <1>6, SumToType
<1>10. /\ AmountDue(a) = SumTo(due, nc) /\ UnappliedTotal(a) = SumTo(spare, ns)
       /\ Charged(a) = SumTo(owed, nc) /\ Received(a) = SumTo(got, ns)
  BY DEF AmountDue, UnappliedTotal, Charged, Received
<1> HIDE DEF owed, due, paid, got, spare, spent, nc, ns
<1>11. QED
  BY <1>5, <1>7, <1>8, <1>9, <1>10 DEF Balance

\* The balance shown for an account is always what was charged less what was
\* received and not voided.
THEOREM BalanceConserved == Spec => []BalanceIsConserved
<1>1. IInv => BalanceIsConserved
  BY BalanceFollowsFromInv
<1>2. QED
  BY <1>1, Invariance, PTL

-----------------------------------------------------------------------------
\* "Apply an unapplied payment or credit to oldest outstanding posted charges":
\* for every queue of open charges, a charge receives money only when all older
\* ones are then paid, and money stays unapplied only when no charge is open.
THEOREM ServesOldestFirst == Spec => OldestFirst
<1>1. IInv /\ [Next]_vars =>
         [\A s \in 1..Len(sources) : AllocateOldest(s) => ServedOldestFirst(s)]_vars
  BY AllocateOldestStep
<1>2. QED
  BY <1>1, Invariance, PTL DEF Spec, OldestFirst, ServedOldestFirst

-----------------------------------------------------------------------------
\* What ClosedAccountsOnlyUnwind says of a step for a closed account.
OnlyUnwinds(a) ==
    /\ \A c \in Len(charges) + 1 .. Len(charges') : charges'[c].account # a
    /\ \A s \in Len(sources) + 1 .. Len(sources') : sources'[s].account # a
    /\ \A i \in Len(allocations) + 1 .. Len(allocations') :
          charges'[allocations'[i].charge].account # a
    /\ Received(a)' <= Received(a)

\* Every amount received is a number.
LEMMA ReceivedInt ==
  ASSUME IInv, NEW a PROVE Received(a) \in Int
<1> DEFINE got == [s \in 1..Len(sources) |->
                      IF sources[s].account = a /\ sources[s].status = "posted"
                      THEN sources[s].amount ELSE 0]
<1>1. Tables /\ Sound(charges, sources, allocations)
  BY InvIsSound
<1>2. Len(sources) \in Nat
  BY <1>1 DEF Tables
<1>3. \A s \in 1..Len(sources) : got[s] \in Int
  BY <1>1, RowFacts
<1>4. Received(a) = SumTo(got, Len(sources))
  BY DEF Received
<1> HIDE DEF got
<1>5. QED
  BY <1>2, <1>3, <1>4, SumToType

\* A table that does not grow has no new rows.
LEMMA NothingNew ==
  ASSUME NEW n \in Nat PROVE n + 1 .. n = {}
  OBVIOUS

\* A step that leaves the sources alone receives nothing.
LEMMA SourcesStay ==
  ASSUME IInv, NEW a, UNCHANGED sources
  PROVE  /\ \A s \in Len(sources) + 1 .. Len(sources') : sources'[s].account # a
         /\ Received(a)' <= Received(a)
<1>1. Len(sources) \in Nat
  BY InvIsSound DEF Tables
<1>2. Received(a)' = Received(a)
  BY DEF Received
<1>3. Received(a) \in Int
  BY ReceivedInt
<1>4. QED
  BY <1>1, <1>2, <1>3, NothingNew

\* A source of another account adds nothing to what an account has received.
LEMMA OthersSource ==
  ASSUME IInv, NEW a, NEW row, row.account # a, sources' = Append(sources, row)
  PROVE  /\ \A s \in Len(sources) + 1 .. Len(sources') : sources'[s].account # a
         /\ Received(a)' <= Received(a)
<1> DEFINE n == Len(sources)
           got  == [s \in 1..Len(sources) |->
                      IF sources[s].account = a /\ sources[s].status = "posted"
                      THEN sources[s].amount ELSE 0]
           more == [s \in 1..Len(sources') |->
                      IF sources'[s].account = a /\ sources'[s].status = "posted"
                      THEN sources'[s].amount ELSE 0]
<1>1. /\ n \in Nat /\ Len(sources') = n + 1
      /\ sources'[n + 1] = row
      /\ \A s \in 1..n : sources'[s] = sources[s]
  BY InvIsSound DEF Tables
<1>2. more[n + 1] = 0 /\ \A s \in 1..n : more[s] = got[s]
  BY <1>1
<1>3. Received(a) = SumTo(got, n) /\ Received(a)' = SumTo(more, n + 1)
  BY <1>1 DEF Received
<1>4. Received(a) \in Int
  BY ReceivedInt
<1> HIDE DEF got, more
<1>5. SumTo(more, n + 1) = SumTo(more, n) + more[n + 1]
  BY <1>1, SumToStep
<1>6. SumTo(more, n) = SumTo(got, n)
  BY <1>1, <1>2, SumToExtensional
<1>7. Received(a)' <= Received(a)
  BY <1>2, <1>3, <1>4, <1>5, <1>6
<1>8. \A s \in n + 1 .. Len(sources') : s = n + 1
  BY <1>1
<1>9. QED
  BY <1>1, <1>7, <1>8

\* Neither does a source that keeps its account and amount, and is not posted
\* anew.
LEMMA SourceOnlyFalls ==
  ASSUME IInv, NEW a, NEW s \in 1..Len(sources), NEW row, sources' = [sources EXCEPT ![s] = row],
         row.account = sources[s].account, row.amount = sources[s].amount,
         row.status = "posted" => sources[s].status = "posted"
  PROVE  /\ \A t \in Len(sources) + 1 .. Len(sources') : sources'[t].account # a
         /\ Received(a)' <= Received(a)
<1> DEFINE n == Len(sources)
           got  == [t \in 1..Len(sources) |->
                      IF sources[t].account = a /\ sources[t].status = "posted"
                      THEN sources[t].amount ELSE 0]
           left == [t \in 1..Len(sources') |->
                      IF sources'[t].account = a /\ sources'[t].status = "posted"
                      THEN sources'[t].amount ELSE 0]
<1>1. /\ n \in Nat /\ Len(sources') = n
      /\ sources'[s] = row
      /\ \A t \in 1..n : t # s => sources'[t] = sources[t]
  <2>1. sources \in Seq(SourceRow)
    BY InvIsSound DEF Tables
  <2>2. QED BY <2>1
<1>2. \A t \in 1..n : sources[t].amount \in Nat
  BY InvIsSound, RowFacts
<1>3. /\ \A t \in 1..n : t # s => left[t] = got[t]
      /\ \A t \in 1..n : got[t] \in Int /\ left[t] \in Int
      /\ left[s] <= got[s]
  BY <1>1, <1>2
<1>4. Received(a) = SumTo(got, n) /\ Received(a)' = SumTo(left, n)
  BY <1>1 DEF Received
<1> HIDE DEF got, left, n
<1>5. SumTo(left, n) = SumTo(got, n) + left[s] - got[s]
  <2>1. s \in 1..n
    BY DEF n
  <2>2. n \in Nat
    BY <1>1
  <2>3. /\ \A t \in 1..n : got[t] \in Int /\ left[t] \in Int
        /\ \A t \in 1..n : t # s => left[t] = got[t]
    BY <1>3
  <2>4. QED BY <2>1, <2>2, <2>3, SumToChange
<1>6. SumTo(got, n) \in Int /\ left[s] \in Int /\ got[s] \in Int
  BY <1>1, <1>3, SumToType
<1>7. Received(a)' <= Received(a)
  BY <1>3, <1>4, <1>5, <1>6
<1>8. QED
  BY <1>1, <1>7, NothingNew DEF n

\* A step that adds neither charges nor allocations is judged by its sources.
LEMMA OnlySources ==
  ASSUME IInv, NEW a, charges' = charges, Len(allocations') = Len(allocations),
         \A s \in Len(sources) + 1 .. Len(sources') : sources'[s].account # a,
         Received(a)' <= Received(a)
  PROVE  OnlyUnwinds(a)
<1>1. Len(charges) \in Nat /\ Len(allocations) \in Nat
  BY InvIsSound DEF Tables, Sound
<1>2. /\ Len(charges) + 1 .. Len(charges') = {}
      /\ Len(allocations) + 1 .. Len(allocations') = {}
  BY <1>1, NothingNew
<1>3. QED
  BY <1>2 DEF OnlyUnwinds

\* Posting to an account is no activity of another.
LEMMA PostSourceUnwinds ==
  ASSUME IInv, NEW a \in Accounts, status[a] = "closed", NEW b \in Accounts, NEW kind,
         NEW amount \in SourceAmounts, NEW ledger,
         NEW c \in {None} \union (1..Len(charges)), PostSource(b, kind, amount, ledger, c)
  PROVE  OnlyUnwinds(a)
<1> DEFINE row == [kind |-> kind, account |-> b, amount |-> amount,
                   status |-> "posted", ledger |-> ledger]
           given == Least(ChargeBalance(c), amount)
           new == [charge |-> c, source |-> Len(sources) + 1, amount |-> given,
                   status |-> "posted"]
<1>1. Tables /\ Sound(charges, sources, allocations)
  BY InvIsSound
<1>2. b # a
  BY DEF PostSource, Active
<1>3. /\ \A s \in Len(sources) + 1 .. Len(sources') : sources'[s].account # a
      /\ Received(a)' <= Received(a)
  <2>1. sources' = Append(sources, row) /\ row.account = b
    BY DEF PostSource
  <2> HIDE DEF row
  <2>2. QED BY <1>2, <2>1, OthersSource
<1>4. charges' = charges
  BY DEF PostSource
<1>5. CASE allocations' = allocations
  BY <1>3, <1>4, <1>5, OnlySources
<1>6. CASE allocations' # allocations
  <2>1. c # None
    BY <1>6 DEF PostSource
  <2>2. charges[c].account = b /\ allocations' = allocations \o NewAllocation(Len(sources) + 1, c, given)
    BY <2>1 DEF PostSource
  <2>3. NewAllocation(Len(sources) + 1, c, given) # <<>>
    BY <1>1, <1>6, <2>2 DEF Sound
  <2>4. NewAllocation(Len(sources) + 1, c, given) = <<new>>
    BY <2>3 DEF NewAllocation
  <2>5. new.charge = c
    OBVIOUS
  <2> HIDE DEF new
  <2>6. allocations' = allocations \o <<new>>
    BY <2>2, <2>4
  <2>7. \A i \in Len(allocations) + 1 .. Len(allocations') : allocations'[i] = new
    <3>1. allocations \in Seq(AllocationRow)
      BY <1>1 DEF Sound
    <3>2. QED BY <2>6, <3>1
  <2>8. \A i \in Len(charges) + 1 .. Len(charges') : FALSE
    <3>1. Len(charges) \in Nat
      BY <1>1 DEF Tables
    <3>2. QED BY <3>1, <1>4
  <2>9. \A i \in Len(allocations) + 1 .. Len(allocations') :
           charges'[allocations'[i].charge].account # a
    BY <1>2, <1>4, <2>2, <2>5, <2>7
  <2>10. QED BY <1>3, <2>8, <2>9 DEF OnlyUnwinds
<1>7. QED
  BY <1>5, <1>6

\* A step for one source, of an active account, that appends rows for charges
\* of the same account is no activity of a closed one.
LEMMA AllocatingUnwinds ==
  ASSUME IInv, NEW a \in Accounts, status[a] = "closed",
         NEW b, status[b] = "active", NEW rows \in Seq(AllocationRow),
         UNCHANGED <<charges, sources>>, allocations' = allocations \o rows,
         \A i \in 1..Len(rows) : charges[rows[i].charge].account = b
  PROVE  OnlyUnwinds(a)
<1>1. Tables /\ Sound(charges, sources, allocations)
  BY InvIsSound
<1>2. /\ \A s \in Len(sources) + 1 .. Len(sources') : sources'[s].account # a
      /\ Received(a)' <= Received(a)
  BY SourcesStay
<1>3. Len(charges) + 1 .. Len(charges') = {}
  BY <1>1, NothingNew DEF Tables
<1>4. ASSUME NEW i \in Len(allocations) + 1 .. Len(allocations')
      PROVE  charges'[allocations'[i].charge].account # a
  <2>1. /\ allocations \in Seq(AllocationRow)
        /\ Len(allocations) \in Nat /\ Len(rows) \in Nat
        /\ Len(allocations') = Len(allocations) + Len(rows)
    BY <1>1 DEF Sound
  <2>2. i - Len(allocations) \in 1..Len(rows) /\ allocations'[i] = rows[i - Len(allocations)]
    BY <2>1
  <2>3. QED BY <2>2
<1>5. QED
  BY <1>2, <1>3, <1>4 DEF OnlyUnwinds

\* A step that changes status and ledger of one source, and posts none, adds
\* nothing.
LEMMA UpdateUnwinds ==
  ASSUME IInv, NEW a, NEW s \in 1..Len(sources), NEW st, NEW ld,
         sources' = [sources EXCEPT ![s].status = st, ![s].ledger = ld],
         UNCHANGED <<charges, allocations>>,
         st = "posted" => sources[s].status = "posted"
  PROVE  OnlyUnwinds(a)
<1> DEFINE row == [sources[s] EXCEPT !.status = st, !.ledger = ld]
<1>1. sources[s] \in SourceRow
  BY InvIsSound DEF Tables
<1>2. row.status = st /\ row.account = sources[s].account /\ row.amount = sources[s].amount
  BY <1>1 DEF SourceRow
<1>3. sources' = [sources EXCEPT ![s] = row]
  OBVIOUS
<1> HIDE DEF row
<1>4. /\ \A t \in Len(sources) + 1 .. Len(sources') : sources'[t].account # a
      /\ Received(a)' <= Received(a)
  BY <1>2, <1>3, SourceOnlyFalls
<1>5. QED
  BY <1>4, OnlySources

\* So every step leaves a closed account without new activity.
LEMMA ClosedUnwinds ==
  ASSUME IInv, [Next]_vars, NEW a \in Accounts, status[a] = "closed"
  PROVE  OnlyUnwinds(a)
<1>1. Tables /\ Sound(charges, sources, allocations)
  BY InvIsSound
<1>2. CASE UNCHANGED <<charges, sources>> /\ Len(allocations') = Len(allocations)
  BY <1>2, SourcesStay, OnlySources
<1>3. CASE UNCHANGED vars
  BY <1>2, <1>3 DEF vars
<1>4. CASE \E b \in Accounts : CreateCharge(b)
  <2>1. PICK b \in Accounts : CreateCharge(b)
    BY <1>4
  <2>2. PICK amount \in ChargeAmounts, due \in Dates :
           charges' = Append(charges, [account |-> b, amount |-> amount, due |-> due])
    BY <2>1 DEF CreateCharge
  <2>3. b # a /\ UNCHANGED <<sources, allocations>>
    BY <2>1 DEF CreateCharge, Active
  <2>4. \A c \in Len(charges) + 1 .. Len(charges') : charges'[c].account # a
    <3> DEFINE row == [account |-> b, amount |-> amount, due |-> due]
    <3>1. row.account = b /\ charges' = Append(charges, row) /\ charges \in Seq(ChargeRow)
      BY <1>1, <2>2 DEF Tables
    <3> HIDE DEF row
    <3>2. \A c \in Len(charges) + 1 .. Len(charges') : charges'[c] = row
      BY <3>1
    <3>3. QED BY <2>3, <3>1, <3>2
  <2>5. /\ \A s \in Len(sources) + 1 .. Len(sources') : sources'[s].account # a
        /\ Received(a)' <= Received(a)
    BY <2>3, SourcesStay
  <2>6. Len(allocations) + 1 .. Len(allocations') = {}
    BY <1>1, <2>3, NothingNew DEF Sound
  <2>7. QED BY <2>4, <2>5, <2>6 DEF OnlyUnwinds
<1>5. CASE \E b \in Accounts : PostPayment(b)
  BY <1>5, PostSourceUnwinds DEF PostPayment
<1>6. CASE \E b \in Accounts : PostCredit(b)
  BY <1>6, PostSourceUnwinds DEF PostCredit
<1>7. CASE \E b \in Accounts : CloseAccount(b)
  BY <1>2, <1>7 DEF CloseAccount
<1>8. CASE \E s \in 1..Len(sources) : \E c \in 1..Len(charges), requested \in {None} \union Amounts :
              Allocate(s, c, requested)
  <2>1. PICK s \in 1..Len(sources), c \in 1..Len(charges), requested \in {None} \union Amounts :
              Allocate(s, c, requested)
    BY <1>8
  <2> DEFINE available == Least(ChargeBalance(c), Unapplied(s))
             amount == IF requested = None THEN available ELSE Least(requested, available)
             new == [charge |-> c, source |-> s, amount |-> amount, status |-> "posted"]
  <2>2. /\ status[sources[s].account] = "active"
        /\ charges[c].account = sources[s].account
        /\ amount > 0
        /\ allocations' = allocations \o NewAllocation(s, c, amount)
        /\ UNCHANGED <<charges, sources>>
    BY <2>1 DEF Allocate, Active
  <2>3. amount \in Nat
    <3>1. requested # None => requested \in Nat
      BY ReceivablesAssumption DEF Amounts
    <3>2. ChargeBalance(c) \in Nat /\ Unapplied(s) \in Nat
      BY <1>1, RowFacts
    <3>3. QED BY <3>1, <3>2 DEF Least
  <2> HIDE DEF amount
  <2>4. new \in AllocationRow /\ new.charge = c /\ NewAllocation(s, c, amount) = <<new>>
    BY <1>1, <2>2, <2>3 DEF AllocationRow, NewAllocation
  <2> HIDE DEF new
  <2>5. \A i \in 1..Len(<<new>>) : charges[<<new>>[i].charge].account = sources[s].account
    BY <2>2, <2>4
  <2>6. <<new>> \in Seq(AllocationRow) /\ allocations' = allocations \o <<new>>
    BY <2>2, <2>4
  <2>7. UNCHANGED <<charges, sources>> /\ status[sources[s].account] = "active"
    BY <2>2
  <2>8. QED BY <2>5, <2>6, <2>7, AllocatingUnwinds
<1>9. CASE \E s \in 1..Len(sources) : AllocateOldest(s)
  <2>1. PICK s \in 1..Len(sources) : AllocateOldest(s)
    BY <1>9
  <2>2. status[sources[s].account] = "active" /\ UNCHANGED <<charges, sources>>
    BY <2>1 DEF AllocateOldest, Active
  <2>3. QED BY <2>2, <2>1, AllocateOldestStep, AllocatingUnwinds
<1>10. CASE \E s \in 1..Len(sources) : VoidPayment(s)
  <2>1. PICK s \in 1..Len(sources) : VoidPayment(s)
    BY <1>10
  <2> DEFINE ld == IF sources[s].ledger = "posted" THEN "void" ELSE sources[s].ledger
  <2>2. sources' = [sources EXCEPT ![s].status = "void", ![s].ledger = ld]
    BY <1>1, <2>1 DEF VoidPayment, SourceRow, Tables
  <2>3. UNCHANGED <<charges, allocations>>
    BY <2>1 DEF VoidPayment
  <2> HIDE DEF ld
  <2>4. "void" = "posted" => sources[s].status = "posted"
    OBVIOUS
  <2>5. QED BY <2>2, <2>3, <2>4, UpdateUnwinds
<1>11. CASE \E s \in 1..Len(sources) : DirectLedgerVoid(s)
  <2>1. PICK s \in 1..Len(sources) : DirectLedgerVoid(s)
    BY <1>11
  <2> DEFINE st == sources[s].status
  <2>2. sources[s] \in SourceRow
    BY <1>1 DEF Tables
  <2>3. sources' = [sources EXCEPT ![s].status = st, ![s].ledger = "void"]
    BY <1>1, <2>1, <2>2 DEF DirectLedgerVoid, SourceRow, Tables
  <2>4. UNCHANGED <<charges, allocations>>
    BY <2>1 DEF DirectLedgerVoid
  <2> HIDE DEF st
  <2>5. QED BY <2>3, <2>4, UpdateUnwinds DEF st
<1>12. CASE \E i \in 1..Len(allocations) : Unallocate(i)
  <2>1. Len(allocations') = Len(allocations) /\ UNCHANGED <<charges, sources>>
    BY <1>1, <1>12 DEF Unallocate, Sound
  <2>2. QED BY <1>2, <2>1
<1>13. QED
  BY <1>3, <1>4, <1>5, <1>6, <1>7, <1>8, <1>9, <1>10, <1>11, <1>12 DEF Next

\* "Closed receivable accounts are read-only for normal new activity": no step
\* adds a charge, a payment, a credit or an allocation to a closed account, or
\* makes it receive more.
THEOREM ClosedUnwind == Spec => ClosedAccountsOnlyUnwind
<1>1. IInv /\ [Next]_vars => [\A a \in Accounts : status[a] = "closed" => OnlyUnwinds(a)]_vars
  BY ClosedUnwinds
<1>2. QED
  BY <1>1, Invariance, PTL DEF Spec, ClosedAccountsOnlyUnwind, OnlyUnwinds

-----------------------------------------------------------------------------
(***************************************************************************)
(* The requests of ReceivablesRace, which reads and writes the same tables *)
(* query by query, on the charges and payments of one account.  When one   *)
(* of them runs at a time, each is a step of the ledger above, or none.    *)
(***************************************************************************)
CONSTANTS Workers, ChargeList, PaymentList, Account
VARIABLE job

Race == INSTANCE ReceivablesRace WITH ChargeAmounts <- ChargeList, PaymentAmounts <- PaymentList

\* One request at a time: what the race run lifts.
OneAtATime == \E w : Workers = {w}

Requested == {None} \union Race!Ledger!Amounts

\* What allocate_source may give of payment s to charge c.
Given(s, c, requested) ==
    LET available == Race!Ledger!Least(Race!Ledger!ChargeBalance(c), Race!StillUnapplied(s))
    IN  IF requested = None THEN available ELSE Race!Ledger!Least(requested, available)

\* A payment row of that account
PaymentRow == [kind : {"payment"}, account : {Account}, amount : Nat,
               status : {"posted", "void"}, ledger : {"posted", "void"}]

PaymentsOK ==
    /\ sources \in Seq(PaymentRow)
    /\ allocations \in Seq(AllocationRow)
    /\ \A i \in 1..Len(allocations) : /\ allocations[i].charge \in 1..Len(ChargeList)
                                      /\ allocations[i].source \in 1..Len(sources)

Unused(s) == ~ \E i \in 1..Len(allocations) :
                  allocations[i].source = s /\ allocations[i].status = "posted"

\* The states of a request
AtBalance(s, c, requested) ==
    [at |-> "balance", source |-> s, charge |-> c, requested |-> requested]
AtUnapplied(s, c, requested, balance) ==
    [at |-> "unapplied", source |-> s, charge |-> c, requested |-> requested,
     balance |-> balance]
AtAmount(at, s, c, amount) == [at |-> at, source |-> s, charge |-> c, amount |-> amount]
AtVoid(at, s) == [at |-> at, source |-> s]
AtRow(i) == [at |-> "unallocate", row |-> i]

\* Their fields.
LEMMA RequestStates ==
  /\ Race!Idle.at = "idle"
  /\ \A s, c, requested :
        /\ AtBalance(s, c, requested).at = "balance"
        /\ AtBalance(s, c, requested).source = s
        /\ AtBalance(s, c, requested).charge = c
        /\ AtBalance(s, c, requested).requested = requested
  /\ \A s, c, requested, balance :
        /\ AtUnapplied(s, c, requested, balance).at = "unapplied"
        /\ AtUnapplied(s, c, requested, balance).source = s
        /\ AtUnapplied(s, c, requested, balance).charge = c
        /\ AtUnapplied(s, c, requested, balance).requested = requested
        /\ AtUnapplied(s, c, requested, balance).balance = balance
  /\ \A at, s, c, amount :
        /\ AtAmount(at, s, c, amount).at = at
        /\ AtAmount(at, s, c, amount).source = s
        /\ AtAmount(at, s, c, amount).charge = c
        /\ AtAmount(at, s, c, amount).amount = amount
  /\ \A at, s :
        /\ AtVoid(at, s).at = at
        /\ AtVoid(at, s).source = s
  /\ \A i : AtRow(i).at = "unallocate" /\ AtRow(i).row = i
BY DEF AtBalance, AtUnapplied, AtAmount, AtVoid, AtRow, Race!Idle

\* A request moves on by its place alone.
LEMMA AmountMoves ==
  ASSUME NEW at, NEW s, NEW c, NEW amount, NEW x, NEW j, j = AtAmount(at, s, c, amount)
  PROVE  [j EXCEPT !.at = x] = AtAmount(x, s, c, amount)
BY DEF AtAmount

\* The same for one that voids.
LEMMA VoidMoves ==
  ASSUME NEW at, NEW s, NEW x, NEW j, j = AtVoid(at, s)
  PROVE  [j EXCEPT !.at = x] = AtVoid(x, s)
BY DEF AtVoid

\* What a request has read is still so: nobody else writes.
Asked(s) == sources[s].status = "posted" /\ Len(allocations) < MaxAllocations

KnowsRows(j) ==
    \E s \in 1..Len(sources), c \in 1..Len(ChargeList), requested \in Requested :
        Asked(s) /\ j = AtBalance(s, c, requested)
KnowsBalance(j) ==
    \E s \in 1..Len(sources), c \in 1..Len(ChargeList), requested \in Requested :
        Asked(s) /\ j = AtUnapplied(s, c, requested, Race!Ledger!ChargeBalance(c))
KnowsAmount(j) ==
    \E s \in 1..Len(sources), c \in 1..Len(ChargeList), requested \in Requested :
      /\ Asked(s)
      /\ Given(s, c, requested) > 0
      /\ j = AtAmount(j.at, s, c, Given(s, c, requested))
KnowsPayment(j) ==
    \E s \in 1..Len(sources) :
      /\ sources[s].status = "posted"
      /\ j = AtVoid(j.at, s)
      /\ j.at # "unused" => Unused(s)
      /\ j.at = "void" => sources[s].ledger # "void"
KnowsAllocation(j) ==
    \E i \in 1..Len(allocations) :
      /\ allocations[i].status = "posted"
      /\ sources[allocations[i].source].status = "posted"
      /\ j = AtRow(i)

Knows(j) ==
    /\ j.at = "balance" => KnowsRows(j)
    /\ j.at = "unapplied" => KnowsBalance(j)
    /\ j.at \in {"clean", "clean charge", "insert"} => KnowsAmount(j)
    /\ j.at \in {"unused", "ledger", "void"} => KnowsPayment(j)
    /\ j.at = "unallocate" => KnowsAllocation(j)

\* The invariant of one request at a time.
AloneInv ==
    /\ PaymentsOK
    /\ DOMAIN job = Workers
    /\ \A w \in Workers : Knows(job[w])

\* Balances are numbers here too.
LEMMA RaceBalances ==
  ASSUME Race!RaceAssumption, PaymentsOK, NEW s \in 1..Len(sources), NEW c \in 1..Len(ChargeList)
  PROVE  /\ Race!Ledger!ChargeBalance(c) \in Nat
         /\ Race!StillUnapplied(s) \in Nat
         /\ sources[s].status = "posted" => Race!StillUnapplied(s) = Race!Ledger!Unapplied(s)
<1>1. \A end, id : Race!Ledger!PostedTotal(allocations, end, id) \in Nat
  <2> TAKE end, id
  <2>1. Race!Ledger!PostedTotal(allocations, end, id) = PostedTotal(allocations, end, id)
    BY DEF Race!Ledger!PostedTotal, Race!Ledger!PostedShare, Race!Ledger!SumTo,
           PostedTotal, PostedShare, SumTo
  <2>2. PostedTotal(allocations, end, id) \in Nat
    BY PostedTotalNat DEF PaymentsOK
  <2>3. QED BY <2>1, <2>2
<1>2. Race!charges[c].amount \in Nat
  <2>1. ChargeList \in Seq(Nat \ {0})
    BY DEF Race!RaceAssumption
  <2>2. ChargeList[c] \in Nat
    BY <2>1
  <2>3. QED BY <2>2 DEF Race!charges
<1>3. sources[s].amount \in Nat
  <2>1. sources[s] \in PaymentRow
    BY DEF PaymentsOK
  <2>2. QED BY <2>1 DEF PaymentRow
<1>4. Race!Ledger!ChargeBalance(c) \in Nat
  <2>1. Race!Ledger!Allocated(c) \in Nat
    BY <1>1 DEF Race!Ledger!Allocated
  <2>2. QED BY <1>2, <2>1 DEF Race!Ledger!ChargeBalance, Race!Ledger!NotBelow0
<1>5. Race!StillUnapplied(s) \in Nat
  <2>1. Race!Ledger!Applied(s) \in Nat
    BY <1>1 DEF Race!Ledger!Applied
  <2>2. QED BY <1>3, <2>1 DEF Race!StillUnapplied, Race!Ledger!NotBelow0
<1>6. sources[s].status = "posted" => Race!StillUnapplied(s) = Race!Ledger!Unapplied(s)
  BY DEF Race!StillUnapplied, Race!Ledger!Unapplied
<1>7. QED BY <1>4, <1>5, <1>6

\* So is what is given.
LEMMA GivenInt ==
  ASSUME Race!RaceAssumption, PaymentsOK, NEW s \in 1..Len(sources), NEW c \in 1..Len(ChargeList),
         NEW requested \in Requested
  PROVE  /\ Given(s, c, requested) \in Int
         /\ Given(s, c, requested) <= Race!Ledger!ChargeBalance(c)
         /\ Given(s, c, requested) <= Race!StillUnapplied(s)
<1>1. Race!Ledger!ChargeBalance(c) \in Nat /\ Race!StillUnapplied(s) \in Nat
  BY RaceBalances
<1>2. requested # None => requested \in Int
  <2>1. ASSUME requested # None PROVE requested \in Int
    <3>1. requested \in Race!Ledger!Amounts
      BY <2>1 DEF Requested
    <3>2. \A n \in 1..Len(ChargeList) : ChargeList[n] \in Int
      <4>1. ChargeList \in Seq(Nat \ {0})
        BY DEF Race!RaceAssumption
      <4>2. QED BY <4>1
    <3>3. \A n \in 1..Len(PaymentList) : PaymentList[n] \in Int
      <4>1. PaymentList \in Seq(Nat \ {0})
        BY DEF Race!RaceAssumption
      <4>2. QED BY <4>1
    <3>4. QED BY <3>1, <3>2, <3>3 DEF Race!Ledger!Amounts
  <2>2. QED BY <2>1
<1>3. QED
  BY <1>1, <1>2 DEF Given, Race!Ledger!Least

\* While nobody writes, what a request knows stays so.
LEMMA KnownStays ==
  ASSUME UNCHANGED <<sources, allocations>>, NEW j, Knows(j) PROVE Knows(j)'
<1>1. \A c : Race!Ledger!ChargeBalance(c)' = Race!Ledger!ChargeBalance(c)
  BY DEF Race!Ledger!ChargeBalance, Race!Ledger!Allocated, Race!charges
<1>2. \A s : Race!StillUnapplied(s)' = Race!StillUnapplied(s)
  BY DEF Race!StillUnapplied, Race!Ledger!Applied
<1>3. \A s, c, requested : Given(s, c, requested)' = Given(s, c, requested)
  BY <1>1, <1>2 DEF Given
<1>4. KnowsRows(j) => KnowsRows(j)'
  BY DEF KnowsRows, Asked
<1>5. KnowsBalance(j) => KnowsBalance(j)'
  BY <1>1 DEF KnowsBalance, Asked
<1>6. KnowsAmount(j) => KnowsAmount(j)'
  BY <1>3 DEF KnowsAmount, Asked
<1>7. KnowsPayment(j) => KnowsPayment(j)'
  BY DEF KnowsPayment, Unused
<1>8. KnowsAllocation(j) => KnowsAllocation(j)'
  BY DEF KnowsAllocation
<1>9. QED BY <1>4, <1>5, <1>6, <1>7, <1>8 DEF Knows

\* What is known of the state of a request is known of the request in it.
LEMMA KnownInPlace ==
  ASSUME NEW w, NEW j, job'[w] = j, Knows(j)' PROVE Knows(job[w])'
<1>1. KnowsRows(j)' => KnowsRows(job[w])'
  BY DEF KnowsRows
<1>2. KnowsBalance(j)' => KnowsBalance(job[w])'
  BY DEF KnowsBalance
<1>3. KnowsAmount(j)' => KnowsAmount(job[w])'
  BY DEF KnowsAmount
<1>4. KnowsPayment(j)' => KnowsPayment(job[w])'
  BY DEF KnowsPayment
<1>5. KnowsAllocation(j)' => KnowsAllocation(job[w])'
  BY DEF KnowsAllocation
<1>6. QED BY <1>1, <1>2, <1>3, <1>4, <1>5 DEF Knows

\* A request that has read something knows it, and it is the only one.
LEMMA AloneReads ==
  ASSUME AloneInv, NEW w \in Workers, Workers = {w}, NEW j, Race!Continue(w, j),
         UNCHANGED <<sources, allocations>>, Knows(j)
  PROVE  AloneInv'
<1>1. DOMAIN job' = Workers /\ job'[w] = j
  BY DEF AloneInv, Race!Continue
<1>2. Knows(job[w])'
  BY <1>1, KnownStays, KnownInPlace
<1>3. \A v \in Workers : v = w
  OBVIOUS
<1>4. PaymentsOK'
  BY DEF AloneInv, PaymentsOK
<1>5. QED
  BY <1>1, <1>2, <1>3, <1>4 DEF AloneInv

\* A request that has nothing to do any more knows all it needs.
LEMMA IdleKnows ==
  Knows(Race!Idle)
BY RequestStates DEF Knows

\* A request that has written is over.
LEMMA AloneWrites ==
  ASSUME NEW w \in Workers, Workers = {w}, DOMAIN job = Workers,
         Race!Continue(w, Race!Idle), PaymentsOK'
  PROVE  AloneInv'
<1>1. DOMAIN job' = Workers /\ job'[w] = Race!Idle
  BY DEF Race!Continue
<1>2. Knows(job[w])'
  BY <1>1, RequestStates DEF Knows
<1>3. \A v \in Workers : v = w
  OBVIOUS
<1>4. QED
  BY <1>1, <1>2, <1>3 DEF AloneInv

\* A step that begins a request or reads on writes nothing.
LEMMA AloneBegins ==
  ASSUME Race!RaceAssumption, AloneInv, NEW w \in Workers, Workers = {w}, Race!Begin(w)
  PROVE  AloneInv' /\ UNCHANGED <<sources, allocations>>
<1>1. CASE \E s \in 1..Len(sources), c \in 1..Len(Race!charges),
              requested \in {None} \union Race!Ledger!Amounts :
              Race!BeginAllocate(w, s, c, requested)
  <2>1. PICK s \in 1..Len(sources), c \in 1..Len(Race!charges),
              requested \in {None} \union Race!Ledger!Amounts :
              Race!BeginAllocate(w, s, c, requested)
    BY <1>1
  <2> DEFINE j == AtBalance(s, c, requested)
  <2>2. c \in 1..Len(ChargeList) /\ requested \in Requested
    <3>1. ChargeList \in Seq(Nat \ {0})
      BY DEF Race!RaceAssumption
    <3>2. Len(Race!charges) = Len(ChargeList)
      BY <3>1 DEF Race!charges
    <3>3. QED BY <3>2 DEF Requested
  <2>3. /\ sources[s].status = "posted" /\ Len(allocations) < MaxAllocations
        /\ Race!Continue(w, j) /\ UNCHANGED <<sources, allocations>>
    BY <2>1 DEF Race!BeginAllocate, AtBalance
  <2>4. Knows(j)
    BY <2>2, <2>3, RequestStates DEF Knows, KnowsRows, Asked
  <2> HIDE DEF j
  <2>5. QED BY <2>3, <2>4, AloneReads
<1>2. CASE \E s \in 1..Len(sources) : Race!BeginVoid(w, s)
  <2>1. PICK s \in 1..Len(sources) : Race!BeginVoid(w, s)
    BY <1>2
  <2> DEFINE j == AtVoid("unused", s)
  <2>2. /\ sources[s].status = "posted"
        /\ Race!Continue(w, j) /\ UNCHANGED <<sources, allocations>>
    BY <2>1 DEF Race!BeginVoid, AtVoid
  <2>3. KnowsPayment(j) /\ j.at = "unused"
    BY <2>2, RequestStates DEF KnowsPayment
  <2> HIDE DEF j
  <2>4. Knows(j)
    BY <2>3 DEF Knows
  <2>5. QED BY <2>2, <2>4, AloneReads
<1>3. CASE \E i \in 1..Len(allocations) : Race!BeginUnallocate(w, i)
  <2>1. PICK i \in 1..Len(allocations) : Race!BeginUnallocate(w, i)
    BY <1>3
  <2> DEFINE j == AtRow(i)
  <2>2. /\ allocations[i].status = "posted" /\ sources[allocations[i].source].status = "posted"
        /\ Race!Continue(w, j) /\ UNCHANGED <<sources, allocations>>
    BY <2>1 DEF Race!BeginUnallocate, AtRow
  <2>3. Knows(j)
    BY <2>2, RequestStates DEF Knows, KnowsAllocation
  <2> HIDE DEF j
  <2>4. QED BY <2>2, <2>3, AloneReads
<1>4. QED
  BY <1>1, <1>2, <1>3 DEF Race!Begin

\* The queries of an allocation.
LEMMA AloneAllocates ==
  ASSUME Race!RaceAssumption, AloneInv, NEW w \in Workers, Workers = {w},
         \/ Race!ReadBalance(w) \/ Race!ReadUnapplied(w)
         \/ Race!CleanSource(w) \/ Race!CleanCharge(w)
  PROVE  AloneInv' /\ UNCHANGED <<sources, allocations>>
<1>1. Knows(job[w])
  BY DEF AloneInv
<1>2. UNCHANGED <<sources, allocations>>
  BY DEF Race!ReadBalance, Race!ReadUnapplied, Race!CleanSource, Race!CleanCharge
<1>3. CASE Race!ReadBalance(w)
  <2>1. PICK s \in 1..Len(sources), c \in 1..Len(ChargeList), requested \in Requested :
           Asked(s) /\ job[w] = AtBalance(s, c, requested)
    BY <1>1, <1>3 DEF Race!ReadBalance, Knows, KnowsRows
  <2> DEFINE j == AtUnapplied(s, c, requested, Race!Ledger!ChargeBalance(c))
  <2>2. job[w].source = s /\ job[w].charge = c /\ job[w].requested = requested
    BY <2>1, RequestStates
  <2>3. Race!Continue(w, j)
    BY <1>3, <2>2 DEF Race!ReadBalance, AtUnapplied
  <2>4. KnowsBalance(j) /\ j.at = "unapplied"
    BY <2>1, RequestStates DEF KnowsBalance
  <2> HIDE DEF j
  <2>5. Knows(j)
    BY <2>4 DEF Knows
  <2>6. QED BY <1>2, <2>3, <2>5, AloneReads
<1>4. CASE Race!ReadUnapplied(w)
  <2>1. PICK s \in 1..Len(sources), c \in 1..Len(ChargeList), requested \in Requested :
           Asked(s) /\ job[w] = AtUnapplied(s, c, requested, Race!Ledger!ChargeBalance(c))
    BY <1>1, <1>4 DEF Race!ReadUnapplied, Knows, KnowsBalance
  <2> DEFINE j == AtAmount("clean", s, c, Given(s, c, requested))
  <2>2. /\ job[w].balance = Race!Ledger!ChargeBalance(c) /\ job[w].source = s
        /\ job[w].requested = requested /\ job[w].charge = c
    BY <2>1, RequestStates
  <2>3. Race!Continue(w, IF Given(s, c, requested) <= 0 THEN Race!Idle ELSE j)
    BY <1>4, <2>2 DEF Race!ReadUnapplied, Given, AtAmount
  <2>4. Given(s, c, requested) \in Int
    BY GivenInt DEF AloneInv
  <2>5. CASE Given(s, c, requested) <= 0
    BY <1>2, <2>3, <2>5, IdleKnows, AloneReads
  <2>6. CASE ~ (Given(s, c, requested) <= 0)
    <3>1. Given(s, c, requested) > 0
      BY <2>4, <2>6
    <3>2. j.at = "clean"
      BY RequestStates
    <3>3. KnowsAmount(j)
      BY <2>1, <3>1, <3>2 DEF KnowsAmount
    <3>4. Race!Continue(w, j)
      BY <2>3, <2>6
    <3> HIDE DEF j
    <3>5. Knows(j)
      BY <3>2, <3>3 DEF Knows
    <3>6. QED BY <1>2, <3>4, <3>5, AloneReads
  <2>7. QED BY <2>5, <2>6
<1>5. ASSUME NEW from, NEW to, from \in {"clean", "clean charge", "insert"},
             to \in {"clean", "clean charge", "insert"}, job[w].at = from,
             \/ Race!Continue(w, [job[w] EXCEPT !.at = to])
             \/ Race!Continue(w, Race!Idle)
      PROVE  AloneInv'
  <2>1. KnowsAmount(job[w])
    BY <1>1, <1>5 DEF Knows
  <2>2. PICK s \in 1..Len(sources), c \in 1..Len(ChargeList), requested \in Requested :
           /\ Asked(s)
           /\ Given(s, c, requested) > 0
           /\ job[w] = AtAmount(job[w].at, s, c, Given(s, c, requested))
    BY <2>1 DEF KnowsAmount
  <2> DEFINE j == AtAmount(to, s, c, Given(s, c, requested))
  <2>3. [job[w] EXCEPT !.at = to] = j
    BY <2>2, AmountMoves
  <2>4. j.at = to
    BY RequestStates
  <2>5. KnowsAmount(j)
    BY <2>2, <2>4 DEF KnowsAmount
  <2> HIDE DEF j
  <2>6. Knows(j)
    BY <1>5, <2>4, <2>5 DEF Knows
  <2>7. Race!Continue(w, j) \/ Race!Continue(w, Race!Idle)
    BY <1>5, <2>3
  <2>8. QED BY <1>2, <2>6, <2>7, IdleKnows, AloneReads
<1>6. CASE Race!CleanSource(w)
  BY <1>5, <1>6 DEF Race!CleanSource
<1>7. CASE Race!CleanCharge(w)
  BY <1>5, <1>7 DEF Race!CleanCharge
<1>8. QED
  BY <1>2, <1>3, <1>4, <1>6, <1>7

\* Its insert is an allocation of the ledger.
LEMMA AloneInserts ==
  ASSUME Race!RaceAssumption, AloneInv, NEW w \in Workers, Workers = {w}, Race!Insert(w)
  PROVE  AloneInv' /\ Race!Ledger!Next
<1>1. job[w].at = "insert"
  BY DEF Race!Insert
<1>2. KnowsAmount(job[w])
  BY <1>1 DEF AloneInv, Knows
<1>3. PICK s \in 1..Len(sources), c \in 1..Len(ChargeList), requested \in Requested :
        /\ Asked(s)
        /\ Given(s, c, requested) > 0
        /\ job[w] = AtAmount("insert", s, c, Given(s, c, requested))
  BY <1>1, <1>2 DEF KnowsAmount
<1> DEFINE amount == Given(s, c, requested)
           row == [charge |-> c, source |-> s, amount |-> amount, status |-> "posted"]
<1>4. PaymentsOK /\ amount \in Int /\ amount > 0
  BY <1>3, GivenInt DEF AloneInv
<1>5. /\ allocations' = allocations \o Race!Ledger!NewAllocation(s, c, amount)
      /\ Race!Continue(w, Race!Idle) /\ sources' = sources
  <2>1. job[w].source = s /\ job[w].charge = c /\ job[w].amount = amount
    BY <1>3, RequestStates
  <2> HIDE DEF amount
  <2>2. QED BY <2>1 DEF Race!Insert
<1>6. row \in AllocationRow
  <2> HIDE DEF amount
  <2>1. QED BY <1>4 DEF AllocationRow
<1>7. allocations' = Append(allocations, row)
  <2> HIDE DEF amount
  <2>1. QED BY <1>4, <1>5 DEF Race!Ledger!NewAllocation, PaymentsOK
<1>8. PaymentsOK'
  <2>1. row.charge = c /\ row.source = s
    OBVIOUS
  <2> HIDE DEF row
  <2>2. allocations' \in Seq(AllocationRow)
    BY <1>4, <1>6, <1>7 DEF PaymentsOK
  <2>3. ASSUME NEW i \in 1..Len(allocations')
        PROVE  allocations'[i].charge \in 1..Len(ChargeList) /\ allocations'[i].source \in 1..Len(sources)
    <3>1. allocations \in Seq(AllocationRow)
      BY <1>4 DEF PaymentsOK
    <3>2. CASE i \in 1..Len(allocations)
      <4>1. allocations'[i] = allocations[i]
        BY <1>7, <3>1, <3>2
      <4>2. QED BY <1>4, <3>2, <4>1 DEF PaymentsOK
    <3>3. CASE i \notin 1..Len(allocations)
      <4>1. allocations'[i] = row
        BY <1>7, <3>1, <3>3
      <4>2. QED BY <2>1, <4>1
    <3>4. QED BY <3>2, <3>3
  <2>4. QED BY <1>4, <1>5, <2>2, <2>3 DEF PaymentsOK
<1>9. AloneInv'
  BY <1>5, <1>8, AloneWrites DEF AloneInv
<1>10. Race!Ledger!Allocate(s, c, requested)
  <2>1. sources[s] \in PaymentRow
    BY <1>4 DEF PaymentsOK
  <2>2. /\ sources[s].account = Account /\ Race!charges[c].account = Account
        /\ Race!Ledger!Active(Account)
    BY <2>1 DEF PaymentRow, Race!charges, Race!Ledger!Active
  <2>3. Race!StillUnapplied(s) = Race!Ledger!Unapplied(s)
    BY <1>3, <1>4, RaceBalances DEF Asked
  <2>4. amount = LET available == Race!Ledger!Least(Race!Ledger!ChargeBalance(c), Race!Ledger!Unapplied(s))
                 IN  IF requested = None THEN available ELSE Race!Ledger!Least(requested, available)
    BY <2>3 DEF Given
  <2>5. Race!charges' = Race!charges
    BY DEF Race!charges
  <2> HIDE DEF amount
  <2>6. QED BY <1>3, <1>4, <1>5, <2>2, <2>4, <2>5 DEF Race!Ledger!Allocate, Asked
<1>11. c \in 1..Len(Race!charges)
  <2>1. ChargeList \in Seq(Nat \ {0})
    BY DEF Race!RaceAssumption
  <2>2. QED BY <2>1 DEF Race!charges
<1>12. Race!Ledger!Next
  BY <1>10, <1>11 DEF Race!Ledger!Next, Requested
<1>13. QED BY <1>9, <1>12

\* The check that a payment is unused, and the check of its transaction.
LEMMA AloneChecks ==
  ASSUME AloneInv, NEW w \in Workers, Workers = {w},
         Race!CheckUnused(w) \/ Race!CheckLedger(w)
  PROVE  AloneInv' /\ UNCHANGED <<sources, allocations>>
<1>1. Knows(job[w])
  BY DEF AloneInv
<1>2. UNCHANGED <<sources, allocations>>
  BY DEF Race!CheckUnused, Race!CheckLedger
<1>3. job[w].at \in {"unused", "ledger"}
  BY DEF Race!CheckUnused, Race!CheckLedger
<1>4. PICK s \in 1..Len(sources) :
        /\ sources[s].status = "posted"
        /\ job[w] = AtVoid(job[w].at, s)
        /\ job[w].at # "unused" => Unused(s)
  BY <1>1, <1>3 DEF Knows, KnowsPayment
<1>5. job[w].source = s
  BY <1>4, RequestStates
<1>6. ASSUME NEW to, to \in {"ledger", "void"}, Unused(s),
             to = "void" => sources[s].ledger # "void"
      PROVE  Knows(AtVoid(to, s))
  <2> DEFINE j == AtVoid(to, s)
  <2>1. j.at = to
    BY RequestStates
  <2>2. KnowsPayment(j)
    BY <1>4, <1>6, <2>1 DEF KnowsPayment
  <2> HIDE DEF j
  <2>3. Knows(j)
    BY <1>6, <2>1, <2>2 DEF Knows
  <2>4. QED BY <2>3 DEF j
<1>7. CASE Race!CheckUnused(w)
  <2>1. Race!Continue(w, IF ~ Unused(s) THEN Race!Idle ELSE AtVoid("ledger", s))
    <3>1. [job[w] EXCEPT !.at = "ledger"] = AtVoid("ledger", s)
      BY <1>4, VoidMoves
    <3>2. QED BY <1>5, <1>7, <3>1 DEF Race!CheckUnused, Unused
  <2>2. CASE Unused(s)
    <3>1. Race!Continue(w, AtVoid("ledger", s))
      BY <2>1, <2>2
    <3>2. Knows(AtVoid("ledger", s))
      BY <1>6, <2>2
    <3>3. QED BY <1>2, <3>1, <3>2, AloneReads
  <2>3. CASE ~ Unused(s)
    BY <1>2, <2>1, <2>3, IdleKnows, AloneReads
  <2>4. QED BY <2>2, <2>3
<1>8. CASE Race!CheckLedger(w)
  <2>1. /\ Race!Continue(w, IF sources[s].ledger = "void" THEN Race!Idle
                            ELSE AtVoid("void", s))
        /\ Unused(s)
    <3>1. [job[w] EXCEPT !.at = "void"] = AtVoid("void", s)
      BY <1>4, VoidMoves
    <3>2. QED BY <1>4, <1>5, <1>8, <3>1 DEF Race!CheckLedger
  <2>2. CASE sources[s].ledger = "void"
    BY <1>2, <2>1, <2>2, IdleKnows, AloneReads
  <2>3. CASE sources[s].ledger # "void"
    <3>1. Race!Continue(w, AtVoid("void", s))
      BY <2>1, <2>3
    <3>2. Knows(AtVoid("void", s))
      BY <1>6, <2>1, <2>3
    <3>3. QED BY <1>2, <3>1, <3>2, AloneReads
  <2>4. QED BY <2>2, <2>3
<1>9. QED
  BY <1>2, <1>7, <1>8

\* The two saves of a void are a void of the ledger.
LEMMA AloneVoids ==
  ASSUME AloneInv, NEW w \in Workers, Workers = {w}, Race!WriteVoid(w)
  PROVE  AloneInv' /\ Race!Ledger!Next
<1>1. job[w].at = "void" /\ Knows(job[w])
  BY DEF Race!WriteVoid, AloneInv
<1>2. PICK s \in 1..Len(sources) :
        /\ sources[s].status = "posted"
        /\ job[w] = AtVoid("void", s)
        /\ Unused(s)
        /\ sources[s].ledger # "void"
  BY <1>1 DEF Knows, KnowsPayment
<1>3. PaymentsOK /\ sources[s] \in PaymentRow
  BY DEF AloneInv, PaymentsOK
<1>4. sources[s].kind = "payment" /\ sources[s].ledger = "posted"
  BY <1>2, <1>3 DEF PaymentRow
<1>5. /\ sources' = [sources EXCEPT ![s].status = "void", ![s].ledger = "void"]
      /\ Race!Continue(w, Race!Idle) /\ allocations' = allocations
  <2>1. job[w].source = s
    BY <1>2, RequestStates
  <2>2. QED BY <2>1 DEF Race!WriteVoid
<1>6. PaymentsOK'
  <2> DEFINE row == [sources[s] EXCEPT !.status = "void", !.ledger = "void"]
  <2>1. row \in PaymentRow
    BY <1>3 DEF PaymentRow
  <2>2. sources' = [sources EXCEPT ![s] = row]
    BY <1>5
  <2> HIDE DEF row
  <2>3. sources' \in Seq(PaymentRow) /\ Len(sources') = Len(sources)
    BY <1>3, <2>1, <2>2 DEF PaymentsOK
  <2>4. QED BY <1>3, <1>5, <2>3 DEF PaymentsOK
<1>7. AloneInv'
  BY <1>5, <1>6, AloneWrites DEF AloneInv
<1>8. Race!Ledger!VoidPayment(s)
  BY <1>2, <1>4, <1>5 DEF Race!Ledger!VoidPayment, Unused, Race!charges
<1>9. Race!Ledger!Next
  BY <1>8 DEF Race!Ledger!Next
<1>10. QED BY <1>7, <1>9

\* The save of a correction is an unallocation of the ledger.
LEMMA AloneUnallocates ==
  ASSUME AloneInv, NEW w \in Workers, Workers = {w}, Race!WriteUnallocated(w)
  PROVE  AloneInv' /\ Race!Ledger!Next
<1>1. job[w].at = "unallocate" /\ Knows(job[w])
  BY DEF Race!WriteUnallocated, AloneInv
<1>2. PICK i \in 1..Len(allocations) :
        /\ allocations[i].status = "posted"
        /\ sources[allocations[i].source].status = "posted"
        /\ job[w] = AtRow(i)
  BY <1>1 DEF Knows, KnowsAllocation
<1>3. /\ allocations' = [allocations EXCEPT ![i].status = "void"]
      /\ Race!Continue(w, Race!Idle) /\ sources' = sources
  <2>1. job[w].row = i
    BY <1>2, RequestStates
  <2>2. QED BY <2>1 DEF Race!WriteUnallocated
<1>4. PaymentsOK'
  <2>1. PaymentsOK /\ allocations \in Seq(AllocationRow)
    BY DEF AloneInv, PaymentsOK
  <2>2. /\ allocations' \in Seq(AllocationRow)
        /\ Len(allocations') = Len(allocations)
        /\ \A k \in 1..Len(allocations) : k # i => allocations'[k] = allocations[k]
        /\ allocations'[i].charge = allocations[i].charge
        /\ allocations'[i].source = allocations[i].source
    BY <1>3, <2>1, VoidedRow
  <2>3. QED BY <1>3, <2>1, <2>2 DEF PaymentsOK
<1>5. AloneInv'
  BY <1>3, <1>4, AloneWrites DEF AloneInv
<1>6. Race!Ledger!Unallocate(i)
  BY <1>2, <1>3 DEF Race!Ledger!Unallocate, Race!charges
<1>7. Race!Ledger!Next
  BY <1>6 DEF Race!Ledger!Next
<1>8. QED BY <1>5, <1>7

\* The account at first: payments posted, nothing allocated, no request.
LEMMA AloneInit ==
  ASSUME Race!RaceAssumption, Race!Init PROVE AloneInv
<1>1. PaymentList \in Seq(Nat \ {0})
  BY DEF Race!RaceAssumption
<1>2. PaymentsOK
  <2> DEFINE row(s) == [kind |-> "payment", account |-> Account, amount |-> PaymentList[s],
                        status |-> "posted", ledger |-> "posted"]
  <2>1. \A s \in 1..Len(PaymentList) : row(s) \in PaymentRow
    <3> TAKE s \in 1..Len(PaymentList)
    <3>1. PaymentList[s] \in Nat
      BY <1>1
    <3>2. QED BY <3>1 DEF PaymentRow
  <2>2. sources = [s \in 1..Len(PaymentList) |-> row(s)] /\ Len(PaymentList) \in Nat
    BY <1>1 DEF Race!Init
  <2> HIDE DEF row
  <2>3. sources \in Seq(PaymentRow)
    BY <2>1, <2>2
  <2>4. allocations = <<>>
    BY DEF Race!Init
  <2>5. QED BY <2>3, <2>4 DEF PaymentsOK
<1>3. DOMAIN job = Workers /\ \A w \in Workers : job[w] = Race!Idle
  BY DEF Race!Init
<1>4. \A w \in Workers : Knows(job[w])
  BY <1>3, IdleKnows
<1>5. QED
  BY <1>2, <1>3, <1>4 DEF AloneInv

\* Alone, a request writes what one step of the ledger writes, or nothing.
LEMMA AloneStep ==
  ASSUME Race!RaceAssumption, OneAtATime, AloneInv, [Race!Next]_Race!vars
  PROVE  AloneInv' /\ [Race!Ledger!Next]_<<sources, allocations>>
<1>1. PICK w : Workers = {w}
  BY DEF OneAtATime
<1>2. w \in Workers
  BY <1>1
<1>3. CASE UNCHANGED Race!vars
  <2>1. UNCHANGED <<sources, allocations, job>>
    BY <1>3 DEF Race!vars
  <2>2. job' = job
    BY <2>1
  <2>3. Knows(job[w])
    BY <1>2 DEF AloneInv
  <2>4. \A j : Knows(j) => Knows(j)'
    BY <2>1, KnownStays
  <2>5. Knows(job[w])'
    BY <2>1, <2>3, <2>4, KnownInPlace
  <2>6. PaymentsOK'
    BY <2>1 DEF AloneInv, PaymentsOK
  <2>7. \A v \in Workers : v = w
    BY <1>1
  <2>8. QED BY <2>1, <2>5, <2>6, <2>7 DEF AloneInv
<1>4. CASE Race!Begin(w)
  BY <1>1, <1>2, <1>4, AloneBegins
<1>5. CASE Race!Step(w)
  BY <1>1, <1>2, <1>5, AloneAllocates, AloneInserts, AloneChecks, AloneVoids, AloneUnallocates
     DEF Race!Step
<1>6. QED
  BY <1>1, <1>3, <1>4, <1>5 DEF Race!Next

\* "A request that runs alone is one step of the serial ledger, however many
\* queries it takes": for any charges and payments of the account.
THEOREM AloneIsSerial ==
  ASSUME Race!RaceAssumption, OneAtATime PROVE Race!Spec => Race!Serial
<1>1. Race!Init => AloneInv
  BY AloneInit
<1>2. AloneInv /\ [Race!Next]_Race!vars => AloneInv' /\ [Race!Ledger!Next]_<<sources, allocations>>
  BY AloneStep
<1>3. QED
  BY <1>1, <1>2, PTL DEF Race!Spec, Race!Serial

=============================================================================
