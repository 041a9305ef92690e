---------------------------- MODULE MoneyProofs ----------------------------
(***************************************************************************)
(* Proofs about the team's money, for any rows, people and shows.  A row   *)
(* of another table and its row of the ledger name each other (Booked),    *)
(* and whatever a request does to the ledger, it keeps what a row comes    *)
(* from and revives no void row (Moved): with these two, each part proves  *)
(* only what its own requests do, and is left alone by the others.         *)
(* Batches that bill overlapping keys wait for each other in the order of  *)
(* the keys, so never in a circle.  The end is about the bank rows that    *)
(* are matched with the ledger.                                            *)
(***************************************************************************)
EXTENDS MCMoney, BankReconciliation, LedgerSumsTheorems, SequenceTheorems

\* The ids of a table are its key.
UniqueIds(rows) == \A a, b \in rows : a.id = b.id => a = b

\* A table keyed by the ids of LedgerIds is finite, and not larger than they are.
LEMMA RowsFinite ==
  ASSUME NEW rows, UniqueIds(rows), \A r \in rows : r.id \in LedgerIds
  PROVE  IsFiniteSet(rows) /\ Cardinality(rows) <= Cardinality(LedgerIds)
<1> DEFINE f == [r \in rows |-> r.id]
<1>1. f \in Injection(rows, LedgerIds)
  BY DEF Injection, IsInjective, UniqueIds
<1>2. IsFiniteSet(LedgerIds)
  BY TeamLedgerAssumption
<1> QED BY <1>1, <1>2, FS_Injection

\* Saving a row by its id keeps the ids a key.
LEMMA ByIdUnique ==
  ASSUME NEW rows, UniqueIds(rows), NEW a
  PROVE  UniqueIds(ById(rows, a))
  BY DEF UniqueIds, ById

\* The terms of Total and of Relief, over the table they are taken from.
AmountOf(rows) == [r \in rows |-> r.amount]
ReliefOf(rows) == [r \in rows |-> r.relief]

\* A total over a part of a table.
LEMMA TotalOn ==
  ASSUME NEW table, IsFiniteSet(table), NEW rows, rows \subseteq table
  PROVE  Total(rows) = SumFunctionOnSet(AmountOf(table), rows)
<1>1. IsFiniteSet(rows) /\ DOMAIN [r \in rows |-> r.amount] = rows
  BY FS_Subset
<1>2. \A r \in rows : [q \in rows |-> q.amount][r] = AmountOf(table)[r]
  BY DEF AmountOf
<1>3. SumFunctionOnSet([q \in rows |-> q.amount], rows) = SumFunctionOnSet(AmountOf(table), rows)
  BY <1>1, <1>2, SumOnExtensional
<1> QED BY <1>1, <1>3 DEF Total, SumFunction

LEMMA ReliefOn ==
  ASSUME NEW table, IsFiniteSet(table), NEW rows, rows \subseteq table
  PROVE  Relief(rows) = SumFunctionOnSet(ReliefOf(table), rows)
<1>1. IsFiniteSet(rows) /\ DOMAIN [r \in rows |-> r.relief] = rows
  BY FS_Subset
<1>2. \A r \in rows : [q \in rows |-> q.relief][r] = ReliefOf(table)[r]
  BY DEF ReliefOf
<1>3. SumFunctionOnSet([q \in rows |-> q.relief], rows) = SumFunctionOnSet(ReliefOf(table), rows)
  BY <1>1, <1>2, SumOnExtensional
<1> QED BY <1>1, <1>3 DEF Relief, SumFunction

\* A total of amounts is a natural, grows with the rows, and one row adds its amount.
LEMMA TotalNat ==
  ASSUME NEW rows, IsFiniteSet(rows), \A r \in rows : r.amount \in Nat
  PROVE  Total(rows) \in Nat
<1>1. Total(rows) = SumFunctionOnSet(AmountOf(rows), rows) /\ \A r \in rows : AmountOf(rows)[r] \in Nat
  BY TotalOn DEF AmountOf
<1> QED BY <1>1, SumOnNat

LEMMA TotalPart ==
  ASSUME NEW rows, IsFiniteSet(rows), \A r \in rows : r.amount \in Nat, NEW part0, part0 \subseteq rows
  PROVE  Total(part0) <= Total(rows)
<1>1. \A r \in rows : AmountOf(rows)[r] \in Nat
  BY DEF AmountOf
<1>2. Total(rows) = SumFunctionOnSet(AmountOf(rows), rows)
  BY TotalOn
<1>3. Total(part0) = SumFunctionOnSet(AmountOf(rows), part0)
  BY TotalOn
<1> QED BY <1>1, <1>2, <1>3, SumOnPart

LEMMA TotalAdd ==
  ASSUME NEW rows, IsFiniteSet(rows), \A r \in rows : r.amount \in Nat, NEW a, a \notin rows, a.amount \in Nat
  PROVE  Total(rows \cup {a}) = Total(rows) + a.amount
<1> DEFINE all == rows \cup {a}
<1>1. IsFiniteSet(all) /\ rows \subseteq all
  BY FS_AddElement
<1>2. (\A r \in rows : AmountOf(all)[r] \in Int) /\ AmountOf(all)[a] = a.amount /\ a.amount \in Int
  BY DEF AmountOf
<1>3. Total(all) = SumFunctionOnSet(AmountOf(all), all) /\ Total(rows) = SumFunctionOnSet(AmountOf(all), rows)
  <2> HIDE DEF all
  <2> QED BY <1>1, TotalOn
<1>4. SumFunctionOnSet(AmountOf(all), rows \cup {a}) = SumFunctionOnSet(AmountOf(all), rows) + AmountOf(all)[a]
  BY <1>2, SumOnAdd
<1> QED BY <1>2, <1>3, <1>4

LEMMA ReliefAdd ==
  ASSUME NEW rows, IsFiniteSet(rows), \A r \in rows : r.relief \in Nat, NEW a, a \notin rows, a.relief \in Nat
  PROVE  Relief(rows \cup {a}) = Relief(rows) + a.relief
<1> DEFINE all == rows \cup {a}
<1>1. IsFiniteSet(all) /\ rows \subseteq all
  BY FS_AddElement
<1>2. (\A r \in rows : ReliefOf(all)[r] \in Int) /\ ReliefOf(all)[a] = a.relief /\ a.relief \in Int
  BY DEF ReliefOf
<1>3. Relief(all) = SumFunctionOnSet(ReliefOf(all), all) /\ Relief(rows) = SumFunctionOnSet(ReliefOf(all), rows)
  <2> HIDE DEF all
  <2> QED BY <1>1, ReliefOn
<1>4. SumFunctionOnSet(ReliefOf(all), rows \cup {a}) = SumFunctionOnSet(ReliefOf(all), rows) + ReliefOf(all)[a]
  BY <1>2, SumOnAdd
<1> QED BY <1>2, <1>3, <1>4

LEMMA ReliefNat ==
  ASSUME NEW rows, IsFiniteSet(rows), \A r \in rows : r.relief \in Nat
  PROVE  Relief(rows) \in Nat
<1>1. Relief(rows) = SumFunctionOnSet(ReliefOf(rows), rows) /\ \A r \in rows : ReliefOf(rows)[r] \in Nat
  BY ReliefOn DEF ReliefOf
<1> QED BY <1>1, SumOnNat

LEMMA TotalEmpty == Total({}) = 0
<1>1. IsFiniteSet({})
  BY FS_EmptySet
<1>2. Total({}) = SumFunctionOnSet(AmountOf({}), {})
  BY <1>1, TotalOn
<1> QED BY <1>2, SumOnEmpty

-----------------------------------------------------------------------------
\* What a request may do to the ledger when the rows it adds come from w: rows keep what they come from, a
\* void row stays void, and only the fundraising changes the row of a contribution.
Moved(t, u, w) ==
  /\ \A i \in DOMAIN t : /\ i \in DOMAIN u
                         /\ u[i].origin = t[i].origin
                         /\ u[i].status = t[i].status \/ u[i].status = "void"
                         /\ t[i].origin[1] = "gift" /\ w # "gift" => u[i] = t[i]
  /\ \A i \in DOMAIN u : i \notin DOMAIN t => u[i].origin[1] = w

\* The rows of a table and the rows of the ledger that come from them name each other.
Booked(w, rows, t) ==
  /\ \A r \in rows : r.link # None => r.link \in DOMAIN t /\ t[r.link].origin = <<w, r.id>>
  /\ \A i \in DOMAIN t : t[i].origin[1] = w /\ t[i].status = "posted" => \E r \in rows : t[i].origin = <<w, r.id>> /\ r.link = i

LEMMA NotMoved ==
  ASSUME NEW t, NEW w
  PROVE  Moved(t, t, w)
  BY DEF Moved

\* Requests about something else leave a table and the ledger in agreement.
LEMMA BookedKept ==
  ASSUME NEW w, NEW v, v # w, NEW rows, NEW t, NEW u, Moved(t, u, v), Booked(w, rows, t)
  PROVE  Booked(w, rows, u)
<1>1. ASSUME NEW r \in rows, r.link # None PROVE r.link \in DOMAIN u /\ u[r.link].origin = <<w, r.id>>
  BY <1>1 DEF Moved, Booked
<1>2. ASSUME NEW i \in DOMAIN u, u[i].origin[1] = w, u[i].status = "posted"
      PROVE  \E r \in rows : u[i].origin = <<w, r.id>> /\ r.link = i
  <2>1. i \in DOMAIN t
    BY <1>2 DEF Moved
  <2>2. t[i].origin = u[i].origin /\ t[i].status = "posted"
    BY <1>2, <2>1 DEF Moved
  <2> QED BY <1>2, <2>1, <2>2 DEF Booked
<1> QED BY <1>1, <1>2 DEF Booked

\* A row is saved with the ledger row it names; the one it named before is the same, or void.
LEMMA BookedSave ==
  ASSUME NEW w, NEW rows, NEW t, NEW u, Moved(t, u, w), Booked(w, rows, t), NEW s,
         s.link # None => s.link \in DOMAIN u /\ u[s.link].origin = <<w, s.id>>,
         \A i \in DOMAIN u : i \in DOMAIN t \/ i = s.link,
         None \notin DOMAIN u,
         \A r \in rows : r.id = s.id => r.link = s.link \/ r.link = None \/ u[r.link].status = "void"
  PROVE  Booked(w, ById(rows, s), u)
<1>1. ASSUME NEW r \in ById(rows, s), r.link # None PROVE r.link \in DOMAIN u /\ u[r.link].origin = <<w, r.id>>
  BY <1>1 DEF Moved, Booked, ById
<1>2. ASSUME NEW i \in DOMAIN u, u[i].origin[1] = w, u[i].status = "posted"
      PROVE  \E r \in ById(rows, s) : u[i].origin = <<w, r.id>> /\ r.link = i
  <2>1. CASE i = s.link
    BY <1>2, <2>1 DEF ById
  <2>2. CASE i # s.link
    <3>1. i \in DOMAIN t /\ t[i].origin = u[i].origin /\ t[i].status = "posted"
      BY <1>2, <2>2 DEF Moved
    <3>2. PICK r \in rows : t[i].origin = <<w, r.id>> /\ r.link = i
      BY <1>2, <3>1 DEF Booked
    <3>3. r.id # s.id
      BY <1>2, <2>2, <3>2
    <3> QED BY <3>1, <3>2, <3>3 DEF ById
  <2> QED BY <2>1, <2>2
<1> QED BY <1>1, <1>2 DEF Booked

-----------------------------------------------------------------------------
\* What holds of the ledger: allocations name a row and fit into it.
LedgerInv ==
  /\ LedgerTypeOK
  /\ UniqueIds(allocations) /\ UniqueIds(budgetLines)
  /\ \A a \in allocations : a.tx \in DOMAIN tx
  /\ AllocationsFit

\* The allocations are finitely many, with natural amounts.
LEMMA AllocationFacts ==
  ASSUME LedgerInv, NEW rows, rows \subseteq allocations
  PROVE  IsFiniteSet(rows) /\ \A a \in rows : a \in Allocation /\ a.amount \in Nat
<1>1. \A a \in allocations : a \in Allocation /\ a.amount \in Nat /\ a.id \in LedgerIds
  BY DEF LedgerInv, LedgerTypeOK, Allocation
<1>2. IsFiniteSet(allocations)
  BY <1>1, RowsFinite DEF LedgerInv
<1> QED BY <1>1, <1>2, FS_Subset

\* The rows of the ledger, and what a row is.
LEMMA RowFacts ==
  ASSUME LedgerInv
  PROVE  /\ tx \in Seq(Transaction) /\ DOMAIN tx = 1..Len(tx) /\ Len(tx) \in Nat /\ Len(tx) <= MaxTx /\ MaxTx \in Nat
         /\ None \notin DOMAIN tx /\ DOMAIN tx \subseteq 1..MaxTx
         /\ \A i \in DOMAIN tx : tx[i] \in Transaction
<1>1. tx \in Seq(Transaction) /\ Len(tx) <= MaxTx
  BY DEF LedgerInv, LedgerTypeOK
<1>2. MaxTx \in Nat
  BY TeamLedgerAssumption
<1>3. \A i \in DOMAIN tx : tx[i] \in Transaction
  BY <1>1, ElementOfSeq
<1> QED BY <1>1, <1>2, <1>3 DEF None

\* A ledger whose rows keep their amount, or still hold their allocations, is in order.
LEMMA LedgerKept ==
  ASSUME LedgerInv, UNCHANGED <<allocations, budgetLines>>, categories' \in [Categories -> Category],
         tx' \in Seq(Transaction), Len(tx') <= MaxTx, Len(tx) <= Len(tx'),
         \A i \in DOMAIN tx : tx'[i].amount = tx[i].amount \/ Total(AllocatedOf(i)) <= tx'[i].amount
  PROVE  LedgerInv'
<1>1. DOMAIN tx \subseteq DOMAIN tx' /\ (\A i \in DOMAIN tx' : tx'[i] \in Transaction)
  <2>1. \A i \in DOMAIN tx' : tx'[i] \in Transaction
    BY ElementOfSeq
  <2> QED BY <2>1, RowFacts
<1>2. LedgerTypeOK'
  BY DEF LedgerTypeOK, LedgerInv
<1>3. \A i : AllocatedOf(i)' = AllocatedOf(i)
  BY DEF AllocatedOf
<1>4. ASSUME NEW i \in DOMAIN tx' PROVE Total(AllocatedOf(i)) <= tx'[i].amount
  <2>1. CASE i \in DOMAIN tx
    <3>1. Total(AllocatedOf(i)) <= tx[i].amount
      BY <2>1 DEF LedgerInv, AllocationsFit
    <3> QED BY <2>1, <3>1
  <2>2. CASE i \notin DOMAIN tx
    <3>1. AllocatedOf(i) = {}
      BY <2>2 DEF AllocatedOf, LedgerInv
    <3>2. tx'[i].amount \in Nat
      BY <1>1 DEF Transaction
    <3> QED BY <3>1, <3>2, TotalEmpty
  <2> QED BY <2>1, <2>2
<1>5. AllocationsFit'
  <2> SUFFICES ASSUME NEW i \in DOMAIN tx' PROVE Total(AllocatedOf(i)') <= tx'[i].amount
    BY DEF AllocationsFit, Total
  <2> QED BY <1>3, <1>4
<1> QED BY <1>1, <1>2, <1>5 DEF LedgerInv, UniqueIds

\* Voiding a row of the table w changes nothing but its status.
LEMMA VoidRowMoves ==
  ASSUME LedgerInv, NEW link, link = None \/ link \in DOMAIN tx, NEW w,
         link # None => tx[link].origin[1] = w,
         tx' = VoidRow(link), UNCHANGED <<allocations, budgetLines>>, categories' \in [Categories -> Category]
  PROVE  /\ LedgerInv' /\ Moved(tx, tx', w) /\ DOMAIN tx' = DOMAIN tx
         /\ \A i \in DOMAIN tx : i # link => tx'[i] = tx[i]
         /\ link # None => tx'[link] = [tx[link] EXCEPT !.status = "void"] /\ tx'[link].status = "void"
<1>1. CASE link = None
  <2>1. tx' = tx
    BY <1>1 DEF VoidRow
  <2> QED BY <1>1, <2>1, LedgerKept, NotMoved DEF LedgerInv, LedgerTypeOK, VoidRow
<1>2. CASE link # None
  <2> DEFINE e == [tx[link] EXCEPT !.status = "void"]
  <2>1. link \in 1..Len(tx) /\ tx \in Seq(Transaction) /\ e \in Transaction
    BY <1>2, RowFacts DEF Transaction
  <2>2. tx' = [tx EXCEPT ![link] = e]
    BY <1>2 DEF VoidRow
  <2>3. e.status = "void" /\ e.origin = tx[link].origin /\ e.amount = tx[link].amount
    BY <1>2, RowFacts DEF Transaction
  <2> HIDE DEF e
  <2>4. /\ tx' \in Seq(Transaction) /\ Len(tx') = Len(tx)
        /\ \A j \in 1..Len(tx) : tx'[j] = IF j = link THEN e ELSE tx[j]
    BY <2>1, <2>2, ExceptSeq
  <2>5. DOMAIN tx' = DOMAIN tx
    BY <2>4, RowFacts
  <2>6. LedgerInv'
    BY <2>3, <2>4, RowFacts, LedgerKept
  <2>7. Moved(tx, tx', w)
    BY <1>2, <2>3, <2>4, <2>5, RowFacts DEF Moved
  <2> QED BY <1>2, <2>1, <2>3, <2>4, <2>5, <2>6, <2>7, RowFacts DEF e
<1> QED BY <1>1, <1>2

\* What validation compares a row with is what is allocated of it.
LEMMA CleanFits ==
  ASSUME NEW i, NEW t, TxClean(i, t)
  PROVE  Total(AllocatedOf(i)) <= t.amount
  BY DEF TxClean

\* Writing the ledger row of a row of the table w: the row says what is posted, and an existing row keeps its
\* status and season.
LEMMA PostForMoves ==
  ASSUME LedgerInv, NEW link, link = None \/ link \in DOMAIN tx, NEW t \in Transaction, t.status = "posted", NEW w,
         link # None => tx[link].origin = t.origin, t.origin[1] = w,
         PostFor(link, t), UNCHANGED <<budgetLines>>, categories' \in [Categories -> Category]
  PROVE  /\ tx' \in Seq(Transaction) /\ Len(tx') <= MaxTx /\ Len(tx) <= Len(tx')
         /\ RowOf(link) \in DOMAIN tx' /\ RowOf(link) # None
         /\ \A i \in DOMAIN tx' : i \in DOMAIN tx \/ i = RowOf(link)
         /\ \A i \in DOMAIN tx : i \in DOMAIN tx' /\ (i # RowOf(link) => tx'[i] = tx[i])
         /\ tx'[RowOf(link)].origin = t.origin /\ tx'[RowOf(link)].kind = t.kind /\ tx'[RowOf(link)].amount = t.amount
         /\ tx'[RowOf(link)].status = IF link = None THEN "posted" ELSE tx[link].status
         /\ Total(AllocatedOf(RowOf(link))) <= tx'[RowOf(link)].amount
         /\ Moved(tx, tx', w)
         /\ UNCHANGED allocations => LedgerInv'
<1> DEFINE k == RowOf(link)
<1>0. tx' = Synced(link, t) /\ TxClean(k, tx'[k])
  BY DEF PostFor
<1>1. Total(AllocatedOf(k)) <= tx'[k].amount
  BY <1>0, CleanFits
<1>2. CASE link = None
  <2>1. k = Len(tx) + 1 /\ tx' = Append(tx, t) /\ Len(tx) < MaxTx
    BY <1>0, <1>2 DEF RowOf, Synced, PostFor
  <2>2. /\ tx' \in Seq(Transaction) /\ Len(tx') = Len(tx) + 1
        /\ \A i \in 1..Len(tx) : tx'[i] = tx[i]
        /\ tx'[k] = t
    BY <2>1, RowFacts, AppendProperties
  <2>3. DOMAIN tx' = 1..Len(tx) + 1 /\ k \in DOMAIN tx' /\ k # None /\ k \notin DOMAIN tx
    BY <2>1, <2>2, RowFacts DEF None
  <2>4. Moved(tx, tx', w)
    <3>1. \A i \in DOMAIN tx : i \in DOMAIN tx' /\ tx'[i] = tx[i]
      BY <2>2, <2>3, RowFacts
    <3>2. \A i \in DOMAIN tx' : i \notin DOMAIN tx => tx'[i].origin[1] = w
      BY <2>1, <2>2, <2>3, RowFacts
    <3> QED BY <3>1, <3>2 DEF Moved
  <2>5. Len(tx') <= MaxTx /\ Len(tx) <= Len(tx')
    BY <2>1, <2>2, RowFacts
  <2>6. UNCHANGED allocations => LedgerInv'
    BY <2>2, <2>5, RowFacts, LedgerKept
  <2>7. \A i \in DOMAIN tx' : i \in DOMAIN tx \/ i = k
    BY <2>1, <2>3, RowFacts
  <2>8. \A i \in DOMAIN tx : i \in DOMAIN tx' /\ tx'[i] = tx[i]
    BY <2>2, <2>3, RowFacts
  <2> HIDE DEF k
  <2> QED BY <1>1, <1>2, <2>2, <2>3, <2>4, <2>5, <2>6, <2>7, <2>8 DEF k
<1>3. CASE link # None
  <2> DEFINE e == [tx[link] EXCEPT !.kind = t.kind, !.cat = t.cat, !.amount = t.amount, !.show = t.show]
  <2>1. link \in 1..Len(tx) /\ tx \in Seq(Transaction) /\ e \in Transaction /\ k = link
    BY <1>3, RowFacts DEF Transaction, RowOf
  <2>2. tx' = [tx EXCEPT ![link] = e]
    BY <1>0, <1>3, <2>1 DEF Synced
  <2>3. e.status = tx[link].status /\ e.origin = tx[link].origin /\ e.amount = t.amount /\ e.kind = t.kind
    BY <1>3, RowFacts DEF Transaction
  <2> HIDE DEF e
  <2>4. /\ tx' \in Seq(Transaction) /\ Len(tx') = Len(tx)
        /\ \A j \in 1..Len(tx) : tx'[j] = IF j = link THEN e ELSE tx[j]
    BY <2>1, <2>2, ExceptSeq
  <2>5. DOMAIN tx' = DOMAIN tx /\ k \in DOMAIN tx' /\ k # None
    BY <2>1, <2>4, RowFacts
  <2>6. Moved(tx, tx', w)
    BY <1>3, <2>1, <2>3, <2>4, <2>5, RowFacts DEF Moved
  <2>7. Len(tx') <= MaxTx /\ Len(tx) <= Len(tx')
    BY <2>4, RowFacts
  <2>8. \A i \in DOMAIN tx : tx'[i].amount = tx[i].amount \/ Total(AllocatedOf(i)) <= tx'[i].amount
    BY <1>1, <2>1, <2>4, RowFacts
  <2>9. UNCHANGED allocations => LedgerInv'
    BY <2>4, <2>7, <2>8, LedgerKept
  <2>10. \A i \in DOMAIN tx : i # k => tx'[i] = tx[i]
    BY <2>1, <2>4, RowFacts
  <2>11. tx'[k] = e
    BY <2>1, <2>4
  <2>12. /\ tx'[k].origin = t.origin /\ tx'[k].kind = t.kind /\ tx'[k].amount = t.amount
         /\ tx'[k].status = IF link = None THEN "posted" ELSE tx[link].status
    BY <1>3, <2>3, <2>11
  <2>13. \A i \in DOMAIN tx' : i \in DOMAIN tx \/ i = k
    BY <2>5
  <2>14. \A i \in DOMAIN tx : i \in DOMAIN tx' /\ (i # k => tx'[i] = tx[i])
    BY <2>5, <2>10
  <2> HIDE DEF k
  <2> QED BY <1>1, <2>4, <2>5, <2>6, <2>7, <2>9, <2>12, <2>13, <2>14 DEF k
<1> QED BY <1>2, <1>3

-----------------------------------------------------------------------------
\* What holds of each part of the money, besides the ledger.
AccountInv ==
  /\ barns \subseteq Barns /\ homeBarn \in [Memberships -> Barns \cup {None}] /\ rates \in [Barns -> 0..MaxAmount \cup {NoRate}]
  /\ charges \subseteq Charge /\ credits \subseteq Credit /\ services \subseteq Service /\ awards \subseteq Award
  /\ UniqueIds(charges) /\ UniqueIds(credits) /\ UniqueIds(services) /\ UniqueIds(awards)

PaymentInv ==
  /\ payments \subseteq Payment /\ UniqueIds(payments)
  /\ Booked("payment", payments, tx)
  /\ \A r \in payments : r.link # None
  /\ \A r \in payments : r.status = "void" => tx[r.link].status = "void"

ClaimInv ==
  /\ claims \subseteq Claim /\ UniqueIds(claims)
  /\ Booked("claim", claims, tx)
  /\ \A r \in claims : (r.status = "reimbursed") = (r.link # None)

GiftInv ==
  /\ policy \in Policy /\ campaigns \in Seq(CampaignStatuses) /\ DOMAIN campaigns \subseteq LedgerIds
  /\ gifts \subseteq Gift /\ UniqueIds(gifts)
  /\ Booked("gift", gifts, tx)
  /\ GiftsMatchTheLedger

\* A review in flight has read its request as it still is.
RequestInv ==
  /\ requests \subseteq Request /\ UniqueIds(requests)
  /\ \A v \in reviews : v \in (1..MaxReviews) \X requests /\ v[2].status # "draft"
  /\ \A v, u \in reviews : v = u
  /\ Booked("reimbursement", requests, tx)
  /\ ExpenseIffPaid

BudgetInv ==
  /\ seasonLines \subseteq SeasonLine
  /\ \A g \in generic : g.amount \in 0..(MaxAmount * Cardinality(LedgerIds))
  /\ BudgetsAreMirrored

PayableInv ==
  /\ PayablesTypeOK /\ UniqueIds(obligations) /\ UniqueIds(payablePayments)
  /\ Booked("payable", payablePayments, tx)
  /\ \A q \in payablePayments : \E o \in obligations : o.id = q.obligation
  /\ \A o \in obligations : PaidTotal(o) <= o.amount
  /\ \A q \in payablePayments : q.status = "void" => tx[q.link].status = "void"

\* Where a key comes in the order in which every batch goes through its keys.
Rank(k) == CASE k[1] = "monthly" -> k[2][1] [] k[1] = "lesson" -> k[2] [] OTHER -> 0

\* A run holds keys it has passed, no other run has them, and every key it has passed is committed or held.
RunInv(i) ==
  /\ runs[i] \in Run /\ runs[i].next >= 1
  /\ \A p, q \in DOMAIN runs[i].keys : p < q => Rank(runs[i].keys[p]) < Rank(runs[i].keys[q])
  /\ \A k \in runs[i].own : ~Committed(k) /\ Open(i) /\ \E p \in DOMAIN runs[i].keys : p < runs[i].next /\ k = runs[i].keys[p]
  /\ \A j \in DOMAIN runs : j # i => runs[i].own \cap runs[j].own = {}
  /\ Open(i) => \A p \in DOMAIN runs[i].keys : p < runs[i].next => Committed(runs[i].keys[p]) \/ runs[i].keys[p] \in runs[i].own
  /\ runs[i].at = "done" => \A p \in DOMAIN runs[i].keys : Committed(runs[i].keys[p])

BillingInv ==
  /\ rules \subseteq Rules
  /\ \A b \in billed : b.key \in BillingKeys /\ b.by \in DOMAIN runs /\ runs[b.by].at = "done"
  /\ runs \in Seq(Run) /\ Len(runs) <= MaxRuns
  /\ ChargedOnce
  /\ \A i \in DOMAIN runs : RunInv(i)

\* Outside the show fees no charge is for a show.
FeeInv == part # "fees" => \A c \in charges : c.show = None

MoneyInv ==
  /\ LedgerInv /\ AccountInv /\ PaymentInv /\ ClaimInv /\ GiftInv
  /\ RequestInv /\ BudgetInv /\ PayableInv /\ BillingInv

\* Each part is left in order by requests that leave its tables alone and write no ledger row of its own.
LEMMA PaymentKept ==
  ASSUME PaymentInv, UNCHANGED payments, NEW v, v # "payment", Moved(tx, tx', v)
  PROVE  PaymentInv'
<1>1. Booked("payment", payments', tx')
  BY BookedKept DEF PaymentInv
<1>2. ASSUME NEW r \in payments, r.status = "void" PROVE tx'[r.link].status = "void"
  <2>1. r.link \in DOMAIN tx /\ tx[r.link].status = "void"
    BY <1>2 DEF PaymentInv, Booked
  <2> QED BY <2>1 DEF Moved
<1> QED BY <1>1, <1>2 DEF PaymentInv, UniqueIds

LEMMA ClaimKept ==
  ASSUME ClaimInv, UNCHANGED claims, NEW v, v # "claim", Moved(tx, tx', v)
  PROVE  ClaimInv'
<1>1. Booked("claim", claims', tx')
  BY BookedKept DEF ClaimInv
<1> QED BY <1>1 DEF ClaimInv, UniqueIds

LEMMA GiftKept ==
  ASSUME GiftInv, UNCHANGED giftVars, NEW v, v # "gift", Moved(tx, tx', v)
  PROVE  GiftInv'
<1>0. UNCHANGED <<policy, campaigns, gifts>>
  BY DEF giftVars
<1>1. Booked("gift", gifts', tx')
  BY <1>0, BookedKept DEF GiftInv
<1>2. ASSUME NEW g \in gifts PROVE tx'[g.link] = tx[g.link]
  <2>1. g.link \in DOMAIN tx /\ tx[g.link].origin[1] = "gift"
    BY DEF GiftInv, GiftsMatchTheLedger, Booked
  <2> QED BY <2>1 DEF Moved
<1>3. GiftsMatchTheLedger'
  BY <1>0, <1>2 DEF GiftInv, GiftsMatchTheLedger
<1> QED BY <1>0, <1>1, <1>3 DEF GiftInv, UniqueIds

LEMMA RequestKept ==
  ASSUME RequestInv, UNCHANGED <<requests, reviews>>, NEW v, v # "reimbursement", Moved(tx, tx', v)
  PROVE  RequestInv'
<1>1. Booked("reimbursement", requests', tx')
  BY BookedKept DEF RequestInv
<1> QED BY <1>1 DEF RequestInv, UniqueIds, ExpenseIffPaid

LEMMA PayableKept ==
  ASSUME PayableInv, UNCHANGED payableVars, NEW v, v # "payable", Moved(tx, tx', v)
  PROVE  PayableInv'
<1>0. UNCHANGED <<obligations, payablePayments>>
  BY DEF payableVars
<1>1. Booked("payable", payablePayments', tx')
  BY <1>0, BookedKept DEF PayableInv
<1>2. ASSUME NEW q \in payablePayments, q.status = "void" PROVE tx'[q.link].status = "void"
  <2>1. q.link # None
    BY DEF PayableInv, PayablesTypeOK, PayablePayment, None
  <2>2. q.link \in DOMAIN tx /\ tx[q.link].status = "void"
    BY <1>2, <2>1 DEF PayableInv, Booked
  <2> QED BY <2>2 DEF Moved
<1>3. \A o : PaidTotal(o)' = PaidTotal(o)
  BY <1>0 DEF PaidTotal, PaymentsOf
<1> QED BY <1>0, <1>1, <1>2, <1>3 DEF PayableInv, PayablesTypeOK, UniqueIds

LEMMA BudgetKept ==
  ASSUME BudgetInv, UNCHANGED <<seasonLines, generic, budgetLines>>
  PROVE  BudgetInv'
  BY DEF BudgetInv, BudgetsAreMirrored, ShowGroups

LEMMA AccountKept ==
  ASSUME AccountInv, UNCHANGED <<duesVars, charges, credits, services, awards>>
  PROVE  AccountInv'
  BY DEF AccountInv, duesVars, UniqueIds

LEMMA BillingKept ==
  ASSUME BillingInv, UNCHANGED billingVars
  PROVE  BillingInv'
<1>1. UNCHANGED <<rules, billed, runs>>
  BY DEF billingVars
<1> QED BY <1>1 DEF BillingInv, RunInv, ChargedOnce, Committed, Open

-----------------------------------------------------------------------------
\* Nothing is booked at first.
LEMMA MoneyBegins == MoneyInit => MoneyInv
<1> SUFFICES ASSUME MoneyInit PROVE MoneyInv
  OBVIOUS
<1> USE DEF MoneyInit, LedgerInit, FamilyInit, FundraisingInit, ShowFinanceInit, PayablesInit, BillingInit
<1>1. LedgerInv
  <2>1. tx \in Seq(Transaction) /\ Len(tx) = 0 /\ DOMAIN tx = {}
    OBVIOUS
  <2>2. categories \in [Categories -> Category]
    BY DEF Category
  <2> QED BY <2>1, <2>2, TeamLedgerAssumption DEF LedgerInv, LedgerTypeOK, AllocationsFit, UniqueIds
<1>2. AccountInv
  BY FamilyAccountAssumption DEF AccountInv, UniqueIds
<1>3. PaymentInv /\ ClaimInv
  BY DEF PaymentInv, ClaimInv, Booked, UniqueIds
<1>4. GiftInv
  BY DEF GiftInv, Policy, PolicyModels, Booked, UniqueIds, GiftsMatchTheLedger
<1>5. RequestInv
  BY DEF RequestInv, Booked, UniqueIds, ExpenseIffPaid
<1>6. BudgetInv
  BY DEF BudgetInv, BudgetsAreMirrored, ShowGroups
<1>7. PayableInv
  BY DEF PayableInv, Booked, UniqueIds, PayablesTypeOK
<1>8. BillingInv
  BY BillingAssumption DEF BillingInv, ChargedOnce
<1> QED BY <1>1, <1>2, <1>3, <1>4, <1>5, <1>6, <1>7, <1>8 DEF MoneyInv

-----------------------------------------------------------------------------
(*------------------------------- the ledger ------------------------------*)
\* A row added to the ledger changes no other.
LEMMA AppendMoves ==
  ASSUME LedgerInv, NEW e \in Transaction, Len(tx) < MaxTx, tx' = Append(tx, e),
         UNCHANGED <<allocations, budgetLines>>, categories' \in [Categories -> Category]
  PROVE  LedgerInv' /\ Moved(tx, tx', e.origin[1])
<1>1. /\ tx' \in Seq(Transaction) /\ Len(tx') = Len(tx) + 1
      /\ \A i \in 1..Len(tx) : tx'[i] = tx[i]
      /\ tx'[Len(tx) + 1] = e
  BY RowFacts, AppendProperties
<1>2. LedgerInv'
  <2>1. Len(tx') <= MaxTx /\ Len(tx) <= Len(tx')
    BY <1>1, RowFacts
  <2> QED BY <1>1, <2>1, RowFacts, LedgerKept
<1>3. DOMAIN tx' = 1..Len(tx) + 1
  BY <1>1, RowFacts
<1>4. \A i \in DOMAIN tx : i \in DOMAIN tx' /\ tx'[i] = tx[i]
  BY <1>1, <1>3, RowFacts
<1>5. \A i \in DOMAIN tx' : i \notin DOMAIN tx => tx'[i] = e
  BY <1>1, <1>3, RowFacts
<1> QED BY <1>2, <1>4, <1>5 DEF Moved

\* A row of the ledger changed where it stands keeps what it comes from.
LEMMA ChangeMoves ==
  ASSUME LedgerInv, NEW i \in DOMAIN tx, NEW e \in Transaction, tx' = [tx EXCEPT ![i] = e], NEW v,
         e.origin = tx[i].origin, e.status = tx[i].status \/ e.status = "void", tx[i].origin[1] # "gift" \/ v = "gift",
         e.amount = tx[i].amount \/ Total(AllocatedOf(i)) <= e.amount,
         UNCHANGED <<allocations, budgetLines>>, categories' \in [Categories -> Category]
  PROVE  LedgerInv' /\ Moved(tx, tx', v) /\ Len(tx') = Len(tx)
<1>1. i \in 1..Len(tx) /\ tx \in Seq(Transaction)
  BY RowFacts
<1>2. /\ tx' \in Seq(Transaction) /\ Len(tx') = Len(tx)
      /\ \A j \in 1..Len(tx) : tx'[j] = IF j = i THEN e ELSE tx[j]
  BY <1>1, ExceptSeq
<1>3. DOMAIN tx' = DOMAIN tx
  BY <1>2, RowFacts
<1>4. LedgerInv'
  BY <1>2, RowFacts, LedgerKept
<1>5. Moved(tx, tx', v)
  BY <1>2, <1>3, RowFacts DEF Moved
<1> QED BY <1>2, <1>4, <1>5

\* Whatever is typed into the ledger leaves every other table booked.
ByHandMoves(t, u) == \E v \in {"hand", "reversal"} : Moved(t, u, v)

LEMMA EditMoves ==
  ASSUME LedgerInv, NEW i \in DOMAIN tx, NEW kind \in Kinds, NEW cat \in Categories, NEW season \in Seasons \cup {None},
         NEW amount \in Amounts, FinanceTransactionEdit(i, kind, cat, season, amount)
  PROVE  LedgerInv' /\ ByHandMoves(tx, tx')
<1> DEFINE e == [tx[i] EXCEPT !.kind = kind, !.cat = cat, !.season = season, !.amount = amount]
<1>1. tx[i] \in Transaction /\ amount \in 1..MaxAmount
  BY RowFacts, TeamLedgerAssumption
<1>2. e \in Transaction /\ e.origin = tx[i].origin /\ e.status = tx[i].status
  BY <1>1 DEF Transaction
<1>3. TxClean(i, e) /\ tx' = [tx EXCEPT ![i] = e] /\ tx[i].origin[1] # "gift"
  BY DEF FinanceTransactionEdit, Editable
<1>4. Total(AllocatedOf(i)) <= e.amount
  BY <1>3, CleanFits
<1>5. UNCHANGED <<allocations, budgetLines>> /\ categories' \in [Categories -> Category]
  BY DEF FinanceTransactionEdit, LedgerInv, LedgerTypeOK
<1> HIDE DEF e
<1>6. LedgerInv' /\ Moved(tx, tx', "hand")
  BY <1>2, <1>3, <1>4, <1>5, ChangeMoves
<1> QED BY <1>6 DEF ByHandMoves

LEMMA DeleteMoves ==
  ASSUME LedgerInv, NEW i \in DOMAIN tx, NEW reversed \in BOOLEAN, FinanceTransactionDelete(i, reversed)
  PROVE  LedgerInv' /\ ByHandMoves(tx, tx')
<1> DEFINE e == [tx[i] EXCEPT !.status = "void"]
           opposite == [tx[i] EXCEPT !.kind = Opposite(tx[i].kind), !.origin = <<"reversal", 0>>]
           voided == [tx EXCEPT ![i] = e]
<1>1. tx[i] \in Transaction /\ tx[i].origin[1] # "gift" /\ i \in 1..Len(tx)
  BY RowFacts DEF FinanceTransactionDelete, Editable
<1>2. e \in Transaction /\ e.origin = tx[i].origin /\ e.status = "void" /\ e.amount = tx[i].amount
  BY <1>1 DEF Transaction
<1>3. opposite \in Transaction /\ opposite.origin = <<"reversal", 0>>
  BY <1>1 DEF Transaction, Opposite, Kinds, Origins
<1>4. UNCHANGED <<allocations, budgetLines>> /\ categories' \in [Categories -> Category]
  BY DEF FinanceTransactionDelete, LedgerInv, LedgerTypeOK
<1>5. tx' = IF reversed THEN Append(voided, opposite) ELSE voided
  BY DEF FinanceTransactionDelete
<1>6. reversed => Len(tx) < MaxTx
  BY DEF FinanceTransactionDelete
<1> HIDE DEF e, opposite
<1>7. CASE ~reversed
  <2>1. LedgerInv' /\ Moved(tx, tx', "hand")
    BY <1>1, <1>2, <1>4, <1>5, <1>7, ChangeMoves
  <2> QED BY <2>1 DEF ByHandMoves
<1>8. CASE reversed
  <2>1. /\ voided \in Seq(Transaction) /\ Len(voided) = Len(tx)
        /\ \A j \in 1..Len(tx) : voided[j] = IF j = i THEN e ELSE tx[j]
    BY <1>1, <1>2, RowFacts, ExceptSeq
  <2> HIDE DEF voided
  <2>2. /\ tx' \in Seq(Transaction) /\ Len(tx') = Len(tx) + 1
        /\ \A j \in 1..Len(tx) : tx'[j] = voided[j]
        /\ tx'[Len(tx) + 1] = opposite
    BY <1>3, <1>5, <1>8, <2>1, AppendProperties
  <2>3. \A j \in 1..Len(tx) : tx'[j] = IF j = i THEN e ELSE tx[j]
    BY <2>1, <2>2
  <2>4. LedgerInv'
    <3>1. Len(tx') <= MaxTx /\ Len(tx) <= Len(tx')
      BY <1>6, <1>8, <2>2, RowFacts
    <3>2. \A j \in DOMAIN tx : tx'[j].amount = tx[j].amount
      BY <1>2, <2>3, RowFacts
    <3> QED BY <1>4, <2>2, <3>1, <3>2, LedgerKept
  <2>5. DOMAIN tx' = 1..Len(tx) + 1
    BY <2>2, RowFacts
  <2>6. \A j \in DOMAIN tx : j \in DOMAIN tx' /\ tx'[j] = IF j = i THEN e ELSE tx[j]
    BY <2>3, <2>5, RowFacts
  <2>7. \A j \in DOMAIN tx' : j \notin DOMAIN tx => tx'[j] = opposite
    BY <2>2, <2>5, RowFacts
  <2>8. Moved(tx, tx', "reversal")
    BY <1>1, <1>2, <1>3, <2>6, <2>7 DEF Moved
  <2> QED BY <2>4, <2>8 DEF ByHandMoves
<1> QED BY <1>7, <1>8

LEMMA CreateMoves ==
  ASSUME LedgerInv, NEW kind \in Kinds, NEW cat \in Categories, NEW season \in Seasons \cup {None},
         NEW amount \in Amounts, FinanceTransactionCreate(kind, cat, season, amount)
  PROVE  LedgerInv' /\ ByHandMoves(tx, tx')
<1> DEFINE e == Posting(kind, cat, season, amount, <<"hand", 0>>)
<1>1. e \in Transaction /\ e.origin[1] = "hand"
  BY TeamLedgerAssumption DEF Posting, Transaction, Origins, None
<1>2. Len(tx) < MaxTx /\ tx' = Append(tx, e) /\ UNCHANGED <<allocations, budgetLines>> /\ categories' \in [Categories -> Category]
  BY DEF FinanceTransactionCreate, LedgerInv, LedgerTypeOK
<1> HIDE DEF e
<1>3. LedgerInv' /\ Moved(tx, tx', "hand")
  BY <1>1, <1>2, AppendMoves
<1> QED BY <1>3 DEF ByHandMoves

LEMMA TransactionMoves ==
  ASSUME LedgerInv, TransactionStep
  PROVE  LedgerInv' /\ ByHandMoves(tx, tx')
  BY CreateMoves, EditMoves, DeleteMoves DEF TransactionStep

LEMMA HandMoves ==
  ASSUME LedgerInv, ByHand
  PROVE  LedgerInv' /\ ByHandMoves(tx, tx')
<1>1. ASSUME NEW i \in DOMAIN tx, FinanceTransactionDelete(i, FALSE) PROVE LedgerInv' /\ ByHandMoves(tx, tx')
  BY <1>1, DeleteMoves
<1>2. ASSUME NEW i \in DOMAIN tx, NEW amount \in Amounts, FinanceTransactionEdit(i, tx[i].kind, tx[i].cat, tx[i].season, amount)
      PROVE  LedgerInv' /\ ByHandMoves(tx, tx')
  <2>1. tx[i].kind \in Kinds /\ tx[i].cat \in Categories /\ tx[i].season \in Seasons \cup {None}
    BY RowFacts DEF Transaction
  <2> QED BY <1>2, <2>1, EditMoves
<1> QED BY <1>1, <1>2 DEF ByHand

\* An allocation saved by its id replaces the one with that id.
LEMMA AllocationSaved ==
  ASSUME LedgerInv, NEW a \in Allocation, NEW u, a.tx \in DOMAIN u, u \in Seq(Transaction), Len(u) <= MaxTx, DOMAIN tx \subseteq DOMAIN u,
         tx' = u, \A i \in DOMAIN u : i # a.tx => Total(AllocatedOf(i)) <= u[i].amount,
         Total({b \in AllocatedOf(a.tx) : b.id # a.id}) + a.amount <= u[a.tx].amount,
         allocations' = ById(allocations, a), UNCHANGED <<categories, budgetLines>>
  PROVE  LedgerInv'
<1>1. LedgerTypeOK'
  BY DEF LedgerTypeOK, LedgerInv, ById
<1>2. UniqueIds(allocations') /\ UniqueIds(budgetLines')
  BY ByIdUnique DEF LedgerInv
<1>3. \A b \in allocations' : b.tx \in DOMAIN tx'
  BY DEF ById, LedgerInv
<1>4. \A i \in DOMAIN u : u[i].amount \in Nat
  <2>1. \A i \in DOMAIN u : u[i] \in Transaction
    BY ElementOfSeq
  <2> QED BY <2>1 DEF Transaction
<1>5. ASSUME NEW i \in DOMAIN u PROVE Total(AllocatedOf(i)') <= u[i].amount
  <2>1. CASE i = a.tx
    <3> DEFINE others == {b \in AllocatedOf(i) : b.id # a.id}
    <3>1. AllocatedOf(i)' = others \cup {a} /\ a \notin others
      BY <2>1 DEF AllocatedOf, ById
    <3>2. IsFiniteSet(others) /\ \A b \in others : b.amount \in Nat
      BY AllocationFacts DEF AllocatedOf
    <3>3. a.amount \in Nat
      BY DEF Allocation
    <3>4. Total(others) + a.amount <= u[i].amount
      BY <2>1
    <3> HIDE DEF others
    <3>5. Total(others \cup {a}) = Total(others) + a.amount
      BY <3>1, <3>2, <3>3, TotalAdd
    <3> QED BY <3>1, <3>4, <3>5
  <2>2. CASE i # a.tx
    <3>1. AllocatedOf(i)' \subseteq AllocatedOf(i)
      BY <2>2 DEF AllocatedOf, ById
    <3>2. IsFiniteSet(AllocatedOf(i)) /\ \A b \in AllocatedOf(i) : b.amount \in Nat
      BY AllocationFacts DEF AllocatedOf
    <3>3. Total(AllocatedOf(i)') <= Total(AllocatedOf(i))
      BY <3>1, <3>2, TotalPart
    <3>4. Total(AllocatedOf(i)) \in Nat
      BY <3>2, TotalNat
    <3>5. IsFiniteSet(AllocatedOf(i)') /\ \A b \in AllocatedOf(i)' : b.amount \in Nat
      BY <3>1, <3>2, FS_Subset
    <3>6. Total(AllocatedOf(i)') \in Nat
      BY <3>5, TotalNat
    <3> QED BY <1>4, <2>2, <3>3, <3>4, <3>6
  <2> QED BY <2>1, <2>2
<1>6. AllocationsFit'
  <2> SUFFICES ASSUME NEW i \in DOMAIN u PROVE Total(AllocatedOf(i)') <= u[i].amount
    BY DEF AllocationsFit, Total
  <2> QED BY <1>5
<1> QED BY <1>1, <1>2, <1>3, <1>6 DEF LedgerInv

LEMMA AllocationsKept ==
  ASSUME LedgerInv, AllocationStep
  PROVE  LedgerInv' /\ UNCHANGED <<categories, tx, budgetLines>>
<1>1. ASSUME NEW a \in allocations, TransactionAllocationDelete(a) PROVE LedgerInv' /\ UNCHANGED <<categories, tx, budgetLines>>
  <2> USE <1>1 DEF TransactionAllocationDelete
  <2>1. \A i \in DOMAIN tx : AllocatedOf(i)' \subseteq AllocatedOf(i)
    BY DEF AllocatedOf
  <2>2. ASSUME NEW i \in DOMAIN tx PROVE Total(AllocatedOf(i)') <= tx[i].amount
    <3>1. IsFiniteSet(AllocatedOf(i)) /\ \A b \in AllocatedOf(i) : b.amount \in Nat
      BY AllocationFacts DEF AllocatedOf
    <3>2. Total(AllocatedOf(i)') <= Total(AllocatedOf(i)) /\ Total(AllocatedOf(i)) \in Nat
      BY <2>1, <3>1, TotalPart, TotalNat
    <3>3. IsFiniteSet(AllocatedOf(i)') /\ \A b \in AllocatedOf(i)' : b.amount \in Nat
      BY <2>1, <3>1, FS_Subset
    <3>4. Total(AllocatedOf(i)') \in Nat
      BY <3>3, TotalNat
    <3>5. Total(AllocatedOf(i)) <= tx[i].amount /\ tx[i].amount \in Nat
      BY RowFacts DEF LedgerInv, AllocationsFit, Transaction
    <3> QED BY <3>2, <3>4, <3>5
  <2>3. AllocationsFit'
    <3> SUFFICES ASSUME NEW i \in DOMAIN tx PROVE Total(AllocatedOf(i)') <= tx[i].amount
      BY DEF AllocationsFit, Total
    <3> QED BY <2>2
  <2> QED BY <2>3 DEF LedgerInv, LedgerTypeOK, UniqueIds
<1>2. ASSUME NEW a \in Allocation, TransactionAllocationSave(a) PROVE LedgerInv' /\ UNCHANGED <<categories, tx, budgetLines>>
  <2> USE <1>2 DEF TransactionAllocationSave
  <2>1. Total({b \in AllocatedOf(a.tx) : b.id # a.id}) + a.amount <= tx[a.tx].amount
    BY DEF AllocationClean, AllocationFits
  <2>2. \A i \in DOMAIN tx : Total(AllocatedOf(i)) <= tx[i].amount
    BY DEF LedgerInv, AllocationsFit
  <2>3. LedgerInv'
    BY <2>1, <2>2, RowFacts, AllocationSaved
  <2> QED BY <2>3
<1>3. ASSUME NEW id \in LedgerIds, NEW i \in DOMAIN tx, NEW show \in Shows, NEW scope \in Scopes, NEW line \in LedgerIds \cup {None},
             NEW amount \in Amounts
      PROVE  [id |-> id, tx |-> i, show |-> show, scope |-> scope, line |-> line, amount |-> amount,
              origin |-> IF \E a \in allocations : a.id = id THEN (CHOOSE a \in allocations : a.id = id).origin ELSE 0] \in Allocation
  <2> DEFINE from == IF \E a \in allocations : a.id = id THEN (CHOOSE a \in allocations : a.id = id).origin ELSE 0
  <2>1. from \in {0} \cup LedgerIds
    <3>1. CASE \E a \in allocations : a.id = id
      <4>1. (CHOOSE a \in allocations : a.id = id) \in allocations
        BY <3>1
      <4>2. \A a \in allocations : a.origin \in {0} \cup LedgerIds
        BY DEF LedgerInv, LedgerTypeOK, Allocation
      <4> QED BY <3>1, <4>1, <4>2
    <3>2. CASE ~\E a \in allocations : a.id = id
      BY <3>2
    <3> QED BY <3>1, <3>2
  <2> HIDE DEF from
  <2>2. i \in 1..MaxTx /\ amount \in 1..MaxAmount
    BY RowFacts, TeamLedgerAssumption
  <2> QED BY <2>1, <2>2 DEF Allocation, from
<1> QED BY <1>1, <1>2, <1>3 DEF AllocationStep

-----------------------------------------------------------------------------
(*---------------------------- family accounts ----------------------------*)
\* A row saved with its ledger row is booked: the ledger row is new, or the one the row had.
LEMMA PostForBooks ==
  ASSUME LedgerInv, NEW w, NEW rows, UniqueIds(rows), Booked(w, rows, tx), NEW s, NEW link,
         NEW t \in Transaction, t.status = "posted", t.origin = <<w, s.id>>, s.link = RowOf(link),
         link # None => \E old \in rows : old.id = s.id /\ old.link = link,
         link = None => \A old \in rows : old.id = s.id => old.link = None,
         PostFor(link, t), UNCHANGED <<categories, budgetLines>>
  PROVE  /\ Booked(w, ById(rows, s), tx') /\ Moved(tx, tx', w)
         /\ s.link \in DOMAIN tx' /\ s.link \in 1..MaxTx /\ s.link # None
         /\ tx' \in Seq(Transaction) /\ Len(tx') <= MaxTx /\ DOMAIN tx \subseteq DOMAIN tx'
         /\ \A i \in DOMAIN tx : i # s.link => tx'[i] = tx[i]
         /\ \A i \in DOMAIN tx' : i \in DOMAIN tx \/ i = s.link
         /\ tx'[s.link].kind = t.kind /\ tx'[s.link].amount = t.amount
         /\ tx'[s.link].status = IF link = None THEN "posted" ELSE tx[link].status
         /\ UNCHANGED allocations => LedgerInv'
<1>1. link = None \/ link \in DOMAIN tx
  BY DEF Booked
<1>2. link # None => tx[link].origin = t.origin
  BY DEF Booked
<1>3. t.origin[1] = w /\ categories' \in [Categories -> Category]
  BY DEF LedgerInv, LedgerTypeOK
<1>4. /\ tx' \in Seq(Transaction) /\ Len(tx') <= MaxTx /\ Len(tx) <= Len(tx')
      /\ RowOf(link) \in DOMAIN tx' /\ RowOf(link) # None
      /\ \A i \in DOMAIN tx' : i \in DOMAIN tx \/ i = RowOf(link)
      /\ \A i \in DOMAIN tx : i \in DOMAIN tx' /\ (i # RowOf(link) => tx'[i] = tx[i])
      /\ tx'[RowOf(link)].origin = t.origin /\ tx'[RowOf(link)].kind = t.kind /\ tx'[RowOf(link)].amount = t.amount
      /\ tx'[RowOf(link)].status = IF link = None THEN "posted" ELSE tx[link].status
      /\ Moved(tx, tx', w)
      /\ UNCHANGED allocations => LedgerInv'
  BY <1>1, <1>2, <1>3, PostForMoves
<1>5. DOMAIN tx' = 1..Len(tx') /\ Len(tx') \in Nat
  BY <1>4
<1>6. s.link \in 1..MaxTx /\ None \notin DOMAIN tx'
  BY <1>4, <1>5, RowFacts DEF None
<1>7. \A old \in rows : old.id = s.id => old.link = s.link \/ old.link = None
  <2>1. CASE link = None
    BY <2>1
  <2>2. CASE link # None
    <3>1. PICK old \in rows : old.id = s.id /\ old.link = link
      BY <2>2
    <3>2. \A r \in rows : r.id = s.id => r = old
      BY <3>1 DEF UniqueIds
    <3>3. s.link = link
      BY <2>2 DEF RowOf
    <3> QED BY <3>1, <3>2, <3>3
  <2> QED BY <2>1, <2>2
<1>8. Booked(w, ById(rows, s), tx')
  <2>1. s.link # None => s.link \in DOMAIN tx' /\ tx'[s.link].origin = <<w, s.id>>
    BY <1>4
  <2>2. \A i \in DOMAIN tx' : i \in DOMAIN tx \/ i = s.link
    BY <1>4
  <2> QED BY <1>4, <1>6, <1>7, <2>1, <2>2, BookedSave
<1> QED BY <1>4, <1>6, <1>8

LEMMA ChargeSaved ==
  ASSUME AccountInv, NEW c \in Charge, FamilyChargeSave(c)
  PROVE  AccountInv'
<1> USE DEF FamilyChargeSave
<1>1. charges' \subseteq Charge /\ UniqueIds(charges')
  BY ByIdUnique DEF AccountInv, ById
<1> QED BY <1>1 DEF AccountInv, duesVars, UniqueIds

LEMMA CreditSaved ==
  ASSUME AccountInv, NEW r \in Credit, FamilyCreditSave(r)
  PROVE  AccountInv'
<1> USE DEF FamilyCreditSave
<1>1. credits' \subseteq Credit /\ UniqueIds(credits')
  BY ByIdUnique DEF AccountInv, ById
<1> QED BY <1>1 DEF AccountInv, duesVars, UniqueIds

LEMMA ServiceSaved ==
  ASSUME AccountInv, NEW r \in Service, ServiceAgreementSave(r)
  PROVE  AccountInv'
<1> USE DEF ServiceAgreementSave
<1>1. services' \subseteq Service /\ UniqueIds(services')
  BY ByIdUnique DEF AccountInv, ById
<1> QED BY <1>1 DEF AccountInv, duesVars, UniqueIds

LEMMA AwardSaved ==
  ASSUME AccountInv, NEW a \in Award, AssistanceAwardSave(a)
  PROVE  AccountInv'
<1> USE DEF AssistanceAwardSave
<1>1. awards' \subseteq Award /\ UniqueIds(awards')
  BY ByIdUnique DEF AccountInv, ById
<1> QED BY <1>1 DEF AccountInv, duesVars, UniqueIds

\* Charges generated under new ids, one for each rider, keep the ids a key.
LEMMA ChargesGenerated ==
  ASSUME AccountInv, NEW who, NEW ids, ids \in FreeIds(Cardinality(who)), NEW number \in [who -> ids],
         \A m, n \in who : m # n => number[m] # number[n],
         NEW made, \A m \in who : made[m] \in Charge /\ made[m].id = number[m],
         charges' = charges \cup {made[m] : m \in who}
  PROVE  charges' \subseteq Charge /\ UniqueIds(charges')
<1>1. \A m \in who : \A c \in charges : c.id # number[m]
  BY DEF FreeIds
<1>2. UniqueIds(charges')
  BY <1>1 DEF UniqueIds, AccountInv
<1> QED BY <1>2 DEF AccountInv

LEMMA DuesGenerated ==
  ASSUME AccountInv, NEW who, who \subseteq Billable, Generate(who)
  PROVE  AccountInv'
<1>0. PICK ids \in FreeIds(Cardinality(who)) : \E number \in [who -> ids] :
        /\ \A m, n \in who : m # n => number[m] # number[n]
        /\ charges' = charges \cup {DuesCharge(m, number[m]) : m \in who}
  BY DEF Generate
<1>1. PICK number \in [who -> ids] :
        /\ \A m, n \in who : m # n => number[m] # number[n]
        /\ charges' = charges \cup {DuesCharge(m, number[m]) : m \in who}
  BY <1>0
<1> DEFINE made == [m \in who |-> DuesCharge(m, number[m])]
<1>2. ASSUME NEW m \in who PROVE DuesCharge(m, number[m]) \in Charge /\ DuesCharge(m, number[m]).id = number[m]
  <2>1. m \in Memberships /\ homeBarn[m] \in Barns /\ rates[homeBarn[m]] \in 0..MaxAmount
    BY DEF Billable, AccountInv
  <2>2. number[m] \in LedgerIds
    BY <1>1 DEF FreeIds
  <2> QED BY <2>1, <2>2 DEF DuesCharge, Charge, ChargeTypes
<1>3. charges' = charges \cup {made[m] : m \in who} /\ \A m \in who : made[m] \in Charge /\ made[m].id = number[m]
  BY <1>1, <1>2
<1> HIDE DEF made
<1>4. charges' \subseteq Charge /\ UniqueIds(charges')
  BY <1>1, <1>3, ChargesGenerated
<1> QED BY <1>4 DEF Generate, AccountInv, duesVars, UniqueIds

LEMMA DuesKept ==
  ASSUME AccountInv, DuesStep
  PROVE  AccountInv' /\ UNCHANGED <<credits, services, awards, claims, payments, ledgerVars>>
<1>1. ASSUME NEW b \in Barns, NEW active \in BOOLEAN, HomeBarnSave(b, active) PROVE AccountInv'
  BY <1>1 DEF HomeBarnSave, AccountInv, UniqueIds
<1>2. ASSUME NEW m \in Memberships, NEW b \in Barns \cup {None}, HomeBarnChange(m, b) PROVE AccountInv'
  BY <1>2 DEF HomeBarnChange, AccountInv, UniqueIds
<1>3. ASSUME NEW from \in Barns, NEW b \in Barns, NEW amount \in 0..MaxAmount, DuesRateSave(from, b, amount) PROVE AccountInv'
  BY <1>3 DEF DuesRateSave, AccountInv, UniqueIds
<1>4. ASSUME NEW m \in Memberships, MembershipDuesGenerate(m) PROVE AccountInv'
  BY <1>4, DuesGenerated DEF MembershipDuesGenerate
<1>5. ASSUME MembershipDuesGenerateAll PROVE AccountInv'
  BY <1>5, DuesGenerated DEF MembershipDuesGenerateAll
<1>6. UNCHANGED <<credits, services, awards, claims, payments, ledgerVars>>
  BY DEF DuesStep, HomeBarnSave, HomeBarnChange, DuesRateSave, MembershipDuesGenerate, MembershipDuesGenerateAll, Generate
<1> QED BY <1>1, <1>2, <1>3, <1>4, <1>5, <1>6 DEF DuesStep

LEMMA FeesKept ==
  ASSUME AccountInv, FeeStep
  PROVE  AccountInv' /\ UNCHANGED <<duesVars, credits, services, awards, claims, payments, ledgerVars, showFinanceVars>>
<1>1. PICK show \in Shows, chosen \in SUBSET Memberships, amount \in Amounts : ShowFamilyChargesGenerate(show, chosen, amount)
  BY DEF FeeStep
<1> DEFINE who == {m \in chosen \cap Riding[show] : ~HasFee(m, show)}
           Fee(m, id) == [id |-> id, member |-> m, type |-> "show_fee", amount |-> amount, due |-> 0,
                          show |-> show, status |-> "open", rate |-> None]
<1>0. PICK ids \in FreeIds(Cardinality(who)) : \E number \in [who -> ids] :
        /\ \A m, n \in who : m # n => number[m] # number[n]
        /\ charges' = charges \cup {Fee(m, number[m]) : m \in who}
  BY <1>1 DEF ShowFamilyChargesGenerate
<1>2. PICK number \in [who -> ids] :
        /\ \A m, n \in who : m # n => number[m] # number[n]
        /\ charges' = charges \cup {Fee(m, number[m]) : m \in who}
  BY <1>0
<1> DEFINE made == [m \in who |-> Fee(m, number[m])]
<1>3. ASSUME NEW m \in who PROVE Fee(m, number[m]) \in Charge /\ Fee(m, number[m]).id = number[m]
  <2>1. m \in Memberships /\ number[m] \in LedgerIds /\ amount \in 0..MaxAmount
    BY <1>2, TeamLedgerAssumption DEF FreeIds
  <2> QED BY <2>1 DEF Charge, ChargeTypes
<1>4. charges' = charges \cup {made[m] : m \in who} /\ \A m \in who : made[m] \in Charge /\ made[m].id = number[m]
  BY <1>2, <1>3
<1> HIDE DEF made, who
<1>5. charges' \subseteq Charge /\ UniqueIds(charges')
  BY <1>2, <1>4, ChargesGenerated
<1> QED BY <1>1, <1>5 DEF ShowFamilyChargesGenerate, AccountInv, duesVars, UniqueIds

LEMMA PaymentSaved ==
  ASSUME LedgerInv, PaymentInv, NEW r \in Payment, FamilyPaymentSave(r)
  PROVE  LedgerInv' /\ PaymentInv' /\ Moved(tx, tx', "payment")
<1> DEFINE s == [r EXCEPT !.link = RowOf(r.link)]
<1> USE DEF FamilyPaymentSave
<1>1. PaymentPosting(r) \in Transaction /\ PaymentPosting(r).status = "posted" /\ PaymentPosting(r).origin = <<"payment", r.id>>
  BY FamilyAccountAssumption DEF PaymentPosting, Posting, Transaction, Payment, Origins, Kinds, None
<1>2. s.id = r.id /\ s.link = RowOf(r.link) /\ s.status = "posted"
  BY DEF Payment
<1>3. r.link # None => \E old \in payments : old.id = s.id /\ old.link = r.link
  BY <1>2
<1>4. r.link = None => \A old \in payments : old.id # s.id
  BY <1>2 DEF PaymentInv, NewIn
<1>5. payments' = ById(payments, s) /\ PostFor(r.link, PaymentPosting(r)) /\ UNCHANGED <<categories, allocations, budgetLines>>
  OBVIOUS
<1>6. s.link \in 0..MaxTx => s \in Payment
  BY DEF Payment
<1>7. UniqueIds(payments) /\ Booked("payment", payments, tx)
  BY DEF PaymentInv
<1> HIDE DEF s, FamilyPaymentSave
<1>8. /\ Booked("payment", ById(payments, s), tx') /\ Moved(tx, tx', "payment")
      /\ s.link \in 1..MaxTx /\ s.link # None /\ LedgerInv'
  BY <1>1, <1>2, <1>3, <1>4, <1>5, <1>7, PostForBooks
<1>9. s \in Payment
  BY <1>6, <1>8, RowFacts
<1>10. ASSUME NEW q \in payments', q.status = "void" PROVE tx'[q.link].status = "void"
  <2>1. q \in payments
    BY <1>2, <1>5, <1>10 DEF ById
  <2>2. q.link \in DOMAIN tx /\ tx[q.link].status = "void"
    BY <1>10, <2>1 DEF PaymentInv, Booked
  <2> QED BY <1>8, <2>2 DEF Moved
<1>11. UniqueIds(payments') /\ payments' \subseteq Payment /\ \A q \in payments' : q.link # None
  BY <1>5, <1>7, <1>8, <1>9, ByIdUnique DEF PaymentInv, ById
<1> QED BY <1>5, <1>8, <1>10, <1>11 DEF PaymentInv

LEMMA PaymentVoided ==
  ASSUME LedgerInv, PaymentInv, NEW r \in payments, FamilyPaymentDelete(r)
  PROVE  LedgerInv' /\ PaymentInv' /\ Moved(tx, tx', "payment")
<1> DEFINE s == [r EXCEPT !.status = "void"]
<1>1. payments' = ById(payments, s) /\ tx' = VoidRow(r.link) /\ UNCHANGED <<categories, allocations, budgetLines>>
  BY DEF FamilyPaymentDelete, PaymentVoidRow
<1>2. r \in Payment /\ r.link \in DOMAIN tx /\ tx[r.link].origin = <<"payment", r.id>> /\ r.link # None
  BY DEF PaymentInv, Booked
<1>3. s \in Payment /\ s.id = r.id /\ s.link = r.link
  BY <1>2 DEF Payment
<1> HIDE DEF s
<1>4. tx[r.link].origin[1] = "payment" /\ categories' \in [Categories -> Category]
  BY <1>1, <1>2 DEF LedgerInv, LedgerTypeOK
<1>5. /\ LedgerInv' /\ Moved(tx, tx', "payment") /\ DOMAIN tx' = DOMAIN tx
      /\ tx'[r.link].status = "void"
  BY <1>1, <1>2, <1>4, VoidRowMoves
<1>6. UniqueIds(payments) /\ Booked("payment", payments, tx)
  BY DEF PaymentInv
<1>7. Booked("payment", ById(payments, s), tx')
  <2>1. s.link # None => s.link \in DOMAIN tx' /\ tx'[s.link].origin = <<"payment", s.id>>
    BY <1>2, <1>3, <1>5 DEF Moved
  <2>2. \A q \in payments : q.id = s.id => q.link = s.link
    BY <1>3, <1>6 DEF UniqueIds
  <2> QED BY <1>5, <1>6, <2>1, <2>2, RowFacts, BookedSave
<1>8. ASSUME NEW q \in payments', q.status = "void" PROVE tx'[q.link].status = "void"
  <2>1. CASE q = s
    BY <1>3, <1>5, <2>1
  <2>2. CASE q # s
    <3>1. q \in payments
      BY <1>1, <2>2 DEF ById
    <3>2. q.link \in DOMAIN tx /\ tx[q.link].status = "void"
      BY <1>8, <3>1 DEF PaymentInv, Booked
    <3> QED BY <1>5, <3>2 DEF Moved
  <2> QED BY <2>1, <2>2
<1>9. UniqueIds(payments') /\ payments' \subseteq Payment /\ \A q \in payments' : q.link # None
  BY <1>1, <1>2, <1>3, <1>6, ByIdUnique DEF PaymentInv, ById
<1> QED BY <1>1, <1>5, <1>7, <1>8, <1>9 DEF PaymentInv

LEMMA ClaimSaved ==
  ASSUME LedgerInv, ClaimInv, NEW r \in Claim, AssistanceClaimSave(r)
  PROVE  LedgerInv' /\ ClaimInv' /\ Moved(tx, tx', "claim")
<1> DEFINE s == [r EXCEPT !.link = IF r.status = "reimbursed" THEN RowOf(r.link) ELSE None]
<1>1. /\ claims' = ById(claims, s) /\ ClaimSync(r) /\ UNCHANGED <<categories, allocations, budgetLines>>
      /\ IF NewIn(claims, r) THEN r.link = None ELSE \E old \in claims : old.id = r.id /\ old.award = r.award /\ old.link = r.link
      /\ r.status = "reimbursed" => r.reimbursed > 0
  BY DEF AssistanceClaimSave, ClaimClean
<1>2. /\ s.id = r.id /\ s.status = r.status /\ s.link = IF r.status = "reimbursed" THEN RowOf(r.link) ELSE None
      /\ s.link \in 0..MaxTx => s \in Claim
  BY DEF Claim
<1>3. UniqueIds(claims) /\ Booked("claim", claims, tx)
  BY DEF ClaimInv
<1>4. r.link # None => \E old \in claims : old.id = s.id /\ old.link = r.link
  BY <1>1, <1>2
<1>5. \A old \in claims : old.id = s.id => old.link = r.link
  BY <1>1, <1>2, <1>3 DEF UniqueIds, NewIn
<1>6. r.link # None => r.link \in DOMAIN tx /\ tx[r.link].origin = <<"claim", r.id>>
  BY <1>2, <1>3, <1>4 DEF Booked
<1> HIDE DEF s
<1>7. LedgerInv' /\ Moved(tx, tx', "claim") /\ Booked("claim", claims', tx') /\ s \in Claim
      /\ (s.status = "reimbursed") = (s.link # None)
  <2>1. CASE r.status = "reimbursed"
    <3> DEFINE t == Posting("income", r.cat, CurrentSeason, r.reimbursed, <<"claim", r.id>>)
    <3>1. r.reimbursed \in 1..MaxAmount
      BY <1>1, <2>1 DEF Claim
    <3>2. t \in Transaction /\ t.status = "posted" /\ t.origin = <<"claim", s.id>>
      BY <1>2, <3>1, FamilyAccountAssumption DEF Posting, Transaction, Claim, Origins, Kinds, None
    <3>3. PostFor(r.link, t) /\ s.link = RowOf(r.link)
      BY <1>1, <1>2, <2>1 DEF ClaimSync
    <3> HIDE DEF t
    <3>4. /\ Booked("claim", ById(claims, s), tx') /\ Moved(tx, tx', "claim")
          /\ s.link \in 1..MaxTx /\ s.link # None /\ LedgerInv'
      BY <1>1, <1>3, <1>4, <1>5, <3>2, <3>3, PostForBooks
    <3> QED BY <1>1, <1>2, <2>1, <3>4, RowFacts
  <2>2. CASE r.status # "reimbursed"
    <3>1. tx' = VoidRow(r.link) /\ s.link = None
      BY <1>1, <1>2, <2>2 DEF ClaimSync
    <3>2. categories' \in [Categories -> Category] /\ (r.link # None => tx[r.link].origin[1] = "claim")
      BY <1>1, <1>6 DEF LedgerInv, LedgerTypeOK
    <3>3. /\ LedgerInv' /\ Moved(tx, tx', "claim") /\ DOMAIN tx' = DOMAIN tx
          /\ r.link # None => tx'[r.link].status = "void"
      BY <1>1, <1>6, <3>1, <3>2, VoidRowMoves
    <3>4. \A q \in claims : q.id = s.id => q.link = s.link \/ q.link = None \/ tx'[q.link].status = "void"
      BY <1>5, <3>3
    <3>5. Booked("claim", ById(claims, s), tx')
      BY <1>3, <3>1, <3>3, <3>4, RowFacts, BookedSave
    <3>6. s.link \in 0..MaxTx
      BY <3>1, RowFacts DEF None
    <3> QED BY <1>1, <1>2, <2>2, <3>1, <3>3, <3>5, <3>6
  <2> QED BY <2>1, <2>2
<1>8. UniqueIds(claims') /\ claims' \subseteq Claim /\ \A q \in claims' : (q.status = "reimbursed") = (q.link # None)
  BY <1>1, <1>3, <1>7, ByIdUnique DEF ClaimInv, ById
<1> QED BY <1>7, <1>8 DEF ClaimInv

-----------------------------------------------------------------------------
(*------------------------------ contributions ----------------------------*)
\* The share of a policy is a natural number of cents.
LEMMA CreditIsNatural ==
  ASSUME GiftInv, NEW g, g.amount \in 1..MaxAmount, g.credit \in 0..MaxAmount, NEW blank \in BOOLEAN
  PROVE  CreditFor(blank, g) \in Nat
<1>1. g.amount \in Nat /\ g.credit \in Nat
  OBVIOUS
<1>2. policy.percent \in Nat
  <2>1. policy.percent \in Percents \cup {0, 100}
    BY DEF GiftInv, Policy
  <2>2. \A p \in Percents : p \in Nat
    BY FundraisingAssumption
  <2>3. CASE policy.percent \in Percents
    BY <2>2, <2>3
  <2>4. CASE policy.percent \in {0, 100}
    BY <2>4
  <2> QED BY <2>1, <2>3, <2>4
<1>3. ASSUME NEW n \in Nat PROVE HalfEven(n, 100) \in Nat
  BY DEF HalfEven
<1>4. DefaultCredit(g.amount) \in Nat
  <2>1. g.amount * policy.percent \in Nat
    BY <1>1, <1>2
  <2>2. HalfEven(g.amount * policy.percent, 100) \in Nat
    BY <1>3, <2>1
  <2> QED BY <1>1, <2>2 DEF DefaultCredit
<1> QED BY <1>1, <1>4 DEF CreditFor

\* Credits with those of a contribution cancelled.
Cancelled(g) == (credits \ CreditRow(g)) \cup {[r EXCEPT !.status = "cancelled"] : r \in CreditRow(g)}

LEMMA CancelledCredits ==
  ASSUME AccountInv, NEW g
  PROVE  Cancelled(g) \subseteq Credit /\ UniqueIds(Cancelled(g))
<1>1. \A r \in credits : r \in Credit
  BY DEF AccountInv
<1>2. \A r \in CreditRow(g) : [r EXCEPT !.status = "cancelled"] \in Credit /\ [r EXCEPT !.status = "cancelled"].id = g.creditRow
  BY <1>1 DEF CreditRow, Credit
<1>3. \A r \in credits \ CreditRow(g) : r \in Credit /\ r.id # g.creditRow
  BY <1>1 DEF CreditRow
<1>4. \A r, q \in CreditRow(g) : r = q
  BY DEF CreditRow, AccountInv, UniqueIds
<1>5. ASSUME NEW a \in Cancelled(g), NEW b \in Cancelled(g), a.id = b.id PROVE a = b
  <2> DEFINE gone == {[r EXCEPT !.status = "cancelled"] : r \in CreditRow(g)}
  <2>1. a \in credits \ CreditRow(g) \/ a \in gone
    BY DEF Cancelled
  <2>2. b \in credits \ CreditRow(g) \/ b \in gone
    BY DEF Cancelled
  <2>3. ASSUME NEW x \in gone PROVE x.id = g.creditRow
    <3>1. PICK r \in CreditRow(g) : x = [r EXCEPT !.status = "cancelled"]
      OBVIOUS
    <3> QED BY <1>2, <3>1
  <2>4. \A x, y \in gone : x = y
    BY <1>4
  <2>5. \A x, y \in credits : x.id = y.id => x = y
    BY DEF AccountInv, UniqueIds
  <2> HIDE DEF gone
  <2> QED BY <1>3, <1>5, <2>1, <2>2, <2>3, <2>4, <2>5
<1> QED BY <1>2, <1>3, <1>5 DEF Cancelled, UniqueIds

LEMMA GiftSynced ==
  ASSUME LedgerInv, AccountInv, GiftInv, NEW g \in Gift, g.status = "posted", GiftSync(g),
         g.link # None => \E old \in gifts : old.id = g.id /\ old.link = g.link /\ old.status = "posted",
         g.link = None => NewIn(gifts, g)
  PROVE  LedgerInv' /\ AccountInv' /\ GiftInv' /\ Moved(tx, tx', "gift")
<1>1. /\ PostFor(g.link, GiftPosting(g)) /\ GiftCredit(g) /\ GiftClean(g)
      /\ UNCHANGED <<policy, campaigns, duesVars, charges, services, awards, categories, allocations, budgetLines>>
  BY DEF GiftSync
<1>2. GiftPosting(g) \in Transaction /\ GiftPosting(g).status = "posted" /\ GiftPosting(g).origin = <<"gift", g.id>>
      /\ GiftPosting(g).kind = "income" /\ GiftPosting(g).amount = g.amount
  BY FamilyAccountAssumption DEF GiftPosting, Posting, Transaction, Gift, Origins, Kinds, None
<1>3. UniqueIds(gifts) /\ Booked("gift", gifts, tx)
  BY DEF GiftInv
<1>4. PICK s : /\ s.id = g.id /\ s.link = RowOf(g.link) /\ s.amount = g.amount /\ s.status = "posted"
               /\ s.link \in 1..MaxTx => s \in Gift
               /\ gifts' = ById(gifts, s)
               /\ credits' \subseteq Credit /\ UniqueIds(credits')
  <2>1. CASE g.credit > 0
    <3>1. PICK id \in IF g.creditRow # None THEN {g.creditRow} ELSE {i \in LedgerIds : \A r \in credits : r.id # i} :
            /\ credits' = ById(credits, [id |-> id, charge |-> g.charge, amount |-> g.credit, status |-> "applied"])
            /\ gifts' = ById(gifts, [g EXCEPT !.link = RowOf(g.link), !.creditRow = id])
      BY <1>1, <2>1 DEF GiftCredit
    <3>2. id \in LedgerIds /\ g.charge \in LedgerIds /\ g.credit \in 1..MaxAmount
      BY <1>1, <2>1, <3>1 DEF Gift, GiftClean
    <3> DEFINE a == [id |-> id, charge |-> g.charge, amount |-> g.credit, status |-> "applied"]
               s == [g EXCEPT !.link = RowOf(g.link), !.creditRow = id]
    <3>3. a \in Credit
      BY <3>2 DEF Credit
    <3>4. /\ s.id = g.id /\ s.link = RowOf(g.link) /\ s.amount = g.amount /\ s.status = "posted"
          /\ s.link \in 1..MaxTx => s \in Gift
      <4>1. s.id = g.id /\ s.link = RowOf(g.link) /\ s.amount = g.amount /\ s.status = "posted"
        BY DEF Gift
      <4>2. \A n \in 0..MaxTx : [g EXCEPT !.link = n, !.creditRow = id] \in Gift
        BY <3>2 DEF Gift
      <4>3. RowOf(g.link) \in 1..MaxTx => RowOf(g.link) \in 0..MaxTx
        BY TeamLedgerAssumption
      <4> QED BY <4>1, <4>2, <4>3
    <3> HIDE DEF a, s
    <3>5. credits' = ById(credits, a) /\ gifts' = ById(gifts, s)
      BY <3>1 DEF a, s
    <3>6. credits' \subseteq Credit /\ UniqueIds(credits')
      BY <3>3, <3>5, ByIdUnique DEF AccountInv, ById
    <3> QED BY <3>4, <3>5, <3>6
  <2>2. CASE ~(g.credit > 0)
    <3> DEFINE s == [g EXCEPT !.link = RowOf(g.link)]
    <3>1. credits' = Cancelled(g) /\ gifts' = ById(gifts, s)
      BY <1>1, <2>2 DEF GiftCredit, Cancelled
    <3>2. /\ s.id = g.id /\ s.link = RowOf(g.link) /\ s.amount = g.amount /\ s.status = "posted"
          /\ s.link \in 1..MaxTx => s \in Gift
      BY RowFacts DEF Gift
    <3> HIDE DEF s
    <3> QED BY <3>1, <3>2, CancelledCredits
  <2> QED BY <2>1, <2>2
<1>5. AccountInv'
  BY <1>1, <1>4 DEF AccountInv, duesVars, UniqueIds
<1>6. g.link # None => \E old \in gifts : old.id = s.id /\ old.link = g.link
  BY <1>4
<1>7. g.link = None => \A old \in gifts : old.id # s.id
  BY <1>4 DEF NewIn
<1>8. /\ Booked("gift", ById(gifts, s), tx') /\ Moved(tx, tx', "gift") /\ LedgerInv'
      /\ s.link \in 1..MaxTx /\ s.link # None
      /\ \A i \in DOMAIN tx : i # s.link => tx'[i] = tx[i]
      /\ tx'[s.link].kind = "income" /\ tx'[s.link].amount = s.amount
      /\ tx'[s.link].status = IF g.link = None THEN "posted" ELSE tx[g.link].status
  BY <1>1, <1>2, <1>3, <1>4, <1>6, <1>7, PostForBooks
<1>9. tx'[s.link].status = "posted"
  BY <1>8 DEF GiftInv, GiftsMatchTheLedger
<1>10. ASSUME NEW h \in gifts'
       PROVE  h.link # None /\ tx'[h.link].kind = "income" /\ tx'[h.link].amount = h.amount /\ tx'[h.link].status = h.status
  <2>1. CASE h = s
    BY <1>4, <1>8, <1>9, <2>1
  <2>2. CASE h # s
    <3>1. h \in gifts /\ h.id # s.id
      BY <1>4, <2>2 DEF ById
    <3>2. h.link \in DOMAIN tx /\ tx[h.link].origin = <<"gift", h.id>>
      BY <1>3, <3>1 DEF GiftInv, GiftsMatchTheLedger, Booked
    <3>3. h.link # s.link
      <4>1. s \in gifts'
        BY <1>4 DEF ById
      <4>2. tx'[s.link].origin = <<"gift", s.id>>
        BY <1>4, <1>8, <4>1 DEF Booked
      <4>3. tx'[h.link].origin = tx[h.link].origin
        BY <1>8, <3>2 DEF Moved
      <4>4. <<"gift", h.id>> # <<"gift", s.id>>
        BY <3>1
      <4> QED BY <3>2, <4>2, <4>3, <4>4
    <3> QED BY <1>8, <3>1, <3>2, <3>3 DEF GiftInv, GiftsMatchTheLedger
  <2> QED BY <2>1, <2>2
<1>11. GiftsMatchTheLedger'
  BY <1>10 DEF GiftsMatchTheLedger
<1>12. UniqueIds(gifts') /\ gifts' \subseteq Gift
  BY <1>3, <1>4, <1>8, ByIdUnique DEF GiftInv, ById
<1>13. GiftInv'
  BY <1>1, <1>4, <1>8, <1>11, <1>12 DEF GiftInv
<1> QED BY <1>5, <1>8, <1>13

LEMMA GiftVoided ==
  ASSUME LedgerInv, AccountInv, GiftInv, NEW g \in gifts, FundraisingContributionVoid(g)
  PROVE  LedgerInv' /\ AccountInv' /\ GiftInv' /\ Moved(tx, tx', "gift")
<1> DEFINE s == [g EXCEPT !.status = "void"]
<1>1. /\ gifts' = ById(gifts, s) /\ tx' = VoidRow(g.link) /\ credits' = Cancelled(g)
      /\ UNCHANGED <<policy, campaigns, duesVars, charges, services, awards, categories, allocations, budgetLines>>
  BY DEF FundraisingContributionVoid, GiftVoidCredit, Cancelled
<1>2. /\ g \in Gift /\ g.link \in DOMAIN tx /\ tx[g.link].origin = <<"gift", g.id>> /\ g.link # None
      /\ tx[g.link].kind = "income" /\ tx[g.link].amount = g.amount
  BY DEF GiftInv, GiftsMatchTheLedger, Booked
<1>3. s \in Gift /\ s.id = g.id /\ s.link = g.link /\ s.status = "void" /\ s.amount = g.amount
  BY <1>2 DEF Gift
<1> HIDE DEF s
<1>4. tx[g.link].origin[1] = "gift" /\ categories' \in [Categories -> Category]
  BY <1>1, <1>2 DEF LedgerInv, LedgerTypeOK
<1>5. /\ LedgerInv' /\ Moved(tx, tx', "gift") /\ DOMAIN tx' = DOMAIN tx
      /\ \A i \in DOMAIN tx : i # g.link => tx'[i] = tx[i]
      /\ tx'[g.link] = [tx[g.link] EXCEPT !.status = "void"] /\ tx'[g.link].status = "void"
  BY <1>1, <1>2, <1>4, VoidRowMoves
<1>6. UniqueIds(gifts) /\ Booked("gift", gifts, tx)
  BY DEF GiftInv
<1>7. Booked("gift", ById(gifts, s), tx')
  <2>1. s.link # None => s.link \in DOMAIN tx' /\ tx'[s.link].origin = <<"gift", s.id>>
    BY <1>2, <1>3, <1>5 DEF Moved
  <2>2. \A q \in gifts : q.id = s.id => q.link = s.link
    BY <1>3, <1>6 DEF UniqueIds
  <2> QED BY <1>5, <1>6, <2>1, <2>2, RowFacts, BookedSave
<1>8. ASSUME NEW h \in gifts'
      PROVE  h.link # None /\ tx'[h.link].kind = "income" /\ tx'[h.link].amount = h.amount /\ tx'[h.link].status = h.status
  <2>1. CASE h = s
    <3>1. tx[g.link] \in Transaction
      BY <1>2, RowFacts
    <3> QED BY <1>2, <1>3, <1>5, <2>1, <3>1 DEF Transaction
  <2>2. CASE h # s
    <3>1. h \in gifts /\ h.id # g.id
      BY <1>1, <1>3, <2>2 DEF ById
    <3>2. h.link \in DOMAIN tx /\ tx[h.link].origin = <<"gift", h.id>>
      BY <1>6, <3>1 DEF GiftInv, GiftsMatchTheLedger, Booked
    <3>3. <<"gift", h.id>> # <<"gift", g.id>>
      BY <3>1
    <3>4. h.link # g.link
      BY <1>2, <3>2, <3>3
    <3> QED BY <1>5, <3>1, <3>2, <3>4 DEF GiftInv, GiftsMatchTheLedger
  <2> QED BY <2>1, <2>2
<1>9. GiftsMatchTheLedger'
  BY <1>8 DEF GiftsMatchTheLedger
<1>10. UniqueIds(gifts') /\ gifts' \subseteq Gift
  BY <1>1, <1>3, <1>6, ByIdUnique DEF GiftInv, ById
<1>11. GiftInv'
  BY <1>1, <1>7, <1>9, <1>10 DEF GiftInv
<1>12. AccountInv'
  BY <1>1, CancelledCredits DEF AccountInv, duesVars, UniqueIds
<1> QED BY <1>5, <1>11, <1>12

\* A form is a contribution when its credit is one the validation accepts.
LEMMA FormIsGift ==
  ASSUME GiftInv, AccountInv, NEW form \in Forms, NEW blank \in BOOLEAN, Filled(form, blank).credit <= form.amount
  PROVE  /\ Filled(form, blank) \in Gift
         /\ form.amount = Filled(form, blank).amount
<1>1. PICK id \in LedgerIds, k \in DOMAIN campaigns, amount \in Amounts, m \in Memberships \cup {None},
           credit \in 0..MaxAmount, c \in {c.id : c \in charges} \cup {None}, cat \in Categories :
        form = [id |-> id, campaign |-> k, amount |-> amount, member |-> m, credit |-> credit, charge |-> c, cat |-> cat,
                status |-> "posted", link |-> None, creditRow |-> None]
  BY DEF Forms
<1>2. amount \in 1..MaxAmount /\ k \in LedgerIds /\ c \in LedgerIds \cup {None} /\ MaxAmount \in Nat /\ None \in 0..MaxTx
  BY TeamLedgerAssumption, <1>1 DEF GiftInv, AccountInv, Charge, None
<1>3. form.amount \in 1..MaxAmount /\ form.credit \in 0..MaxAmount
  BY <1>1, <1>2
<1>4. form \in Gift
  BY <1>1, <1>2 DEF Gift
<1>5. CreditFor(blank, form) \in Nat
  BY <1>3, CreditIsNatural
<1>6. Filled(form, blank).credit = CreditFor(blank, form)
  BY <1>4 DEF Filled, Gift
<1>7. CreditFor(blank, form) \in 0..MaxAmount
  BY <1>2, <1>3, <1>5, <1>6
<1> QED BY <1>4, <1>7 DEF Filled, Gift

LEMMA GiftAdded ==
  ASSUME LedgerInv, AccountInv, GiftInv, NEW form \in Forms, NEW blank \in BOOLEAN,
         FundraisingContributionAdd(Filled(form, blank))
  PROVE  \E g \in Gift : g.status = "posted" /\ g.link = None /\ g.creditRow = None /\ NewIn(gifts, g) /\ GiftSync(g)
<1> DEFINE f == Filled(form, blank)
           g == [f EXCEPT !.link = None, !.creditRow = None]
<1>1. NewIn(gifts, f) /\ GiftSync(g)
  BY DEF FundraisingContributionAdd
<1>2. form.status = "posted" /\ f = [form EXCEPT !.credit = CreditFor(blank, form)] /\ form.link = None /\ form.creditRow = None
  BY DEF Forms, Filled
<1>3. g.credit <= g.amount
  BY <1>1 DEF GiftSync, GiftClean
<1>4. /\ f.credit <= form.amount
  <2>1. g.credit = f.credit /\ g.amount = form.amount
    BY <1>2 DEF Forms
  <2> QED BY <1>3, <2>1
<1>5. f \in Gift
  BY <1>4, FormIsGift
<1>6. g \in Gift /\ g.id = f.id /\ g.status = f.status /\ g.link = None /\ g.creditRow = None
  <2>1. None \in 0..MaxTx
    BY TeamLedgerAssumption DEF None
  <2> HIDE DEF f
  <2> QED BY <1>5, <2>1 DEF Gift
<1>7. f.status = "posted"
  BY <1>2 DEF Forms
<1> HIDE DEF f, g
<1>8. NewIn(gifts, g)
  BY <1>1, <1>6 DEF NewIn
<1> QED BY <1>1, <1>6, <1>7, <1>8

LEMMA GiftEdited ==
  ASSUME LedgerInv, AccountInv, GiftInv, NEW form \in Forms, NEW blank \in BOOLEAN, NEW old \in gifts,
         FundraisingContributionEdit(old, Filled(form, blank))
  PROVE  old.status = "posted" /\ \E g \in Gift : g.status = "posted" /\ g.id = old.id /\ g.link = old.link /\ g.creditRow = old.creditRow /\ GiftSync(g)
<1> DEFINE f == Filled(form, blank)
           g == [f EXCEPT !.id = old.id, !.campaign = old.campaign, !.status = old.status, !.link = old.link, !.creditRow = old.creditRow]
<1>1. GiftSync(g) /\ old.status = "posted"
  BY DEF FundraisingContributionEdit, GiftEditable
<1>2. f = [form EXCEPT !.credit = CreditFor(blank, form)]
  BY DEF Filled
<1>3. g.credit <= g.amount
  BY <1>1 DEF GiftSync, GiftClean
<1>4. f.credit <= form.amount
  <2>1. g.credit = f.credit /\ g.amount = form.amount
    BY <1>2 DEF Forms
  <2> QED BY <1>3, <2>1
<1>5. f \in Gift
  BY <1>4, FormIsGift
<1>6. old \in Gift
  BY DEF GiftInv
<1>7. g \in Gift /\ g.id = old.id /\ g.status = old.status /\ g.link = old.link /\ g.creditRow = old.creditRow
  BY <1>5, <1>6 DEF Gift
<1> HIDE DEF f, g
<1> QED BY <1>1, <1>7

LEMMA GiftsKept ==
  ASSUME LedgerInv, AccountInv, GiftInv, GiftStep(MCGifts)
  PROVE  LedgerInv' /\ AccountInv' /\ GiftInv' /\ Moved(tx, tx', "gift")
<1>1. ASSUME NEW form \in MCGifts, NEW blank \in BOOLEAN, FundraisingContributionAdd(Filled(form, blank))
      PROVE  LedgerInv' /\ AccountInv' /\ GiftInv' /\ Moved(tx, tx', "gift")
  <2>1. form \in Forms
    BY DEF MCGifts
  <2> QED BY <1>1, <2>1, GiftAdded, GiftSynced
<1>2. ASSUME NEW form \in MCGifts, NEW blank \in BOOLEAN, NEW g \in gifts, FundraisingContributionEdit(g, Filled(form, blank))
      PROVE  LedgerInv' /\ AccountInv' /\ GiftInv' /\ Moved(tx, tx', "gift")
  <2>1. form \in Forms
    BY DEF MCGifts
  <2>2. PICK h \in Gift : g.status = "posted" /\ h.status = "posted" /\ h.id = g.id /\ h.link = g.link /\ h.creditRow = g.creditRow /\ GiftSync(h)
    BY <1>2, <2>1, GiftEdited
  <2>3. h.link # None
    BY <2>2 DEF GiftInv, GiftsMatchTheLedger
  <2> QED BY <2>2, <2>3, GiftSynced
<1>3. ASSUME NEW g \in gifts, FundraisingContributionVoid(g)
      PROVE  LedgerInv' /\ AccountInv' /\ GiftInv' /\ Moved(tx, tx', "gift")
  BY <1>3, GiftVoided
<1> QED BY <1>1, <1>2, <1>3 DEF GiftStep

LEMMA PolicyKept ==
  ASSUME GiftInv, \/ \E p \in MCPolicy : FundraisingPolicyEdit(p)
                  \/ CampaignStep
  PROVE  GiftInv' /\ UNCHANGED familyVars
<1>1. ASSUME NEW p \in MCPolicy, FundraisingPolicyEdit(p) PROVE GiftInv' /\ UNCHANGED familyVars
  <2>1. p \in Policy
    BY MoneyAssumption DEF MCPolicy, Policy, PolicyModels, ChargeTypes
  <2>2. policy' = p /\ UNCHANGED <<campaigns, gifts, familyVars>>
    BY <1>1 DEF FundraisingPolicyEdit
  <2>3. UNCHANGED tx
    BY <2>2 DEF familyVars, ledgerVars
  <2> QED BY <2>1, <2>2, <2>3 DEF GiftInv, GiftsMatchTheLedger, UniqueIds, Booked
<1>2. ASSUME NEW k \in LedgerIds, NEW status \in CampaignStatuses, FundraisingCampaignSave(k, status) PROVE GiftInv' /\ UNCHANGED familyVars
  <2>1. /\ campaigns' = IF k \in DOMAIN campaigns THEN [campaigns EXCEPT ![k] = status] ELSE Append(campaigns, status)
        /\ k \in DOMAIN campaigns \/ k = Len(campaigns) + 1
        /\ UNCHANGED <<policy, gifts, familyVars>>
    BY <1>2 DEF FundraisingCampaignSave
  <2>2. campaigns' \in Seq(CampaignStatuses) /\ DOMAIN campaigns' \subseteq DOMAIN campaigns \cup {k}
    <3>1. campaigns \in Seq(CampaignStatuses)
      BY DEF GiftInv
    <3> QED BY <2>1, <3>1, ExceptSeq, AppendProperties
  <2>3. UNCHANGED tx
    BY <2>1 DEF familyVars, ledgerVars
  <2> QED BY <2>1, <2>2, <2>3 DEF GiftInv, GiftsMatchTheLedger, UniqueIds, Booked
<1> QED BY <1>1, <1>2 DEF CampaignStep

-----------------------------------------------------------------------------
(*----------------------------- reimbursements ----------------------------*)
\* Reviews that do not overlap: the page reads a request and saves it whole, with nothing in between.
OneReview == MaxReviews = 1

\* A request that is not the one under review is saved, and has no ledger row.
LEMMA RequestSaved ==
  ASSUME LedgerInv, RequestInv, NEW s \in Request, s.link = None, s.status # "paid",
         \A q \in requests : q.id = s.id => q.status = "draft",
         requests' = ById(requests, s), UNCHANGED <<tx, reviews>>
  PROVE  RequestInv'
<1>1. UniqueIds(requests') /\ requests' \subseteq Request
  BY ByIdUnique DEF RequestInv, ById
<1>2. \A v \in reviews : v \in (1..MaxReviews) \X requests'
  <2>1. ASSUME NEW v \in reviews PROVE v \in (1..MaxReviews) \X requests'
    <3>1. v \in (1..MaxReviews) \X requests /\ v[2].status # "draft"
      BY DEF RequestInv
    <3>2. v[2] \in requests /\ v[2].id # s.id
      BY <3>1
    <3>3. v[2] \in requests'
      BY <3>2 DEF ById
    <3> QED BY <3>1, <3>3
  <2> QED BY <2>1
<1>3. \A q \in requests : q.id = s.id => q.link = None
  BY DEF RequestInv, ExpenseIffPaid
<1>4. Booked("reimbursement", requests', tx')
  BY <1>3, RowFacts, NotMoved, BookedSave DEF RequestInv
<1>5. ExpenseIffPaid'
  BY DEF RequestInv, ExpenseIffPaid, ById
<1> QED BY <1>1, <1>2, <1>4, <1>5 DEF RequestInv

LEMMA ReviewWithoutPayment ==
  ASSUME LedgerInv, RequestInv, NEW v \in reviews, NEW status \in Statuses, status # "paid", ReviewSave(v, status)
  PROVE  RequestInv' /\ UNCHANGED <<tx, allocations>>
<1> DEFINE r == v[2]
           s == [r EXCEPT !.status = status]
<1>1. /\ requests' = ById(requests, s) /\ reviews' = reviews \ {v} /\ UNCHANGED <<tx, allocations>>
      /\ status \in NextStatuses(r.status)
  BY DEF ReviewSave
<1>2. r \in requests /\ r \in Request /\ r.status # "draft" /\ (\A u \in reviews : u = v)
  <2>1. v \in (1..MaxReviews) \X requests /\ v[2].status # "draft" /\ (\A u \in reviews : u = v)
    BY DEF RequestInv
  <2> QED BY <2>1 DEF RequestInv
<1>3. r.status \in {"submitted", "approved", "rejected", "paid"}
  BY <1>2 DEF Request, Statuses
<1>4. r.status # "paid" /\ status # "draft"
  BY <1>1, <1>3 DEF NextStatuses
<1>5. r.link = None
  BY <1>2, <1>4 DEF RequestInv, ExpenseIffPaid
<1>6. s \in Request /\ s.id = r.id /\ s.link = None /\ s.status # "paid"
  BY <1>2, <1>5 DEF Request
<1> HIDE DEF s, r
<1>7. UniqueIds(requests') /\ requests' \subseteq Request
  BY <1>1, <1>6, ByIdUnique DEF RequestInv, ById
<1>8. reviews' = {}
  BY <1>1, <1>2
<1>9. \A q \in requests : q.id = s.id => q.link = None
  BY <1>2, <1>5, <1>6 DEF RequestInv, UniqueIds
<1>10. Booked("reimbursement", requests', tx')
  BY <1>1, <1>6, <1>9, RowFacts, NotMoved, BookedSave DEF RequestInv
<1>11. ExpenseIffPaid'
  BY <1>1, <1>6 DEF RequestInv, ExpenseIffPaid, ById
<1> QED BY <1>1, <1>7, <1>8, <1>10, <1>11 DEF RequestInv

\* What a paid request posts.
LEMMA ExpenseIsRow ==
  ASSUME LedgerInv, RequestInv, NEW r \in requests
  PROVE  /\ Expense(r) \in Transaction /\ Expense(r).status = "posted" /\ Expense(r).origin = <<"reimbursement", r.id>>
         /\ Expense(r).amount = r.amount
<1>1. r \in Request
  BY DEF RequestInv
<1> DEFINE kind == IF r.link = None THEN "expense" ELSE tx[r.link].kind
           e == Posting("expense", r.cat, r.season, r.amount, <<"reimbursement", r.id>>)
<1>2. kind \in Kinds
  <2>1. r.link # None => tx[r.link] \in Transaction
    BY RowFacts DEF RequestInv, Booked
  <2> QED BY <2>1 DEF Transaction, Kinds
<1>3. e \in Transaction /\ e.status = "posted" /\ e.origin = <<"reimbursement", r.id>> /\ e.amount = r.amount
  BY <1>1 DEF Posting, Transaction, Request, Origins, Kinds, None
<1>4. r.show \in Shows \cup {None}
  BY <1>1 DEF Request
<1>5. Expense(r) = [e EXCEPT !.show = r.show, !.kind = kind]
  BY DEF Expense
<1> HIDE DEF e, kind
<1> QED BY <1>2, <1>3, <1>4, <1>5 DEF Transaction

\* The allocation a payment writes is one that fits, or none.
LEMMA AllocateFits ==
  ASSUME LedgerInv, NEW r \in Request, RequestClean(r), NEW i \in 1..MaxTx, Allocate(r, i)
  PROVE  \/ UNCHANGED allocations
         \/ \E a \in Allocation : /\ a.tx = i /\ allocations' = ById(allocations, a)
                                  /\ Total({b \in AllocatedOf(i) : b.id # a.id}) + a.amount <= tx'[i].amount
<1> DEFINE old == OwnAllocation(r, i)
           made == {[id |-> id, tx |-> i, show |-> r.show, scope |-> r.scope, line |-> None, amount |-> r.amount, origin |-> r.id] :
                      id \in {id \in LedgerIds : \A a \in allocations : a.id # id}}
           kept == {[a EXCEPT !.show = r.show, !.scope = r.scope, !.amount = r.amount] : a \in old}
           fits(a) == /\ tx'[i].season = SeasonOf[a.show]
                      /\ Total({b \in AllocatedOf(i) : b.id # a.id}) + a.amount <= tx'[i].amount
                      /\ \A l \in LineOf(a) : l.show = a.show /\ l.scope = a.scope /\ l.cat = tx'[i].cat /\ l.kind = tx'[i].kind
<1>1. CASE r.show = None
  BY <1>1 DEF Allocate
<1>2. CASE r.show # None
  <2>1. r.show \in Shows /\ r.scope \in Scopes /\ r.amount \in 1..MaxAmount /\ r.id \in LedgerIds
    BY <1>2 DEF RequestClean, Request
  <2>2. \A a \in made : a \in Allocation /\ a.tx = i
    BY <2>1 DEF Allocation
  <2>3. \A a \in kept : a \in Allocation /\ a.tx = i
    <3>1. \A a \in old : a \in Allocation /\ a.tx = i
      BY DEF OwnAllocation, AllocatedOf, LedgerInv, LedgerTypeOK
    <3> HIDE DEF old
    <3> QED BY <2>1, <3>1 DEF Allocation
  <2>4. \E a \in IF old = {} THEN made ELSE kept : IF fits(a) THEN allocations' = ById(allocations, a) ELSE UNCHANGED allocations
    BY <1>2 DEF Allocate
  <2>5. PICK a \in made \cup kept : IF fits(a) THEN allocations' = ById(allocations, a) ELSE UNCHANGED allocations
    BY <2>4
  <2>6. a \in Allocation /\ a.tx = i
    BY <2>2, <2>3, <2>5
  <2>7. fits(a) => Total({b \in AllocatedOf(i) : b.id # a.id}) + a.amount <= tx'[i].amount
    OBVIOUS
  <2> HIDE DEF fits, made, kept, old
  <2> QED BY <2>5, <2>6, <2>7
<1> QED BY <1>1, <1>2

LEMMA ReviewWithPayment ==
  ASSUME LedgerInv, RequestInv, NEW v \in reviews, ReviewSave(v, "paid")
  PROVE  LedgerInv' /\ RequestInv' /\ Moved(tx, tx', "reimbursement")
<1> DEFINE r == v[2]
           s == [r EXCEPT !.status = "paid", !.link = RowOf(r.link)]
<1>1. /\ requests' = ById(requests, s) /\ reviews' = reviews \ {v} /\ UNCHANGED <<categories, budgetLines>>
      /\ PostFor(r.link, Expense(r)) /\ Allocate(r, RowOf(r.link)) /\ RequestClean(r)
  BY DEF ReviewSave
<1>2. r \in requests /\ r \in Request /\ (\A u \in reviews : u = v) /\ UniqueIds(requests) /\ Booked("reimbursement", requests, tx)
  <2>1. v \in (1..MaxReviews) \X requests /\ v[2].status # "draft" /\ (\A u \in reviews : u = v)
    BY DEF RequestInv
  <2> QED BY <2>1 DEF RequestInv
<1>3. s.id = r.id /\ s.link = RowOf(r.link) /\ s.status = "paid" /\ (s.link \in 0..MaxTx => s \in Request)
  BY <1>2 DEF Request, Statuses
<1> HIDE DEF s, r
<1>4. /\ Expense(r) \in Transaction /\ Expense(r).status = "posted" /\ Expense(r).origin = <<"reimbursement", s.id>>
  BY <1>2, <1>3, ExpenseIsRow
<1>5. r.link = None => \A q \in requests : q.id = s.id => q.link = None
  BY <1>2, <1>3 DEF UniqueIds
<1>6. \E q \in requests : q.id = s.id /\ q.link = r.link
  BY <1>2, <1>3
<1>7. /\ Booked("reimbursement", ById(requests, s), tx') /\ Moved(tx, tx', "reimbursement")
      /\ s.link \in DOMAIN tx' /\ s.link \in 1..MaxTx /\ s.link # None
      /\ tx' \in Seq(Transaction) /\ Len(tx') <= MaxTx /\ DOMAIN tx \subseteq DOMAIN tx'
      /\ \A i \in DOMAIN tx : i # s.link => tx'[i] = tx[i]
      /\ \A i \in DOMAIN tx' : i \in DOMAIN tx \/ i = s.link
      /\ UNCHANGED allocations => LedgerInv'
  BY <1>1, <1>2, <1>3, <1>4, <1>5, <1>6, PostForBooks
<1>8. LedgerInv'
  <2>1. CASE UNCHANGED allocations
    BY <1>7, <2>1
  <2>2. CASE \E a \in Allocation : /\ a.tx = s.link /\ allocations' = ById(allocations, a)
                                   /\ Total({b \in AllocatedOf(s.link) : b.id # a.id}) + a.amount <= tx'[s.link].amount
    <3>1. PICK a \in Allocation : /\ a.tx = s.link /\ allocations' = ById(allocations, a)
                                  /\ Total({b \in AllocatedOf(s.link) : b.id # a.id}) + a.amount <= tx'[s.link].amount
      BY <2>2
    <3>2. \A i \in DOMAIN tx' : i # a.tx => Total(AllocatedOf(i)) <= tx'[i].amount
      BY <1>7, <3>1 DEF LedgerInv, AllocationsFit
    <3> QED BY <1>1, <1>7, <3>1, <3>2, AllocationSaved
  <2> QED BY <1>1, <1>2, <1>3, <1>7, <2>1, <2>2, AllocateFits
<1>9. s \in Request
  BY <1>3, <1>7, RowFacts
<1>10. UniqueIds(requests') /\ requests' \subseteq Request
  BY <1>1, <1>9, ByIdUnique DEF RequestInv, ById
<1>11. reviews' = {}
  BY <1>1, <1>2
<1>12. ExpenseIffPaid'
  BY <1>1, <1>3, <1>7 DEF RequestInv, ExpenseIffPaid, ById
<1> QED BY <1>1, <1>7, <1>8, <1>10, <1>11, <1>12 DEF RequestInv

LEMMA RequestsKept ==
  ASSUME OneReview, LedgerInv, RequestInv, ReimbursementStep(MCForms)
  PROVE  LedgerInv' /\ RequestInv' /\ Moved(tx, tx', "reimbursement") /\ UNCHANGED <<accountVars, seasonLines, generic, budgetLines>>
<1>0. \A r \in MCForms : r \in Request
  BY DEF MCForms
<1>1. ASSUME NEW r \in MCForms, ReimbursementCreate(r) PROVE RequestInv' /\ UNCHANGED familyVars
  <2>1. r \in Request /\ r.link = None /\ r.status # "paid" /\ NewIn(requests, r) /\ requests' = requests \cup {r}
        /\ UNCHANGED <<familyVars, reviews>>
    BY <1>0, <1>1 DEF ReimbursementCreate
  <2>2. requests' = ById(requests, r) /\ \A q \in requests : q.id # r.id
    BY <2>1 DEF NewIn, ById
  <2>3. UNCHANGED <<tx, reviews>>
    BY <2>1 DEF familyVars, ledgerVars
  <2> QED BY <2>1, <2>2, <2>3, RequestSaved
<1>2. ASSUME NEW r \in requests, NEW new \in MCForms, ReimbursementEdit(r, new) PROVE RequestInv' /\ UNCHANGED familyVars
  <2>1. /\ new \in Request /\ r.status = "draft" /\ new.status \in {"draft", "submitted"} /\ new.id = r.id /\ new.link = r.link
        /\ requests' = ById(requests, new) /\ UNCHANGED <<familyVars, reviews>>
    BY <1>0, <1>2 DEF ReimbursementEdit
  <2>2. r.link = None /\ \A q \in requests : q.id = new.id => q.status = "draft"
    BY <2>1 DEF RequestInv, ExpenseIffPaid, UniqueIds
  <2>3. UNCHANGED <<tx, reviews>>
    BY <2>1 DEF familyVars, ledgerVars
  <2> QED BY <2>1, <2>2, <2>3, RequestSaved
<1>3. ASSUME NEW r \in requests, ReimbursementSubmit(r) PROVE RequestInv' /\ UNCHANGED familyVars
  <2> DEFINE s == [r EXCEPT !.status = "submitted"]
  <2>1. r \in Request /\ r.status = "draft" /\ requests' = ById(requests, s) /\ UNCHANGED <<familyVars, reviews>>
    BY <1>3 DEF ReimbursementSubmit, RequestInv
  <2>2. s \in Request /\ s.id = r.id /\ s.link = r.link /\ s.status = "submitted"
    BY <2>1 DEF Request, Statuses
  <2> HIDE DEF s
  <2>3. r.link = None /\ \A q \in requests : q.id = s.id => q.status = "draft"
    BY <2>1, <2>2 DEF RequestInv, ExpenseIffPaid, UniqueIds
  <2>4. UNCHANGED <<tx, reviews>>
    BY <2>1 DEF familyVars, ledgerVars
  <2> QED BY <2>1, <2>2, <2>3, <2>4, RequestSaved
<1>4. ASSUME NEW r \in requests, NEW n \in 1..MaxReviews, ReviewRead(n, r) PROVE RequestInv' /\ UNCHANGED familyVars
  <2>1. r.status # "draft" /\ reviews' = reviews \cup {<<n, r>>} /\ UNCHANGED <<familyVars, requests>> /\ \A v \in reviews : v[1] # n
    BY <1>4 DEF ReviewRead
  <2>2. reviews = {}
    <3>1. n = 1 /\ 1..MaxReviews = {1}
      BY DEF OneReview
    <3>2. \A v \in reviews : v[1] \in 1..MaxReviews
      BY DEF RequestInv
    <3> QED BY <2>1, <3>1, <3>2
  <2>3. UNCHANGED tx
    BY <2>1 DEF familyVars, ledgerVars
  <2> QED BY <2>1, <2>2, <2>3 DEF RequestInv, UniqueIds, ExpenseIffPaid, Booked
<1>5. ASSUME NEW v \in reviews, NEW status \in Statuses, ReviewSave(v, status)
      PROVE  LedgerInv' /\ RequestInv' /\ Moved(tx, tx', "reimbursement")
  <2>1. CASE status = "paid"
    BY <1>5, <2>1, ReviewWithPayment
  <2>2. CASE status # "paid"
    <3>1. RequestInv' /\ UNCHANGED <<tx, allocations>> /\ UNCHANGED <<categories, budgetLines>>
      BY <1>5, <2>2, ReviewWithoutPayment DEF ReviewSave
    <3>2. LedgerInv'
      BY <3>1, RowFacts, LedgerKept DEF LedgerInv, LedgerTypeOK
    <3> QED BY <3>1, <3>2, NotMoved
  <2> QED BY <2>1, <2>2
<1>6. ASSUME UNCHANGED familyVars PROVE LedgerInv' /\ Moved(tx, tx', "reimbursement")
  <2>1. UNCHANGED <<categories, tx, allocations, budgetLines>>
    BY <1>6 DEF familyVars, ledgerVars
  <2> QED BY <2>1, RowFacts, LedgerKept, NotMoved DEF LedgerInv, LedgerTypeOK
<1>7. UNCHANGED <<accountVars, seasonLines, generic, budgetLines>>
  BY DEF ReimbursementStep, ReimbursementCreate, ReimbursementEdit, ReimbursementSubmit, ReviewRead, ReviewSave, familyVars, ledgerVars
<1> QED BY <1>1, <1>2, <1>3, <1>4, <1>5, <1>6, <1>7 DEF ReimbursementStep

-----------------------------------------------------------------------------
(*-------------------------------- budgets --------------------------------*)
\* A total over budget lines is within what the table can hold.
LEMMA GroupBound ==
  ASSUME LedgerTypeOK', UniqueIds(budgetLines)', NEW rows, rows \subseteq budgetLines', NEW cat, NEW kind
  PROVE  GroupTotal(rows, cat, kind) \in 0..(MaxAmount * Cardinality(LedgerIds))
<1> DEFINE group == {l \in rows : l.cat = cat /\ l.kind = kind}
<1>1. UniqueIds(group) /\ (\A l \in group : l.id \in LedgerIds /\ l.amount \in 0..MaxAmount /\ l.amount \in Nat)
  BY DEF UniqueIds, LedgerTypeOK, BudgetLine
<1> HIDE DEF group
<1>2. IsFiniteSet(group) /\ Cardinality(group) <= Cardinality(LedgerIds)
  BY <1>1, RowsFinite
<1>3. MaxAmount \in Nat /\ Cardinality(LedgerIds) \in Nat /\ Cardinality(group) \in Nat
  BY <1>2, TeamLedgerAssumption, FS_CardinalityType
<1>4. Total(group) = SumFunctionOnSet(AmountOf(group), group)
  BY <1>2, TotalOn
<1>5. \A l \in group : AmountOf(group)[l] \in 0..MaxAmount
  BY <1>1 DEF AmountOf
<1>6. Total(group) <= MaxAmount * Cardinality(group)
  BY <1>2, <1>3, <1>4, <1>5, SumOnBound
<1>7. MaxAmount * Cardinality(group) <= MaxAmount * Cardinality(LedgerIds)
  BY <1>2, <1>3
<1>8. MaxAmount * Cardinality(group) \in Int /\ MaxAmount * Cardinality(LedgerIds) \in Int
  BY <1>3
<1>9. Total(group) \in Nat
  BY <1>1, <1>2, TotalNat
<1>10. GroupTotal(rows, cat, kind) = Total(group)
  BY DEF GroupTotal, group
<1> QED BY <1>6, <1>7, <1>8, <1>9, <1>10

LEMMA ShowBudgetSaved ==
  ASSUME LedgerInv, BudgetInv, NEW l \in BudgetLine, ShowBudgetSave(l)
  PROVE  LedgerInv' /\ BudgetInv' /\ UNCHANGED <<tx, accountVars, requests, reviews>>
<1>1. /\ \A old \in budgetLines : old.id = l.id => old.show = l.show
      /\ budgetLines' = ById(budgetLines, l)
      /\ generic' = Mirrored(<<"show", l.show>>, ShowGroups({x \in budgetLines' : x.show = l.show}))
      /\ UNCHANGED <<categories, tx, allocations, accountVars, seasonLines, requests, reviews>>
  BY DEF ShowBudgetSave, SyncShowBudget
<1>2. LedgerTypeOK' /\ UniqueIds(budgetLines)'
  BY <1>1, ByIdUnique DEF LedgerInv, LedgerTypeOK, ById
<1>3. LedgerInv'
  <2>1. \A i : AllocatedOf(i)' = AllocatedOf(i)
    BY <1>1 DEF AllocatedOf
  <2>2. AllocationsFit'
    BY <1>1, <2>1 DEF LedgerInv, AllocationsFit, Total
  <2> QED BY <1>1, <1>2, <2>2 DEF LedgerInv
<1> DEFINE rows == {x \in budgetLines' : x.show = l.show}
           groups == ShowGroups(rows)
<1>4. \A g \in generic' : g \in generic \/ \E d \in groups : g = [budget |-> <<"show", l.show>>, cat |-> d.cat, kind |-> d.kind, amount |-> d.amount]
  BY <1>1 DEF Mirrored
<1>5. \A d \in groups : d.amount \in 0..(MaxAmount * Cardinality(LedgerIds))
  <2>1. \A x \in rows : GroupTotal(rows, x.cat, x.kind) \in 0..(MaxAmount * Cardinality(LedgerIds))
    BY <1>2, GroupBound
  <2> HIDE DEF rows
  <2> QED BY <2>1 DEF ShowGroups
<1>6. \A g \in generic' : g.amount \in 0..(MaxAmount * Cardinality(LedgerIds))
  <2> HIDE DEF rows, groups
  <2> QED BY <1>4, <1>5 DEF BudgetInv
<1>7. \A g \in generic : g.budget # <<"show", l.show>> => g \in generic'
  BY <1>1 DEF Mirrored
<1>8. \A x \in seasonLines : [budget |-> <<"season", x.season>>, cat |-> x.cat, kind |-> x.kind, amount |-> x.amount] \in generic'
  BY <1>7 DEF BudgetInv, BudgetsAreMirrored
<1>9. ASSUME NEW show \in Shows, NEW g \in ShowGroups({x \in budgetLines' : x.show = show})
      PROVE  [budget |-> <<"show", show>>, cat |-> g.cat, kind |-> g.kind,
              amount |-> GroupTotal({x \in budgetLines' : x.show = show}, g.cat, g.kind)] \in generic'
  <2>1. CASE show = l.show
    <3>1. g \in groups /\ GroupTotal(rows, g.cat, g.kind) = g.amount
      BY <1>9, <2>1 DEF ShowGroups
    <3>2. [budget |-> <<"show", l.show>>, cat |-> g.cat, kind |-> g.kind, amount |-> g.amount] \in generic'
      BY <1>1, <3>1 DEF Mirrored
    <3> QED BY <2>1, <3>1, <3>2
  <2>2. CASE show # l.show
    <3>1. {x \in budgetLines' : x.show = show} = {x \in budgetLines : x.show = show}
      BY <1>1, <2>2 DEF ById
    <3> DEFINE same == {x \in budgetLines : x.show = show}
    <3>2. g \in ShowGroups(same)
      BY <1>9, <3>1
    <3>3. [budget |-> <<"show", show>>, cat |-> g.cat, kind |-> g.kind, amount |-> GroupTotal(same, g.cat, g.kind)] \in generic
      BY <3>2 DEF BudgetInv, BudgetsAreMirrored
    <3>4. <<"show", show>> # <<"show", l.show>>
      BY <2>2
    <3> HIDE DEF same
    <3>5. [budget |-> <<"show", show>>, cat |-> g.cat, kind |-> g.kind, amount |-> GroupTotal(same, g.cat, g.kind)] \in generic'
      BY <1>7, <3>3, <3>4
    <3> QED BY <3>1, <3>5 DEF same
  <2> QED BY <2>1, <2>2
<1>10. BudgetsAreMirrored'
  <2>1. \A x \in seasonLines' : [budget |-> <<"season", x.season>>, cat |-> x.cat, kind |-> x.kind, amount |-> x.amount] \in generic'
    BY <1>1, <1>8
  <2>2. \A show \in Shows : \A g \in ShowGroups({x \in budgetLines : x.show = show})' :
          [budget |-> <<"show", show>>, cat |-> g.cat, kind |-> g.kind,
           amount |-> GroupTotal({x \in budgetLines' : x.show = show}, g.cat, g.kind)] \in generic'
    BY <1>9 DEF ShowGroups, GroupTotal, Total
  <2> QED BY <2>1, <2>2 DEF BudgetsAreMirrored, GroupTotal, Total
<1>11. BudgetInv'
  BY <1>1, <1>6, <1>10 DEF BudgetInv
<1> QED BY <1>1, <1>3, <1>11

LEMMA SeasonBudgetSaved ==
  ASSUME BudgetInv, NEW old, NEW l \in SeasonLine, FinanceBudgetSave(old, l)
  PROVE  BudgetInv' /\ UNCHANGED <<familyVars, requests, reviews>>
<1>1. /\ seasonLines' = (seasonLines \ old) \cup {l} /\ \A o \in old : o.season = l.season
      /\ generic' = Mirrored(<<"season", l.season>>, {x \in seasonLines' : x.season = l.season})
      /\ UNCHANGED <<familyVars, requests, reviews>>
  BY DEF FinanceBudgetSave, SyncSeasonBudget
<1> DEFINE rows == {x \in seasonLines' : x.season = l.season}
<1>2. UNCHANGED budgetLines
  BY <1>1 DEF familyVars, ledgerVars
<1>3. seasonLines' \subseteq SeasonLine
  BY <1>1 DEF BudgetInv
<1>4. \A g \in generic' : g \in generic \/ \E d \in rows : g = [budget |-> <<"season", l.season>>, cat |-> d.cat, kind |-> d.kind, amount |-> d.amount]
  BY <1>1 DEF Mirrored
<1>5. \A d \in SeasonLine : d.amount \in 0..(MaxAmount * Cardinality(LedgerIds))
  <2>1. MaxAmount \in Nat /\ Cardinality(LedgerIds) \in Nat /\ Cardinality(LedgerIds) # 0
    BY TeamLedgerAssumption, FS_CardinalityType, FS_EmptySet
  <2>2. MaxAmount <= MaxAmount * Cardinality(LedgerIds) /\ MaxAmount * Cardinality(LedgerIds) \in Int
    BY <2>1
  <2>3. \A d \in SeasonLine : d.amount \in 0..MaxAmount
    BY DEF SeasonLine
  <2> QED BY <2>1, <2>2, <2>3
<1>6. \A g \in generic' : g.amount \in 0..(MaxAmount * Cardinality(LedgerIds))
  BY <1>3, <1>4, <1>5 DEF BudgetInv
<1>7. \A g \in generic : g.budget # <<"season", l.season>> => g \in generic'
  BY <1>1 DEF Mirrored
<1>8. ASSUME NEW x \in seasonLines'
      PROVE  [budget |-> <<"season", x.season>>, cat |-> x.cat, kind |-> x.kind, amount |-> x.amount] \in generic'
  <2>1. CASE x.season = l.season
    BY <1>1, <2>1 DEF Mirrored
  <2>2. CASE x.season # l.season
    <3>1. x \in seasonLines
      BY <1>1, <2>2
    <3>2. [budget |-> <<"season", x.season>>, cat |-> x.cat, kind |-> x.kind, amount |-> x.amount] \in generic
      BY <3>1 DEF BudgetInv, BudgetsAreMirrored
    <3>3. <<"season", x.season>> # <<"season", l.season>>
      BY <2>2
    <3> QED BY <1>7, <3>2, <3>3
  <2> QED BY <2>1, <2>2
<1>9. ASSUME NEW show \in Shows, NEW g \in ShowGroups({x \in budgetLines' : x.show = show})
      PROVE  [budget |-> <<"show", show>>, cat |-> g.cat, kind |-> g.kind,
              amount |-> GroupTotal({x \in budgetLines' : x.show = show}, g.cat, g.kind)] \in generic'
  <2> DEFINE same == {x \in budgetLines : x.show = show}
             line == [budget |-> <<"show", show>>, cat |-> g.cat, kind |-> g.kind, amount |-> GroupTotal(same, g.cat, g.kind)]
  <2>0. {x \in budgetLines' : x.show = show} = same
    BY <1>2
  <2>1. <<"show", show>> # <<"season", l.season>>
    OBVIOUS
  <2>2. line \in generic
    BY <1>9, <2>0 DEF BudgetInv, BudgetsAreMirrored
  <2>3. line.budget = <<"show", show>>
    OBVIOUS
  <2> HIDE DEF line
  <2>4. line \in generic'
    BY <1>7, <2>1, <2>2, <2>3
  <2> QED BY <2>0, <2>4 DEF line
<1>10. BudgetsAreMirrored'
  <2>1. \A show \in Shows : \A g \in ShowGroups({x \in budgetLines : x.show = show})' :
          [budget |-> <<"show", show>>, cat |-> g.cat, kind |-> g.kind,
           amount |-> GroupTotal({x \in budgetLines' : x.show = show}, g.cat, g.kind)] \in generic'
    BY <1>9 DEF ShowGroups, GroupTotal, Total
  <2> QED BY <1>8, <2>1 DEF BudgetsAreMirrored, GroupTotal, Total
<1> QED BY <1>1, <1>3, <1>6, <1>10 DEF BudgetInv

(*------------------------------- payables --------------------------------*)
LEMMA PaymentsFinite ==
  ASSUME PayableInv, NEW rows, rows \subseteq payablePayments
  PROVE  IsFiniteSet(rows) /\ \A q \in rows : q.amount \in Nat
<1>1. \A q \in payablePayments : q.id \in LedgerIds /\ q.amount \in Nat
  BY TeamLedgerAssumption DEF PayableInv, PayablesTypeOK, PayablePayment
<1>2. IsFiniteSet(payablePayments)
  BY <1>1, RowsFinite DEF PayableInv
<1> QED BY <1>1, <1>2, FS_Subset

\* The payments that count against an obligation.
Counted(o) == {q \in PaymentsOf(o) : q.status = "posted"}

LEMMA ObligationCreated ==
  ASSUME PayableInv, NEW o \in Obligation, CreateObligation(o)
  PROVE  PayableInv' /\ UNCHANGED ledgerVars
<1>1. NewIn(obligations, o) /\ obligations' = obligations \cup {o} /\ UNCHANGED payablePayments /\ UNCHANGED ledgerVars
  BY DEF CreateObligation
<1>2. PayablesTypeOK' /\ UniqueIds(obligations') /\ UniqueIds(payablePayments')
  BY <1>1 DEF PayableInv, PayablesTypeOK, UniqueIds, NewIn
<1>3. \A p : PaidTotal(p)' = PaidTotal(p)
  BY <1>1 DEF PaidTotal, PaymentsOf
<1>4. PaidTotal(o) <= o.amount
  <2>1. PaymentsOf(o) = {}
    BY <1>1 DEF PaymentsOf, NewIn, PayableInv
  <2>2. PaidTotal(o) = 0
    <3>1. {q \in PaymentsOf(o) : q.status = "posted"} = {}
      BY <2>1
    <3> QED BY <3>1, TotalEmpty DEF PaidTotal
  <2>3. o.amount \in Nat
    <3>1. o.amount \in Amounts
      BY DEF Obligation
    <3>2. \A amount \in Amounts : amount \in Nat
      BY TeamLedgerAssumption
    <3> QED BY <3>1, <3>2
  <2> QED BY <2>2, <2>3
<1>5. UNCHANGED tx
  BY <1>1 DEF ledgerVars
<1>6. \A p \in obligations' : PaidTotal(p)' <= p.amount
  BY <1>1, <1>3, <1>4 DEF PayableInv
<1> QED BY <1>1, <1>2, <1>5, <1>6 DEF PayableInv, Booked

LEMMA PayablePosted ==
  ASSUME LedgerInv, PayableInv, NEW o \in obligations, NEW id \in LedgerIds, NEW amount \in Amounts,
         PostPayablePayment(o, id, amount)
  PROVE  LedgerInv' /\ PayableInv' /\ Moved(tx, tx', "payable")
<1> DEFINE t == Posting("expense", o.cat, o.season, amount, <<"payable", id>>)
           s == [id |-> id, obligation |-> o.id, amount |-> amount, status |-> "posted", link |-> Len(tx')]
<1>1. /\ \A q \in payablePayments : q.id # id
      /\ PaidTotal(o) + amount <= o.amount
      /\ PostFor(None, t) /\ payablePayments' = payablePayments \cup {s}
      /\ UNCHANGED <<obligations, categories, allocations, budgetLines>>
  BY DEF PostPayablePayment, PaymentFits
<1>2. o \in Obligation /\ amount \in 1..MaxAmount /\ amount \in Nat
  BY TeamLedgerAssumption DEF PayableInv, PayablesTypeOK
<1>3. t \in Transaction /\ t.status = "posted" /\ t.origin = <<"payable", s.id>>
  BY <1>2 DEF Posting, Transaction, Obligation, Origins, Kinds, None
<1>4. s.link = RowOf(None)
  <2>1. tx' = Append(tx, t)
    BY <1>1 DEF PostFor, Synced
  <2> QED BY <1>3, <2>1, RowFacts DEF RowOf
<1>5. s.id = id /\ s.obligation = o.id /\ s.amount = amount /\ s.status = "posted" /\ (s.link \in 1..MaxTx => s \in PayablePayment)
  BY <1>2 DEF PayablePayment, PayableInv, PayablesTypeOK, Obligation
<1> HIDE DEF t, s
<1>6. UniqueIds(payablePayments) /\ Booked("payable", payablePayments, tx)
  BY DEF PayableInv
<1>7. payablePayments' = ById(payablePayments, s) /\ \A q \in payablePayments : q.id # s.id
  BY <1>1, <1>5 DEF ById
<1>8. /\ Booked("payable", ById(payablePayments, s), tx') /\ Moved(tx, tx', "payable")
      /\ s.link \in 1..MaxTx /\ LedgerInv'
  BY <1>1, <1>3, <1>4, <1>6, <1>7, PostForBooks
<1>9. PayablesTypeOK' /\ UniqueIds(obligations') /\ UniqueIds(payablePayments')
  BY <1>1, <1>5, <1>6, <1>7, <1>8, ByIdUnique DEF PayableInv, PayablesTypeOK, UniqueIds
<1>10. \A q \in payablePayments' : \E p \in obligations' : p.id = q.obligation
  BY <1>1, <1>5 DEF PayableInv
<1>11. ASSUME NEW p \in obligations PROVE PaidTotal(p)' <= p.amount
  <2>1. CASE p = o
    <3>1. Counted(p)' = Counted(p) \cup {s} /\ s \notin Counted(p)
      BY <1>1, <1>5, <1>7, <2>1 DEF Counted, PaymentsOf
    <3>2. IsFiniteSet(Counted(p)) /\ \A q \in Counted(p) : q.amount \in Nat
      BY PaymentsFinite DEF Counted, PaymentsOf
    <3>3. Total(Counted(p) \cup {s}) = Total(Counted(p)) + s.amount
      BY <1>2, <1>5, <3>1, <3>2, TotalAdd
    <3>4. PaidTotal(p)' = Total(Counted(p)') /\ PaidTotal(p) = Total(Counted(p))
      BY DEF PaidTotal, Counted, Total
    <3> QED BY <1>1, <1>5, <2>1, <3>1, <3>3, <3>4
  <2>2. CASE p # o
    <3>1. p.id # o.id
      BY <2>2 DEF PayableInv, UniqueIds
    <3>2. Counted(p)' = Counted(p)
      BY <1>1, <1>5, <3>1 DEF Counted, PaymentsOf
    <3>3. PaidTotal(p)' = Total(Counted(p)') /\ PaidTotal(p) = Total(Counted(p))
      BY DEF PaidTotal, Counted, Total
    <3> QED BY <3>2, <3>3 DEF PayableInv
  <2> QED BY <2>1, <2>2
<1>12. ASSUME NEW q \in payablePayments', q.status = "void" PROVE tx'[q.link].status = "void"
  <2>1. q \in payablePayments
    BY <1>1, <1>5, <1>12
  <2>2. q.link \in DOMAIN tx /\ tx[q.link].status = "void"
    BY <1>12, <2>1 DEF PayableInv, Booked, PayablesTypeOK, PayablePayment, None
  <2> QED BY <1>8, <2>2 DEF Moved
<1> QED BY <1>1, <1>7, <1>8, <1>9, <1>10, <1>11, <1>12 DEF PayableInv

LEMMA PayableVoided ==
  ASSUME LedgerInv, PayableInv, NEW q \in payablePayments, VoidPayablePayment(q)
  PROVE  LedgerInv' /\ PayableInv' /\ Moved(tx, tx', "payable")
<1> DEFINE s == [q EXCEPT !.status = "void"]
<1>1. /\ q.status = "posted" /\ payablePayments' = ById(payablePayments, s) /\ tx' = VoidRow(q.link)
      /\ UNCHANGED <<obligations, categories, allocations, budgetLines>>
  BY DEF VoidPayablePayment
<1>2. q \in PayablePayment /\ q.link # None
  BY DEF PayableInv, PayablesTypeOK, PayablePayment, None
<1>3. q.link \in DOMAIN tx /\ tx[q.link].origin = <<"payable", q.id>>
  BY <1>2 DEF PayableInv, Booked
<1>4. s \in PayablePayment /\ s.id = q.id /\ s.link = q.link /\ s.status = "void" /\ s.obligation = q.obligation
  BY <1>2 DEF PayablePayment
<1> HIDE DEF s
<1>5. tx[q.link].origin[1] = "payable" /\ categories' \in [Categories -> Category]
  BY <1>1, <1>3 DEF LedgerInv, LedgerTypeOK
<1>6. /\ LedgerInv' /\ Moved(tx, tx', "payable") /\ DOMAIN tx' = DOMAIN tx
      /\ tx'[q.link].status = "void"
  BY <1>1, <1>2, <1>3, <1>5, VoidRowMoves
<1>7. UniqueIds(payablePayments) /\ Booked("payable", payablePayments, tx)
  BY DEF PayableInv
<1>8. Booked("payable", ById(payablePayments, s), tx')
  <2>1. s.link # None => s.link \in DOMAIN tx' /\ tx'[s.link].origin = <<"payable", s.id>>
    BY <1>3, <1>4, <1>6 DEF Moved
  <2>2. \A p \in payablePayments : p.id = s.id => p.link = s.link
    BY <1>4, <1>7 DEF UniqueIds
  <2> QED BY <1>6, <1>7, <2>1, <2>2, RowFacts, BookedSave
<1>9. PayablesTypeOK' /\ UniqueIds(obligations') /\ UniqueIds(payablePayments')
  <2>1. payablePayments' \subseteq PayablePayment
    BY <1>1, <1>4 DEF PayableInv, PayablesTypeOK, ById
  <2> QED BY <1>1, <1>7, <2>1, ByIdUnique DEF PayableInv, PayablesTypeOK, UniqueIds
<1>10. \A p \in payablePayments' : \E o \in obligations' : o.id = p.obligation
  BY <1>1, <1>4 DEF PayableInv, ById
<1>11. ASSUME NEW o \in obligations PROVE PaidTotal(o)' <= o.amount
  <2>1. Counted(o)' \subseteq Counted(o)
    BY <1>1, <1>4 DEF Counted, PaymentsOf, ById
  <2>2. IsFiniteSet(Counted(o)) /\ \A p \in Counted(o) : p.amount \in Nat
    BY PaymentsFinite DEF Counted, PaymentsOf
  <2>3. Total(Counted(o)') <= Total(Counted(o)) /\ Total(Counted(o)) \in Nat
    BY <2>1, <2>2, TotalPart, TotalNat
  <2>4. IsFiniteSet(Counted(o)') /\ \A p \in Counted(o)' : p.amount \in Nat
    BY <2>1, <2>2, FS_Subset
  <2>5. Total(Counted(o)') \in Nat
    BY <2>4, TotalNat
  <2>6. PaidTotal(o)' = Total(Counted(o)') /\ PaidTotal(o) = Total(Counted(o))
    BY DEF PaidTotal, Counted, Total
  <2>7. PaidTotal(o) <= o.amount /\ o.amount \in Nat
    BY TeamLedgerAssumption DEF PayableInv, PayablesTypeOK, Obligation
  <2> QED BY <2>3, <2>5, <2>6, <2>7
<1>12. ASSUME NEW p \in payablePayments', p.status = "void" PROVE tx'[p.link].status = "void"
  <2>1. CASE p = s
    BY <1>4, <1>6, <2>1
  <2>2. CASE p # s
    <3>1. p \in payablePayments
      BY <1>1, <2>2 DEF ById
    <3>2. p.link \in DOMAIN tx /\ tx[p.link].status = "void"
      BY <1>12, <3>1 DEF PayableInv, Booked, PayablesTypeOK, PayablePayment, None
    <3> QED BY <1>6, <3>2 DEF Moved
  <2> QED BY <2>1, <2>2
<1> QED BY <1>1, <1>6, <1>8, <1>9, <1>10, <1>11, <1>12 DEF PayableInv

LEMMA PayablesKept ==
  ASSUME LedgerInv, PayableInv, PayablesStep
  PROVE  LedgerInv' /\ PayableInv' /\ Moved(tx, tx', "payable") /\ UNCHANGED budgetLines
<1>1. ASSUME NEW o \in Obligation, CreateObligation(o) PROVE LedgerInv' /\ PayableInv' /\ Moved(tx, tx', "payable")
  <2>1. PayableInv' /\ UNCHANGED <<categories, tx, allocations, budgetLines>>
    BY <1>1, ObligationCreated DEF ledgerVars
  <2> QED BY <2>1, RowFacts, LedgerKept, NotMoved DEF LedgerInv, LedgerTypeOK
<1>2. ASSUME NEW o \in obligations, NEW id \in LedgerIds, NEW amount \in Amounts, PostPayablePayment(o, id, amount)
      PROVE  LedgerInv' /\ PayableInv' /\ Moved(tx, tx', "payable")
  BY <1>2, PayablePosted
<1>3. ASSUME NEW q \in payablePayments, VoidPayablePayment(q) PROVE LedgerInv' /\ PayableInv' /\ Moved(tx, tx', "payable")
  BY <1>3, PayableVoided
<1>4. UNCHANGED budgetLines
  BY DEF PayablesStep, CreateObligation, PostPayablePayment, VoidPayablePayment, ledgerVars
<1> QED BY <1>1, <1>2, <1>3, <1>4 DEF PayablesStep

-----------------------------------------------------------------------------
(*-------------------------------- billing --------------------------------*)
Ascending(f) == \A p, q \in DOMAIN f : p < q => f[p] < f[q]

\* A finite set of numbers has an enumeration in their order.
LEMMA OrderExists ==
  ASSUME NEW S, S \subseteq Nat, IsFiniteSet(S)
  PROVE  \E f \in [1..Cardinality(S) -> S] : Ascending(f)
<1> DEFINE Sorted(T) == \E f \in [1..Cardinality(T) -> T] : Ascending(f)
           N == {n \in Nat : \A T \in SUBSET S : Cardinality(T) = n => Sorted(T)}
<1>1. \A T \in SUBSET S : IsFiniteSet(T) /\ Cardinality(T) \in Nat
  BY FS_Subset, FS_CardinalityType
<1>2. 0 \in N
  <2> SUFFICES ASSUME NEW T \in SUBSET S, Cardinality(T) = 0 PROVE Sorted(T)
    OBVIOUS
  <2>1. T = {}
    BY <1>1, FS_EmptySet
  <2>2. 1..Cardinality(T) = {}
    OBVIOUS
  <2> DEFINE f == [i \in 1..Cardinality(T) |-> i]
  <2>3. f \in [1..Cardinality(T) -> T] /\ Ascending(f)
    BY <2>2 DEF Ascending
  <2> QED BY <2>3
<1>3. ASSUME NEW n \in Nat, n \in N PROVE n + 1 \in N
  <2> SUFFICES ASSUME NEW T \in SUBSET S, Cardinality(T) = n + 1 PROVE Sorted(T)
    BY <1>3
  <2>1. T # {}
    BY FS_EmptySet
  <2>2. PICK m \in T : \A x \in T : x <= m
    BY <1>1, <2>1, FiniteMax
  <2> DEFINE rest == T \ {m}
  <2>3. rest \in SUBSET S /\ Cardinality(rest) = n
    BY <1>1, <2>2, FS_RemoveElement
  <2>4. Sorted(rest)
    BY <1>3, <2>3
  <2>5. PICK f \in [1..n -> rest] : Ascending(f)
    BY <2>3, <2>4
  <2> DEFINE g == [i \in 1..(n + 1) |-> IF i = n + 1 THEN m ELSE f[i]]
  <2>6. g \in [1..(n + 1) -> T]
    <3>1. ASSUME NEW i \in 1..(n + 1) PROVE (IF i = n + 1 THEN m ELSE f[i]) \in T
      <4>1. CASE i = n + 1
        BY <4>1
      <4>2. CASE i # n + 1
        <5>1. i \in 1..n
          BY <4>2
        <5>2. f[i] \in rest
          BY <5>1
        <5> QED BY <4>2, <5>2
      <4> QED BY <4>1, <4>2
    <3> QED BY <3>1
  <2>7. ASSUME NEW p \in 1..(n + 1), NEW q \in 1..(n + 1), p < q PROVE g[p] < g[q]
    <3>1. p \in 1..n /\ g[p] = f[p] /\ f[p] \in rest
      BY <2>7
    <3>2. CASE q = n + 1
      <4>1. g[q] = m /\ f[p] # m /\ f[p] <= m /\ f[p] \in Nat /\ m \in Nat
        BY <2>2, <3>1, <3>2
      <4> HIDE DEF g
      <4> QED BY <3>1, <4>1
    <3>3. CASE q # n + 1
      <4>1. q \in 1..n /\ g[q] = f[q]
        BY <3>3
      <4>2. f[p] < f[q]
        BY <2>5, <2>7, <3>1, <4>1 DEF Ascending
      <4> HIDE DEF g
      <4> QED BY <3>1, <4>1, <4>2
    <3> QED BY <3>2, <3>3
  <2>8. Ascending(g)
    BY <2>7 DEF Ascending
  <2> HIDE DEF g
  <2> QED BY <2>6, <2>8
<1> HIDE DEF N
<1>4. Nat \subseteq N
  BY <1>2, <1>3, NatSetInduction
<1>5. \A n \in Nat : \A T \in SUBSET S : Cardinality(T) = n => Sorted(T)
  BY <1>4 DEF N
<1> HIDE DEF Sorted
<1>6. Sorted(S)
  BY <1>1, <1>5
<1> QED BY <1>6 DEF Sorted

LEMMA InOrderFacts ==
  ASSUME NEW S, S \subseteq Nat, IsFiniteSet(S)
  PROVE  /\ InOrder(S) \in Seq(S) /\ DOMAIN InOrder(S) = 1..Len(InOrder(S)) /\ Len(InOrder(S)) \in Nat
         /\ \A p \in DOMAIN InOrder(S) : InOrder(S)[p] \in S
         /\ \A p, q \in DOMAIN InOrder(S) : p < q => InOrder(S)[p] < InOrder(S)[q]
<1>1. \E f \in [1..Cardinality(S) -> S] : \A p, q \in DOMAIN f : p < q => f[p] < f[q]
  BY OrderExists DEF Ascending
<1>2. InOrder(S) \in [1..Cardinality(S) -> S] /\ \A p, q \in DOMAIN InOrder(S) : p < q => InOrder(S)[p] < InOrder(S)[q]
  <2> DEFINE P(f) == \A p, q \in DOMAIN f : p < q => f[p] < f[q]
             set == [1..Cardinality(S) -> S]
  <2>1. InOrder(S) = CHOOSE f \in set : P(f)
    BY DEF InOrder
  <2>2. \E f \in set : P(f)
    BY <1>1
  <2> HIDE DEF P, set
  <2>3. InOrder(S) \in set /\ P(InOrder(S))
    BY <2>1, <2>2
  <2> QED BY <2>3 DEF P, set
<1>3. Cardinality(S) \in Nat
  BY FS_CardinalityType
<1> HIDE DEF InOrder
<1>4. InOrder(S) \in Seq(S)
  BY <1>2, <1>3
<1> QED BY <1>2, <1>4, ElementOfSeq

\* What a run starts with.
LEMMA RunStarts ==
  ASSUME BillingInv, NEW keys \in Seq(BillingKeys),
         \A p, q \in DOMAIN keys : p < q => Rank(keys[p]) < Rank(keys[q]),
         Start(keys)
  PROVE  BillingInv'
<1> DEFINE run == [keys |-> keys, next |-> 1, own |-> {}, at |-> "look"]
<1>1. Len(runs) < MaxRuns /\ runs' = Append(runs, run) /\ UNCHANGED <<rules, billed>>
  BY DEF Start
<1>2. run \in Run
  BY DEF Run
<1>3. run.keys = keys /\ run.next = 1 /\ run.own = {} /\ run.at = "look"
  OBVIOUS
<1> HIDE DEF run
<1>4. runs \in Seq(Run) /\ Len(runs) \in Nat /\ DOMAIN runs = 1..Len(runs) /\ MaxRuns \in Nat
  BY BillingAssumption DEF BillingInv
<1>5. /\ runs' \in Seq(Run) /\ Len(runs') = Len(runs) + 1
      /\ \A i \in 1..Len(runs) : runs'[i] = runs[i]
      /\ runs'[Len(runs) + 1] = run
  BY <1>1, <1>2, <1>4, AppendProperties
<1>6. DOMAIN runs' = 1..(Len(runs) + 1) /\ Len(runs') <= MaxRuns
  BY <1>1, <1>4, <1>5
<1>7. \A i \in DOMAIN runs : i \in DOMAIN runs' /\ runs'[i] = runs[i]
  BY <1>4, <1>5, <1>6
<1>8. \A i \in DOMAIN runs' : i \in DOMAIN runs \/ runs'[i] = run
  BY <1>4, <1>5, <1>6
<1>9. \A k : Committed(k)' = Committed(k)
  BY <1>1 DEF Committed
<1>10. ASSUME NEW i \in DOMAIN runs' PROVE RunInv(i)'
  <2>1. CASE i \in DOMAIN runs
    <3>1. RunInv(i) /\ runs'[i] = runs[i]
      BY <1>7, <2>1 DEF BillingInv
    <3>2. \A j \in DOMAIN runs' : j # i => runs[i].own \cap runs'[j].own = {}
      BY <1>3, <1>7, <1>8, <3>1 DEF RunInv
    <3> QED BY <1>9, <3>1, <3>2 DEF RunInv, Open
  <2>2. CASE i \notin DOMAIN runs
    <3>1. runs'[i] = run
      BY <1>8, <2>2
    <3>2. ~\E p \in DOMAIN keys : p < 1
      OBVIOUS
    <3> QED BY <1>2, <1>3, <3>1, <3>2 DEF RunInv, Open
  <2> QED BY <2>1, <2>2
<1>11. \A b \in billed : b.by \in DOMAIN runs' /\ runs'[b.by].at = "done"
  BY <1>7 DEF BillingInv
<1> QED BY <1>1, <1>5, <1>6, <1>10, <1>11 DEF BillingInv, ChargedOnce

LEMMA BatchesStart ==
  ASSUME BillingInv,
         \/ \E m \in Months : GenerateMonthlyCharges(m)
         \/ \E present \in SUBSET Riders : BillLessonOccurrence(present)
         \/ \E s \in Shifts : GenerateRuleCredit(s)
  PROVE  BillingInv'
<1>1. ASSUME NEW month \in Months, GenerateMonthlyCharges(month) PROVE BillingInv'
  <2> DEFINE order == InOrder(rules)
             keys == [n \in 1..Len(order) |-> <<"monthly", <<order[n], month>>>>]
  <2>1. rules \subseteq Rules /\ rules \subseteq Nat /\ IsFiniteSet(rules)
    BY BillingAssumption, FS_Subset DEF BillingInv
  <2>2. /\ DOMAIN order = 1..Len(order) /\ Len(order) \in Nat
        /\ \A p \in DOMAIN order : order[p] \in rules
        /\ \A p, q \in DOMAIN order : p < q => order[p] < order[q]
    BY <2>1, InOrderFacts
  <2>3. Start(keys)
    BY <1>1 DEF GenerateMonthlyCharges, MonthlyRules
  <2> HIDE DEF order
  <2>4. \A p \in 1..Len(order) : keys[p] \in BillingKeys /\ Rank(keys[p]) = order[p]
    BY <2>1, <2>2 DEF BillingKeys, Rank
  <2>5. keys \in Seq(BillingKeys) /\ DOMAIN keys = 1..Len(order)
    BY <2>2, <2>4
  <2> HIDE DEF keys
  <2>6. \A p, q \in DOMAIN keys : p < q => Rank(keys[p]) < Rank(keys[q])
    BY <2>2, <2>4, <2>5
  <2> QED BY <2>3, <2>5, <2>6, RunStarts
<1>2. ASSUME NEW present \in SUBSET Riders, BillLessonOccurrence(present) PROVE BillingInv'
  <2> DEFINE order == InOrder(present)
             keys == [n \in 1..Len(order) |-> <<"lesson", order[n]>>]
  <2>1. present \subseteq Nat /\ IsFiniteSet(present)
    BY BillingAssumption, FS_Subset
  <2>2. /\ DOMAIN order = 1..Len(order) /\ Len(order) \in Nat
        /\ \A p \in DOMAIN order : order[p] \in present
        /\ \A p, q \in DOMAIN order : p < q => order[p] < order[q]
    BY <2>1, InOrderFacts
  <2>3. Start(keys)
    BY <1>2 DEF BillLessonOccurrence
  <2> HIDE DEF order
  <2>4. \A p \in 1..Len(order) : keys[p] \in BillingKeys /\ Rank(keys[p]) = order[p]
    BY <2>2 DEF BillingKeys, Rank
  <2>5. keys \in Seq(BillingKeys) /\ DOMAIN keys = 1..Len(order)
    BY <2>2, <2>4
  <2> HIDE DEF keys
  <2>6. \A p, q \in DOMAIN keys : p < q => Rank(keys[p]) < Rank(keys[q])
    BY <2>2, <2>4, <2>5
  <2> QED BY <2>3, <2>5, <2>6, RunStarts
<1>3. ASSUME NEW shift \in Shifts, GenerateRuleCredit(shift) PROVE BillingInv'
  <2> DEFINE keys == << <<"work", shift>> >>
  <2>1. <<"work", shift>> \in BillingKeys
    BY DEF BillingKeys
  <2>2. keys \in Seq(BillingKeys) /\ DOMAIN keys = {1}
    BY <2>1
  <2>3. Start(keys)
    BY <1>3 DEF GenerateRuleCredit
  <2> HIDE DEF keys
  <2>4. \A p, q \in DOMAIN keys : p < q => Rank(keys[p]) < Rank(keys[q])
    BY <2>2
  <2> QED BY <2>2, <2>3, <2>4, RunStarts
<1> QED BY <1>1, <1>2, <1>3

\* A step of run i that commits nothing: every other run is as it was.
LEMMA RunAdvances ==
  ASSUME BillingInv, NEW i \in DOMAIN runs, NEW run, runs' = [runs EXCEPT ![i] = run], UNCHANGED <<rules, billed>>,
         run \in Run, run.next >= 1, run.keys = runs[i].keys, run.at # "done", \A b \in billed : b.by # i,
         \A k \in run.own : /\ ~Committed(k) /\ run.at \in {"look", "clean", "insert"}
                            /\ \E p \in DOMAIN run.keys : p < run.next /\ k = run.keys[p]
                            /\ \A j \in DOMAIN runs : j # i => k \notin runs[j].own,
         run.at \in {"look", "clean", "insert"} =>
           \A p \in DOMAIN run.keys : p < run.next => Committed(run.keys[p]) \/ run.keys[p] \in run.own
  PROVE  BillingInv'
<1>1. runs \in Seq(Run) /\ DOMAIN runs = 1..Len(runs)
  BY DEF BillingInv
<1>2. /\ runs' \in Seq(Run) /\ Len(runs') = Len(runs)
      /\ \A j \in 1..Len(runs) : runs'[j] = IF j = i THEN run ELSE runs[j]
  BY <1>1, ExceptSeq
<1>3. DOMAIN runs' = DOMAIN runs /\ \A j \in DOMAIN runs : runs'[j] = IF j = i THEN run ELSE runs[j]
  BY <1>1, <1>2
<1>4. \A k : Committed(k)' = Committed(k)
  BY DEF Committed
<1>5. ASSUME NEW j \in DOMAIN runs PROVE RunInv(j)'
  <2>1. RunInv(j) /\ RunInv(i)
    BY DEF BillingInv
  <2>2. CASE j = i
    <3>1. runs'[j] = run
      BY <1>3, <2>2
    <3>2. \A m \in DOMAIN runs' : m # i => runs'[j].own \cap runs'[m].own = {}
      BY <1>3, <3>1
    <3> QED BY <1>4, <2>1, <2>2, <3>1, <3>2 DEF RunInv, Open
  <2>3. CASE j # i
    <3>1. runs'[j] = runs[j]
      BY <1>3, <2>3
    <3>2. \A m \in DOMAIN runs' : m # j => runs'[j].own \cap runs'[m].own = {}
      BY <1>3, <2>1, <2>3, <3>1 DEF RunInv
    <3> QED BY <1>4, <2>1, <3>1, <3>2 DEF RunInv, Open
  <2> QED BY <2>2, <2>3
<1>6. \A b \in billed : b.by \in DOMAIN runs' /\ runs'[b.by].at = "done"
  BY <1>3 DEF BillingInv
<1> QED BY <1>2, <1>3, <1>5, <1>6 DEF BillingInv, ChargedOnce

\* The run after Advance.
LEMMA Advanced ==
  ASSUME BillingInv, NEW i \in DOMAIN runs, NEW at \in {"look", "clean", "insert", "done", "refused", "lost"},
         NEW own \in SUBSET BillingKeys, NEW next \in Nat, Advance(i, at, own, next)
  PROVE  \E run \in Run : /\ runs' = [runs EXCEPT ![i] = run]
                          /\ run.keys = runs[i].keys /\ run.at = at /\ run.own = own /\ run.next = next
<1> DEFINE run == [runs[i] EXCEPT !.at = at, !.own = own, !.next = next]
<1>1. runs[i] \in Run
  BY DEF BillingInv, RunInv
<1>2. run \in Run /\ run.keys = runs[i].keys /\ run.at = at /\ run.own = own /\ run.next = next
  BY <1>1 DEF Run
<1>3. runs' = [runs EXCEPT ![i] = run]
  BY DEF Advance
<1> HIDE DEF run
<1> QED BY <1>2, <1>3

LEMMA RunFacts ==
  ASSUME BillingInv, NEW i \in DOMAIN runs
  PROVE  /\ RunInv(i) /\ runs[i] \in Run /\ runs[i].keys \in Seq(BillingKeys) /\ runs[i].next \in Nat /\ runs[i].next >= 1
         /\ runs[i].own \in SUBSET BillingKeys
         /\ DOMAIN runs[i].keys = 1..Len(runs[i].keys) /\ Len(runs[i].keys) \in Nat
         /\ Running(i) => KeyOf(i) \in BillingKeys /\ runs[i].next \in DOMAIN runs[i].keys /\ Open(i)
<1>1. RunInv(i) /\ runs[i] \in Run /\ runs[i].next >= 1
  BY DEF BillingInv, RunInv
<1>2. runs[i].keys \in Seq(BillingKeys) /\ runs[i].next \in Nat /\ runs[i].own \in SUBSET BillingKeys
  BY <1>1 DEF Run
<1>3. DOMAIN runs[i].keys = 1..Len(runs[i].keys) /\ Len(runs[i].keys) \in Nat
  BY <1>2
<1>4. ASSUME Running(i) PROVE KeyOf(i) \in BillingKeys /\ runs[i].next \in DOMAIN runs[i].keys
  <2>1. runs[i].next \in DOMAIN runs[i].keys
    BY <1>1, <1>2, <1>3, <1>4 DEF Running
  <2> QED BY <1>2, <2>1, ElementOfSeq DEF KeyOf
<1> QED BY <1>1, <1>2, <1>3, <1>4 DEF Running

\* A run that is not done has committed nothing.
LEMMA NothingBilled ==
  ASSUME BillingInv, NEW i \in DOMAIN runs, runs[i].at # "done"
  PROVE  \A b \in billed : b.by # i
  BY DEF BillingInv

\* The row of the key is found: the run goes on to the next key.
LEMMA KeyFound ==
  ASSUME BillingInv, NEW i \in DOMAIN runs, Running(i), Committed(KeyOf(i)) \/ KeyOf(i) \in runs[i].own, Exists(i),
         UNCHANGED <<rules, billed>>
  PROVE  BillingInv'
<1>1. PICK run \in Run : /\ runs' = [runs EXCEPT ![i] = run]
                         /\ run.keys = runs[i].keys /\ run.at = "look" /\ run.own = runs[i].own /\ run.next = runs[i].next + 1
  BY RunFacts, Advanced DEF Exists
<1>2. run.next >= 1 /\ run.at # "done" /\ \A b \in billed : b.by # i
  BY <1>1, RunFacts, NothingBilled DEF Open
<1>3. ASSUME NEW k \in run.own
      PROVE  /\ ~Committed(k) /\ run.at \in {"look", "clean", "insert"}
             /\ \E p \in DOMAIN run.keys : p < run.next /\ k = run.keys[p]
             /\ \A j \in DOMAIN runs : j # i => k \notin runs[j].own
  <2>1. /\ ~Committed(k)
        /\ \A j \in DOMAIN runs : j # i => k \notin runs[j].own
    BY <1>1, RunFacts DEF RunInv
  <2>2. PICK p \in DOMAIN runs[i].keys : p < runs[i].next /\ k = runs[i].keys[p]
    BY <1>1, RunFacts DEF RunInv
  <2>3. p < run.next
    BY <1>1, <2>2, RunFacts
  <2> QED BY <1>1, <2>1, <2>2, <2>3
<1>4. ASSUME NEW p \in DOMAIN run.keys, p < run.next PROVE Committed(run.keys[p]) \/ run.keys[p] \in run.own
  <2>1. p < runs[i].next \/ p = runs[i].next
    BY <1>1, <1>4, RunFacts
  <2>2. CASE p = runs[i].next
    BY <1>1, <2>2 DEF KeyOf
  <2>3. CASE p < runs[i].next
    <3>1. Open(i)
      BY RunFacts
    <3> QED BY <1>1, <1>4, <2>3, <3>1, RunFacts DEF RunInv
  <2> QED BY <2>1, <2>2, <2>3
<1> QED BY <1>1, <1>2, <1>3, <1>4, RunAdvances

\* The run stays at its key.
LEMMA RunStays ==
  ASSUME BillingInv, NEW i \in DOMAIN runs, Running(i), NEW at \in {"clean", "insert"},
         Advance(i, at, runs[i].own, runs[i].next), UNCHANGED <<rules, billed>>
  PROVE  BillingInv'
<1>1. PICK run \in Run : /\ runs' = [runs EXCEPT ![i] = run]
                         /\ run.keys = runs[i].keys /\ run.at = at /\ run.own = runs[i].own /\ run.next = runs[i].next
  BY RunFacts, Advanced
<1>2. run.next >= 1 /\ run.at # "done" /\ (\A b \in billed : b.by # i) /\ Open(i) /\ run.at \in {"look", "clean", "insert"}
  BY <1>1, RunFacts, NothingBilled DEF Open
<1>3. \A k \in run.own : /\ ~Committed(k)
                         /\ \E p \in DOMAIN run.keys : p < run.next /\ k = run.keys[p]
                         /\ \A j \in DOMAIN runs : j # i => k \notin runs[j].own
  BY <1>1, RunFacts DEF RunInv
<1>4. \A p \in DOMAIN run.keys : p < run.next => Committed(run.keys[p]) \/ run.keys[p] \in run.own
  BY <1>1, <1>2, RunFacts DEF RunInv
<1> QED BY <1>1, <1>2, <1>3, <1>4, RunAdvances

\* The transaction is rolled back, and with it every row of the run.
LEMMA RunRollsBack ==
  ASSUME BillingInv, NEW i \in DOMAIN runs, Open(i), NEW at \in {"refused", "lost"}, Rollback(i, at), UNCHANGED <<rules, billed>>
  PROVE  BillingInv'
<1>1. PICK run \in Run : /\ runs' = [runs EXCEPT ![i] = run]
                         /\ run.keys = runs[i].keys /\ run.at = at /\ run.own = {} /\ run.next = runs[i].next
  BY RunFacts, Advanced DEF Rollback
<1>2. run.next >= 1 /\ run.at # "done" /\ (\A b \in billed : b.by # i) /\ run.at \notin {"look", "clean", "insert"}
  BY <1>1, RunFacts, NothingBilled DEF Open
<1> QED BY <1>1, <1>2, RunAdvances

\* The row is inserted: the index lets nobody else insert it before this run ends.
LEMMA RowInserted ==
  ASSUME BillingInv, NEW i \in DOMAIN runs, Running(i), runs[i].at = "insert", ~\E j \in DOMAIN runs : WaitsFor(i, j),
         ~Committed(KeyOf(i)), Advance(i, "look", runs[i].own \cup {KeyOf(i)}, runs[i].next + 1), UNCHANGED <<rules, billed>>
  PROVE  BillingInv'
<1>1. PICK run \in Run : /\ runs' = [runs EXCEPT ![i] = run]
                         /\ run.keys = runs[i].keys /\ run.at = "look" /\ run.own = runs[i].own \cup {KeyOf(i)}
                         /\ run.next = runs[i].next + 1
  <2>1. runs[i].own \cup {KeyOf(i)} \in SUBSET BillingKeys /\ runs[i].next + 1 \in Nat
    BY RunFacts
  <2> QED BY <2>1, Advanced
<1>2. run.next >= 1 /\ run.at # "done" /\ (\A b \in billed : b.by # i) /\ run.at \in {"look", "clean", "insert"}
  BY <1>1, RunFacts, NothingBilled
<1>3. ASSUME NEW k \in run.own
      PROVE  /\ ~Committed(k) /\ run.at \in {"look", "clean", "insert"}
             /\ \E p \in DOMAIN run.keys : p < run.next /\ k = run.keys[p]
             /\ \A j \in DOMAIN runs : j # i => k \notin runs[j].own
  <2>1. CASE k \in runs[i].own
    <3>1. /\ ~Committed(k)
          /\ \A j \in DOMAIN runs : j # i => k \notin runs[j].own
      BY <2>1, RunFacts DEF RunInv
    <3>2. PICK p \in DOMAIN runs[i].keys : p < runs[i].next /\ k = runs[i].keys[p]
      BY <2>1, RunFacts DEF RunInv
    <3>3. p < run.next
      BY <1>1, <3>2, RunFacts
    <3> QED BY <1>1, <1>2, <3>1, <3>2, <3>3
  <2>2. CASE k = KeyOf(i)
    <3>1. runs[i].next \in DOMAIN run.keys /\ runs[i].next < run.next /\ k = run.keys[runs[i].next]
      BY <1>1, <2>2, RunFacts DEF KeyOf
    <3>2. ASSUME NEW j \in DOMAIN runs, j # i, k \in runs[j].own PROVE FALSE
      <4>1. Open(j)
        BY <3>2, RunFacts DEF RunInv
      <4> QED BY <2>2, <3>2, <4>1 DEF WaitsFor, Holds
    <3> QED BY <1>2, <2>2, <3>1, <3>2
  <2> QED BY <1>1, <2>1, <2>2
<1>4. ASSUME NEW p \in DOMAIN run.keys, p < run.next PROVE Committed(run.keys[p]) \/ run.keys[p] \in run.own
  <2>1. p < runs[i].next \/ p = runs[i].next
    BY <1>1, <1>4, RunFacts
  <2>2. CASE p = runs[i].next
    BY <1>1, <2>2 DEF KeyOf
  <2>3. CASE p < runs[i].next
    <3>1. Open(i)
      BY RunFacts
    <3> QED BY <1>1, <1>4, <2>3, <3>1, RunFacts DEF RunInv
  <2> QED BY <2>1, <2>2, <2>3
<1> QED BY <1>1, <1>2, <1>3, <1>4, RunAdvances

LEMMA RunCommits ==
  ASSUME BillingInv, NEW i \in DOMAIN runs, Commit(i)
  PROVE  BillingInv'
<1>1. /\ runs[i].at = "look" /\ runs[i].next > Len(runs[i].keys)
      /\ billed' = billed \cup {[key |-> k, by |-> i] : k \in runs[i].own}
      /\ Advance(i, "done", {}, runs[i].next) /\ UNCHANGED rules
  BY DEF Commit
<1>2. PICK run \in Run : /\ runs' = [runs EXCEPT ![i] = run]
                         /\ run.keys = runs[i].keys /\ run.at = "done" /\ run.own = {} /\ run.next = runs[i].next
  BY <1>1, RunFacts, Advanced
<1>3. runs \in Seq(Run) /\ DOMAIN runs = 1..Len(runs)
  BY DEF BillingInv
<1>4. /\ runs' \in Seq(Run) /\ Len(runs') = Len(runs)
      /\ \A j \in 1..Len(runs) : runs'[j] = IF j = i THEN run ELSE runs[j]
  BY <1>2, <1>3, ExceptSeq
<1>5. DOMAIN runs' = DOMAIN runs /\ \A j \in DOMAIN runs : runs'[j] = IF j = i THEN run ELSE runs[j]
  BY <1>3, <1>4
<1>6. ASSUME NEW k PROVE Committed(k)' <=> (Committed(k) \/ k \in runs[i].own)
  <2> DEFINE made == {[key |-> x, by |-> i] : x \in runs[i].own}
  <2>1. ASSUME k \in runs[i].own PROVE \E b \in made : b.key = k
    <3>1. [key |-> k, by |-> i] \in made /\ [key |-> k, by |-> i].key = k
      BY <2>1
    <3> QED BY <3>1
  <2>3. ASSUME NEW b \in made, b.key = k PROVE k \in runs[i].own
    BY <2>3
  <2>2. billed' = billed \cup made
    BY <1>1
  <2> HIDE DEF made
  <2> QED BY <2>1, <2>2, <2>3 DEF Committed
<1>7. \A p \in DOMAIN runs[i].keys : Committed(runs[i].keys[p]) \/ runs[i].keys[p] \in runs[i].own
  <2>1. \A p \in DOMAIN runs[i].keys : p < runs[i].next
    BY <1>1, RunFacts
  <2> QED BY <1>1, <2>1, RunFacts DEF RunInv, Open
<1>8. ASSUME NEW j \in DOMAIN runs PROVE RunInv(j)'
  <2>1. RunInv(j) /\ RunInv(i)
    BY DEF BillingInv
  <2>2. CASE j = i
    <3>1. runs'[j] = run
      BY <1>5, <2>2
    <3>2. \A p \in DOMAIN run.keys : Committed(run.keys[p])'
      BY <1>2, <1>6, <1>7
    <3> QED BY <1>2, <2>1, <2>2, <3>1, <3>2 DEF RunInv, Open
  <2>3. CASE j # i
    <3>1. runs'[j] = runs[j]
      BY <1>5, <2>3
    <3>2. \A m \in DOMAIN runs' : m # j => runs'[j].own \cap runs'[m].own = {}
      BY <1>2, <1>5, <2>1, <2>3, <3>1 DEF RunInv
    <3>3. \A k \in runs[j].own : ~Committed(k)'
      BY <1>6, <2>1, <2>3 DEF RunInv
    <3> QED BY <1>6, <2>1, <3>1, <3>2, <3>3 DEF RunInv, Open
  <2> QED BY <2>2, <2>3
<1>9. \A b \in billed' : b \in billed \/ (b.by = i /\ b.key \in runs[i].own /\ b = [key |-> b.key, by |-> i])
  BY <1>1
<1>10. \A b \in billed' : b.key \in BillingKeys /\ b.by \in DOMAIN runs' /\ runs'[b.by].at = "done"
  BY <1>2, <1>5, <1>9, RunFacts DEF BillingInv
<1>11. ChargedOnce'
  <2>1. \A b \in billed : b.key \notin runs[i].own
    BY RunFacts DEF RunInv, Committed
  <2> QED BY <1>9, <2>1 DEF BillingInv, ChargedOnce
<1> QED BY <1>1, <1>4, <1>5, <1>8, <1>10, <1>11 DEF BillingInv

LEMMA BatchesKept ==
  ASSUME BillingInv, BillingStep
  PROVE  BillingInv'
<1>1. ASSUME NEW r \in Rules, CreateBillingRule(r) PROVE BillingInv'
  BY <1>1 DEF CreateBillingRule, BillingInv, RunInv, ChargedOnce, Committed, Open
<1>2. ASSUME NEW i \in DOMAIN runs, Look(i) PROVE BillingInv'
  BY <1>2, KeyFound, RunStays DEF Look
<1>3. ASSUME NEW i \in DOMAIN runs, Clean(i) PROVE BillingInv'
  BY <1>3, RunStays, RunRollsBack, RunFacts DEF Clean
<1>4. ASSUME NEW i \in DOMAIN runs, Insert(i) PROVE BillingInv'
  BY <1>4, KeyFound, RowInserted DEF Insert
<1>5. ASSUME NEW i \in DOMAIN runs, Commit(i) PROVE BillingInv'
  BY <1>5, RunCommits
<1>6. ASSUME NEW i \in DOMAIN runs, Die(i) PROVE BillingInv'
  BY <1>6, RunRollsBack DEF Die
<1> QED BY <1>1, <1>2, <1>3, <1>4, <1>5, <1>6, BatchesStart DEF BillingStep

\* Every wait is for a run that is further on in the one order of the keys.
LEMMA WaitsGoUp ==
  ASSUME BillingInv, NEW i \in DOMAIN runs, NEW j \in DOMAIN runs, WaitsFor(i, j), Running(j)
  PROVE  Rank(KeyOf(i)) < Rank(KeyOf(j))
<1>1. KeyOf(i) \in runs[j].own
  BY DEF WaitsFor, Holds
<1>2. PICK p \in DOMAIN runs[j].keys : p < runs[j].next /\ KeyOf(i) = runs[j].keys[p]
  BY <1>1, RunFacts DEF RunInv
<1>3. runs[j].next \in DOMAIN runs[j].keys /\ KeyOf(j) = runs[j].keys[runs[j].next]
  BY RunFacts DEF KeyOf
<1> QED BY <1>2, <1>3, RunFacts DEF RunInv

LEMMA RankIsNatural ==
  ASSUME NEW k \in BillingKeys
  PROVE  Rank(k) \in Nat
<1>1. CASE k \in {"monthly"} \X (Rules \X Months)
  BY <1>1, BillingAssumption DEF Rank
<1>2. CASE k \in {"lesson"} \X Riders
  BY <1>2, BillingAssumption DEF Rank
<1>3. CASE k \in {"work"} \X Shifts
  BY <1>3 DEF Rank
<1> QED BY <1>1, <1>2, <1>3 DEF BillingKeys

LEMMA NoCircle ==
  ASSUME BillingInv
  PROVE  BatchesNeverDeadlock
<1> SUFFICES ASSUME NEW group \in SUBSET DOMAIN runs, group # {} PROVE \E i \in group : \A j \in group : ~WaitsFor(i, j)
  BY DEF BatchesNeverDeadlock
<1>1. CASE \E i \in group : ~Running(i)
  BY <1>1 DEF WaitsFor
<1>2. CASE \A i \in group : Running(i)
  <2> DEFINE rank == [i \in group |-> Rank(KeyOf(i))]
             ranks == {rank[i] : i \in group}
  <2>1. \A i \in group : rank[i] \in Int
    BY <1>2, RunFacts, RankIsNatural
  <2>2. IsFiniteSet(group)
    <3>1. IsFiniteSet(DOMAIN runs)
      BY FS_Interval DEF BillingInv
    <3> QED BY <3>1, FS_Subset
  <2>3. IsFiniteSet(ranks)
    <3> HIDE DEF rank
    <3> QED BY <2>2, FiniteImage
  <2>4. ranks \in SUBSET Int /\ ranks # {}
    BY <2>1
  <2>5. PICK m \in ranks : \A x \in ranks : x <= m
    <3> HIDE DEF ranks
    <3> QED BY <2>3, <2>4, FiniteMax
  <2>6. PICK i \in group : rank[i] = m
    OBVIOUS
  <2>7. ASSUME NEW j \in group, WaitsFor(i, j) PROVE FALSE
    <3>1. Rank(KeyOf(i)) < Rank(KeyOf(j))
      BY <1>2, <2>7, WaitsGoUp
    <3>2. rank[j] <= rank[i] /\ rank[i] \in Int /\ rank[j] \in Int
      BY <2>1, <2>5, <2>6
    <3> QED BY <3>1, <3>2
  <2> QED BY <2>7
<1> QED BY <1>1, <1>2

-----------------------------------------------------------------------------
(*------------------------------- every step ------------------------------*)
\* A request keeps the money in order when it does so for the parts it changes.
LEMMA StepKept ==
  ASSUME MoneyInv, LedgerInv', NEW v, Moved(tx, tx', v),
         AccountInv' \/ UNCHANGED accountVars,
         PaymentInv' \/ (v # "payment" /\ UNCHANGED payments),
         ClaimInv' \/ (v # "claim" /\ UNCHANGED claims),
         GiftInv' \/ (v # "gift" /\ UNCHANGED giftVars),
         RequestInv' \/ (v # "reimbursement" /\ UNCHANGED <<requests, reviews>>),
         BudgetInv' \/ UNCHANGED <<seasonLines, generic, budgetLines>>,
         PayableInv' \/ (v # "payable" /\ UNCHANGED payableVars),
         BillingInv' \/ UNCHANGED billingVars
  PROVE  MoneyInv'
<1>1. AccountInv'
  BY AccountKept DEF MoneyInv, accountVars, duesVars
<1>2. PaymentInv' /\ ClaimInv' /\ GiftInv' /\ RequestInv' /\ PayableInv'
  BY PaymentKept, ClaimKept, GiftKept, RequestKept, PayableKept DEF MoneyInv
<1>3. BudgetInv' /\ BillingInv'
  BY BudgetKept, BillingKept DEF MoneyInv
<1> QED BY <1>1, <1>2, <1>3 DEF MoneyInv

\* The ledger touched by hand.
LEMMA LedgerStepKept ==
  ASSUME MoneyInv, LedgerInv', ByHandMoves(tx, tx'), UNCHANGED budgetLines, OnlyLedger
  PROVE  MoneyInv'
<1>1. PICK v \in {"hand", "reversal"} : Moved(tx, tx', v)
  BY DEF ByHandMoves
<1>2. UNCHANGED <<accountVars, payments, claims, giftVars, requests, reviews, seasonLines, generic, payableVars, billingVars>>
  BY DEF OnlyLedger, NothingOwed, accountVars, showFinanceVars
<1>3. v \notin {"payment", "claim", "gift", "reimbursement", "payable"}
  OBVIOUS
<1> QED BY <1>1, <1>2, <1>3, StepKept

LEMMA CategoryKept ==
  ASSUME LedgerInv, NEW c, NEW category \in Category, FinanceCategorySave(c, category)
  PROVE  LedgerInv' /\ ByHandMoves(tx, tx') /\ UNCHANGED <<tx, allocations, budgetLines>>
<1>1. categories' = [categories EXCEPT ![c] = category] /\ UNCHANGED <<tx, allocations, budgetLines>>
  BY DEF FinanceCategorySave
<1>2. categories' \in [Categories -> Category]
  BY <1>1 DEF LedgerInv, LedgerTypeOK
<1>3. LedgerInv'
  BY <1>1, <1>2, RowFacts, LedgerKept
<1>4. Moved(tx, tx', "hand")
  BY <1>1, NotMoved
<1> QED BY <1>1, <1>3, <1>4 DEF ByHandMoves

LEMMA LedgerStaysPut ==
  ASSUME LedgerInv, UNCHANGED ledgerVars
  PROVE  LedgerInv' /\ Moved(tx, tx', "hand") /\ UNCHANGED budgetLines
<1>1. UNCHANGED <<categories, tx, allocations, budgetLines>>
  BY DEF ledgerVars
<1> QED BY <1>1, RowFacts, LedgerKept, NotMoved DEF LedgerInv, LedgerTypeOK

\* A change of an account that posts nothing.
LEMMA AccountStepKept ==
  ASSUME MoneyInv, AccountInv', UNCHANGED <<claims, payments, ledgerVars>>, OnlyFamily
  PROVE  MoneyInv'
<1>1. LedgerInv' /\ Moved(tx, tx', "hand") /\ UNCHANGED budgetLines
  BY LedgerStaysPut DEF MoneyInv
<1>2. UNCHANGED <<giftVars, requests, reviews, seasonLines, generic, payableVars, billingVars>>
  BY DEF OnlyFamily, NothingOwed, showFinanceVars
<1> QED BY <1>1, <1>2, StepKept

LEMMA PartLedger ==
  ASSUME MoneyInv, MCTransactions \/ AllocationStep, OnlyLedger
  PROVE  MoneyInv'
<1>1. CASE MCTransactions
  <2>1. TransactionStep
    BY <1>1 DEF MCTransactions
  <2>2. UNCHANGED budgetLines
    BY <2>1 DEF TransactionStep, FinanceTransactionCreate, FinanceTransactionEdit, FinanceTransactionDelete
  <2> QED BY <2>1, <2>2, TransactionMoves, LedgerStepKept DEF MoneyInv
<1>2. CASE AllocationStep
  <2>1. LedgerInv' /\ UNCHANGED <<categories, tx, budgetLines>>
    BY <1>2, AllocationsKept DEF MoneyInv
  <2>2. Moved(tx, tx', "hand")
    BY <2>1, NotMoved
  <2>3. ByHandMoves(tx, tx')
    BY <2>2 DEF ByHandMoves
  <2> QED BY <2>1, <2>3, LedgerStepKept
<1> QED BY <1>1, <1>2

LEMMA PartByHand ==
  ASSUME MoneyInv, ByHand, OnlyLedger
  PROVE  MoneyInv'
<1>1. UNCHANGED budgetLines
  BY DEF ByHand, FinanceTransactionEdit, FinanceTransactionDelete
<1> QED BY <1>1, HandMoves, LedgerStepKept DEF MoneyInv

LEMMA ChargeIsEdited ==
  ASSUME AccountInv, NEW c \in charges
  PROVE  /\ c \in Charge
         /\ \A type \in ChargeTypes : [c EXCEPT !.type = type] \in Charge
         /\ \A status \in {"open", "waived", "closed"} : [c EXCEPT !.status = status] \in Charge
         /\ \A amount \in 0..MaxAmount, status \in {"open", "waived", "closed"} : [c EXCEPT !.amount = amount, !.status = status] \in Charge
<1>1. c \in Charge
  BY DEF AccountInv
<1> QED BY <1>1 DEF Charge

LEMMA ChargeStepKept ==
  ASSUME MoneyInv, NEW c \in Charge, FamilyChargeSave(c), OnlyFamily
  PROVE  MoneyInv'
<1>1. AccountInv'
  BY ChargeSaved DEF MoneyInv
<1>2. UNCHANGED <<claims, payments, ledgerVars>>
  BY DEF FamilyChargeSave
<1> QED BY <1>1, <1>2, AccountStepKept

LEMMA PartDues ==
  ASSUME MoneyInv, FamilyDues, OnlyFamily
  PROVE  MoneyInv'
<1>1. CASE DuesStep
  BY <1>1, DuesKept, AccountStepKept DEF MoneyInv
<1>2. CASE \E c \in charges, type \in ChargeTypes : FamilyChargeSave([c EXCEPT !.type = type])
  BY <1>2, ChargeIsEdited, ChargeStepKept DEF MoneyInv
<1> QED BY <1>1, <1>2 DEF FamilyDues

LEMMA PaymentStepKept ==
  ASSUME MoneyInv, \/ \E r \in Payment : FamilyPaymentSave(r)
                   \/ \E r \in payments : FamilyPaymentDelete(r),
         OnlyFamily
  PROVE  MoneyInv'
<1>1. LedgerInv' /\ PaymentInv' /\ Moved(tx, tx', "payment")
  BY PaymentSaved, PaymentVoided DEF MoneyInv
<1>2. UNCHANGED <<duesVars, charges, credits, services, awards, claims, budgetLines>>
  BY DEF FamilyPaymentSave, FamilyPaymentDelete
<1>3. AccountInv'
  BY <1>2, AccountKept DEF MoneyInv
<1>4. UNCHANGED <<giftVars, requests, reviews, seasonLines, generic, payableVars, billingVars>>
  BY DEF OnlyFamily, NothingOwed, showFinanceVars
<1> QED BY <1>1, <1>2, <1>3, <1>4, StepKept

LEMMA PartRelief ==
  ASSUME MoneyInv, FamilyRelief, OnlyFamily
  PROVE  MoneyInv'
<1>1. CASE \E r \in Credit : FamilyCreditSave(r)
  <2>1. AccountInv' /\ UNCHANGED <<claims, payments, ledgerVars>>
    BY <1>1, CreditSaved DEF MoneyInv, FamilyCreditSave
  <2> QED BY <2>1, AccountStepKept
<1>2. CASE \E r \in Service : ServiceAgreementSave(r)
  <2>1. AccountInv' /\ UNCHANGED <<claims, payments, ledgerVars>>
    BY <1>2, ServiceSaved DEF MoneyInv, ServiceAgreementSave
  <2> QED BY <2>1, AccountStepKept
<1>3. CASE \E c \in charges, amount \in 0..MaxAmount, status \in {"open", "waived", "closed"} :
             FamilyChargeSave([c EXCEPT !.amount = amount, !.status = status])
  BY <1>3, ChargeIsEdited, ChargeStepKept DEF MoneyInv
<1>4. CASE \E r \in Payment : FamilyPaymentSave(r)
  BY <1>4, PaymentStepKept
<1> QED BY <1>1, <1>2, <1>3, <1>4 DEF FamilyRelief

LEMMA PartAssistance ==
  ASSUME MoneyInv, Awards \/ Claims, OnlyFamily
  PROVE  MoneyInv'
<1>1. CASE Awards
  <2>1. PICK a \in Award : AssistanceAwardSave(a)
    BY <1>1 DEF Awards
  <2>2. AccountInv' /\ UNCHANGED <<claims, payments, ledgerVars>>
    BY <2>1, AwardSaved DEF MoneyInv, AssistanceAwardSave
  <2> QED BY <2>2, AccountStepKept
<1>2. CASE Claims
  <2>1. PICK r \in Claim : AssistanceClaimSave(r)
    BY <1>2 DEF Claims
  <2>2. LedgerInv' /\ ClaimInv' /\ Moved(tx, tx', "claim")
    BY <2>1, ClaimSaved DEF MoneyInv
  <2>3. UNCHANGED <<duesVars, charges, credits, services, awards, payments, budgetLines>>
    BY <2>1 DEF AssistanceClaimSave
  <2>4. AccountInv'
    BY <2>3, AccountKept DEF MoneyInv
  <2>5. UNCHANGED <<giftVars, requests, reviews, seasonLines, generic, payableVars, billingVars>>
    BY DEF OnlyFamily, NothingOwed, showFinanceVars
  <2> QED BY <2>2, <2>3, <2>4, <2>5, StepKept
<1> QED BY <1>1, <1>2

LEMMA PartPayments ==
  ASSUME MoneyInv, Payments, OnlyFamily
  PROVE  MoneyInv'
<1>1. CASE PaymentStep
  BY <1>1, PaymentStepKept DEF PaymentStep
<1>2. CASE FinanceCategoryStep /\ UNCHANGED accountVars
  <2>1. LedgerInv' /\ ByHandMoves(tx, tx') /\ UNCHANGED budgetLines
    BY <1>2, CategoryKept DEF FinanceCategoryStep, MoneyInv
  <2>2. OnlyLedger
    BY <1>2 DEF OnlyLedger, OnlyFamily
  <2> QED BY <2>1, <2>2, LedgerStepKept
<1> QED BY <1>1, <1>2 DEF Payments

LEMMA PartGifts ==
  ASSUME MoneyInv, \/ Given /\ UNCHANGED showFinanceVars /\ NothingOwed
                   \/ HandCredit /\ OnlyFamily
                   \/ (ByHand \/ (tx = <<>> /\ FinanceTransactionCreate("income", 1, CurrentSeason, 1))) /\ OnlyLedger
  PROVE  MoneyInv'
<1>1. ASSUME GiftStep(MCGifts), UNCHANGED showFinanceVars, NothingOwed PROVE MoneyInv'
  <2>1. LedgerInv' /\ AccountInv' /\ GiftInv' /\ Moved(tx, tx', "gift")
    BY <1>1, GiftsKept DEF MoneyInv
  <2>2. UNCHANGED <<claims, payments, budgetLines>>
    BY <1>1 DEF GiftStep, FundraisingContributionAdd, FundraisingContributionEdit, FundraisingContributionVoid, GiftSync
  <2>3. UNCHANGED <<requests, reviews, seasonLines, generic, payableVars, billingVars>>
    BY <1>1 DEF NothingOwed, showFinanceVars
  <2> QED BY <2>1, <2>2, <2>3, StepKept
<1>2. ASSUME \/ \E p \in MCPolicy : FundraisingPolicyEdit(p)
             \/ CampaignStep,
             UNCHANGED showFinanceVars, NothingOwed
      PROVE  MoneyInv'
  <2>1. GiftInv' /\ UNCHANGED <<ledgerVars, accountVars>>
    BY <1>2, PolicyKept DEF MoneyInv, familyVars
  <2>2. LedgerInv' /\ Moved(tx, tx', "hand") /\ UNCHANGED budgetLines
    BY <2>1, LedgerStaysPut DEF MoneyInv
  <2>3. UNCHANGED <<claims, payments, requests, reviews, seasonLines, generic, payableVars, billingVars>>
    BY <1>2, <2>1 DEF NothingOwed, showFinanceVars, accountVars
  <2> QED BY <2>1, <2>2, <2>3, StepKept
<1>3. ASSUME HandCredit, OnlyFamily PROVE MoneyInv'
  <2>1. PICK r \in credits : FamilyCreditSave([r EXCEPT !.status = "cancelled"])
    BY <1>3 DEF HandCredit
  <2>2. [r EXCEPT !.status = "cancelled"] \in Credit
    BY DEF MoneyInv, AccountInv, Credit
  <2>3. AccountInv'
    BY <2>1, <2>2, CreditSaved DEF MoneyInv
  <2>4. UNCHANGED <<claims, payments, ledgerVars>>
    BY <2>1 DEF FamilyCreditSave
  <2> QED BY <1>3, <2>3, <2>4, AccountStepKept
<1>4. ASSUME FinanceTransactionCreate("income", 1, CurrentSeason, 1), OnlyLedger PROVE MoneyInv'
  <2>1. "income" \in Kinds /\ CurrentSeason \in Seasons \cup {None}
    BY FamilyAccountAssumption DEF Kinds
  <2>2. LedgerInv' /\ ByHandMoves(tx, tx')
    BY <1>4, <2>1, MoneyAssumption, CreateMoves DEF MoneyInv
  <2>3. UNCHANGED budgetLines
    BY <1>4 DEF FinanceTransactionCreate
  <2> QED BY <1>4, <2>2, <2>3, LedgerStepKept
<1> QED BY <1>1, <1>2, <1>3, <1>4, PartByHand DEF Given

LEMMA PartBudgets ==
  ASSUME MoneyInv, ShowBudgetStep \/ SeasonBudgetStep, OnlyShows
  PROVE  MoneyInv'
<1>1. CASE ShowBudgetStep
  <2>1. PICK l \in BudgetLine : ShowBudgetSave(l)
    BY <1>1 DEF ShowBudgetStep
  <2>2. LedgerInv' /\ BudgetInv' /\ UNCHANGED <<tx, accountVars, requests, reviews>>
    BY <2>1, ShowBudgetSaved DEF MoneyInv
  <2>3. Moved(tx, tx', "hand")
    BY <2>2, NotMoved
  <2>4. UNCHANGED <<claims, payments, giftVars, payableVars, billingVars>>
    BY <2>2 DEF OnlyShows, NothingOwed, accountVars
  <2> QED BY <2>2, <2>3, <2>4, StepKept
<1>2. CASE SeasonBudgetStep
  <2>1. PICK l \in SeasonLine, old \in {{}} \cup {{o} : o \in seasonLines} : FinanceBudgetSave(old, l)
    BY <1>2 DEF SeasonBudgetStep
  <2>2. BudgetInv' /\ UNCHANGED <<familyVars, requests, reviews>>
    BY <2>1, SeasonBudgetSaved DEF MoneyInv
  <2>3. UNCHANGED <<ledgerVars, accountVars, claims, payments, giftVars, payableVars, billingVars>>
    BY <2>2 DEF OnlyShows, NothingOwed, accountVars, familyVars
  <2>4. LedgerInv' /\ Moved(tx, tx', "hand")
    BY <2>3, LedgerStaysPut DEF MoneyInv
  <2> QED BY <2>2, <2>3, <2>4, StepKept
<1> QED BY <1>1, <1>2

LEMMA PartFees ==
  ASSUME MoneyInv, (FeeStep /\ OnlyShows) \/ (FeeWaived /\ OnlyFamily)
  PROVE  MoneyInv'
<1>1. ASSUME FeeStep, OnlyShows PROVE MoneyInv'
  <2>1. AccountInv' /\ UNCHANGED <<duesVars, credits, services, awards, claims, payments, ledgerVars, showFinanceVars>>
    BY <1>1, FeesKept DEF MoneyInv
  <2>2. OnlyFamily
    BY <1>1, <2>1 DEF OnlyShows, OnlyFamily
  <2> QED BY <2>1, <2>2, AccountStepKept
<1>2. ASSUME FeeWaived, OnlyFamily PROVE MoneyInv'
  BY <1>2, ChargeIsEdited, ChargeStepKept DEF MoneyInv, FeeWaived
<1> QED BY <1>1, <1>2

LEMMA PartReimbursements ==
  ASSUME OneReview, MoneyInv, \/ ReimbursementStep(MCForms) /\ OnlyShows
                              \/ (ByHand \/ MCAllocate) /\ OnlyLedger
  PROVE  MoneyInv'
<1>1. ASSUME ReimbursementStep(MCForms), OnlyShows PROVE MoneyInv'
  <2>1. LedgerInv' /\ RequestInv' /\ Moved(tx, tx', "reimbursement") /\ UNCHANGED <<accountVars, seasonLines, generic, budgetLines>>
    BY <1>1, RequestsKept DEF MoneyInv
  <2>2. UNCHANGED <<claims, payments, giftVars, payableVars, billingVars>>
    BY <1>1, <2>1 DEF OnlyShows, NothingOwed, accountVars
  <2> QED BY <2>1, <2>2, StepKept
<1>2. ASSUME MCAllocate, OnlyLedger PROVE MoneyInv'
  BY <1>2, PartLedger DEF MCAllocate
<1> QED BY <1>1, <1>2, PartByHand

LEMMA PartPayables ==
  ASSUME MoneyInv, \/ MCPayables /\ OnlyPayables
                   \/ (ByHand \/ MCCategory) /\ OnlyLedger
  PROVE  MoneyInv'
<1>1. ASSUME PayablesStep, OnlyPayables PROVE MoneyInv'
  <2>1. LedgerInv' /\ PayableInv' /\ Moved(tx, tx', "payable") /\ UNCHANGED budgetLines
    BY <1>1, PayablesKept DEF MoneyInv
  <2>2. UNCHANGED <<accountVars, claims, payments, giftVars, requests, reviews, seasonLines, generic, billingVars>>
    BY <1>1 DEF OnlyPayables, accountVars, showFinanceVars
  <2> QED BY <2>1, <2>2, StepKept
<1>2. ASSUME MCCategory, OnlyLedger PROVE MoneyInv'
  <2>1. PICK kind \in Kinds \cup {"both"} : FinanceCategorySave(1, [kind |-> kind, active |-> TRUE])
    BY <1>2 DEF MCCategory
  <2>2. [kind |-> kind, active |-> TRUE] \in Category
    BY DEF Category
  <2>3. LedgerInv' /\ ByHandMoves(tx, tx') /\ UNCHANGED budgetLines
    BY <2>1, <2>2, CategoryKept DEF MoneyInv
  <2> QED BY <1>2, <2>3, LedgerStepKept
<1> QED BY <1>1, <1>2, PartByHand DEF MCPayables

LEMMA PartBilling ==
  ASSUME MoneyInv, BillingStep, OnlyBilling
  PROVE  MoneyInv'
<1>1. BillingInv'
  BY BatchesKept DEF MoneyInv
<1>2. UNCHANGED <<ledgerVars, accountVars, claims, payments, giftVars, requests, reviews, seasonLines, generic, payableVars>>
  BY DEF OnlyBilling, accountVars, showFinanceVars
<1>3. LedgerInv' /\ Moved(tx, tx', "hand") /\ UNCHANGED budgetLines
  BY <1>2, LedgerStaysPut DEF MoneyInv
<1> QED BY <1>1, <1>2, <1>3, StepKept

LEMMA MoneyKept ==
  ASSUME part = "reimbursements" => OneReview, MoneyInv, [MoneyNext]_moneyVars
  PROVE  MoneyInv'
<1>1. CASE UNCHANGED moneyVars
  <2>1. UNCHANGED <<ledgerVars, accountVars, claims, payments, giftVars, requests, reviews, seasonLines, generic, payableVars, billingVars>>
    BY <1>1 DEF moneyVars, accountVars, showFinanceVars
  <2>2. LedgerInv' /\ Moved(tx, tx', "hand") /\ UNCHANGED budgetLines
    BY <2>1, LedgerStaysPut DEF MoneyInv
  <2> QED BY <2>1, <2>2, StepKept
<1>2. CASE MoneyNext
  BY <1>2, PartLedger, PartByHand, PartDues, PartRelief, PartAssistance, PartPayments, PartGifts, PartBudgets, PartFees,
     PartReimbursements, PartPayables, PartBilling DEF MoneyNext
<1> QED BY <1>1, <1>2

-----------------------------------------------------------------------------
(*------------------------------ what follows -----------------------------*)
\* Rows that are booked are posted once.
LEMMA PostedOnce ==
  ASSUME NEW w, NEW rows, UniqueIds(rows), Booked(w, rows, tx),
         NEW i \in DOMAIN tx, NEW j \in DOMAIN tx, tx[i].origin[1] = w, tx[i].origin = tx[j].origin,
         tx[i].status = "posted", tx[j].status = "posted"
  PROVE  i = j
<1>1. PICK r \in rows : tx[i].origin = <<w, r.id>> /\ r.link = i
  BY DEF Booked
<1>2. PICK q \in rows : tx[j].origin = <<w, q.id>> /\ q.link = j
  BY DEF Booked
<1>3. <<w, r.id>> = <<w, q.id>>
  BY <1>1, <1>2
<1>4. r.id = q.id
  <2>1. <<w, r.id>>[2] = r.id /\ <<w, q.id>>[2] = q.id
    OBVIOUS
  <2> QED BY <1>3, <2>1
<1> QED BY <1>1, <1>2, <1>4 DEF UniqueIds

LEMMA SourcesPostOnce ==
  ASSUME MoneyInv
  PROVE  OnePostingPerSource
<1> SUFFICES ASSUME NEW i \in DOMAIN tx, NEW j \in DOMAIN tx, i < j, tx[i].origin = tx[j].origin,
                    tx[i].origin[1] \notin {"hand", "reversal"}
             PROVE  tx[i].status = "void" \/ tx[j].status = "void"
  BY DEF OnePostingPerSource
<1>1. tx[i] \in Transaction /\ tx[j] \in Transaction
  BY RowFacts DEF MoneyInv
<1>2. tx[i].status \in {"posted", "void"} /\ tx[j].status \in {"posted", "void"} /\ tx[i].origin \in Origins
  BY <1>1 DEF Transaction
<1>3. tx[i].origin[1] \in {"payment", "claim", "gift", "reimbursement", "payable"}
  BY <1>2 DEF Origins
<1>4. i # j
  BY RowFacts DEF MoneyInv
<1>5. /\ UniqueIds(payments) /\ Booked("payment", payments, tx)
      /\ UniqueIds(claims) /\ Booked("claim", claims, tx)
      /\ UniqueIds(gifts) /\ Booked("gift", gifts, tx)
      /\ UniqueIds(requests) /\ Booked("reimbursement", requests, tx)
      /\ UniqueIds(payablePayments) /\ Booked("payable", payablePayments, tx)
  BY DEF MoneyInv, PaymentInv, ClaimInv, GiftInv, RequestInv, PayableInv
<1> QED BY <1>2, <1>3, <1>4, <1>5, PostedOnce

\* Rows on a charge are finitely many, and what they take off is natural.
LEMMA TablesFinite ==
  ASSUME AccountInv, PaymentInv, ClaimInv
  PROVE  /\ IsFiniteSet(charges) /\ IsFiniteSet(credits) /\ IsFiniteSet(services) /\ IsFiniteSet(claims) /\ IsFiniteSet(payments)
         /\ (\A r \in charges : r.amount \in Nat) /\ (\A r \in credits : r.amount \in Nat) /\ (\A r \in services : r.amount \in Nat)
         /\ (\A r \in claims : r.relief \in Nat) /\ (\A r \in payments : r.amount \in Nat)
<1>1. /\ \A r \in charges : r.id \in LedgerIds /\ r.amount \in Nat
      /\ \A r \in credits : r.id \in LedgerIds /\ r.amount \in Nat
      /\ \A r \in services : r.id \in LedgerIds /\ r.amount \in Nat
      /\ \A r \in claims : r.id \in LedgerIds /\ r.relief \in Nat
      /\ \A r \in payments : r.id \in LedgerIds /\ r.amount \in Nat
  BY DEF AccountInv, PaymentInv, ClaimInv, Charge, Credit, Service, Claim, Payment
<1>2. UniqueIds(charges) /\ UniqueIds(credits) /\ UniqueIds(services) /\ UniqueIds(claims) /\ UniqueIds(payments)
  BY DEF AccountInv, PaymentInv, ClaimInv
<1> QED BY <1>1, <1>2, RowsFinite

LEMMA ReliefsNatural ==
  ASSUME AccountInv, PaymentInv, ClaimInv, NEW c
  PROVE  AppliedCredit(c) \in Nat /\ ServiceCredit(c) \in Nat /\ Assistance(c) \in Nat /\ Paid(c) \in Nat
<1>1. AppliedCredit(c) \in Nat
  <2> DEFINE rows == {r \in On(credits, c) : r.status = "applied"}
  <2>1. rows \subseteq credits
    BY DEF On
  <2>2. IsFiniteSet(rows) /\ \A r \in rows : r.amount \in Nat
    BY <2>1, TablesFinite, FS_Subset
  <2> QED BY <2>2, TotalNat DEF AppliedCredit
<1>2. ServiceCredit(c) \in Nat
  <2> DEFINE rows == {r \in On(services, c) : r.status = "applied"}
  <2>1. rows \subseteq services
    BY DEF On
  <2>2. IsFiniteSet(rows) /\ \A r \in rows : r.amount \in Nat
    BY <2>1, TablesFinite, FS_Subset
  <2> QED BY <2>2, TotalNat DEF ServiceCredit
<1>3. Assistance(c) \in Nat
  <2> DEFINE rows == {r \in On(claims, c) : r.status \notin {"draft", "denied", "cancelled"}}
  <2>1. rows \subseteq claims
    BY DEF On
  <2>2. IsFiniteSet(rows) /\ \A r \in rows : r.relief \in Nat
    BY <2>1, TablesFinite, FS_Subset
  <2> QED BY <2>2, ReliefNat DEF Assistance
<1>4. Paid(c) \in Nat
  <2> DEFINE rows == {r \in On(payments, c) : r.status = "posted"}
  <2>1. rows \subseteq payments
    BY DEF On
  <2>2. IsFiniteSet(rows) /\ \A r \in rows : r.amount \in Nat
    BY <2>1, TablesFinite, FS_Subset
  <2> QED BY <2>2, TotalNat DEF Paid
<1> QED BY <1>1, <1>2, <1>3, <1>4

\* Charge by charge the balance covers what is billed less what is taken off; so it does over an account.
LEMMA BillsCovered ==
  ASSUME AccountInv, PaymentInv, ClaimInv
  PROVE  BalanceCoversTheBill
<1> SUFFICES ASSUME NEW m \in Memberships
             PROVE  LET a == AccountOf(m) IN a.balance >= a.billed - a.credits - a.assistance - a.paid
  BY DEF BalanceCoversTheBill
<1> DEFINE own == ChargesOf(m)
           billable == {c \in own : c.status # "waived"}
           bill == [c \in own |-> IF c.status # "waived" THEN c.amount ELSE 0]
           credit == [c \in own |-> AppliedCredit(c)]
           service == [c \in own |-> ServiceCredit(c)]
           assistance == [c \in own |-> Assistance(c)]
           paid == [c \in own |-> Paid(c)]
           balance == [c \in own |-> Balance(c)]
           taken == [c \in own |-> credit[c] + service[c]]
           helped == [c \in own |-> taken[c] + assistance[c]]
           off == [c \in own |-> helped[c] + paid[c]]
           all == [c \in own |-> off[c] + balance[c]]
           Sum(f) == SumFunctionOnSet(f, own)
<1>1. own \subseteq charges /\ IsFiniteSet(own) /\ \A c \in own : c.amount \in Nat
  BY TablesFinite, FS_Subset DEF ChargesOf
<1>2. \A c \in own : /\ credit[c] \in Nat /\ service[c] \in Nat /\ assistance[c] \in Nat /\ paid[c] \in Nat
                     /\ credit[c] = AppliedCredit(c) /\ service[c] = ServiceCredit(c)
                     /\ assistance[c] = Assistance(c) /\ paid[c] = Paid(c) /\ balance[c] = Balance(c)
  BY ReliefsNatural
<1>3. \A c \in own : balance[c] \in Nat /\ bill[c] \in Nat /\ bill[c] <= all[c]
  <2> TAKE c \in own
  <2>1. /\ c.amount \in Nat /\ AppliedCredit(c) \in Nat /\ ServiceCredit(c) \in Nat /\ Assistance(c) \in Nat /\ Paid(c) \in Nat
    BY <1>1, ReliefsNatural
  <2>2. all[c] = AppliedCredit(c) + ServiceCredit(c) + Assistance(c) + Paid(c) + Balance(c)
    OBVIOUS
  <2>3. bill[c] = (IF c.status # "waived" THEN c.amount ELSE 0) /\ balance[c] = Balance(c)
    OBVIOUS
  <2> HIDE DEF bill, credit, service, assistance, paid, balance, taken, helped, off, all
  <2> QED BY <2>1, <2>2, <2>3 DEF Balance, RawBalance, Larger
<1>4. \A c \in own : /\ taken[c] = credit[c] + service[c] /\ helped[c] = taken[c] + assistance[c]
                     /\ off[c] = helped[c] + paid[c] /\ all[c] = off[c] + balance[c]
  OBVIOUS
<1>5. Total(billable) = Sum(bill)
  <2>1. billable \subseteq own /\ \A c \in own : bill[c] \in Int
    BY <1>3
  <2>2. Sum(bill) = SumFunctionOnSet(bill, billable) + SumFunctionOnSet(bill, own \ billable)
    <3> HIDE DEF own, billable, bill
    <3> QED BY <1>1, <2>1, SumOnSplit
  <2>3. SumFunctionOnSet(bill, own \ billable) = 0
    <3>1. IsFiniteSet(own \ billable) /\ \A c \in own \ billable : bill[c] = 0
      BY <1>1, FS_Subset
    <3> HIDE DEF own, billable, bill
    <3> QED BY <3>1, SumOnZeros
  <2>4. Total(billable) = SumFunctionOnSet(AmountOf(own), billable)
    <3> HIDE DEF own, billable, bill
    <3> QED BY <1>1, <2>1, TotalOn
  <2>5. \A c \in billable : AmountOf(own)[c] = bill[c]
    BY DEF AmountOf
  <2>6. SumFunctionOnSet(AmountOf(own), billable) = SumFunctionOnSet(bill, billable) /\ SumFunctionOnSet(bill, billable) \in Int
    <3> HIDE DEF own, billable, bill
    <3>1. IsFiniteSet(billable) /\ \A c \in billable : bill[c] \in Int
      BY <1>1, <2>1, FS_Subset
    <3> QED BY <2>5, <3>1, SumOnExtensional, SumOnInt
  <2> QED BY <2>2, <2>3, <2>4, <2>6
<1>6. /\ AccountOf(m).billed = Total(billable) /\ AccountOf(m).credits = Sum(credit) + Sum(service)
      /\ AccountOf(m).assistance = Sum(assistance) /\ AccountOf(m).paid = Sum(paid) /\ AccountOf(m).balance = Sum(balance)
  BY DEF AccountOf, SumFunction
<1> HIDE DEF own, billable, bill, credit, service, assistance, paid, balance, taken, helped, off, all
<1>7. /\ \A c \in own : taken[c] \in Nat /\ helped[c] \in Nat /\ off[c] \in Nat /\ all[c] \in Nat
  BY <1>2, <1>3, <1>4
<1>8. /\ Sum(taken) = Sum(credit) + Sum(service) /\ Sum(helped) = Sum(taken) + Sum(assistance)
      /\ Sum(off) = Sum(helped) + Sum(paid) /\ Sum(all) = Sum(off) + Sum(balance)
  BY <1>1, <1>2, <1>3, <1>4, <1>7, SumOnPlus
<1>9. Sum(bill) <= Sum(all)
  BY <1>1, <1>3, <1>7, SumOnMonotone
<1>10. /\ Sum(bill) \in Int /\ Sum(credit) \in Int /\ Sum(service) \in Int /\ Sum(assistance) \in Int /\ Sum(paid) \in Int
       /\ Sum(balance) \in Int
  BY <1>1, <1>2, <1>3, SumOnInt
<1> HIDE DEF Sum
<1>11. Sum(balance) >= Sum(bill) - (Sum(credit) + Sum(service)) - Sum(assistance) - Sum(paid)
  BY <1>8, <1>9, <1>10
<1> QED BY <1>5, <1>6, <1>11

LEMMA MoneyFollows ==
  ASSUME MoneyInv
  PROVE  MoneyInvariant
<1>1. FamilyTypeOK /\ ShowFinanceTypeOK /\ FundraisingTypeOK /\ PayablesTypeOK
  BY DEF MoneyInv, LedgerInv, AccountInv, PaymentInv, ClaimInv, GiftInv, RequestInv, BudgetInv, PayableInv,
         FamilyTypeOK, ShowFinanceTypeOK, FundraisingTypeOK
<1>2. AllocationsFit /\ OnePostingPerSource /\ BalanceCoversTheBill
  BY SourcesPostOnce, BillsCovered DEF MoneyInv, LedgerInv
<1>3. VoidPaymentsHaveNoIncome
  BY DEF MoneyInv, PaymentInv, VoidPaymentsHaveNoIncome
<1>4. ClaimLinkFollowsStatus
  <2>1. ASSUME NEW i \in DOMAIN tx, tx[i].origin[1] = "claim", \A r \in claims : r.link # i PROVE tx[i].status = "void"
    <3>1. tx[i].status \in {"posted", "void"}
      BY RowFacts DEF MoneyInv, Transaction
    <3> QED BY <2>1, <3>1 DEF MoneyInv, ClaimInv, Booked
  <2> QED BY <2>1 DEF MoneyInv, ClaimInv, ClaimLinkFollowsStatus
<1>5. GiftsMatchTheLedger /\ BudgetsAreMirrored /\ ExpenseIffPaid
  BY DEF MoneyInv, GiftInv, BudgetInv, RequestInv
<1>6. NeverOverpaid
  <2>1. ASSUME NEW o \in obligations PROVE o.amount - PaidTotal(o) = PayableBalance(o)
    <3>1. o.amount \in Nat
      <4>1. o.amount \in Amounts
        BY DEF MoneyInv, PayableInv, PayablesTypeOK, Obligation
      <4>2. \A amount \in Amounts : amount \in Nat
        BY TeamLedgerAssumption
      <4> QED BY <4>1, <4>2
    <3>2. PaidTotal(o) \in Nat
      <4>1. IsFiniteSet(Counted(o)) /\ \A q \in Counted(o) : q.amount \in Nat
        BY PaymentsFinite DEF MoneyInv, Counted, PaymentsOf
      <4> QED BY <4>1, TotalNat DEF PaidTotal, Counted
    <3>3. PaidTotal(o) <= o.amount
      BY DEF MoneyInv, PayableInv
    <3> QED BY <3>1, <3>2, <3>3 DEF PayableBalance, Larger
  <2> QED BY <2>1 DEF NeverOverpaid
<1>7. PaymentsAreBooked
  <2>1. \A q \in payablePayments : q.link # None
    BY DEF MoneyInv, PayableInv, PayablesTypeOK, PayablePayment, None
  <2> QED BY <2>1 DEF MoneyInv, PayableInv, Booked, PaymentsAreBooked
<1>8. BillingTypeOK /\ ChargedOnce /\ FailedRunsBillNobody /\ BatchesNeverDeadlock
  BY NoCircle DEF MoneyInv, BillingInv, RunInv, BillingTypeOK, FailedRunsBillNobody
<1>9. DoneMeansBilled
  <2>1. ASSUME NEW i \in DOMAIN runs, runs[i].at = "done", NEW k \in ToSet(runs[i].keys) PROVE Committed(k)
    <3>1. PICK p \in DOMAIN runs[i].keys : k = runs[i].keys[p]
      BY <2>1 DEF ToSet
    <3> QED BY <2>1, <3>1 DEF MoneyInv, BillingInv, RunInv
  <2> QED BY <2>1 DEF DoneMeansBilled
<1> QED BY <1>1, <1>2, <1>3, <1>4, <1>5, <1>6, <1>7, <1>8, <1>9 DEF MoneyInvariant

\* The team's money is in order whatever the rows, people, shows and amounts, when reviews of reimbursements do not
\* overlap: two that do may both pay the request they read.
THEOREM MoneyIsInOrder ==
  ASSUME OneReview
  PROVE  MoneySpec => []MoneyInvariant
<1>1. MoneyInv /\ [MoneyNext]_moneyVars => MoneyInv'
  BY MoneyKept
<1>2. MoneyInv => MoneyInvariant
  BY MoneyFollows
<1> QED BY <1>1, <1>2, MoneyBegins, PTL DEF MoneySpec

-----------------------------------------------------------------------------
(*------------------------- what no request may do ------------------------*)
\* The ways a request changes the charges: dues generated, the fees of a show generated, or a charge edited.
ChargesChange ==
  \/ UNCHANGED charges
  \/ \E who \in SUBSET Billable : Generate(who)
  \/ part = "fees" /\ FeeStep
  \/ \E c \in charges, d \in Charge : /\ d.id = c.id /\ d.member = c.member /\ d.show = c.show
                                      /\ part = "fees" => d.type = c.type
                                      /\ charges' = ById(charges, d)

LEMMA AnEditChangesCharges ==
  ASSUME AccountInv, NEW c \in charges, NEW d \in Charge, d.id = c.id, d.member = c.member, d.show = c.show,
         part = "fees" => d.type = c.type, FamilyChargeSave(d)
  PROVE  ChargesChange
  BY DEF ChargesChange, FamilyChargeSave

LEMMA HowChargesChange ==
  ASSUME MoneyInv, [MoneyNext]_moneyVars
  PROVE  ChargesChange
<1>0. AccountInv
  BY DEF MoneyInv
<1>1. CASE UNCHANGED accountVars
  BY <1>1 DEF accountVars, ChargesChange
<1>2. CASE part = "dues" /\ FamilyDues
  <2>1. CASE DuesStep
    <3>1. ASSUME NEW m \in Memberships, MembershipDuesGenerate(m) PROVE ChargesChange
      <4>1. {m} \in SUBSET Billable /\ Generate({m})
        BY <3>1 DEF MembershipDuesGenerate
      <4> QED BY <4>1 DEF ChargesChange
    <3>2. ASSUME MembershipDuesGenerateAll PROVE ChargesChange
      BY <3>2 DEF ChargesChange, MembershipDuesGenerateAll
    <3>3. \/ \E m \in Memberships : MembershipDuesGenerate(m)
          \/ MembershipDuesGenerateAll
          \/ UNCHANGED charges
      BY <2>1 DEF DuesStep, HomeBarnSave, HomeBarnChange, DuesRateSave
    <3> QED BY <3>1, <3>2, <3>3 DEF ChargesChange
  <2>2. ASSUME NEW c \in charges, NEW type \in ChargeTypes, FamilyChargeSave([c EXCEPT !.type = type]) PROVE ChargesChange
    <3> DEFINE d == [c EXCEPT !.type = type]
    <3>1. d \in Charge /\ d.id = c.id /\ d.member = c.member /\ d.show = c.show
      BY <1>0, ChargeIsEdited DEF Charge
    <3> HIDE DEF d
    <3>2. FamilyChargeSave(d)
      BY <2>2 DEF d
    <3> QED BY <1>0, <1>2, <3>1, <3>2, AnEditChangesCharges
  <2> QED BY <1>2, <2>1, <2>2 DEF FamilyDues
<1>3. CASE part = "relief" /\ FamilyRelief
  <2>1. ASSUME NEW c \in charges, NEW amount \in 0..MaxAmount, NEW status \in {"open", "waived", "closed"},
               FamilyChargeSave([c EXCEPT !.amount = amount, !.status = status])
        PROVE  ChargesChange
    <3> DEFINE d == [c EXCEPT !.amount = amount, !.status = status]
    <3>1. d \in Charge /\ d.id = c.id /\ d.member = c.member /\ d.show = c.show
      BY <1>0, ChargeIsEdited DEF Charge
    <3> HIDE DEF d
    <3>2. FamilyChargeSave(d)
      BY <2>1 DEF d
    <3> QED BY <1>0, <1>3, <3>1, <3>2, AnEditChangesCharges
  <2>2. \/ UNCHANGED charges
        \/ \E c \in charges, amount \in 0..MaxAmount, status \in {"open", "waived", "closed"} :
             FamilyChargeSave([c EXCEPT !.amount = amount, !.status = status])
    BY <1>3 DEF FamilyRelief, FamilyCreditSave, ServiceAgreementSave, FamilyPaymentSave
  <2> QED BY <2>1, <2>2 DEF ChargesChange
<1>4. CASE part = "fees" /\ (FeeStep \/ FeeWaived)
  <2>1. ASSUME NEW c \in charges, NEW status \in {"open", "waived"}, FamilyChargeSave([c EXCEPT !.status = status]) PROVE ChargesChange
    <3> DEFINE d == [c EXCEPT !.status = status]
    <3>1. d \in Charge /\ d.id = c.id /\ d.member = c.member /\ d.show = c.show /\ d.type = c.type
      BY <1>0, ChargeIsEdited DEF Charge
    <3> HIDE DEF d
    <3>2. FamilyChargeSave(d)
      BY <2>1 DEF d
    <3> QED BY <1>0, <3>1, <3>2, AnEditChangesCharges
  <2> QED BY <1>4, <2>1 DEF FeeWaived, ChargesChange
<1>5. CASE Awards \/ Claims \/ Payments \/ Given \/ HandCredit
  <2>1. UNCHANGED charges
    BY <1>5 DEF Awards, Claims, Payments, Given, HandCredit, AssistanceAwardSave, AssistanceClaimSave, PaymentStep,
       FamilyPaymentSave, FamilyPaymentDelete, accountVars, GiftStep, FundraisingContributionAdd, FundraisingContributionEdit,
       FundraisingContributionVoid, GiftSync, FundraisingPolicyEdit, CampaignStep, FundraisingCampaignSave, familyVars, FamilyCreditSave
  <2> QED BY <2>1 DEF ChargesChange
<1>6. CASE ShowBudgetStep \/ SeasonBudgetStep \/ ReimbursementStep(MCForms)
  <2>1. UNCHANGED charges
    BY <1>6 DEF ShowBudgetStep, SeasonBudgetStep, ShowBudgetSave, FinanceBudgetSave, ReimbursementStep, ReimbursementCreate,
       ReimbursementEdit, ReimbursementSubmit, ReviewRead, ReviewSave, accountVars, familyVars
  <2> QED BY <2>1 DEF ChargesChange
<1> QED BY <1>1, <1>2, <1>3, <1>4, <1>5, <1>6 DEF MoneyNext, moneyVars, OnlyLedger, OnlyPayables, OnlyBilling

-----------------------------------------------------------------------------
\* The dues a rider is given.
NewDues(m) == {c \in charges' \ charges : c.member = m /\ c.rate # None /\ \A old \in charges : old.id # c.id}
DuesOnce == \A m \in Memberships : /\ Cardinality(NewDues(m)) <= 1
                                   /\ NewDues(m) # {} => \A c \in charges : c.member = m => c.type # "membership_dues"

LEMMA NoNewDues ==
  ASSUME \A c \in charges' \ charges : c.rate = None \/ \E old \in charges : old.id = c.id
  PROVE  DuesOnce
<1>1. \A m : NewDues(m) = {}
  BY DEF NewDues
<1>2. Cardinality({}) = 0
  BY FS_EmptySet
<1> QED BY <1>1, <1>2 DEF DuesOnce

LEMMA GeneratedDues ==
  ASSUME NEW who, who \subseteq Billable, Generate(who)
  PROVE  DuesOnce
<1>0. PICK ids \in FreeIds(Cardinality(who)) : \E number \in [who -> ids] :
        /\ \A m, n \in who : m # n => number[m] # number[n]
        /\ charges' = charges \cup {DuesCharge(m, number[m]) : m \in who}
  BY DEF Generate
<1>1. PICK number \in [who -> ids] : charges' = charges \cup {DuesCharge(m, number[m]) : m \in who}
  BY <1>0
<1> SUFFICES ASSUME NEW m \in Memberships
             PROVE  /\ Cardinality(NewDues(m)) <= 1
                    /\ NewDues(m) # {} => \A c \in charges : c.member = m => c.type # "membership_dues"
  BY DEF DuesOnce
<1>2. ASSUME NEW c \in NewDues(m) PROVE m \in who /\ c = DuesCharge(m, number[m])
  <2>1. c \in charges' \ charges /\ c.member = m
    BY DEF NewDues
  <2>2. PICK n \in who : c = DuesCharge(n, number[n])
    BY <1>1, <2>1
  <2>3. c.member = n
    BY <2>2 DEF DuesCharge
  <2> QED BY <2>1, <2>2, <2>3
<1>3. NewDues(m) = {} \/ NewDues(m) = {DuesCharge(m, number[m])}
  BY <1>2
<1>4. Cardinality(NewDues(m)) <= 1
  <2>1. Cardinality({}) = 0 /\ Cardinality({DuesCharge(m, number[m])}) = 1
    BY FS_EmptySet, FS_Singleton
  <2>2. Cardinality(NewDues(m)) = 0 \/ Cardinality(NewDues(m)) = 1
    BY <1>3, <2>1, Zenon
  <2> QED BY <2>2
<1>5. NewDues(m) # {} => \A c \in charges : c.member = m => c.type # "membership_dues"
  <2>1. NewDues(m) # {} => m \in Billable
    BY <1>2
  <2> QED BY <2>1 DEF Billable, HasDues, ChargesOf
<1> QED BY <1>4, <1>5

\* What the fees of a show add to the charges.
LEMMA FeesAdded ==
  ASSUME FeeStep
  PROVE  \E show \in Shows : \A c \in charges' :
           \/ c \in charges
           \/ /\ c.show = show /\ c.type = "show_fee" /\ c.rate = None
              /\ \A x \in charges : x.member = c.member /\ x.show = show => x.type # "show_fee"
<1>1. PICK show \in Shows, chosen \in SUBSET Memberships, amount \in Amounts : ShowFamilyChargesGenerate(show, chosen, amount)
  BY DEF FeeStep
<1> DEFINE who == {m \in chosen \cap Riding[show] : ~HasFee(m, show)}
           Fee(m, id) == [id |-> id, member |-> m, type |-> "show_fee", amount |-> amount, due |-> 0,
                          show |-> show, status |-> "open", rate |-> None]
<1>2. PICK ids \in FreeIds(Cardinality(who)) : \E number \in [who -> ids] :
        charges' = charges \cup {Fee(m, number[m]) : m \in who}
  BY <1>1 DEF ShowFamilyChargesGenerate
<1>3. PICK number \in [who -> ids] : charges' = charges \cup {Fee(m, number[m]) : m \in who}
  BY <1>2
<1>4. ASSUME NEW c \in charges', c \notin charges
      PROVE  /\ c.show = show /\ c.type = "show_fee" /\ c.rate = None
             /\ \A x \in charges : x.member = c.member /\ x.show = show => x.type # "show_fee"
  <2>1. PICK m \in who : c = Fee(m, number[m])
    BY <1>3, <1>4
  <2>2. c.show = show /\ c.type = "show_fee" /\ c.rate = None /\ c.member = m
    BY <2>1
  <2>3. ~HasFee(m, show)
    OBVIOUS
  <2> QED BY <2>2, <2>3 DEF HasFee, ChargesOf
<1> QED BY <1>4

LEMMA DuesNeverTwice ==
  ASSUME ChargesChange
  PROVE  DuesOnce
<1>1. CASE UNCHANGED charges
  BY <1>1, NoNewDues
<1>2. CASE \E who \in SUBSET Billable : Generate(who)
  BY <1>2, GeneratedDues
<1>3. CASE FeeStep
  BY <1>3, FeesAdded, NoNewDues
<1>4. ASSUME NEW c \in charges, NEW d \in Charge, d.id = c.id, charges' = ById(charges, d) PROVE DuesOnce
  BY <1>4, NoNewDues DEF ById
<1> QED BY <1>1, <1>2, <1>3, <1>4 DEF ChargesChange
-----------------------------------------------------------------------------
\* No rider starts with a charge for a show.
NoFeesAtFirst == \A set \in Billed : \A c \in set : c.show = None

LEMMA FeesKeptOut ==
  ASSUME AccountInv, FeeInv, UNCHANGED part, ChargesChange
  PROVE  FeeInv'
<1> SUFFICES ASSUME part # "fees", NEW c \in charges' PROVE c.show = None
  BY DEF FeeInv
<1>1. \A x \in charges : x.show = None
  BY DEF FeeInv
<1>2. ASSUME NEW who \in SUBSET Billable, Generate(who) PROVE c.show = None
  <2>1. PICK ids \in FreeIds(Cardinality(who)) : \E number \in [who -> ids] :
          charges' = charges \cup {DuesCharge(m, number[m]) : m \in who}
    BY <1>2 DEF Generate
  <2>2. PICK number \in [who -> ids] : charges' = charges \cup {DuesCharge(m, number[m]) : m \in who}
    BY <2>1
  <2>3. \A m, id : DuesCharge(m, id).show = None
    BY DEF DuesCharge
  <2> QED BY <1>1, <2>2, <2>3
<1>3. ASSUME NEW x \in charges, NEW d \in Charge, d.show = x.show, charges' = ById(charges, d) PROVE c.show = None
  BY <1>1, <1>3 DEF ById
<1> QED BY <1>1, <1>2, <1>3 DEF ChargesChange

\* The fees a rider has for a show.
FeesOf(m, show, set) == {c \in set : c.member = m /\ c.show = show /\ c.type = "show_fee"}
FeesOnce == \A m \in Memberships, show \in Shows :
              FeesOf(m, show, charges) # {} => Cardinality(FeesOf(m, show, charges')) <= Cardinality(FeesOf(m, show, charges))

\* Replacing a row by another makes a set no larger.
LEMMA ReplacedIsNoLarger ==
  ASSUME NEW S, IsFiniteSet(S), NEW T, NEW a \in S, NEW b, T \subseteq (S \ {a}) \cup {b}
  PROVE  Cardinality(T) <= Cardinality(S)
<1>1. IsFiniteSet(S \ {a}) /\ Cardinality(S \ {a}) = Cardinality(S) - 1 /\ Cardinality(S) \in Nat
  BY FS_RemoveElement, FS_CardinalityType
<1>2. IsFiniteSet((S \ {a}) \cup {b}) /\ Cardinality((S \ {a}) \cup {b}) <= Cardinality(S)
  <2>1. CASE b \in S \ {a}
    <3>1. (S \ {a}) \cup {b} = S \ {a}
      BY <2>1
    <3>2. Cardinality((S \ {a}) \cup {b}) = Cardinality(S \ {a})
      BY <3>1
    <3>3. Cardinality(S \ {a}) <= Cardinality(S)
      BY <1>1
    <3> QED BY <1>1, <3>1, <3>2, <3>3
  <2>2. CASE b \notin S \ {a}
    <3>1. IsFiniteSet((S \ {a}) \cup {b}) /\ Cardinality((S \ {a}) \cup {b}) = Cardinality(S \ {a}) + 1
      BY <1>1, <2>2, FS_AddElement
    <3> QED BY <1>1, <3>1
  <2> QED BY <2>1, <2>2
<1>3. IsFiniteSet(T) /\ Cardinality(T) <= Cardinality((S \ {a}) \cup {b}) /\ Cardinality(T) \in Nat
      /\ Cardinality((S \ {a}) \cup {b}) \in Nat
  BY <1>2, FS_Subset, FS_CardinalityType
<1> QED BY <1>1, <1>2, <1>3

LEMMA FeesNeverTwice ==
  ASSUME MoneyInv, FeeInv, ChargesChange
  PROVE  FeesOnce
<1> SUFFICES ASSUME NEW m \in Memberships, NEW show \in Shows, FeesOf(m, show, charges) # {}
             PROVE  Cardinality(FeesOf(m, show, charges')) <= Cardinality(FeesOf(m, show, charges))
  BY DEF FeesOnce
<1>1. IsFiniteSet(FeesOf(m, show, charges)) /\ Cardinality(FeesOf(m, show, charges)) \in Nat
  BY TablesFinite, FS_Subset, FS_CardinalityType DEF MoneyInv, FeesOf
<1>2. part = "fees"
  <2>1. show # None
    BY TeamLedgerAssumption DEF None
  <2> QED BY <2>1 DEF FeeInv, FeesOf
<1>3. ASSUME FeesOf(m, show, charges') = FeesOf(m, show, charges)
      PROVE  Cardinality(FeesOf(m, show, charges')) <= Cardinality(FeesOf(m, show, charges))
  <2>1. Cardinality(FeesOf(m, show, charges')) = Cardinality(FeesOf(m, show, charges))
    BY <1>3
  <2> QED BY <1>1, <2>1
<1>4. CASE UNCHANGED charges
  BY <1>3, <1>4
<1>5. ASSUME NEW who \in SUBSET Billable, Generate(who) PROVE FeesOf(m, show, charges') = FeesOf(m, show, charges)
  <2>1. PICK ids \in FreeIds(Cardinality(who)) : \E number \in [who -> ids] :
          charges' = charges \cup {DuesCharge(n, number[n]) : n \in who}
    BY <1>5 DEF Generate
  <2>2. PICK number \in [who -> ids] : charges' = charges \cup {DuesCharge(n, number[n]) : n \in who}
    BY <2>1
  <2>3. \A n, id : DuesCharge(n, id).type # "show_fee"
    BY DEF DuesCharge
  <2> QED BY <2>2, <2>3 DEF FeesOf
<1>6. ASSUME FeeStep PROVE FeesOf(m, show, charges') = FeesOf(m, show, charges)
  <2>1. PICK shown \in Shows : \A c \in charges' :
           \/ c \in charges
           \/ /\ c.show = shown /\ c.type = "show_fee" /\ c.rate = None
              /\ \A x \in charges : x.member = c.member /\ x.show = shown => x.type # "show_fee"
    BY <1>6, FeesAdded
  <2>2. charges \subseteq charges'
    BY <1>6 DEF FeeStep, ShowFamilyChargesGenerate
  <2> QED BY <2>1, <2>2 DEF FeesOf
<1>7. ASSUME NEW c \in charges, NEW d \in Charge, d.id = c.id, d.member = c.member, d.show = c.show, d.type = c.type,
             charges' = ById(charges, d)
      PROVE  Cardinality(FeesOf(m, show, charges')) <= Cardinality(FeesOf(m, show, charges))
  <2> DEFINE S == FeesOf(m, show, charges)
             T == FeesOf(m, show, charges')
  <2>1. CASE c \in S
    <3>1. T \subseteq (S \ {c}) \cup {d}
      BY <1>7 DEF ById, FeesOf
    <3> HIDE DEF S, T
    <3>2. IsFiniteSet(S)
      BY <1>1 DEF S
    <3>3. Cardinality(T) <= Cardinality(S)
      BY <2>1, <3>1, <3>2, ReplacedIsNoLarger
    <3> QED BY <3>3 DEF S, T
  <2>2. CASE c \notin S
    <3>1. T \subseteq S
      BY <1>7, <2>2 DEF ById, FeesOf
    <3> HIDE DEF S, T
    <3>2. IsFiniteSet(S)
      BY <1>1 DEF S
    <3>3. Cardinality(T) <= Cardinality(S)
      BY <3>1, <3>2, FS_Subset
    <3> QED BY <3>3 DEF S, T
  <2> QED BY <2>1, <2>2
<1> QED BY <1>2, <1>3, <1>4, <1>5, <1>6, <1>7 DEF ChargesChange

-----------------------------------------------------------------------------
\* The ways a request changes the contributions: one is saved with its income and credit, or voided.
GiftsChange ==
  \/ UNCHANGED gifts
  \/ \E g \in Gift : g.status = "posted" /\ GiftSync(g)
  \/ \E g \in gifts : FundraisingContributionVoid(g)

LEMMA HowGiftsChange ==
  ASSUME MoneyInv, [MoneyNext]_moneyVars
  PROVE  GiftsChange
<1>0. LedgerInv /\ AccountInv /\ GiftInv
  BY DEF MoneyInv
<1>1. CASE UNCHANGED giftVars
  BY <1>1 DEF giftVars, GiftsChange
<1>2. CASE Given
  <2>1. ASSUME NEW form \in MCGifts, NEW blank \in BOOLEAN, FundraisingContributionAdd(Filled(form, blank)) PROVE GiftsChange
    <3>1. form \in Forms
      BY DEF MCGifts
    <3> QED BY <1>0, <2>1, <3>1, GiftAdded DEF GiftsChange
  <2>2. ASSUME NEW form \in MCGifts, NEW blank \in BOOLEAN, NEW g \in gifts, FundraisingContributionEdit(g, Filled(form, blank))
        PROVE  GiftsChange
    <3>1. form \in Forms
      BY DEF MCGifts
    <3> QED BY <1>0, <2>2, <3>1, GiftEdited DEF GiftsChange
  <2>3. ASSUME NEW g \in gifts, FundraisingContributionVoid(g) PROVE GiftsChange
    BY <2>3 DEF GiftsChange
  <2>4. ASSUME (\E p \in MCPolicy : FundraisingPolicyEdit(p)) \/ CampaignStep PROVE GiftsChange
    BY <2>4 DEF FundraisingPolicyEdit, CampaignStep, FundraisingCampaignSave, GiftsChange
  <2> QED BY <1>2, <2>1, <2>2, <2>3, <2>4 DEF Given, GiftStep
<1> QED BY <1>1, <1>2 DEF MoneyNext, moneyVars, OnlyLedger, OnlyFamily, OnlyShows, OnlyPayables, OnlyBilling

\* Saving a contribution changes its row alone, and leaves it posted.
LEMMA GiftRowSaved ==
  ASSUME NEW g \in Gift, g.status = "posted", GiftSync(g)
  PROVE  \A h \in gifts' : h \in gifts \/ h.status = "posted"
<1>1. GiftCredit(g)
  BY DEF GiftSync
<1>2. \A id : [g EXCEPT !.link = RowOf(g.link), !.creditRow = id].status = "posted"
  BY DEF Gift
<1>3. [g EXCEPT !.link = RowOf(g.link)].status = "posted"
  BY DEF Gift
<1>4. \/ \E id : gifts' = ById(gifts, [g EXCEPT !.link = RowOf(g.link), !.creditRow = id])
      \/ gifts' = ById(gifts, [g EXCEPT !.link = RowOf(g.link)])
  BY <1>1 DEF GiftCredit
<1> QED BY <1>2, <1>3, <1>4 DEF ById

VoidsCreditNoOne ==
  \A g \in gifts : \A h \in gifts' :
    g.id = h.id /\ g.status = "posted" /\ h.status = "void" => \A r \in credits' : r.id = h.creditRow => r.status = "cancelled"

LEMMA VoidsCancel ==
  ASSUME MoneyInv, GiftsChange
  PROVE  VoidsCreditNoOne
<1> SUFFICES ASSUME NEW g \in gifts, NEW h \in gifts', g.id = h.id, g.status = "posted", h.status = "void",
                    NEW r \in credits', r.id = h.creditRow
             PROVE  r.status = "cancelled"
  BY DEF VoidsCreditNoOne
<1>0. UniqueIds(gifts) /\ gifts \subseteq Gift /\ credits \subseteq Credit
  BY DEF MoneyInv, GiftInv, AccountInv
<1>1. h \notin gifts
  BY <1>0 DEF UniqueIds
<1>2. PICK x \in gifts : FundraisingContributionVoid(x)
  <2>1. ~UNCHANGED gifts
    BY <1>1
  <2>2. ASSUME NEW x \in Gift, x.status = "posted", GiftSync(x) PROVE FALSE
    BY <1>1, <2>2, GiftRowSaved
  <2> QED BY <2>1, <2>2 DEF GiftsChange
<1>3. gifts' = ById(gifts, [x EXCEPT !.status = "void"]) /\ credits' = Cancelled(x)
  BY <1>2 DEF FundraisingContributionVoid, GiftVoidCredit, Cancelled
<1>4. h = [x EXCEPT !.status = "void"]
  BY <1>1, <1>3 DEF ById
<1>5. h.creditRow = x.creditRow
  BY <1>0, <1>4 DEF Gift
<1>6. r \notin credits \ CreditRow(x)
  BY <1>5 DEF CreditRow
<1>7. PICK q \in CreditRow(x) : r = [q EXCEPT !.status = "cancelled"]
  BY <1>3, <1>6 DEF Cancelled
<1>8. q \in Credit
  BY <1>0 DEF CreditRow
<1> QED BY <1>7, <1>8 DEF Credit
-----------------------------------------------------------------------------
\* What of the credits is applied to a charge.
AppliedTo(rows, c) == {r \in rows : r.charge = c.id /\ r.status = "applied"}

LEMMA AppliedFacts ==
  ASSUME NEW rows, rows \subseteq Credit, UniqueIds(rows), NEW c
  PROVE  IsFiniteSet(AppliedTo(rows, c)) /\ \A r \in AppliedTo(rows, c) : r.amount \in Nat
<1>1. \A r \in rows : r.id \in LedgerIds /\ r.amount \in Nat
  BY DEF Credit
<1>2. IsFiniteSet(rows)
  BY <1>1, RowsFinite
<1> QED BY <1>1, <1>2, FS_Subset DEF AppliedTo

LEMMA AppliedCreditIs ==
  ASSUME NEW c
  PROVE  AppliedCredit(c) = Total(AppliedTo(credits, c)) /\ AppliedCredit(c)' = Total(AppliedTo(credits', c))
<1>1. {r \in On(credits, c) : r.status = "applied"} = AppliedTo(credits, c)
  BY DEF On, AppliedTo
<1>2. {r \in On(credits', c) : r.status = "applied"} = AppliedTo(credits', c)
  BY DEF On, AppliedTo
<1> QED BY <1>1, <1>2 DEF AppliedCredit

LEMMA TotalSplit ==
  ASSUME NEW rows, IsFiniteSet(rows), \A r \in rows : r.amount \in Nat, NEW part0, part0 \subseteq rows
  PROVE  Total(rows) = Total(part0) + Total(rows \ part0)
<1>1. \A r \in rows : AmountOf(rows)[r] \in Int
  BY DEF AmountOf
<1>2. rows \ part0 \subseteq rows
  OBVIOUS
<1>3. Total(rows) = SumFunctionOnSet(AmountOf(rows), rows) /\ Total(part0) = SumFunctionOnSet(AmountOf(rows), part0)
      /\ Total(rows \ part0) = SumFunctionOnSet(AmountOf(rows), rows \ part0)
  BY <1>2, TotalOn
<1> QED BY <1>1, <1>3, SumOnSplit

\* With less credit applied, and nothing else moved, a charge has no less left.
LEMMA LessCreditIsSafe ==
  ASSUME AccountInv, PaymentInv, ClaimInv, UNCHANGED <<services, claims, payments>>, NEW c \in charges,
         RawBalance(c) >= 0, AppliedCredit(c)' \in Nat,
         AppliedCredit(c)' <= AppliedCredit(c) + RawBalance(c)
  PROVE  RawBalance(c)' >= 0
<1>1. /\ c.amount \in Nat /\ AppliedCredit(c) \in Nat /\ ServiceCredit(c) \in Nat /\ Assistance(c) \in Nat /\ Paid(c) \in Nat
  BY TablesFinite, ReliefsNatural
<1>2. ServiceCredit(c)' = ServiceCredit(c)
  BY DEF ServiceCredit, On
<1>3. Assistance(c)' = Assistance(c)
  BY DEF Assistance, On
<1>4. Paid(c)' = Paid(c)
  BY DEF Paid, On
<1>5. RawBalance(c) = c.amount - AppliedCredit(c) - ServiceCredit(c) - Assistance(c) - Paid(c)
  BY DEF RawBalance
<1>6. RawBalance(c)' = c.amount - AppliedCredit(c)' - ServiceCredit(c) - Assistance(c) - Paid(c)
  BY <1>2, <1>3, <1>4 DEF RawBalance
<1> HIDE DEF AppliedCredit
<1> QED BY <1>1, <1>5, <1>6

\* Cancelling the credit of a contribution applies no credit to any charge.
LEMMA CancelIsSafe ==
  ASSUME AccountInv, PaymentInv, ClaimInv, UNCHANGED <<services, claims, payments>>, NEW g, credits' = Cancelled(g),
         NEW c \in charges, RawBalance(c) >= 0
  PROVE  RawBalance(c)' >= 0
<1> DEFINE old == AppliedTo(credits, c)
           new == AppliedTo(credits', c)
<1>1. new \subseteq old
  <2> SUFFICES ASSUME NEW r \in new PROVE r \in old
    OBVIOUS
  <2>1. r \in credits' /\ r.charge = c.id /\ r.status = "applied"
    BY DEF AppliedTo
  <2>2. ASSUME NEW q \in CreditRow(g), r = [q EXCEPT !.status = "cancelled"] PROVE FALSE
    <3>1. q \in Credit
      BY DEF CreditRow, AccountInv
    <3> QED BY <2>1, <2>2, <3>1 DEF Credit
  <2>3. r \in credits
    BY <2>1, <2>2 DEF Cancelled
  <2> QED BY <2>1, <2>3 DEF AppliedTo
<1>2. IsFiniteSet(old) /\ \A r \in old : r.amount \in Nat
  BY AppliedFacts DEF AccountInv
<1>3. IsFiniteSet(new) /\ \A r \in new : r.amount \in Nat
  BY <1>1, <1>2, FS_Subset
<1> HIDE DEF old, new
<1>4. Total(new) <= Total(old) /\ Total(new) \in Nat /\ Total(old) \in Nat
  BY <1>1, <1>2, <1>3, TotalPart, TotalNat
<1>5. AppliedCredit(c) = Total(old) /\ AppliedCredit(c)' = Total(new)
  BY AppliedCreditIs DEF old, new
<1>6. RawBalance(c) \in Int
  BY TablesFinite, ReliefsNatural DEF RawBalance
<1>7. AppliedCredit(c)' \in Nat
  BY <1>4, <1>5
<1>8. AppliedCredit(c)' <= AppliedCredit(c) + RawBalance(c)
  BY <1>4, <1>5, <1>6
<1> QED BY <1>7, <1>8, LessCreditIsSafe

\* A contribution puts on a charge what is left of it, besides what it put there before.
LEMMA CreditIsSafe ==
  ASSUME AccountInv, PaymentInv, ClaimInv, UNCHANGED <<services, claims, payments>>, NEW g \in Gift, GiftClean(g),
         NEW id, id = g.creditRow \/ (g.creditRow = None /\ \A r \in credits : r.id # id),
         g.credit > 0,
         credits' = ById(credits, [id |-> id, charge |-> g.charge, amount |-> g.credit, status |-> "applied"]),
         NEW c \in charges, RawBalance(c) >= 0
  PROVE  RawBalance(c)' >= 0
<1> DEFINE a == [id |-> id, charge |-> g.charge, amount |-> g.credit, status |-> "applied"]
           old == AppliedTo(credits, c)
           new == AppliedTo(credits', c)
           own == {r \in old : r.id = id}
           rest == old \ own
<1>0. a.id = id /\ a.charge = g.charge /\ a.amount = g.credit /\ a.status = "applied" /\ g.credit \in Nat
  BY DEF Gift
<1>1. credits' = ById(credits, a)
  OBVIOUS
<1> HIDE DEF a
<1>2. IsFiniteSet(old) /\ \A r \in old : r.amount \in Nat
  BY AppliedFacts DEF AccountInv
<1>3. own \subseteq old /\ rest \subseteq old
  OBVIOUS
<1>4. a \notin rest
  BY <1>0
<1>5. new = IF g.charge = c.id THEN rest \cup {a} ELSE rest
  BY <1>0, <1>1 DEF AppliedTo, ById
<1>6. RawBalance(c) \in Int
  BY TablesFinite, ReliefsNatural DEF RawBalance
<1>7. own = OwnCredit(g) \/ g.charge # c.id
  <2>1. None \notin LedgerIds
    BY TeamLedgerAssumption DEF None
  <2>2. \A r \in credits : r.id # None
    BY <2>1 DEF AccountInv, Credit
  <2> QED BY <2>2 DEF OwnCredit, CreditRow, AppliedTo
<1>8. AppliedCredit(c) = Total(old) /\ AppliedCredit(c)' = Total(new)
  BY AppliedCreditIs
<1>9. g.charge = c.id => g.credit <= Balance(c) + Total(OwnCredit(g))
  BY DEF GiftClean
<1> HIDE DEF old, new, own, rest
<1>10. IsFiniteSet(rest) /\ IsFiniteSet(own) /\ \A r \in rest : r.amount \in Nat
  BY <1>2, <1>3, FS_Subset
<1>11. Total(rest) \in Nat /\ Total(own) \in Nat /\ Total(old) \in Nat
  BY <1>2, <1>3, <1>10, TotalNat
<1>12. Total(old) = Total(own) + Total(rest)
  BY <1>2, <1>3, TotalSplit DEF rest
<1>13. CASE g.charge # c.id
  <2>1. Total(new) = Total(rest)
    BY <1>5, <1>13
  <2>2. AppliedCredit(c)' \in Nat /\ AppliedCredit(c)' <= AppliedCredit(c) + RawBalance(c)
    BY <1>6, <1>8, <1>11, <1>12, <2>1
  <2> QED BY <2>2, LessCreditIsSafe
<1>14. CASE g.charge = c.id
  <2>1. Total(rest \cup {a}) = Total(rest) + g.credit
    BY <1>0, <1>4, <1>10, TotalAdd
  <2>2. Total(new) = Total(rest) + g.credit
    BY <1>5, <1>14, <2>1
  <2>3. Total(OwnCredit(g)) = Total(own)
    BY <1>7, <1>14
  <2>4. Balance(c) <= RawBalance(c) /\ Balance(c) \in Int
    BY <1>6 DEF Balance, Larger
  <2>5. g.credit <= Balance(c) + Total(own)
    BY <1>9, <1>14, <2>3
  <2>6. Total(new) \in Nat /\ Total(new) <= Total(old) + RawBalance(c)
    BY <1>0, <1>6, <1>11, <1>12, <2>2, <2>4, <2>5
  <2>7. AppliedCredit(c)' \in Nat /\ AppliedCredit(c)' <= AppliedCredit(c) + RawBalance(c)
    BY <1>8, <2>6
  <2> QED BY <2>7, LessCreditIsSafe
<1> QED BY <1>13, <1>14

OverCreditsNoCharge == gifts' # gifts => \A c \in charges : RawBalance(c) >= 0 => RawBalance(c)' >= 0

LEMMA GiftsAreSafe ==
  ASSUME MoneyInv, GiftsChange
  PROVE  OverCreditsNoCharge
<1>0. AccountInv /\ PaymentInv /\ ClaimInv
  BY DEF MoneyInv
<1> SUFFICES ASSUME gifts' # gifts, NEW c \in charges, RawBalance(c) >= 0 PROVE RawBalance(c)' >= 0
  BY DEF OverCreditsNoCharge
<1>1. ASSUME NEW g \in Gift, GiftSync(g) PROVE RawBalance(c)' >= 0
  <2>1. GiftClean(g) /\ GiftCredit(g) /\ UNCHANGED <<services, claims, payments>>
    BY <1>1 DEF GiftSync
  <2>2. CASE g.credit > 0
    <3>1. PICK id \in IF g.creditRow # None THEN {g.creditRow} ELSE {i \in LedgerIds : \A r \in credits : r.id # i} :
            credits' = ById(credits, [id |-> id, charge |-> g.charge, amount |-> g.credit, status |-> "applied"])
      BY <2>1, <2>2 DEF GiftCredit
    <3>2. id = g.creditRow \/ (g.creditRow = None /\ \A r \in credits : r.id # id)
      BY <3>1
    <3> QED BY <1>0, <2>1, <2>2, <3>1, <3>2, CreditIsSafe
  <2>3. CASE ~(g.credit > 0)
    <3>1. credits' = Cancelled(g)
      BY <2>1, <2>3 DEF GiftCredit, Cancelled
    <3> QED BY <1>0, <2>1, <3>1, CancelIsSafe
  <2> QED BY <2>2, <2>3
<1>2. ASSUME NEW g \in gifts, FundraisingContributionVoid(g) PROVE RawBalance(c)' >= 0
  <2>1. credits' = Cancelled(g) /\ UNCHANGED <<services, claims, payments>>
    BY <1>2 DEF FundraisingContributionVoid, GiftVoidCredit, Cancelled
  <2> QED BY <1>0, <2>1, CancelIsSafe
<1> QED BY <1>1, <1>2 DEF GiftsChange

-----------------------------------------------------------------------------
WithinTheAward == \A r \in claims' \ claims : \A a \in awards : a.id = r.award => Allocated(a)' <= a.maximum

\* A saved claim leaves its award with room for the live claims on it.
LEMMA ClaimFits ==
  ASSUME AccountInv, ClaimInv, NEW r \in Claim, AssistanceClaimSave(r)
  PROVE  WithinTheAward
<1> DEFINE s == [r EXCEPT !.link = IF r.status = "reimbursed" THEN RowOf(r.link) ELSE None]
<1>1. claims' = ById(claims, s) /\ ClaimClean(r)
  BY DEF AssistanceClaimSave
<1>2. s.id = r.id /\ s.award = r.award /\ s.relief = r.relief /\ s.status = r.status /\ r.relief \in Nat
  BY DEF Claim
<1> HIDE DEF s
<1> SUFFICES ASSUME NEW q \in claims' \ claims, NEW a \in awards, a.id = q.award PROVE Allocated(a)' <= a.maximum
  BY DEF WithinTheAward
<1>3. q = s
  BY <1>1 DEF ById
<1>4. PICK b \in awards : b.id = r.award /\ WithinAward(r, b)
  BY <1>1 DEF ClaimClean
<1>5. a = b
  BY <1>2, <1>3, <1>4 DEF AccountInv, UniqueIds
<1> DEFINE rest == {o \in LiveClaims(ClaimsOf(a)) : o.id # r.id}
           new == LiveClaims({x \in claims' : x.award = a.id})
<1>6. Relief(rest) + r.relief <= a.maximum
  BY <1>4, <1>5 DEF WithinAward
<1>7. IsFiniteSet(rest) /\ \A o \in rest : o.relief \in Nat
  <2>1. rest \subseteq claims
    BY DEF LiveClaims, ClaimsOf
  <2>2. \A o \in claims : o.id \in LedgerIds /\ o.relief \in Nat
    BY DEF ClaimInv, Claim
  <2>3. IsFiniteSet(claims)
    BY <2>2, RowsFinite DEF ClaimInv
  <2> QED BY <2>1, <2>2, <2>3, FS_Subset
<1>8. s \notin rest
  BY <1>2
<1>9. new = rest \/ new = rest \cup {s}
  <2>1. \A x : x \in new <=> \/ x \in rest
                             \/ x = s /\ s.award = a.id /\ s.status \notin {"denied", "cancelled"}
    BY <1>1, <1>2 DEF ById, LiveClaims, ClaimsOf
  <2> QED BY <2>1
<1>10. Allocated(a)' = Relief(new)
  BY DEF Allocated, ClaimsOf
<1> HIDE DEF rest, new
<1>11. Relief(rest) \in Nat
  BY <1>7, ReliefNat
<1>12. Relief(rest \cup {s}) = Relief(rest) + r.relief
  BY <1>2, <1>7, <1>8, ReliefAdd
<1>13. a.maximum \in Nat
  BY DEF AccountInv, Award
<1>14. Relief(new) = Relief(rest) \/ Relief(new) = Relief(rest) + r.relief
  BY <1>9, <1>12
<1>15. Relief(new) <= a.maximum
  BY <1>2, <1>6, <1>11, <1>13, <1>14
<1> QED BY <1>10, <1>15

LEMMA ClaimsFit ==
  ASSUME MoneyInv, [MoneyNext]_moneyVars
  PROVE  WithinTheAward
<1>0. AccountInv /\ ClaimInv
  BY DEF MoneyInv
<1>1. CASE UNCHANGED claims
  BY <1>1 DEF WithinTheAward
<1>2. CASE Claims
  <2>1. PICK r \in Claim : AssistanceClaimSave(r)
    BY <1>2 DEF Claims
  <2> QED BY <1>0, <2>1, ClaimFits
<1>3. CASE UNCHANGED accountVars
  BY <1>1, <1>3 DEF accountVars
<1>4. CASE FamilyDues \/ FamilyRelief \/ Awards \/ Payments \/ Given \/ HandCredit \/ FeeStep \/ FeeWaived
  <2>1. UNCHANGED claims
    BY <1>4 DEF FamilyDues, DuesStep, HomeBarnSave, HomeBarnChange, DuesRateSave, MembershipDuesGenerate,
       MembershipDuesGenerateAll, Generate, FamilyRelief, FamilyCreditSave, ServiceAgreementSave, FamilyChargeSave, Awards,
       AssistanceAwardSave, Payments, PaymentStep, FamilyPaymentSave, FamilyPaymentDelete, accountVars, Given, GiftStep,
       FundraisingContributionAdd, FundraisingContributionEdit, FundraisingContributionVoid, GiftSync, FundraisingPolicyEdit,
       CampaignStep, FundraisingCampaignSave, familyVars, HandCredit, FeeStep, ShowFamilyChargesGenerate, FeeWaived
  <2> QED BY <1>1, <2>1
<1>5. CASE ShowBudgetStep \/ SeasonBudgetStep \/ ReimbursementStep(MCForms)
  <2>1. UNCHANGED claims
    BY <1>5 DEF ShowBudgetStep, SeasonBudgetStep, ShowBudgetSave, FinanceBudgetSave, ReimbursementStep, ReimbursementCreate,
       ReimbursementEdit, ReimbursementSubmit, ReviewRead, ReviewSave, accountVars, familyVars
  <2> QED BY <1>1, <2>1
<1> QED BY <1>1, <1>2, <1>3, <1>4, <1>5 DEF MoneyNext, moneyVars, OnlyLedger, OnlyPayables, OnlyBilling

-----------------------------------------------------------------------------
LEMMA FeesStartOut ==
  ASSUME NoFeesAtFirst
  PROVE  MoneyInit => FeeInv
  BY DEF NoFeesAtFirst, MoneyInit, FamilyInit, FeeInv

LEMMA StepDoes ==
  ASSUME MoneyInv, [MoneyNext]_moneyVars
  PROVE  /\ DuesOnce /\ VoidsCreditNoOne /\ OverCreditsNoCharge /\ WithinTheAward
         /\ FeeInv => FeesOnce /\ FeeInv'
<1>1. ChargesChange /\ GiftsChange
  BY HowChargesChange, HowGiftsChange
<1>2. UNCHANGED part /\ AccountInv
  BY DEF MoneyInv, MoneyNext, moneyVars
<1> QED BY <1>1, <1>2, DuesNeverTwice, VoidsCancel, GiftsAreSafe, ClaimsFit, FeesNeverTwice, FeesKeptOut

\* Reviews of requests leave the families' accounts and the contributions alone, overlapping ones too: what they do to the
\* ledger does not matter here.
FamilyInv == IF part = "reimbursements" THEN AccountInv /\ gifts = {} ELSE MoneyInv

LEMMA FamilyBegins == MoneyInit => FamilyInv
<1>1. MoneyInit => gifts = {}
  BY DEF MoneyInit, FundraisingInit
<1>2. MoneyInv => AccountInv
  BY DEF MoneyInv
<1> QED BY <1>1, <1>2, MoneyBegins DEF FamilyInv

LEMMA ReviewsLeaveFamilies ==
  ASSUME part = "reimbursements", [MoneyNext]_moneyVars
  PROVE  UNCHANGED <<part, accountVars, gifts>>
<1>1. CASE UNCHANGED moneyVars
  BY <1>1 DEF moneyVars, giftVars
<1>2. CASE MoneyNext
  <2>1. /\ UNCHANGED part
        /\ \/ ReimbursementStep(MCForms) /\ OnlyShows
           \/ (ByHand \/ MCAllocate) /\ OnlyLedger
    BY <1>2 DEF MoneyNext
  <2>2. ReimbursementStep(MCForms) => UNCHANGED accountVars
    BY DEF ReimbursementStep, ReimbursementCreate, ReimbursementEdit, ReimbursementSubmit, ReviewRead, ReviewSave, familyVars
  <2> QED BY <2>1, <2>2 DEF OnlyShows, OnlyLedger, giftVars
<1> QED BY <1>1, <1>2

LEMMA FamilyStep ==
  ASSUME FamilyInv, [MoneyNext]_moneyVars
  PROVE  /\ FamilyInv'
         /\ DuesOnce /\ VoidsCreditNoOne /\ OverCreditsNoCharge /\ WithinTheAward
         /\ FeeInv => FeesOnce /\ FeeInv'
<1>1. CASE part # "reimbursements"
  <2>1. MoneyInv /\ part' = part
    BY <1>1 DEF FamilyInv, MoneyNext, moneyVars
  <2>2. MoneyInv'
    BY <1>1, <2>1, MoneyKept
  <2> QED BY <1>1, <2>1, <2>2, StepDoes DEF FamilyInv
<1>2. CASE part = "reimbursements"
  <2>1. AccountInv /\ gifts = {}
    BY <1>2 DEF FamilyInv
  <2>2. UNCHANGED <<part, accountVars, gifts>>
    BY <1>2, ReviewsLeaveFamilies
  <2>3. AccountInv'
    BY <2>1, <2>2 DEF AccountInv, UniqueIds, accountVars
  <2>4. UNCHANGED charges /\ UNCHANGED claims
    BY <2>2 DEF accountVars
  <2>5. FeeInv => FeesOnce /\ FeeInv'
    <3>1. ASSUME FeeInv, NEW m \in Memberships, NEW show \in Shows PROVE FeesOf(m, show, charges) = {}
      BY <1>2, <3>1, TeamLedgerAssumption DEF FeeInv, FeesOf, None
    <3> QED BY <2>2, <2>4, <3>1 DEF FeesOnce, FeeInv
  <2> QED BY <1>2, <2>1, <2>2, <2>3, <2>4, <2>5, NoNewDues DEF FamilyInv, VoidsCreditNoOne, OverCreditsNoCharge, WithinTheAward
<1> QED BY <1>1, <1>2

\* Whatever the rows, people, shows and amounts, no claim takes its award past its maximum.
THEOREM ClaimsFitTheAward == MoneySpec => ClaimsStayWithinTheAward
<1>1. FamilyInv /\ [MoneyNext]_moneyVars => FamilyInv'
  BY FamilyStep
<1>2. FamilyInv /\ [MoneyNext]_moneyVars
        => [\A r \in claims' \ claims : \A a \in awards : a.id = r.award => Allocated(a)' <= a.maximum]_familyVars
  BY FamilyStep DEF WithinTheAward
<1> QED BY <1>1, <1>2, FamilyBegins, PTL DEF MoneySpec, ClaimsStayWithinTheAward

\* A contribution takes no charge below zero that was not taken there by hand.
THEOREM GiftsLeaveChargesCovered == MoneySpec => GiftsNeverOverCredit
<1>1. FamilyInv /\ [MoneyNext]_moneyVars => FamilyInv'
  BY FamilyStep
<1>2. FamilyInv /\ [MoneyNext]_moneyVars
        => [gifts' # gifts => \A c \in charges : RawBalance(c) >= 0 => RawBalance(c)' >= 0]_fundraisingVars
  BY FamilyStep DEF OverCreditsNoCharge
<1> QED BY <1>1, <1>2, FamilyBegins, PTL DEF MoneySpec, GiftsNeverOverCredit

\* Dues and the fee of a show are generated once, and a contribution that is voided credits no one.
THEOREM NothingIsBilledTwice ==
  ASSUME NoFeesAtFirst
  PROVE  MoneySpec => MoneySteps
<1>1. FamilyInv /\ [MoneyNext]_moneyVars => FamilyInv'
  BY FamilyStep
<1>2. FamilyInv /\ FeeInv /\ [MoneyNext]_moneyVars => FeeInv'
  BY FamilyStep
<1>3. FamilyInv /\ [MoneyNext]_moneyVars
        => [\A m \in Memberships :
             LET new == {c \in charges' \ charges : c.member = m /\ c.rate # None /\ \A old \in charges : old.id # c.id} IN
             Cardinality(new) <= 1 /\ (new # {} => \A c \in charges : c.member = m => c.type # "membership_dues")]_familyVars
  BY FamilyStep DEF DuesOnce, NewDues
<1>4. FamilyInv /\ [MoneyNext]_moneyVars
        => [\A g \in gifts : \A h \in gifts' :
             g.id = h.id /\ g.status = "posted" /\ h.status = "void" =>
               \A r \in credits' : r.id = h.creditRow => r.status = "cancelled"]_fundraisingVars
  BY FamilyStep DEF VoidsCreditNoOne
<1>5. FamilyInv /\ FeeInv /\ [MoneyNext]_moneyVars
        => [\A m \in Memberships, show \in Shows :
             LET fees(set) == {c \in set : c.member = m /\ c.show = show /\ c.type = "show_fee"} IN
             fees(charges) # {} => Cardinality(fees(charges')) <= Cardinality(fees(charges))]_allFinanceVars
  BY FamilyStep DEF FeesOnce, FeesOf
<1>6. MoneyInit => FeeInv
  BY FeesStartOut
<1> QED BY <1>1, <1>2, <1>3, <1>4, <1>5, <1>6, FamilyBegins, PTL
        DEF MoneySpec, MoneySteps, DuesAreGeneratedOnce, VoidGiftsCreditNoOne, FeesAreGeneratedOnce

-----------------------------------------------------------------------------
(*------------------------- reviews that overlap --------------------------*)
\* A row agrees with its status: a request, and the row a review has read, however old.
ReviewsAgree ==
  /\ requests \subseteq Request /\ \A r \in requests : (r.status = "paid") = (r.link # None)
  /\ \A v \in reviews : v[2] \in Request /\ (v[2].status = "paid") = (v[2].link # None)

\* A row that is not there yet gets a number.
NumbersExist == part = "reimbursements" => Len(tx) \in Nat /\ \E S : tx \in Seq(S)

LEMMA NumbersKept ==
  ASSUME NEW S, tx \in Seq(S), NEW R, tx' = R,
         \/ \E t : R = Append(tx, t)
         \/ DOMAIN R = DOMAIN tx /\ R = [i \in DOMAIN R |-> R[i]]
  PROVE  Len(tx') \in Nat /\ \E T : tx' \in Seq(T)
<1>1. ASSUME NEW t, R = Append(tx, t) PROVE R \in Seq(S \cup {t})
  <2>1. tx \in Seq(S \cup {t})
    OBVIOUS
  <2> QED BY <1>1, <2>1
<1>2. ASSUME DOMAIN R = DOMAIN tx, R = [i \in DOMAIN R |-> R[i]] PROVE R \in Seq({R[i] : i \in DOMAIN R})
  <2>1. DOMAIN R = 1..Len(tx) /\ Len(tx) \in Nat
    BY <1>2
  <2>2. R \in [1..Len(tx) -> {R[i] : i \in DOMAIN R}]
    BY <1>2, <2>1
  <2> QED BY <2>1, <2>2, SeqDef
<1>3. \E T : R \in Seq(T)
  BY <1>1, <1>2
<1> QED BY <1>3, LenProperties

LEMMA ReviewSaveAgrees ==
  ASSUME ReviewsAgree, Len(tx) \in Nat, NEW v \in reviews, NEW status \in Statuses, ReviewSave(v, status)
  PROVE  ReviewsAgree'
<1> DEFINE r == v[2]
           paid == [r EXCEPT !.status = status, !.link = RowOf(r.link)]
           kept == [r EXCEPT !.status = status]
<1>1. /\ reviews' \subseteq reviews /\ status \in NextStatuses(r.status)
      /\ requests' = ById(requests, IF status = "paid" THEN paid ELSE kept)
      /\ status = "paid" /\ r.link = None => Len(tx) < MaxTx
  BY DEF ReviewSave, PostFor
<1>2. r \in Request /\ (r.status = "paid") = (r.link # None)
  BY DEF ReviewsAgree
<1> HIDE DEF r
<1>3. status = "paid" => paid \in Request /\ paid.status = "paid" /\ paid.link # None
  <2>1. status = "paid" => RowOf(r.link) \in 1..MaxTx
    BY <1>1, <1>2, TeamLedgerAssumption DEF RowOf, None, Request
  <2>2. paid.status = status /\ paid.link = RowOf(r.link) /\ (RowOf(r.link) \in 0..MaxTx => paid \in Request)
    BY <1>2 DEF Request
  <2> QED BY <2>1, <2>2 DEF None
<1>4. kept \in Request /\ kept.status = status /\ kept.link = r.link
  BY <1>2 DEF Request
<1>5. r.status = "paid" => status = "paid"
  BY <1>1 DEF NextStatuses
<1> HIDE DEF paid, kept
<1>6. PICK s \in Request : requests' = ById(requests, s) /\ (s.status = "paid") = (s.link # None)
  BY <1>1, <1>2, <1>3, <1>4, <1>5
<1>7. \A q \in requests' : q \in requests \/ q = s
  BY <1>6 DEF ById
<1> QED BY <1>1, <1>6, <1>7 DEF ReviewsAgree

LEMMA RequestsAgree ==
  ASSUME ReviewsAgree, Len(tx) \in Nat, ReimbursementStep(MCForms)
  PROVE  ReviewsAgree'
<1>1. ASSUME NEW s \in Request, s.status # "paid", s.link = None, UNCHANGED reviews, \A q \in requests' : q \in requests \/ q = s
      PROVE  ReviewsAgree'
  BY <1>1 DEF ReviewsAgree
<1>2. ASSUME NEW r \in MCForms, ReimbursementCreate(r) PROVE ReviewsAgree'
  BY <1>1, <1>2 DEF ReimbursementCreate, MCForms
<1>3. ASSUME NEW r \in requests, NEW new \in MCForms, ReimbursementEdit(r, new) PROVE ReviewsAgree'
  BY <1>1, <1>3 DEF ReimbursementEdit, MCForms, ById
<1>4. ASSUME NEW r \in requests, ReimbursementSubmit(r) PROVE ReviewsAgree'
  <2> DEFINE s == [r EXCEPT !.status = "submitted"]
  <2>1. r \in Request /\ r.link = None /\ UNCHANGED reviews /\ requests' = ById(requests, s)
    BY <1>4 DEF ReimbursementSubmit, ReviewsAgree
  <2>2. s \in Request /\ s.status # "paid" /\ s.link = None
    BY <2>1 DEF Request, Statuses
  <2> HIDE DEF s
  <2> QED BY <1>1, <2>1, <2>2 DEF ById
<1>5. ASSUME NEW r \in requests, NEW n \in 1..MaxReviews, ReviewRead(n, r) PROVE ReviewsAgree'
  BY <1>5 DEF ReviewRead, ReviewsAgree
<1> QED BY <1>2, <1>3, <1>4, <1>5, ReviewSaveAgrees DEF ReimbursementStep

LEMMA NumbersStep ==
  ASSUME NumbersExist, part = "reimbursements", [MoneyNext]_moneyVars
  PROVE  NumbersExist'
<1>1. PICK S : tx \in Seq(S)
  BY DEF NumbersExist
<1>2. \/ UNCHANGED tx
      \/ \E i \in DOMAIN tx : FinanceTransactionDelete(i, FALSE)
      \/ \E i \in DOMAIN tx, amount \in Amounts : FinanceTransactionEdit(i, tx[i].kind, tx[i].cat, tx[i].season, amount)
      \/ \E link, t : tx' = Synced(link, t)
  <2>1. CASE UNCHANGED moneyVars
    BY <2>1 DEF moneyVars, ledgerVars
  <2>2. CASE ByHand
    BY <2>2 DEF ByHand
  <2>3. CASE MCAllocate
    <3>1. (\E a : TransactionAllocationSave(a)) \/ \E a : TransactionAllocationDelete(a)
      BY <2>3 DEF MCAllocate, AllocationStep
    <3>2. \A a : TransactionAllocationSave(a) \/ TransactionAllocationDelete(a) => UNCHANGED tx
      BY DEF TransactionAllocationSave, TransactionAllocationDelete
    <3> QED BY <3>1, <3>2
  <2>4. CASE ReimbursementStep(MCForms)
    <3>1. ASSUME NEW v \in reviews, NEW status \in Statuses, ReviewSave(v, status)
          PROVE  UNCHANGED tx \/ \E link, t : tx' = Synced(link, t)
      BY <3>1 DEF ReviewSave, PostFor
    <3> QED BY <2>4, <3>1 DEF ReimbursementStep, ReimbursementCreate, ReimbursementEdit, ReimbursementSubmit, ReviewRead, familyVars, ledgerVars
  <2> QED BY <2>1, <2>2, <2>3, <2>4 DEF MoneyNext
<1>3. UNCHANGED tx => Len(tx') \in Nat /\ \E T : tx' \in Seq(T)
  BY <1>1
<1>4. ASSUME NEW i \in DOMAIN tx, FinanceTransactionDelete(i, FALSE) PROVE Len(tx') \in Nat /\ \E T : tx' \in Seq(T)
  <2> DEFINE R == [tx EXCEPT ![i].status = "void"]
  <2>1. tx' = R /\ DOMAIN R = DOMAIN tx /\ R = [j \in DOMAIN R |-> R[j]]
    BY <1>4 DEF FinanceTransactionDelete
  <2> HIDE DEF R
  <2> QED BY <1>1, <2>1, NumbersKept
<1>5. ASSUME NEW i \in DOMAIN tx, NEW amount \in Amounts, FinanceTransactionEdit(i, tx[i].kind, tx[i].cat, tx[i].season, amount)
      PROVE  Len(tx') \in Nat /\ \E T : tx' \in Seq(T)
  <2>1. PICK t : tx' = [tx EXCEPT ![i] = t]
    BY <1>5 DEF FinanceTransactionEdit
  <2> DEFINE R == [tx EXCEPT ![i] = t]
  <2>2. tx' = R /\ DOMAIN R = DOMAIN tx /\ R = [j \in DOMAIN R |-> R[j]]
    BY <2>1
  <2> HIDE DEF R
  <2> QED BY <1>1, <2>2, NumbersKept
<1>6. ASSUME NEW link, NEW t, tx' = Synced(link, t) PROVE Len(tx') \in Nat /\ \E T : tx' \in Seq(T)
  <2> DEFINE R == [tx EXCEPT ![link].kind = t.kind, ![link].cat = t.cat, ![link].amount = t.amount, ![link].show = t.show]
  <2>1. DOMAIN R = DOMAIN tx /\ R = [j \in DOMAIN R |-> R[j]]
    OBVIOUS
  <2>2. tx' = IF link = None THEN Append(tx, t) ELSE R
    BY <1>6 DEF Synced
  <2> HIDE DEF R
  <2>3. CASE link = None
    BY <1>1, <2>2, <2>3, NumbersKept
  <2>4. CASE link # None
    BY <1>1, <2>1, <2>2, <2>4, NumbersKept
  <2> QED BY <2>3, <2>4
<1> QED BY <1>2, <1>3, <1>4, <1>5, <1>6 DEF NumbersExist

LEMMA AgreeStep ==
  ASSUME ReviewsAgree, NumbersExist, [MoneyNext]_moneyVars
  PROVE  ReviewsAgree' /\ NumbersExist'
<1>1. \/ UNCHANGED <<requests, reviews>>
      \/ part = "reimbursements" /\ ReimbursementStep(MCForms)
  <2>1. ShowBudgetStep \/ SeasonBudgetStep \/ FeeStep => UNCHANGED <<requests, reviews>>
    BY DEF ShowBudgetStep, SeasonBudgetStep, FeeStep, ShowBudgetSave, FinanceBudgetSave, ShowFamilyChargesGenerate, showFinanceVars
  <2> QED BY <2>1 DEF MoneyNext, moneyVars, showFinanceVars, OnlyLedger, OnlyFamily, OnlyPayables, OnlyBilling
<1>2. ReviewsAgree'
  <2>1. CASE UNCHANGED <<requests, reviews>>
    BY <2>1 DEF ReviewsAgree
  <2>2. CASE part = "reimbursements" /\ ReimbursementStep(MCForms)
    BY <2>2, RequestsAgree DEF NumbersExist
  <2> QED BY <1>1, <2>1, <2>2
<1>3. NumbersExist'
  <2>1. UNCHANGED part
    BY DEF MoneyNext, moneyVars
  <2> QED BY <2>1, NumbersStep DEF NumbersExist
<1> QED BY <1>2, <1>3

\* However many review a request at once, from rows however old, it is paid exactly while it has an expense: what
\* overlapping reviews spoil is the ledger, where the expense of an overwritten decision is left behind.
THEOREM PaidMeansAnExpense == MoneySpec => []ExpenseIffPaid
<1>1. MoneyInit => ReviewsAgree /\ NumbersExist
  <2>1. ASSUME MoneyInit PROVE tx \in Seq({}) /\ Len(tx) = 0 /\ requests = {} /\ reviews = {}
    BY <2>1 DEF MoneyInit, LedgerInit, ShowFinanceInit
  <2> QED BY <2>1 DEF ReviewsAgree, NumbersExist
<1>2. ReviewsAgree /\ NumbersExist /\ [MoneyNext]_moneyVars => ReviewsAgree' /\ NumbersExist'
  BY AgreeStep
<1>3. ReviewsAgree => ExpenseIffPaid
  BY DEF ReviewsAgree, ExpenseIffPaid
<1> QED BY <1>1, <1>2, <1>3, PTL DEF MoneySpec

-----------------------------------------------------------------------------
(*------------------------------ bank matching ----------------------------*)
\* Only one confirmation holds the account's lock.
LockHeldOnce == \A v, w \in Confirming : v = w

\* A confirmation that has looked for other confirmed matches still finds none.
Checked ==
    \A w \in Workers : job[w].at = "save" =>
        /\ \A u \in Txs : u # job[w].tx => match[job[w].row][u] # "confirmed"
        /\ \A s \in Rows : s # job[w].row => match[s][job[w].tx] # "confirmed"

\* A request that counted no unresolved row is still right when it saves.
BankCounted ==
    \A w \in Workers : job[w].at = "complete" /\ job[w].to = "completed" =>
        \A r \in Rows : BatchOf[r] = job[w].batch => Resolved(r)

\* The inductive invariant
BankIInv ==
    /\ TypeOK
    /\ LockHeldOnce /\ Checked /\ BankCounted
    /\ OneConfirmation /\ ConfirmedRowsAreDecided /\ CompletedIsResolved

-----------------------------------------------------------------------------
\* What a job that is under way is about.
LEMMA JobFields ==
  ASSUME TypeOK, NEW w \in Workers
  PROVE  /\ job[w].at \in {"confirm", "save"} => job[w].row \in Rows /\ job[w].tx \in Txs
         /\ job[w].at \in {"reject", "ignore", "refresh"} =>
               job[w].row \in Rows /\ job[w].batch \in BatchStatus
         /\ job[w].at = "complete" => job[w].batch \in Batches /\ job[w].to \in BatchStatus
         /\ job[w].at = "ledger" => job[w].tx \in Txs /\ job[w].to \in LedgerState
<1>1. job[w] \in Jobs
  BY DEF TypeOK
<1>2. CASE job[w] = Idle
  BY <1>2 DEF Idle
<1>3. CASE job[w] \in [at : {"confirm", "save"}, row : Rows, tx : Txs]
  BY <1>3
<1>4. CASE job[w] \in [at : {"reject", "ignore", "refresh"}, row : Rows, batch : BatchStatus]
  BY <1>4
<1>5. CASE job[w] \in [at : {"complete"}, batch : Batches, to : BatchStatus]
  BY <1>5
<1>6. CASE job[w] \in [at : {"ledger"}, tx : Txs, to : LedgerState]
  BY <1>6
<1> QED BY <1>1, <1>2, <1>3, <1>4, <1>5, <1>6 DEF Jobs

\* A worker that takes up a job of its own kind leaves the jobs of the others.
LEMMA ContinueJobs ==
  ASSUME TypeOK, NEW w \in Workers, NEW next \in Jobs, Continue(w, next)
  PROVE  /\ job' \in [Workers -> Jobs]
         /\ job'[w] = next
         /\ \A v \in Workers : v # w => job'[v] = job[v]
BY DEF TypeOK, Continue

\* A row once decided stays decided.
ResolvedStay == \A r \in Rows : Resolved(r) => Resolved(r)'

\* Nothing happened yet.
LEMMA InitIInv == Init => BankIInv
<1> SUFFICES ASSUME Init PROVE BankIInv
  OBVIOUS
<1>1. TypeOK
  BY DEF Init, TypeOK, RowStatus, MatchStatus, BatchStatus, LedgerState, Jobs
<1>2. LockHeldOnce /\ Checked /\ BankCounted
  BY DEF Init, LockHeldOnce, Confirming, Checked, BankCounted, Idle
<1>3. OneConfirmation /\ ConfirmedRowsAreDecided
  BY DEF Init, OneConfirmation, ConfirmedRowsAreDecided
<1>4. CompletedIsResolved
  BY ReconciliationAssumption DEF Init, CompletedIsResolved
<1> QED BY <1>1, <1>2, <1>3, <1>4 DEF BankIInv

\* A step that changes no row, no match and no statement, and takes up a job
\* that confirms nothing, keeps everything but what the new job itself claims.
LEMMA PlainJobIInv ==
  ASSUME BankIInv, NEW w \in Workers, NEW next \in Jobs, Continue(w, next),
         next.at \notin {"confirm", "save"},
         next.at = "complete" /\ next.to = "completed" =>
            \A r \in Rows : BatchOf[r] = next.batch => Resolved(r),
         UNCHANGED <<row, match, batch>>, ledger' \in [Txs -> LedgerState]
  PROVE  BankIInv' /\ \A r \in Rows, t \in Txs : match'[r][t] = match[r][t]
<1>0. TypeOK
  BY DEF BankIInv
<1>1. /\ job' \in [Workers -> Jobs] /\ job'[w] = next
      /\ \A v \in Workers : v # w => job'[v] = job[v]
  BY <1>0, ContinueJobs
<1>2. TypeOK'
  BY <1>0, <1>1 DEF TypeOK
<1>3. LockHeldOnce'
  BY <1>1 DEF BankIInv, LockHeldOnce, Confirming
<1>4. Checked'
  BY <1>1 DEF BankIInv, Checked
<1>5. BankCounted'
  BY <1>1 DEF BankIInv, BankCounted, Resolved
<1>6. OneConfirmation' /\ ConfirmedRowsAreDecided' /\ CompletedIsResolved'
  BY DEF BankIInv, OneConfirmation, ConfirmedRowsAreDecided, CompletedIsResolved, Resolved
<1> QED BY <1>2, <1>3, <1>4, <1>5, <1>6 DEF BankIInv

\* A search for candidates leaves decided rows and their matches alone.
LEMMA GenerateBankIInv ==
  ASSUME BankIInv, NEW r \in Rows, GenerateMatches(r)
  PROVE  /\ BankIInv'
         /\ \A s \in Rows, t \in Txs : match[s][t] = "confirmed" => match'[s][t] = "confirmed"
<1> DEFINE candidates == {t \in Txs : <<r, t>> \in Fits /\ ledger[t] = "posted"}
           found == [t \in Txs |-> IF t \in candidates THEN "suggested"
                                   ELSE IF match[r][t] = "suggested" THEN "rejected"
                                   ELSE match[r][t]]
           status == IF candidates # {} THEN "matched" ELSE "staged"
<1>1. /\ Unlocked /\ row[r] \in {"staged", "matched"}
      /\ match' = [match EXCEPT ![r] = found] /\ row' = [row EXCEPT ![r] = status]
      /\ UNCHANGED <<batch, ledger, job>>
  BY DEF GenerateMatches
<1>2. /\ row \in [Rows -> RowStatus] /\ match \in [Rows -> [Txs -> MatchStatus]]
      /\ TypeOK
  BY DEF BankIInv, TypeOK
<1>3. \A t \in Txs : match[r][t] # "confirmed"
  BY <1>1 DEF BankIInv, ConfirmedRowsAreDecided, Resolved
<1>4. \A t \in Txs : found[t] \in MatchStatus /\ found[t] # "confirmed"
  BY <1>2, <1>3 DEF MatchStatus
<1>5. status \in {"staged", "matched"}
  OBVIOUS
<1> HIDE DEF candidates, status
<1>6. /\ \A t \in Txs : match'[r][t] = found[t]
      /\ \A s \in Rows : s # r => match'[s] = match[s] /\ row'[s] = row[s]
      /\ row'[r] = status
  BY <1>1, <1>2
<1>7. match' \in [Rows -> [Txs -> MatchStatus]] /\ row' \in [Rows -> RowStatus]
  BY <1>1, <1>2, <1>4, <1>5 DEF RowStatus
<1> HIDE DEF found
<1>8. TypeOK'
  BY <1>1, <1>2, <1>7 DEF TypeOK
<1>9. \A s \in Rows, t \in Txs : match'[s][t] = "confirmed" <=> match[s][t] = "confirmed"
  BY <1>3, <1>4, <1>6
<1>10. \A s \in Rows : (Resolved(s)' <=> Resolved(s)) /\ (row'[s] = "reconciled" <=> row[s] = "reconciled")
  BY <1>1, <1>5, <1>6 DEF Resolved
<1>11. Confirming = {} /\ LockHeldOnce'
  BY <1>1 DEF Unlocked, LockHeldOnce, Confirming
<1>12. Checked'
  BY <1>1, <1>11 DEF Checked, Confirming
<1>13. BankCounted' /\ CompletedIsResolved'
  BY <1>1, <1>10 DEF BankIInv, BankCounted, CompletedIsResolved
<1>14. OneConfirmation'
  BY <1>9 DEF BankIInv, OneConfirmation
<1>15. ConfirmedRowsAreDecided'
  BY <1>9, <1>10 DEF BankIInv, ConfirmedRowsAreDecided
<1> QED BY <1>8, <1>9, <1>11, <1>12, <1>13, <1>14, <1>15 DEF BankIInv

\* A confirmation begins alone.
LEMMA BeginConfirmIInv ==
  ASSUME BankIInv, NEW w \in Workers, NEW r \in Rows, NEW t \in Txs, BeginConfirm(w, r, t)
  PROVE  BankIInv'
<1> DEFINE next == [at |-> "confirm", row |-> r, tx |-> t]
<1>0. TypeOK /\ next \in Jobs /\ next.at = "confirm"
  BY DEF BankIInv, Jobs
<1>1. Confirming = {} /\ Continue(w, next) /\ UNCHANGED <<row, match, batch, ledger>>
  BY DEF BeginConfirm, Unlocked
<1> HIDE DEF next
<1>2. /\ job' \in [Workers -> Jobs] /\ job'[w] = next
      /\ \A v \in Workers : v # w => job'[v] = job[v]
  BY <1>0, <1>1, ContinueJobs
<1>3. TypeOK'
  BY <1>0, <1>1, <1>2 DEF TypeOK
<1>4. \A v \in Workers : v # w => job'[v].at \notin {"confirm", "save"}
  BY <1>1, <1>2 DEF Confirming
<1>5. LockHeldOnce'
  BY <1>4 DEF LockHeldOnce, Confirming
<1>6. Checked'
  BY <1>0, <1>2, <1>4 DEF Checked
<1>7. BankCounted'
  BY <1>0, <1>1, <1>2 DEF BankIInv, BankCounted, Resolved
<1>8. OneConfirmation' /\ ConfirmedRowsAreDecided' /\ CompletedIsResolved'
  BY <1>1 DEF BankIInv, OneConfirmation, ConfirmedRowsAreDecided, CompletedIsResolved, Resolved
<1> QED BY <1>3, <1>5, <1>6, <1>7, <1>8 DEF BankIInv

\* A confirmation goes on only if it finds no other confirmed match.
LEMMA CheckOthersIInv ==
  ASSUME BankIInv, NEW w \in Workers, CheckOthers(w)
  PROVE  BankIInv'
<1> DEFINE r == job[w].row
           t == job[w].tx
           taken == \/ \E u \in Txs \ {t}  : match[r][u] = "confirmed"
                    \/ \E s \in Rows \ {r} : match[s][t] = "confirmed"
           next == IF taken THEN Idle ELSE [job[w] EXCEPT !.at = "save"]
<1>0. TypeOK
  BY DEF BankIInv
<1>1. job[w].at = "confirm" /\ Continue(w, next) /\ UNCHANGED <<row, match, batch, ledger>>
  BY DEF CheckOthers
<1>2. r \in Rows /\ t \in Txs /\ job[w] \in [at : {"confirm", "save"}, row : Rows, tx : Txs]
  <2>1. job[w] \in Jobs
    BY <1>0 DEF TypeOK
  <2> QED BY <1>0, <1>1, <2>1, JobFields DEF Jobs, Idle
<1>3. CASE taken
  <2>1. next = Idle /\ Idle \in Jobs /\ Idle.at = "idle"
    BY <1>3 DEF Idle, Jobs
  <2>2. ledger' \in [Txs -> LedgerState]
    BY <1>0, <1>1 DEF TypeOK
  <2> HIDE DEF next
  <2> QED BY <1>1, <2>1, <2>2, PlainJobIInv
<1>4. CASE ~ taken
  <2>1. next \in Jobs /\ next.at = "save" /\ next.row = r /\ next.tx = t
    BY <1>2, <1>4 DEF Jobs
  <2>2. /\ \A u \in Txs : u # t => match[r][u] # "confirmed"
        /\ \A s \in Rows : s # r => match[s][t] # "confirmed"
    BY <1>4
  <2> HIDE DEF next, r, t, taken
  <2>3. /\ job' \in [Workers -> Jobs] /\ job'[w] = next
        /\ \A v \in Workers : v # w => job'[v] = job[v]
    BY <1>0, <1>1, <2>1, ContinueJobs
  <2>4. TypeOK'
    BY <1>0, <1>1, <2>3 DEF TypeOK
  <2>5. LockHeldOnce'
    <3>1. Confirming' \subseteq Confirming
      BY <1>1, <2>3 DEF Confirming
    <3> QED BY <3>1 DEF BankIInv, LockHeldOnce
  <2>6. Checked'
    <3> SUFFICES ASSUME NEW v \in Workers, job'[v].at = "save"
                 PROVE  /\ \A u \in Txs : u # job'[v].tx => match'[job'[v].row][u] # "confirmed"
                        /\ \A s \in Rows : s # job'[v].row => match'[s][job'[v].tx] # "confirmed"
      BY DEF Checked
    <3>1. CASE v = w
      BY <1>1, <2>1, <2>2, <2>3, <3>1
    <3>2. CASE v # w
      BY <1>1, <2>3, <3>2 DEF BankIInv, Checked
    <3> QED BY <3>1, <3>2
  <2>7. BankCounted'
    BY <1>1, <2>1, <2>3 DEF BankIInv, BankCounted, Resolved
  <2>8. OneConfirmation' /\ ConfirmedRowsAreDecided' /\ CompletedIsResolved'
    BY <1>1 DEF BankIInv, OneConfirmation, ConfirmedRowsAreDecided, CompletedIsResolved, Resolved
  <2> QED BY <2>4, <2>5, <2>6, <2>7, <2>8 DEF BankIInv
<1> QED BY <1>3, <1>4

\* Confirming a checked match leaves it the only one of its row and its
\* transaction.
LEMMA SaveConfirmIInv ==
  ASSUME BankIInv, NEW w \in Workers, SaveConfirm(w)
  PROVE  /\ BankIInv'
         /\ \A s \in Rows, u \in Txs : match[s][u] = "confirmed" => match'[s][u] = "confirmed"
<1> DEFINE r == job[w].row
           t == job[w].tx
           saved == [u \in Txs |-> IF u = t THEN "confirmed"
                                   ELSE IF match[r][u] = "suggested" THEN "rejected"
                                   ELSE match[r][u]]
<1>0. TypeOK
  BY DEF BankIInv
<1>1. /\ job[w].at = "save" /\ Continue(w, Idle)
      /\ match' = [match EXCEPT ![r] = saved] /\ row' = [row EXCEPT ![r] = "reconciled"]
      /\ UNCHANGED <<batch, ledger>>
  BY DEF SaveConfirm
<1>2. r \in Rows /\ t \in Txs
  BY <1>0, <1>1, JobFields
<1>3. Idle \in Jobs /\ Idle.at = "idle"
  BY DEF Idle, Jobs
<1>4. /\ job' \in [Workers -> Jobs] /\ job'[w] = Idle
      /\ \A v \in Workers : v # w => job'[v] = job[v]
  BY <1>0, <1>1, <1>3, ContinueJobs
<1>5. row \in [Rows -> RowStatus] /\ match \in [Rows -> [Txs -> MatchStatus]]
  BY <1>0 DEF TypeOK
<1>6. /\ \A u \in Txs : u # t => match[r][u] # "confirmed"
      /\ \A s \in Rows : s # r => match[s][t] # "confirmed"
  BY <1>1 DEF BankIInv, Checked
<1>7. saved \in [Txs -> MatchStatus]
  BY <1>5, <1>2 DEF MatchStatus
<1>8. \A u \in Txs : saved[u] = "confirmed" <=> u = t
  BY <1>6
<1> HIDE DEF saved, r, t
<1>9. /\ match' \in [Rows -> [Txs -> MatchStatus]] /\ row' \in [Rows -> RowStatus]
      /\ match'[r] = saved /\ row'[r] = "reconciled"
      /\ \A s \in Rows : s # r => match'[s] = match[s] /\ row'[s] = row[s]
  BY <1>1, <1>2, <1>5, <1>7 DEF RowStatus
<1>10. TypeOK'
  BY <1>0, <1>1, <1>4, <1>9 DEF TypeOK
<1>11. \A v \in Workers : job'[v].at \notin {"confirm", "save"}
  BY <1>1, <1>3, <1>4 DEF BankIInv, LockHeldOnce, Confirming
<1>12. LockHeldOnce' /\ Checked'
  BY <1>11 DEF LockHeldOnce, Confirming, Checked
<1>13. \A s \in Rows : Resolved(s) => Resolved(s)'
  BY <1>9 DEF Resolved
<1>14. BankCounted'
  BY <1>3, <1>4, <1>13 DEF BankIInv, BankCounted
<1>15. CompletedIsResolved'
  BY <1>1, <1>13 DEF BankIInv, CompletedIsResolved
<1>16. OneConfirmation'
  <2> SUFFICES ASSUME NEW s \in Rows, NEW z \in Rows, NEW u \in Txs, NEW v \in Txs,
                      match'[s][u] = "confirmed", match'[z][v] = "confirmed", s = z \/ u = v
               PROVE  s = z /\ u = v
    BY DEF OneConfirmation
  <2>1. CASE s = r /\ z = r
    BY <1>8, <1>9, <2>1
  <2>2. CASE s = r /\ z # r
    BY <1>6, <1>8, <1>9, <2>2
  <2>3. CASE s # r /\ z = r
    BY <1>6, <1>8, <1>9, <2>3
  <2>4. CASE s # r /\ z # r
    BY <1>9, <2>4 DEF BankIInv, OneConfirmation
  <2> QED BY <2>1, <2>2, <2>3, <2>4
<1>17. ConfirmedRowsAreDecided'
  <2> SUFFICES ASSUME NEW s \in Rows
               PROVE  /\ \A u \in Txs : match'[s][u] = "confirmed" => Resolved(s)'
                      /\ row'[s] = "reconciled" => \E u \in Txs : match'[s][u] = "confirmed"
    BY DEF ConfirmedRowsAreDecided
  <2>1. CASE s = r
    BY <1>2, <1>8, <1>9, <2>1 DEF Resolved
  <2>2. CASE s # r
    BY <1>9, <2>2 DEF BankIInv, ConfirmedRowsAreDecided, Resolved
  <2> QED BY <2>1, <2>2
<1>18. \A s \in Rows, u \in Txs : match[s][u] = "confirmed" => match'[s][u] = "confirmed"
  BY <1>6, <1>8, <1>9
<1> QED BY <1>10, <1>12, <1>14, <1>15, <1>16, <1>17, <1>18 DEF BankIInv

\* Rejecting the suggestions of a row touches no confirmed match.
LEMMA RejectSuggestedIInv ==
  ASSUME BankIInv, NEW w \in Workers, RejectSuggested(w)
  PROVE  /\ BankIInv'
         /\ \A s \in Rows, u \in Txs : match[s][u] = "confirmed" => match'[s][u] = "confirmed"
<1> DEFINE r == job[w].row
           left == [u \in Txs |-> IF match[r][u] = "suggested" THEN "rejected" ELSE match[r][u]]
           next == [job[w] EXCEPT !.at = "ignore"]
<1>0. TypeOK
  BY DEF BankIInv
<1>1. /\ job[w].at = "reject" /\ Continue(w, next) /\ match' = [match EXCEPT ![r] = left]
      /\ UNCHANGED <<row, batch, ledger>>
  BY DEF RejectSuggested
<1>2. /\ r \in Rows
      /\ job[w] \in [at : {"reject", "ignore", "refresh"}, row : Rows, batch : BatchStatus]
  <2>1. job[w] \in Jobs
    BY <1>0 DEF TypeOK
  <2> QED BY <1>0, <1>1, <2>1, JobFields DEF Jobs, Idle
<1>3. next \in Jobs /\ next.at = "ignore"
  BY <1>2 DEF Jobs
<1> HIDE DEF next
<1>4. /\ job' \in [Workers -> Jobs] /\ job'[w] = next
      /\ \A v \in Workers : v # w => job'[v] = job[v]
  BY <1>0, <1>1, <1>3, ContinueJobs
<1>5. match \in [Rows -> [Txs -> MatchStatus]]
  BY <1>0 DEF TypeOK
<1>6. /\ left \in [Txs -> MatchStatus]
      /\ \A u \in Txs : left[u] = "confirmed" <=> match[r][u] = "confirmed"
  BY <1>2, <1>5 DEF MatchStatus
<1> HIDE DEF left, r
<1>7. /\ match' \in [Rows -> [Txs -> MatchStatus]] /\ match'[r] = left
      /\ \A s \in Rows : s # r => match'[s] = match[s]
  BY <1>1, <1>2, <1>5, <1>6
<1>8. \A s \in Rows, u \in Txs : match'[s][u] = "confirmed" <=> match[s][u] = "confirmed"
  BY <1>6, <1>7
<1>9. TypeOK'
  BY <1>0, <1>1, <1>4, <1>7 DEF TypeOK
<1>10. Confirming' = Confirming /\ \A v \in Confirming : job'[v] = job[v]
  BY <1>1, <1>3, <1>4 DEF Confirming
<1>11. LockHeldOnce'
  BY <1>10 DEF BankIInv, LockHeldOnce
<1>12. Checked'
  <2> SUFFICES ASSUME NEW v \in Workers, job'[v].at = "save"
               PROVE  /\ \A u \in Txs : u # job'[v].tx => match'[job'[v].row][u] # "confirmed"
                      /\ \A s \in Rows : s # job'[v].row => match'[s][job'[v].tx] # "confirmed"
    BY DEF Checked
  <2>1. job'[v] = job[v] /\ job[v].row \in Rows /\ job[v].tx \in Txs
    BY <1>0, <1>3, <1>4, JobFields
  <2> QED BY <1>8, <2>1 DEF BankIInv, Checked
<1>13. BankCounted' /\ CompletedIsResolved'
  BY <1>1, <1>3, <1>4 DEF BankIInv, BankCounted, CompletedIsResolved, Resolved
<1>14. OneConfirmation'
  BY <1>8 DEF BankIInv, OneConfirmation
<1>15. ConfirmedRowsAreDecided'
  BY <1>1, <1>8 DEF BankIInv, ConfirmedRowsAreDecided, Resolved
<1> QED BY <1>8, <1>9, <1>11, <1>12, <1>13, <1>14, <1>15 DEF BankIInv

\* Ignoring a row decides it, whatever it was.
LEMMA SaveIgnoredIInv ==
  ASSUME BankIInv, NEW w \in Workers, SaveIgnored(w)
  PROVE  BankIInv' /\ match' = match
<1> DEFINE r == job[w].row
           next == [job[w] EXCEPT !.at = "refresh"]
<1>0. TypeOK
  BY DEF BankIInv
<1>1. /\ job[w].at = "ignore" /\ Continue(w, next) /\ row' = [row EXCEPT ![r] = "ignored"]
      /\ UNCHANGED <<match, batch, ledger>>
  BY DEF SaveIgnored
<1>2. /\ r \in Rows
      /\ job[w] \in [at : {"reject", "ignore", "refresh"}, row : Rows, batch : BatchStatus]
  <2>1. job[w] \in Jobs
    BY <1>0 DEF TypeOK
  <2> QED BY <1>0, <1>1, <2>1, JobFields DEF Jobs, Idle
<1>3. next \in Jobs /\ next.at = "refresh"
  BY <1>2 DEF Jobs
<1> HIDE DEF next, r
<1>4. /\ job' \in [Workers -> Jobs] /\ job'[w] = next
      /\ \A v \in Workers : v # w => job'[v] = job[v]
  BY <1>0, <1>1, <1>3, ContinueJobs
<1>5. /\ row' \in [Rows -> RowStatus] /\ row'[r] = "ignored"
      /\ \A s \in Rows : s # r => row'[s] = row[s]
  BY <1>0, <1>1, <1>2 DEF TypeOK, RowStatus
<1>6. TypeOK'
  BY <1>0, <1>1, <1>4, <1>5 DEF TypeOK
<1>7. LockHeldOnce'
  BY <1>3, <1>4 DEF BankIInv, LockHeldOnce, Confirming
<1>8. Checked'
  BY <1>1, <1>3, <1>4 DEF BankIInv, Checked
<1>9. \A s \in Rows : Resolved(s) => Resolved(s)'
  BY <1>5 DEF Resolved
<1>10. BankCounted' /\ CompletedIsResolved'
  BY <1>1, <1>3, <1>4, <1>9 DEF BankIInv, BankCounted, CompletedIsResolved
<1>11. OneConfirmation'
  BY <1>1 DEF BankIInv, OneConfirmation
<1>12. ConfirmedRowsAreDecided'
  BY <1>1, <1>5, <1>9 DEF BankIInv, ConfirmedRowsAreDecided
<1> QED BY <1>1, <1>6, <1>7, <1>8, <1>10, <1>11, <1>12 DEF BankIInv

\* A statement's status is saved as Reviewed, or as Completed by a request that
\* counted no unresolved row.
LEMMA SaveBatchIInv ==
  ASSUME BankIInv, NEW w \in Workers, NEW b \in Batches, NEW status \in BatchStatus,
         status = "completed" => \A r \in Rows : BatchOf[r] = b => Resolved(r),
         batch' = [batch EXCEPT ![b] = status], Continue(w, Idle),
         UNCHANGED <<row, match, ledger>>
  PROVE  BankIInv' /\ match' = match
<1>0. TypeOK
  BY DEF BankIInv
<1>1. Idle \in Jobs /\ Idle.at = "idle"
  BY DEF Idle, Jobs
<1>2. /\ job' \in [Workers -> Jobs] /\ job'[w] = Idle
      /\ \A v \in Workers : v # w => job'[v] = job[v]
  BY <1>0, <1>1, ContinueJobs
<1>3. /\ batch' \in [Batches -> BatchStatus]
      /\ \A c \in Batches : batch'[c] = IF c = b THEN status ELSE batch[c]
  BY <1>0 DEF TypeOK
<1>4. TypeOK'
  BY <1>0, <1>2, <1>3 DEF TypeOK
<1>5. LockHeldOnce'
  BY <1>1, <1>2 DEF BankIInv, LockHeldOnce, Confirming
<1>6. Checked' /\ BankCounted'
  BY <1>1, <1>2 DEF BankIInv, Checked, BankCounted, Resolved
<1>7. CompletedIsResolved'
  <2>1. \A r \in Rows : BatchOf[r] \in Batches
    BY ReconciliationAssumption
  <2> QED BY <1>3, <2>1 DEF BankIInv, CompletedIsResolved, Resolved
<1>8. OneConfirmation' /\ ConfirmedRowsAreDecided'
  BY DEF BankIInv, OneConfirmation, ConfirmedRowsAreDecided, Resolved
<1> QED BY <1>4, <1>5, <1>6, <1>7, <1>8 DEF BankIInv

\* The refresh after an ignored row.
LEMMA RefreshBatchIInv ==
  ASSUME BankIInv, NEW w \in Workers, RefreshBatch(w)
  PROVE  BankIInv' /\ match' = match
<1> DEFINE b == BatchOf[job[w].row]
<1>1. job[w].at = "refresh" /\ Continue(w, Idle) /\ UNCHANGED <<row, match, ledger>>
  BY DEF RefreshBatch
<1>2. b \in Batches /\ "reviewed" \in BatchStatus
  BY <1>1, JobFields, ReconciliationAssumption DEF BankIInv, BatchStatus
<1>3. CASE job[w].batch = "staged"
  <2>1. batch' = [batch EXCEPT ![b] = "reviewed"]
    BY <1>3 DEF RefreshBatch
  <2> HIDE DEF b
  <2> QED BY <1>1, <1>2, <2>1, SaveBatchIInv
<1>4. CASE job[w].batch # "staged"
  <2>1. UNCHANGED batch
    BY <1>4 DEF RefreshBatch
  <2>2. Idle \in Jobs /\ Idle.at = "idle" /\ ledger' \in [Txs -> LedgerState]
    BY <1>1 DEF Idle, Jobs, BankIInv, TypeOK
  <2> QED BY <1>1, <2>1, <2>2, PlainJobIInv
<1> QED BY <1>3, <1>4

\* The end of a review.
LEMMA SaveReviewIInv ==
  ASSUME BankIInv, NEW w \in Workers, SaveReview(w)
  PROVE  BankIInv' /\ match' = match
<1>1. /\ job[w].at = "complete" /\ Continue(w, Idle) /\ UNCHANGED <<row, match, ledger>>
      /\ batch' = [batch EXCEPT ![job[w].batch] = job[w].to]
  BY DEF SaveReview
<1>2. job[w].batch \in Batches /\ job[w].to \in BatchStatus
  BY <1>1, JobFields DEF BankIInv
<1>3. job[w].to = "completed" => \A r \in Rows : BatchOf[r] = job[w].batch => Resolved(r)
  BY <1>1 DEF BankIInv, BankCounted
<1> QED BY <1>1, <1>2, <1>3, SaveBatchIInv

-----------------------------------------------------------------------------
\* No step breaks the invariant, and none takes back a confirmation.
LEMMA NextIInv ==
  BankIInv /\ [Next]_vars =>
    /\ BankIInv'
    /\ \A s \in Rows, u \in Txs : match[s][u] = "confirmed" => match'[s][u] = "confirmed"
<1> DEFINE Stay == \A s \in Rows, u \in Txs :
                      match[s][u] = "confirmed" => match'[s][u] = "confirmed"
<1> SUFFICES ASSUME BankIInv, [Next]_vars PROVE BankIInv' /\ Stay
  OBVIOUS
<1>0. ledger \in [Txs -> LedgerState] /\ Idle \in Jobs /\ Idle.at = "idle"
  BY DEF BankIInv, TypeOK, Jobs, Idle
<1>1. ASSUME NEW r \in Rows, GenerateMatches(r) PROVE BankIInv' /\ Stay
  BY <1>1, GenerateBankIInv
<1>2. ASSUME NEW w \in Workers, NEW r \in Rows, NEW t \in Txs, BeginConfirm(w, r, t)
      PROVE  BankIInv' /\ Stay
  BY <1>2, BeginConfirmIInv DEF BeginConfirm
<1>3. ASSUME NEW w \in Workers, CheckOthers(w) PROVE BankIInv' /\ Stay
  BY <1>3, CheckOthersIInv DEF CheckOthers
<1>4. ASSUME NEW w \in Workers, SaveConfirm(w) PROVE BankIInv' /\ Stay
  BY <1>4, SaveConfirmIInv
<1>5. ASSUME NEW w \in Workers, NEW r \in Rows, BeginIgnore(w, r) PROVE BankIInv' /\ Stay
  <2> DEFINE next == [at |-> "reject", row |-> r, batch |-> batch[BatchOf[r]]]
  <2>1. batch[BatchOf[r]] \in BatchStatus
    BY ReconciliationAssumption DEF BankIInv, TypeOK
  <2>2. next \in Jobs /\ next.at = "reject"
    BY <2>1 DEF Jobs
  <2>3. Continue(w, next) /\ UNCHANGED <<row, match, batch, ledger>>
    BY <1>5 DEF BeginIgnore
  <2> HIDE DEF next
  <2> QED BY <1>0, <2>2, <2>3, PlainJobIInv
<1>6. ASSUME NEW w \in Workers, RejectSuggested(w) PROVE BankIInv' /\ Stay
  BY <1>6, RejectSuggestedIInv
<1>7. ASSUME NEW w \in Workers, SaveIgnored(w) PROVE BankIInv' /\ Stay
  BY <1>7, SaveIgnoredIInv
<1>8. ASSUME NEW w \in Workers, RefreshBatch(w) PROVE BankIInv' /\ Stay
  BY <1>8, RefreshBatchIInv
<1>9. ASSUME NEW w \in Workers, NEW b \in Batches, CountUnresolved(w, b) PROVE BankIInv' /\ Stay
  <2> DEFINE unresolved == {r \in Rows : BatchOf[r] = b /\ ~ Resolved(r)}
             next == [at |-> "complete", batch |-> b,
                      to |-> IF unresolved = {} THEN "completed" ELSE "reviewed"]
  <2>1. next \in Jobs /\ next.at = "complete" /\ next.batch = b
    BY DEF Jobs, BatchStatus
  <2>2. next.to = "completed" => unresolved = {}
    OBVIOUS
  <2>3. Continue(w, next) /\ UNCHANGED <<row, match, batch, ledger>>
    BY <1>9 DEF CountUnresolved
  <2>4. next.to = "completed" => \A r \in Rows : BatchOf[r] = next.batch => Resolved(r)
    BY <2>1, <2>2
  <2> HIDE DEF next
  <2> QED BY <1>0, <2>1, <2>3, <2>4, PlainJobIInv
<1>10. ASSUME NEW w \in Workers, SaveReview(w) PROVE BankIInv' /\ Stay
  BY <1>10, SaveReviewIInv
<1>11. ASSUME NEW w \in Workers, NEW t \in Txs, NEW to \in LedgerState, BeginLedger(w, t, to)
       PROVE  BankIInv' /\ Stay
  <2> DEFINE next == [at |-> "ledger", tx |-> t, to |-> to]
  <2>1. next \in Jobs /\ next.at = "ledger"
    BY DEF Jobs
  <2>2. Continue(w, next) /\ UNCHANGED <<row, match, batch, ledger>>
    BY <1>11 DEF BeginLedger
  <2> HIDE DEF next
  <2> QED BY <1>0, <2>1, <2>2, PlainJobIInv
<1>12. ASSUME NEW w \in Workers, SaveLedger(w) PROVE BankIInv' /\ Stay
  <2>1. job[w].at = "ledger" /\ Continue(w, Idle) /\ UNCHANGED <<row, match, batch>>
        /\ ledger' = [ledger EXCEPT ![job[w].tx] = job[w].to]
    BY <1>12 DEF SaveLedger
  <2>2. job[w].to \in LedgerState
    BY <2>1, JobFields DEF BankIInv
  <2>3. ledger' \in [Txs -> LedgerState]
    BY <1>0, <2>1, <2>2
  <2> QED BY <1>0, <2>1, <2>3, PlainJobIInv
<1>13. CASE UNCHANGED vars
  <2>1. TypeOK' /\ LockHeldOnce' /\ Checked' /\ BankCounted'
    BY <1>13 DEF vars, BankIInv, TypeOK, LockHeldOnce, Confirming, Checked, BankCounted, Resolved
  <2>2. OneConfirmation' /\ ConfirmedRowsAreDecided' /\ CompletedIsResolved'
    BY <1>13 DEF vars, BankIInv, OneConfirmation, ConfirmedRowsAreDecided, CompletedIsResolved, Resolved
  <2> QED BY <1>13, <2>1, <2>2 DEF vars, BankIInv
<1> QED BY <1>1, <1>2, <1>3, <1>4, <1>5, <1>6, <1>7, <1>8, <1>9, <1>10, <1>11, <1>12, <1>13
        DEF Next

\* The invariant holds in every state.
THEOREM BankInvariance == Spec => []BankIInv
BY InitIInv, NextIInv, PTL DEF Spec

\* Every status is one the code knows.
THEOREM BankTypeCorrect == Spec => []TypeOK
<1>1. BankIInv => TypeOK
  BY DEF BankIInv
<1> QED BY <1>1, BankInvariance, PTL

\* No bank row and no ledger transaction is confirmed twice.
THEOREM ConfirmedOnce == Spec => []OneConfirmation
<1>1. BankIInv => OneConfirmation
  BY DEF BankIInv
<1> QED BY <1>1, BankInvariance, PTL

\* Confirmed rows are decided, and reconciled rows are confirmed.
THEOREM ConfirmedDecided == Spec => []ConfirmedRowsAreDecided
<1>1. BankIInv => ConfirmedRowsAreDecided
  BY DEF BankIInv
<1> QED BY <1>1, BankInvariance, PTL

\* A completed statement has no undecided row.
THEOREM CompletedResolved == Spec => []CompletedIsResolved
<1>1. BankIInv => CompletedIsResolved
  BY DEF BankIInv
<1> QED BY <1>1, BankInvariance, PTL

\* No step takes back a confirmation.
THEOREM ConfirmationsAreKept == Spec => ConfirmationsStay
<1>1. BankIInv /\ [Next]_vars =>
        [\A r \in Rows, t \in Txs : match[r][t] = "confirmed" => match'[r][t] = "confirmed"]_vars
  BY NextIInv
<1> QED BY <1>1, BankInvariance, PTL DEF Spec, ConfirmationsStay
=============================================================================
