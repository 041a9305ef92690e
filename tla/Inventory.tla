----------------------------- MODULE Inventory -----------------------------
(***************************************************************************)
(* The stock operations of services/inventory_operations.py for one item,  *)
(* run by several workers.  Each operation locks the stock row of its      *)
(* space (a transfer locks the source first, then the destination), works  *)
(* on the quantity it read under the lock, and saves the quantity and the  *)
(* history rows in the transaction that releases the locks.  Two opposite  *)
(* transfers can wait for each other; the database then aborts one.        *)
(*                                                                         *)
(* get_or_create makes a row that is missing; a missing row is locked like *)
(* an existing one, by the unique index on (item, space), so the lock is   *)
(* kept per space here and "rows" tells which spaces have their row.       *)
(***************************************************************************)
EXTENDS LedgerSums, Sequences, FiniteSets

CONSTANTS
    Workers,      \* concurrent requests
    Spaces,       \* facility spaces of the item's organization
    Limit,        \* the largest quantity a column can hold (max_digits)
    MaxHistory,   \* bound: history rows ever written
    None          \* nobody

ASSUME InventoryAssumption ==
    /\ Limit \in Nat
    /\ MaxHistory \in Nat
    /\ None \notin Workers

VARIABLES
    capable,    \* spaces with inventory_storage_capable set
    rows,       \* spaces that have a stock row
    stock,      \* space -> committed quantity (0 without a row)
    history,    \* the InventoryTransaction rows
    lock,       \* space -> worker whose transaction locks its row, or None
    pc,         \* worker -> where its request is
    request,    \* worker -> the request
    seen        \* worker -> space -> quantity of the instance it loaded

vars == <<capable, rows, stock, history, lock, pc, request, seen>>

\* The atomic book that these operations implement.
Book == INSTANCE StockBook WITH onHand <- stock, journal <- history

Requests == [op : {"receive", "consume", "adjust", "transfer"},
             space : Spaces, to : Spaces, quantity : 0..Limit]

Nothing  == [x \in Spaces |-> 0]
NoRequest == [op |-> "none"]

Init ==
    /\ capable = Spaces
    /\ rows = {}
    /\ stock = Nothing
    /\ history = <<>>
    /\ lock = [x \in Spaces |-> None]
    /\ pc = [w \in Workers |-> "idle"]
    /\ request = [w \in Workers |-> NoRequest]
    /\ seen = [w \in Workers |-> Nothing]

-----------------------------------------------------------------------------
\* Bound: room for the rows of this request and of those in progress
RoomInHistory(w) ==
    Len(history) + 2 * Cardinality({v \in Workers : v = w \/ pc[v] # "idle"}) <= MaxHistory

\* The checks before any lock: _quantity, _validate_location, and that a
\* transfer has two ends.
Wellformed(r) ==
    /\ r.op # "adjust" => r.quantity > 0
    /\ r.space \in capable /\ r.to \in capable
    /\ r.op = "transfer" <=> r.to # r.space

Begin(w, r) ==
    /\ pc[w] = "idle"
    /\ Wellformed(r)
    /\ RoomInHistory(w)
    /\ request' = [request EXCEPT ![w] = r]
    /\ pc' = [pc EXCEPT ![w] = "lock"]
    /\ UNCHANGED <<capable, rows, stock, history, lock, seen>>

\* The transaction of w ends and with it the request.
Release(w) ==
    /\ lock' = [x \in Spaces |-> IF lock[x] = w THEN None ELSE lock[x]]
    /\ pc' = [pc EXCEPT ![w] = "idle"]
    /\ request' = [request EXCEPT ![w] = NoRequest]
    /\ seen' = [seen EXCEPT ![w] = Nothing]

Rollback(w) == Release(w) /\ UNCHANGED <<capable, rows, stock, history>>

\* Mutation: get_or_create without select_for_update.
Take_Unlocked(w, x) ==
    /\ seen' = [seen EXCEPT ![w][x] = stock[x]]
    /\ UNCHANGED lock

\* _locked_stock
Take(w, x) ==
    /\ lock[x] = None
    /\ lock' = [lock EXCEPT ![x] = w]
    /\ seen' = [seen EXCEPT ![w][x] = stock[x]]

\* The check made on the locked row: enough to take from, or a count that
\* differs from it.
Acceptable(w) ==
    LET r == request[w] IN
    /\ r.op \in {"consume", "transfer"} => stock[r.space] >= r.quantity
    /\ r.op = "adjust" => stock[r.space] # r.quantity

Lock(w) ==
    /\ pc[w] = "lock"
    /\ Acceptable(w)
    /\ Take(w, request[w].space)
    /\ pc' = [pc EXCEPT ![w] = IF request[w].op = "transfer"
                               THEN "lock destination" ELSE "save"]
    /\ UNCHANGED <<capable, rows, stock, history, request>>

\* Mutation: a request that finds too little waits for more instead of failing.
Refuse_Retry(w) ==
    /\ pc[w] = "lock"
    /\ lock[request[w].space] = None
    /\ ~ Acceptable(w)
    /\ UNCHANGED vars

\* The lock is granted and given back at once, since the check fails.
Refuse(w) ==
    /\ pc[w] = "lock"
    /\ lock[request[w].space] = None
    /\ ~ Acceptable(w)
    /\ Rollback(w)

LockDestination(w) ==
    /\ pc[w] = "lock destination"
    /\ Take(w, request[w].to)
    /\ pc' = [pc EXCEPT ![w] = "save"]
    /\ UNCHANGED <<capable, rows, stock, history, request>>

\* The quantities w is about to save, from those it loaded
Result(w) ==
    LET r == request[w]
        q == seen[w][r.space]
    IN  CASE r.op = "receive"  -> [stock EXCEPT ![r.space] = q + r.quantity]
          [] r.op = "consume"  -> [stock EXCEPT ![r.space] = q - r.quantity]
          [] r.op = "adjust"   -> [stock EXCEPT ![r.space] = r.quantity]
          [] r.op = "transfer" -> [stock EXCEPT ![r.space] = q - r.quantity,
                                                ![r.to] = seen[w][r.to] + r.quantity]

\* Mutation: the transfer forgets the row of its second side.
Entries_OneSided(w) ==
    LET r == request[w]
        q == seen[w][r.space]
        More(n) == Book!Movement("adjust", r.space, n, "increase", 0)
        Less(n) == Book!Movement("adjust", r.space, n, "decrease", 0)
    IN  CASE r.op \in {"receive", "consume"} ->
               <<Book!Movement(r.op, r.space, r.quantity, "", 0)>>
          [] r.op = "adjust" ->
               <<IF r.quantity > q THEN More(r.quantity - q) ELSE Less(q - r.quantity)>>
          [] r.op = "transfer" ->
               <<Book!Movement("transfer_out", r.space, r.quantity, "", Len(history) + 1)>>

\* The history rows w is about to insert
Entries(w) ==
    LET r == request[w]
        q == seen[w][r.space]
        More(n) == Book!Movement("adjust", r.space, n, "increase", 0)
        Less(n) == Book!Movement("adjust", r.space, n, "decrease", 0)
    IN  CASE r.op \in {"receive", "consume"} ->
               <<Book!Movement(r.op, r.space, r.quantity, "", 0)>>
          [] r.op = "adjust" ->
               <<IF r.quantity > q THEN More(r.quantity - q) ELSE Less(q - r.quantity)>>
          [] r.op = "transfer" ->
               <<Book!Movement("transfer_out", r.space, r.quantity, "", Len(history) + 1),
                 Book!Movement("transfer_in",  r.to,    r.quantity, "", Len(history) + 1)>>

Touched(w) == {request[w].space, request[w].to}

\* Mutation: full_clean is not called on the stock row.
Clean_Skipped(w) == Touched(w) \intersect rows \subseteq capable

\* stock.full_clean(): the quantity fits its column, and a row that existed
\* before reads its space again.
Clean(w) ==
    /\ \A x \in Touched(w) : Result(w)[x] \in 0..Limit
    /\ Touched(w) \intersect rows \subseteq capable

Save(w) ==
    /\ pc[w] = "save"
    /\ Clean(w)
    /\ stock' = Result(w)
    /\ rows' = rows \union Touched(w)
    /\ history' = history \o Entries(w)
    /\ Release(w)
    /\ UNCHANGED capable

FailClean(w) ==
    /\ pc[w] = "save"
    /\ ~ Clean(w)
    /\ Rollback(w)

-----------------------------------------------------------------------------
\* The worker w waits for, when w waits for a lock that is taken
Holder(w) ==
    IF pc[w] = "lock" THEN lock[request[w].space]
    ELSE IF pc[w] = "lock destination" THEN lock[request[w].to]
    ELSE None

\* The workers of S wait for each other in a circle.
Deadlocked(S) == S # {} /\ {Holder(w) : w \in S} = S

\* The database finds a circle and aborts one of its transactions.
DeadlockAbort(w) ==
    /\ \E S \in SUBSET Workers : w \in S /\ Deadlocked(S)
    /\ Rollback(w)

\* facility_space_edit saves the capability without a look at the stock.
EditSpace(x) ==
    /\ capable' = IF x \in capable THEN capable \ {x} ELSE capable \union {x}
    /\ UNCHANGED <<rows, stock, history, lock, pc, request, seen>>

-----------------------------------------------------------------------------
Step(w) == Lock(w) \/ Refuse(w) \/ LockDestination(w) \/ Save(w) \/ FailClean(w)

Next ==
    \/ \E w \in Workers :
          \/ \E r \in Requests : Begin(w, r)
          \/ Step(w)
          \/ DeadlockAbort(w)
    \/ \E x \in Spaces : EditSpace(x)

\* A worker keeps running its request, row locks are queued for (so a worker
\* that is granted the chance over and over gets its lock), and the deadlock
\* detector looks at every circle.
Fairness ==
    /\ \A w \in Workers : SF_vars(Step(w))
    /\ WF_vars(\E w \in Workers : DeadlockAbort(w))

Spec == Init /\ [][Next]_vars /\ Fairness

-----------------------------------------------------------------------------
(* Properties.                                                             *)

TypeOK ==
    /\ capable \subseteq Spaces
    /\ rows \subseteq Spaces
    /\ stock \in [Spaces -> 0..Limit]
    /\ lock \in [Spaces -> Workers \union {None}]
    /\ pc \in [Workers -> {"idle", "lock", "lock destination", "save"}]
    /\ request \in [Workers -> Requests \union {NoRequest}]
    /\ seen \in [Workers -> [Spaces -> 0..Limit]]

\* However requests interleave, the stock of every space is what the history
\* adds up to: no two requests work from the same quantity and lose one of the
\* two movements.
StockMatchesHistory == Book!OnHandMatchesJournal

\* Every request is one indivisible movement of the stock book, or none at all.
\* A transfer, in particular, takes from one space, adds to the other and writes
\* both history rows in one step.
ImplementsBook == Book!Spec

\* Every request ends, in spite of the transfers that lock their two rows in
\* opposite orders: none waits forever.
RequestsEnd == \A w \in Workers : pc[w] # "idle" ~> pc[w] = "idle"
=============================================================================
