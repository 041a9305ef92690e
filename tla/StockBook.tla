----------------------------- MODULE StockBook -----------------------------
(***************************************************************************)
(* What the inventory of ArenaLine promises for one item: a quantity per   *)
(* storage space and a history of movements, changed together, one         *)
(* movement at a time, never below nothing.  This is how somebody reads    *)
(* the item page; how concurrent requests, row locks and refusals get      *)
(* there is the subject of Inventory, which implements this module.        *)
(***************************************************************************)
EXTENDS LedgerSums, Sequences

CONSTANTS
    Spaces,   \* storage spaces
    Limit     \* the largest quantity a column can hold (max_digits)

VARIABLES
    onHand,   \* space -> quantity on hand
    journal   \* the movements, oldest first

vars == <<onHand, journal>>

Quantities == 0..Limit

\* One row of InventoryTransaction.  "key" links the two sides of a transfer.
Movement(type, x, q, direction, key) ==
    [type |-> type, space |-> x, quantity |-> q, direction |-> direction, key |-> key]

\* What a row adds to the stock of its space
Effect(row) ==
    IF row.type \in {"receive", "transfer_in"} \/ row.direction = "increase"
    THEN row.quantity ELSE -row.quantity

Init ==
    /\ onHand = [x \in Spaces |-> 0]
    /\ journal = <<>>

Receive(x, q) ==
    /\ q > 0
    /\ onHand' = [onHand EXCEPT ![x] = @ + q]
    /\ journal' = journal \o <<Movement("receive", x, q, "", 0)>>

Consume(x, q) ==
    /\ q > 0
    /\ onHand[x] >= q
    /\ onHand' = [onHand EXCEPT ![x] = @ - q]
    /\ journal' = journal \o <<Movement("consume", x, q, "", 0)>>

\* A physical count: the history records the difference only.
Adjust(x, count) ==
    /\ count # onHand[x]
    /\ onHand' = [onHand EXCEPT ![x] = count]
    /\ journal' = journal \o
          <<IF count > onHand[x]
            THEN Movement("adjust", x, count - onHand[x], "increase", 0)
            ELSE Movement("adjust", x, onHand[x] - count, "decrease", 0)>>

Transfer(x, y, q) ==
    /\ q > 0
    /\ x # y
    /\ onHand[x] >= q
    /\ onHand' = [onHand EXCEPT ![x] = @ - q, ![y] = @ + q]
    /\ journal' = journal \o
          <<Movement("transfer_out", x, q, "", Len(journal) + 1),
            Movement("transfer_in",  y, q, "", Len(journal) + 1)>>

Next ==
    \E x \in Spaces, q \in Quantities :
       \/ Receive(x, q)
       \/ Consume(x, q)
       \/ Adjust(x, q)
       \/ \E y \in Spaces : Transfer(x, y, q)

Spec == Init /\ [][Next]_vars

-----------------------------------------------------------------------------
\* What the history says is on hand in a space
NetOf(rows, x) ==
    SumTo([i \in 1..Len(rows) |-> IF rows[i].space = x THEN Effect(rows[i]) ELSE 0], Len(rows))

\* The materialized quantity of every space is the sum of its movements: the
\* history explains all the stock there is, and no movement is lost.
OnHandMatchesJournal == \A x \in Spaces : onHand[x] = NetOf(journal, x)
=============================================================================
