-------------------------- MODULE InventoryProofs --------------------------
(***************************************************************************)
(* Whatever the number of workers, spaces and requests, the row locks make *)
(* every inventory request one movement of the stock book.                 *)
(***************************************************************************)
EXTENDS Inventory, LedgerSumsTheorems, TLAPS

(*----------------------------- the stock book ----------------------------*)
\* The sums of the book are those of the ledger.
LEMMA BookSums ==
  ASSUME NEW f, NEW n
  PROVE  Book!SumTo(f, n) = SumTo(f, n)
BY DEF SumTo, Book!SumTo

\* A row of the history, as far as its effect on the stock goes
Row == [type : {"receive", "consume", "adjust", "transfer_out", "transfer_in"},
        space : Spaces, quantity : Nat, direction : {"", "increase", "decrease"}, key : Nat]

\* What row i adds to space x, and the whole column of them
Term(row, x)     == IF row.space = x THEN Book!Effect(row) ELSE 0
Terms(book, x)   == [i \in 1..Len(book) |-> Term(book[i], x)]

\* Book!NetOf counts the terms of every row.
LEMMA NetOfTerms ==
  ASSUME NEW book, NEW x
  PROVE  Book!NetOf(book, x) = SumTo(Terms(book, x), Len(book))
BY BookSums DEF Book!NetOf, Terms, Term

\* Every row adds an integer.
LEMMA TermIsInt ==
  ASSUME NEW row \in Row, NEW x
  PROVE  Term(row, x) \in Int
<1>1. row.quantity \in Nat
  BY DEF Row
<1>2. Book!Effect(row) = row.quantity \/ Book!Effect(row) = -row.quantity
  BY DEF Book!Effect
<1>3. Book!Effect(row) \in Int
  BY <1>1, <1>2
<1> QED BY <1>3 DEF Term

\* One row at the end of a sequence of rows
LEMMA AppendOne ==
  ASSUME NEW book \in Seq(Row), NEW r \in Row
  PROVE  book \o <<r>> = Append(book, r) /\ Append(book, r) \in Seq(Row)
<1> HIDE DEF Row
<1> QED OBVIOUS

\* Two book at the end of a sequence of rows
LEMMA AppendTwo ==
  ASSUME NEW book \in Seq(Row), NEW r \in Row, NEW s \in Row
  PROVE  /\ book \o <<r, s>> = Append(Append(book, r), s)
         /\ Append(book, r) \in Seq(Row)
         /\ Append(Append(book, r), s) \in Seq(Row)
<1> HIDE DEF Row
<1> QED OBVIOUS

\* A row at the end of the history adds its own term, and nothing else changes.
LEMMA NetOfAppend ==
  ASSUME NEW book \in Seq(Row), NEW row \in Row, NEW x
  PROVE  Book!NetOf(Append(book, row), x) = Book!NetOf(book, x) + Term(row, x)
<1> DEFINE n == Len(book)
           longer == Append(book, row)
<1>1. n \in Nat /\ Len(longer) = n + 1
  OBVIOUS
<1>2. \A i \in 1..n : Terms(longer, x)[i] = Terms(book, x)[i]
  BY <1>1 DEF Terms
<1>3. Terms(longer, x)[n + 1] = Term(row, x)
  BY <1>1 DEF Terms
<1>4. SumTo(Terms(longer, x), n) = SumTo(Terms(book, x), n)
  <2> HIDE DEF n, longer
  <2> QED BY <1>1, <1>2, SumToExtensional
<1>5. SumTo(Terms(longer, x), n + 1) = SumTo(Terms(longer, x), n) + Terms(longer, x)[n + 1]
  <2> HIDE DEF n, longer
  <2> QED BY <1>1, SumToStep
<1> QED BY <1>1, <1>3, <1>4, <1>5, NetOfTerms

\* A history of book sums up to an integer.
LEMMA NetOfType ==
  ASSUME NEW book \in Seq(Row), NEW x
  PROVE  Book!NetOf(book, x) \in Int
<1> DEFINE n == Len(book)
<1>1. n \in Nat
  OBVIOUS
<1>2. \A i \in 1..n : Terms(book, x)[i] \in Int
  BY TermIsInt DEF Terms
<1>3. SumTo(Terms(book, x), n) \in Int
  <2> HIDE DEF n
  <2> QED BY <1>1, <1>2, SumToType
<1> QED BY <1>3, NetOfTerms

\* The inductive invariant of the book
Kept ==
    /\ stock \in [Spaces -> Nat]
    /\ history \in Seq(Row)
    /\ Book!OnHandMatchesJournal

\* Nothing is on hand and the history is empty.
LEMMA BookInitKept == Book!Init => Kept
<1> SUFFICES ASSUME Book!Init PROVE Kept
  OBVIOUS
<1>1. stock \in [Spaces -> Nat] /\ history \in Seq(Row) /\ Len(history) = 0
  BY DEF Book!Init
<1>2. \A x \in Spaces : Book!NetOf(history, x) = 0
  BY <1>1, NetOfTerms, SumToZero
<1> QED BY <1>1, <1>2 DEF Book!Init, Kept, Book!OnHandMatchesJournal

\* One row appended and its effect applied to the quantity of its space keep
\* the two in agreement.
LEMMA AppendKept ==
  ASSUME Kept, NEW row \in Row,
         history' = history \o <<row>>,
         stock' \in [Spaces -> Nat],
         \A x \in Spaces : stock'[x] = stock[x] + Term(row, x)
  PROVE  Kept'
<1>1. history' = Append(history, row) /\ history' \in Seq(Row)
  BY AppendOne DEF Kept
<1>2. ASSUME NEW x \in Spaces PROVE stock'[x] = Book!NetOf(history', x)
  <2>1. Book!NetOf(history', x) = Book!NetOf(history, x) + Term(row, x)
    BY <1>1, NetOfAppend DEF Kept
  <2> QED BY <2>1 DEF Kept, Book!OnHandMatchesJournal
<1> QED BY <1>1, <1>2 DEF Kept, Book!OnHandMatchesJournal

\* Every movement keeps the quantities and the history in agreement.
LEMMA BookNextKept == Kept /\ [Book!Next]_Book!vars => Kept'
<1> SUFFICES ASSUME Kept, [Book!Next]_Book!vars PROVE Kept'
  OBVIOUS
<1>0. stock \in [Spaces -> Nat] /\ history \in Seq(Row)
  BY DEF Kept
<1>1. ASSUME NEW x \in Spaces, NEW q \in Book!Quantities, Book!Receive(x, q) PROVE Kept'
  <2> DEFINE row == Book!Movement("receive", x, q, "", 0)
  <2>1. row \in Row /\ row.type = "receive" /\ row.space = x /\ row.quantity = q
    BY DEF Book!Movement, Row, Book!Quantities
  <2>2. \A y : Term(row, y) = IF x = y THEN q ELSE 0
    BY <2>1 DEF Term, Book!Effect
  <2>3. history' = history \o <<row>> /\ stock' = [stock EXCEPT ![x] = @ + q]
    BY <1>1 DEF Book!Receive
  <2> HIDE DEF row
  <2>4. stock' \in [Spaces -> Nat] /\ \A y \in Spaces : stock'[y] = stock[y] + Term(row, y)
    BY <1>0, <2>2, <2>3 DEF Book!Quantities
  <2> QED BY <2>1, <2>3, <2>4, AppendKept
<1>2. ASSUME NEW x \in Spaces, NEW q \in Book!Quantities, Book!Consume(x, q) PROVE Kept'
  <2> DEFINE row == Book!Movement("consume", x, q, "", 0)
  <2>1. /\ row \in Row /\ row.type = "consume" /\ row.space = x /\ row.quantity = q
        /\ row.direction = ""
    BY DEF Book!Movement, Row, Book!Quantities
  <2>2. \A y : Term(row, y) = IF x = y THEN -q ELSE 0
    BY <2>1 DEF Term, Book!Effect
  <2>3. /\ history' = history \o <<row>> /\ stock[x] >= q
        /\ stock' = [stock EXCEPT ![x] = @ - q]
    BY <1>2 DEF Book!Consume
  <2> HIDE DEF row
  <2>4. stock' \in [Spaces -> Nat] /\ \A y \in Spaces : stock'[y] = stock[y] + Term(row, y)
    BY <1>0, <2>2, <2>3 DEF Book!Quantities
  <2> QED BY <2>1, <2>3, <2>4, AppendKept
<1>3. ASSUME NEW x \in Spaces, NEW q \in Book!Quantities, Book!Adjust(x, q) PROVE Kept'
  <2> DEFINE more == Book!Movement("adjust", x, q - stock[x], "increase", 0)
             less == Book!Movement("adjust", x, stock[x] - q, "decrease", 0)
  <2>1. stock[x] \in Nat /\ q \in Nat /\ stock' = [stock EXCEPT ![x] = q]
    BY <1>0, <1>3 DEF Book!Adjust, Book!Quantities
  <2>2. stock' \in [Spaces -> Nat]
    BY <1>0, <2>1
  <2>3. CASE q > stock[x]
    <3>1. q - stock[x] \in Nat
      BY <2>1, <2>3
    <3>2. /\ more \in Row /\ more.type = "adjust" /\ more.space = x
          /\ more.quantity = q - stock[x] /\ more.direction = "increase"
      BY <3>1 DEF Book!Movement, Row
    <3>3. history' = history \o <<more>>
      BY <1>3, <2>3 DEF Book!Adjust
    <3>4. \A y : Term(more, y) = IF x = y THEN q - stock[x] ELSE 0
      BY <3>2 DEF Term, Book!Effect
    <3> HIDE DEF more
    <3>5. \A y \in Spaces : stock'[y] = stock[y] + Term(more, y)
      BY <1>0, <2>1, <3>4
    <3> QED BY <2>2, <3>2, <3>3, <3>5, AppendKept
  <2>4. CASE ~ (q > stock[x])
    <3>1. stock[x] - q \in Nat
      BY <2>1, <2>4
    <3>2. /\ less \in Row /\ less.type = "adjust" /\ less.space = x
          /\ less.quantity = stock[x] - q /\ less.direction = "decrease"
      BY <3>1 DEF Book!Movement, Row
    <3>3. history' = history \o <<less>>
      BY <1>3, <2>4 DEF Book!Adjust
    <3>4. \A y : Term(less, y) = IF x = y THEN -(stock[x] - q) ELSE 0
      BY <3>2 DEF Term, Book!Effect
    <3> HIDE DEF less
    <3>5. \A y \in Spaces : stock'[y] = stock[y] + Term(less, y)
      BY <1>0, <2>1, <3>4
    <3> QED BY <2>2, <3>2, <3>3, <3>5, AppendKept
  <2> QED BY <2>3, <2>4
<1>4. ASSUME NEW x \in Spaces, NEW y \in Spaces, NEW q \in Book!Quantities, Book!Transfer(x, y, q)
      PROVE  Kept'
  <2> DEFINE key == Len(history) + 1
             out == Book!Movement("transfer_out", x, q, "", key)
             in  == Book!Movement("transfer_in", y, q, "", key)
  <2>1. key \in Nat /\ q \in Nat
    BY <1>0 DEF Book!Quantities
  <2>2. /\ out \in Row /\ out.type = "transfer_out" /\ out.space = x /\ out.quantity = q
        /\ out.direction = ""
        /\ in \in Row /\ in.type = "transfer_in" /\ in.space = y /\ in.quantity = q
    <3> HIDE DEF key
    <3> QED BY <2>1 DEF Book!Movement, Row
  <2>3. \A z : /\ Term(out, z) = IF x = z THEN -q ELSE 0
               /\ Term(in, z) = IF y = z THEN q ELSE 0
    BY <2>2 DEF Term, Book!Effect
  <2>4. /\ x # y /\ stock[x] >= q
        /\ stock' = [stock EXCEPT ![x] = @ - q, ![y] = @ + q]
        /\ history' = history \o <<out, in>>
    BY <1>4 DEF Book!Transfer
  <2> HIDE DEF key, out, in
  <2>5. history' = Append(Append(history, out), in) /\ Append(history, out) \in Seq(Row)
                                                          /\ history' \in Seq(Row)
    BY <1>0, <2>2, <2>4, AppendTwo
  <2>7. stock' \in [Spaces -> Nat]
    BY <1>0, <2>1, <2>4
  <2>8. ASSUME NEW z \in Spaces PROVE stock'[z] = Book!NetOf(history', z)
    <3>1. /\ Book!NetOf(Append(history, out), z) = Book!NetOf(history, z) + Term(out, z)
          /\ Book!NetOf(history', z) = Book!NetOf(Append(history, out), z) + Term(in, z)
      BY <1>0, <2>2, <2>5, NetOfAppend
    <3>2. stock[z] = Book!NetOf(history, z)
      BY DEF Kept, Book!OnHandMatchesJournal
    <3>3. stock'[z] = stock[z] + Term(out, z) + Term(in, z)
      BY <1>0, <2>1, <2>3, <2>4
    <3> QED BY <3>1, <3>2, <3>3
  <2> QED BY <2>5, <2>7, <2>8 DEF Kept, Book!OnHandMatchesJournal
<1>5. CASE UNCHANGED Book!vars
  BY <1>5 DEF Book!vars, Kept, Book!OnHandMatchesJournal
<1> QED BY <1>1, <1>2, <1>3, <1>4, <1>5 DEF Book!Next

\* In every state of the book, the quantity on hand of every space is what the
\* history of movements adds up to.
THEOREM BookAgrees == Book!Spec => []Book!OnHandMatchesJournal
<1>1. Kept => Book!OnHandMatchesJournal
  BY DEF Kept
<1> QED BY <1>1, BookInitKept, BookNextKept, PTL DEF Book!Spec

(*---------------------------- the row locks ------------------------------*)
\* A request keeps the shape it was accepted with.
Shape(r) ==
    /\ r \in Requests
    /\ r.op # "adjust" => r.quantity > 0
    /\ r.op = "transfer" <=> r.to # r.space

\* The check made under the first lock still holds for the row it was made on.
Granted(w) ==
    /\ lock[request[w].space] = w
    /\ Acceptable(w)

\* Who has loaded a row to change it holds its lock, and what was loaded under
\* a lock is what the row holds.
LockDiscipline ==
    /\ \A w \in Workers : pc[w] # "idle" => Shape(request[w])
    /\ \A w \in Workers : pc[w] \in {"lock destination", "save"} => Granted(w)
    /\ \A w \in Workers : pc[w] = "lock destination" => request[w].op = "transfer"
    /\ \A w \in Workers : pc[w] = "save" => lock[request[w].to] = w
    /\ \A w \in Workers, x \in Spaces : lock[x] = w => seen[w][x] = stock[x]

\* The inductive invariant
IInv == TypeOK /\ LockDiscipline

-----------------------------------------------------------------------------
\* Nobody has asked for anything yet.
LEMMA InitIInv == Init => IInv
<1> SUFFICES ASSUME Init PROVE IInv
  OBVIOUS
<1>1. 0 \in 0..Limit /\ None \notin Workers
  BY InventoryAssumption
<1>2. TypeOK
  BY <1>1 DEF Init, TypeOK, Nothing
<1>3. LockDiscipline
  BY <1>1 DEF Init, LockDiscipline
<1> QED BY <1>2, <1>3 DEF IInv

\* A new request has the shape the checks let through, and holds nothing yet.
LEMMA BeginIInv ==
  ASSUME IInv, NEW w \in Workers, NEW r \in Requests, Begin(w, r)
  PROVE  IInv'
<1>1. TypeOK'
  BY DEF IInv, TypeOK, Begin
<1>2. Shape(r)
  BY DEF Begin, Wellformed, Shape
<1>3. LockDiscipline'
  BY <1>2 DEF IInv, TypeOK, LockDiscipline, Begin, Granted, Acceptable
<1> QED BY <1>1, <1>3 DEF IInv

\* A transaction that ends gives up its locks and forgets what it loaded; what
\* the others hold is as it was, if it changed only rows that it had locked.
LEMMA ReleaseIInv ==
  ASSUME IInv, NEW w \in Workers, Release(w),
         capable' \subseteq Spaces, rows' \subseteq Spaces, stock' \in [Spaces -> 0..Limit],
         \A x \in Spaces : lock[x] # w => stock'[x] = stock[x]
  PROVE  IInv'
<1>1. 0 \in 0..Limit /\ None \notin Workers
  BY InventoryAssumption
<1>2. TypeOK'
  BY <1>1 DEF IInv, TypeOK, Release, Nothing
<1>3. ASSUME NEW v \in Workers, v # w
      PROVE  pc'[v] = pc[v] /\ request'[v] = request[v] /\ seen'[v] = seen[v]
  BY <1>3 DEF IInv, TypeOK, Release
<1>4. pc'[w] = "idle"
  BY DEF IInv, TypeOK, Release
<1>5. \A x \in Spaces : lock'[x] = IF lock[x] = w THEN None ELSE lock[x]
  BY DEF Release
<1>6. \A v \in Workers : pc'[v] # "idle" => Shape(request'[v])
  BY <1>3, <1>4 DEF IInv, LockDiscipline
<1>7. \A v \in Workers : pc'[v] \in {"lock destination", "save"} => Granted(v)'
  <2> SUFFICES ASSUME NEW v \in Workers, pc'[v] \in {"lock destination", "save"}
               PROVE  Granted(v)'
    OBVIOUS
  <2>1. v # w
    BY <1>4
  <2>2. Granted(v) /\ request[v].space \in Spaces
    BY <1>3, <2>1 DEF IInv, LockDiscipline, Shape, Requests
  <2>3. lock[request[v].space] = v /\ stock'[request[v].space] = stock[request[v].space]
    BY <2>1, <2>2 DEF Granted
  <2>4. lock'[request[v].space] = v
    BY <1>5, <2>1, <2>2, <2>3
  <2> QED BY <1>3, <2>1, <2>2, <2>3, <2>4 DEF Granted, Acceptable
<1>8. \A v \in Workers : pc'[v] = "lock destination" => request'[v].op = "transfer"
  BY <1>3, <1>4 DEF IInv, LockDiscipline
<1>9. \A v \in Workers : pc'[v] = "save" => lock'[request'[v].to] = v
  <2> SUFFICES ASSUME NEW v \in Workers, pc'[v] = "save" PROVE lock'[request'[v].to] = v
    OBVIOUS
  <2>1. v # w
    BY <1>4
  <2>2. request[v].to \in Spaces /\ lock[request[v].to] = v
    BY <1>3, <2>1 DEF IInv, LockDiscipline, Shape, Requests
  <2> QED BY <1>3, <1>5, <2>1, <2>2
<1>10. \A v \in Workers, x \in Spaces : lock'[x] = v => seen'[v][x] = stock'[x]
  <2> SUFFICES ASSUME NEW v \in Workers, NEW x \in Spaces, lock'[x] = v
               PROVE  seen'[v][x] = stock'[x]
    OBVIOUS
  <2>1. lock[x] = v /\ v # w
    BY <1>1, <1>5
  <2> QED BY <1>3, <2>1 DEF IInv, LockDiscipline
<1>11. LockDiscipline'
  BY <1>6, <1>7, <1>8, <1>9, <1>10 DEF LockDiscipline
<1> QED BY <1>2, <1>11 DEF IInv

\* A request that is refused, or that the database aborts, changes nothing.
LEMMA RollbackIInv ==
  ASSUME IInv, NEW w \in Workers, Rollback(w)
  PROVE  IInv'
<1>1. Release(w) /\ capable' = capable /\ rows' = rows /\ stock' = stock
  BY DEF Rollback
<1>2. capable' \subseteq Spaces /\ rows' \subseteq Spaces /\ stock' \in [Spaces -> 0..Limit]
  BY <1>1 DEF IInv, TypeOK
<1> QED BY <1>1, <1>2, ReleaseIInv

\* A lock is granted only when it is free, and the row is read under it.
LEMMA TakeIInv ==
  ASSUME IInv, NEW w \in Workers, NEW x \in Spaces, Take(w, x),
         UNCHANGED <<capable, rows, stock, history, request>>
  PROVE  /\ lock' \in [Spaces -> Workers \union {None}]
         /\ seen' \in [Workers -> [Spaces -> 0..Limit]]
         /\ lock'[x] = w
         /\ \A y \in Spaces : lock[y] # None => lock'[y] = lock[y]
         /\ \A v \in Workers, y \in Spaces : lock'[y] = v => seen'[v][y] = stock'[y]
<1>1. /\ lock \in [Spaces -> Workers \union {None}] /\ stock \in [Spaces -> 0..Limit]
      /\ seen \in [Workers -> [Spaces -> 0..Limit]]
  BY DEF IInv, TypeOK
<1>2. \A v \in Workers, y \in Spaces : lock[y] = v => seen[v][y] = stock[y]
  BY DEF IInv, LockDiscipline
<1>3. /\ lock[x] = None /\ lock' = [lock EXCEPT ![x] = w]
      /\ seen' = [seen EXCEPT ![w] = [seen[w] EXCEPT ![x] = stock[x]]]
      /\ stock' = stock
  BY DEF Take
<1>4. None \notin Workers
  BY InventoryAssumption
<1>5. seen' \in [Workers -> [Spaces -> 0..Limit]]
  BY <1>1, <1>3
<1>6. \A v \in Workers, y \in Spaces : lock'[y] = v => seen'[v][y] = stock'[y]
  BY <1>1, <1>2, <1>3, <1>4
<1> QED BY <1>1, <1>3, <1>5, <1>6

\* The first lock, with the check made under it.
LEMMA LockIInv ==
  ASSUME IInv, NEW w \in Workers, Lock(w)
  PROVE  IInv'
<1> DEFINE r == request[w]
           next == IF r.op = "transfer" THEN "lock destination" ELSE "save"
<1>1. Shape(r) /\ r.space \in Spaces /\ r.to \in Spaces
  BY DEF Lock, IInv, LockDiscipline, Shape, Requests
<1>2. /\ Take(w, r.space) /\ Acceptable(w) /\ pc' = [pc EXCEPT ![w] = next]
      /\ UNCHANGED <<capable, rows, stock, history, request>>
  BY DEF Lock
<1>3. /\ lock' \in [Spaces -> Workers \union {None}]
      /\ seen' \in [Workers -> [Spaces -> 0..Limit]]
      /\ lock'[r.space] = w
      /\ \A y \in Spaces : lock[y] # None => lock'[y] = lock[y]
      /\ \A v \in Workers, y \in Spaces : lock'[y] = v => seen'[v][y] = stock'[y]
  <2> HIDE DEF r
  <2> QED BY <1>1, <1>2, TakeIInv
<1>4. None \notin Workers
  BY InventoryAssumption
<1>5. TypeOK'
  BY <1>2, <1>3 DEF IInv, TypeOK
<1>6. pc'[w] = next /\ \A v \in Workers : v # w => pc'[v] = pc[v]
  BY <1>2 DEF IInv, TypeOK
<1>7. \A v \in Workers : pc'[v] # "idle" => Shape(request'[v])
  BY <1>1, <1>2, <1>6 DEF IInv, LockDiscipline
<1>8. \A v \in Workers : pc'[v] \in {"lock destination", "save"} => Granted(v)'
  <2> SUFFICES ASSUME NEW v \in Workers, pc'[v] \in {"lock destination", "save"}
               PROVE  Granted(v)'
    OBVIOUS
  <2>1. CASE v = w
    BY <1>2, <1>3, <2>1 DEF Granted, Acceptable
  <2>2. CASE v # w
    <3>1. Granted(v) /\ request[v].space \in Spaces
      BY <1>6, <2>2 DEF IInv, LockDiscipline, Shape, Requests
    <3>2. lock'[request[v].space] = v
      BY <1>3, <1>4, <3>1 DEF Granted
    <3> QED BY <1>2, <3>1, <3>2 DEF Granted, Acceptable
  <2> QED BY <2>1, <2>2
<1>9. \A v \in Workers : pc'[v] = "lock destination" => request'[v].op = "transfer"
  <2>1. next = "lock destination" => r.op = "transfer"
    OBVIOUS
  <2> HIDE DEF next
  <2> QED BY <1>2, <1>6, <2>1 DEF IInv, LockDiscipline
<1>10. \A v \in Workers : pc'[v] = "save" => lock'[request'[v].to] = v
  <2> SUFFICES ASSUME NEW v \in Workers, pc'[v] = "save" PROVE lock'[request'[v].to] = v
    OBVIOUS
  <2>1. CASE v = w
    <3>1. r.to = r.space
      BY <1>1, <1>6, <2>1 DEF Shape
    <3> QED BY <1>2, <1>3, <2>1, <3>1
  <2>2. CASE v # w
    <3>1. request[v].to \in Spaces /\ lock[request[v].to] = v
      BY <1>6, <2>2 DEF IInv, LockDiscipline, Shape, Requests
    <3> QED BY <1>2, <1>3, <1>4, <3>1
  <2> QED BY <2>1, <2>2
<1>11. LockDiscipline'
  BY <1>3, <1>7, <1>8, <1>9, <1>10 DEF LockDiscipline
<1> QED BY <1>5, <1>11 DEF IInv

\* The second lock of a transfer.
LEMMA LockDestinationIInv ==
  ASSUME IInv, NEW w \in Workers, LockDestination(w)
  PROVE  IInv'
<1> DEFINE r == request[w]
<1>1. Shape(r) /\ r.to \in Spaces
  BY DEF LockDestination, IInv, LockDiscipline, Shape, Requests
<1>2. /\ pc[w] = "lock destination" /\ Take(w, r.to) /\ pc' = [pc EXCEPT ![w] = "save"]
      /\ UNCHANGED <<capable, rows, stock, history, request>>
  BY DEF LockDestination
<1>3. /\ lock' \in [Spaces -> Workers \union {None}]
      /\ seen' \in [Workers -> [Spaces -> 0..Limit]]
      /\ lock'[r.to] = w
      /\ \A y \in Spaces : lock[y] # None => lock'[y] = lock[y]
      /\ \A v \in Workers, y \in Spaces : lock'[y] = v => seen'[v][y] = stock'[y]
  <2> HIDE DEF r
  <2> QED BY <1>1, <1>2, TakeIInv
<1>4. None \notin Workers
  BY InventoryAssumption
<1>5. TypeOK'
  BY <1>2, <1>3 DEF IInv, TypeOK
<1>6. pc'[w] = "save" /\ \A v \in Workers : v # w => pc'[v] = pc[v]
  BY <1>2 DEF IInv, TypeOK
<1>7. \A v \in Workers : pc'[v] # "idle" => Shape(request'[v])
  BY <1>1, <1>2, <1>6 DEF IInv, LockDiscipline
<1>8. \A v \in Workers : pc'[v] \in {"lock destination", "save"} => Granted(v)'
  <2> SUFFICES ASSUME NEW v \in Workers, pc'[v] \in {"lock destination", "save"}
               PROVE  Granted(v)'
    OBVIOUS
  <2>1. pc[v] \in {"lock destination", "save"}
    BY <1>2, <1>6
  <2>2. Granted(v) /\ request[v].space \in Spaces
    BY <2>1 DEF IInv, LockDiscipline, Shape, Requests
  <2>3. lock'[request[v].space] = v
    BY <1>3, <1>4, <2>2 DEF Granted
  <2> QED BY <1>2, <2>2, <2>3 DEF Granted, Acceptable
<1>9. \A v \in Workers : pc'[v] = "lock destination" => request'[v].op = "transfer"
  BY <1>2, <1>6 DEF IInv, LockDiscipline
<1>10. \A v \in Workers : pc'[v] = "save" => lock'[request'[v].to] = v
  <2> SUFFICES ASSUME NEW v \in Workers, pc'[v] = "save" PROVE lock'[request'[v].to] = v
    OBVIOUS
  <2>1. CASE v = w
    BY <1>2, <1>3, <2>1
  <2>2. CASE v # w
    <3>1. request[v].to \in Spaces /\ lock[request[v].to] = v
      BY <1>6, <2>2 DEF IInv, LockDiscipline, Shape, Requests
    <3> QED BY <1>2, <1>3, <1>4, <3>1
  <2> QED BY <2>1, <2>2
<1>11. LockDiscipline'
  BY <1>3, <1>7, <1>8, <1>9, <1>10 DEF LockDiscipline
<1> QED BY <1>5, <1>11 DEF IInv

-----------------------------------------------------------------------------
(* The step that saves: what it writes, and that it is a step of the book. *)

\* A request about to save has locked the rows it touches, so the quantities it
\* loaded are still the ones stored.
LEMMA SaverHolds ==
  ASSUME IInv, NEW w \in Workers, pc[w] = "save"
  PROVE  /\ Shape(request[w])
         /\ request[w].space \in Spaces /\ request[w].to \in Spaces
         /\ request[w].quantity \in 0..Limit
         /\ Acceptable(w)
         /\ lock[request[w].space] = w /\ lock[request[w].to] = w
         /\ seen[w][request[w].space] = stock[request[w].space]
         /\ seen[w][request[w].to] = stock[request[w].to]
<1>1. Shape(request[w])
  BY DEF IInv, LockDiscipline
<1>2. /\ request[w].space \in Spaces /\ request[w].to \in Spaces
      /\ request[w].quantity \in 0..Limit
  BY <1>1 DEF Shape, Requests
<1>3. Granted(w) /\ lock[request[w].to] = w
  BY DEF IInv, LockDiscipline
<1> QED BY <1>1, <1>2, <1>3 DEF IInv, LockDiscipline, Granted

\* The rows a request does not touch keep their quantities.
LEMMA ResultFrame ==
  ASSUME IInv, NEW w \in Workers, pc[w] = "save"
  PROVE  /\ Result(w) = [x \in Spaces |-> Result(w)[x]]
         /\ \A x \in Spaces : x \notin Touched(w) => Result(w)[x] = stock[x]
<1> DEFINE r == request[w]
<1>1. r.op \in {"receive", "consume", "adjust", "transfer"} /\ r.space \in Spaces /\ r.to \in Spaces
  BY SaverHolds DEF Shape, Requests
<1>2. stock \in [Spaces -> 0..Limit]
  BY DEF IInv, TypeOK
<1>3. CASE r.op = "receive"
  BY <1>1, <1>2, <1>3 DEF Result, Touched
<1>4. CASE r.op = "consume"
  BY <1>1, <1>2, <1>4 DEF Result, Touched
<1>5. CASE r.op = "adjust"
  BY <1>1, <1>2, <1>5 DEF Result, Touched
<1>6. CASE r.op = "transfer"
  BY <1>1, <1>2, <1>6 DEF Result, Touched
<1> QED BY <1>1, <1>3, <1>4, <1>5, <1>6

\* Saving keeps the quantities within their column and the locks in order.
LEMMA SaveIInv ==
  ASSUME IInv, NEW w \in Workers, Save(w)
  PROVE  IInv'
<1>1. /\ pc[w] = "save" /\ Clean(w) /\ stock' = Result(w)
      /\ rows' = rows \union Touched(w) /\ Release(w) /\ capable' = capable
  BY DEF Save
<1>2. Touched(w) \subseteq Spaces /\ \A x \in Touched(w) : lock[x] = w
  BY <1>1, SaverHolds DEF Touched
<1>3. stock \in [Spaces -> 0..Limit] /\ rows \subseteq Spaces /\ capable \subseteq Spaces
  BY DEF IInv, TypeOK
<1>4. \A x \in Spaces : x \notin Touched(w) => stock'[x] = stock[x]
  BY <1>1, ResultFrame
<1>5. \A x \in Spaces : stock'[x] \in 0..Limit
  BY <1>1, <1>3, <1>4 DEF Clean
<1>6. stock' = [x \in Spaces |-> stock'[x]]
  BY <1>1, ResultFrame
<1>7. stock' \in [Spaces -> 0..Limit]
  BY <1>5, <1>6
<1>8. \A x \in Spaces : lock[x] # w => stock'[x] = stock[x]
  BY <1>2, <1>4
<1> QED BY <1>1, <1>2, <1>3, <1>7, <1>8, ReleaseIInv

\* Saving is one movement of the stock book.
LEMMA SaveIsMovement ==
  ASSUME IInv, NEW w \in Workers, Save(w)
  PROVE  Book!Next
<1> DEFINE r == request[w]
           x == r.space
           q == r.quantity
<1>1. /\ pc[w] = "save" /\ stock' = Result(w) /\ history' = history \o Entries(w)
  BY DEF Save
<1>2. /\ Shape(r) /\ x \in Spaces /\ r.to \in Spaces /\ q \in 0..Limit /\ Acceptable(w)
      /\ seen[w][x] = stock[x] /\ seen[w][r.to] = stock[r.to]
  BY <1>1, SaverHolds
<1>3. r.op \in {"receive", "consume", "adjust", "transfer"}
  BY <1>2 DEF Shape, Requests
<1>4. stock \in [Spaces -> 0..Limit] /\ stock[x] \in 0..Limit
  BY <1>2 DEF IInv, TypeOK
<1>5. q \in Book!Quantities
  BY <1>2 DEF Book!Quantities
<1>6. CASE r.op = "receive"
  <2>1. stock' = [stock EXCEPT ![x] = stock[x] + q]
    BY <1>1, <1>2, <1>6 DEF Result
  <2>2. history' = history \o <<Book!Movement("receive", x, q, "", 0)>>
    BY <1>1, <1>6 DEF Entries
  <2>3. q > 0
    BY <1>2, <1>6 DEF Shape
  <2>4. Book!Receive(x, q)
    BY <2>1, <2>2, <2>3 DEF Book!Receive
  <2> QED BY <1>2, <1>5, <2>4 DEF Book!Next
<1>7. CASE r.op = "consume"
  <2>1. stock' = [stock EXCEPT ![x] = stock[x] - q]
    BY <1>1, <1>2, <1>7 DEF Result
  <2>2. history' = history \o <<Book!Movement("consume", x, q, "", 0)>>
    BY <1>1, <1>7 DEF Entries
  <2>3. q > 0 /\ stock[x] >= q
    BY <1>2, <1>7 DEF Shape, Acceptable
  <2>4. Book!Consume(x, q)
    BY <2>1, <2>2, <2>3 DEF Book!Consume
  <2> QED BY <1>2, <1>5, <2>4 DEF Book!Next
<1>8. CASE r.op = "adjust"
  <2>1. stock' = [stock EXCEPT ![x] = q]
    BY <1>1, <1>2, <1>8 DEF Result
  <2>2. q # stock[x]
    BY <1>2, <1>8 DEF Acceptable
  <2>3. CASE q > stock[x]
    <3>1. history' = history \o <<Book!Movement("adjust", x, q - stock[x], "increase", 0)>>
      BY <1>1, <1>2, <1>8, <2>3 DEF Entries
    <3>2. Book!Adjust(x, q)
      BY <2>1, <2>2, <2>3, <3>1 DEF Book!Adjust
    <3> QED BY <1>2, <1>5, <3>2 DEF Book!Next
  <2>4. CASE ~ (q > stock[x])
    <3>1. history' = history \o <<Book!Movement("adjust", x, stock[x] - q, "decrease", 0)>>
      BY <1>1, <1>2, <1>8, <2>4 DEF Entries
    <3>2. Book!Adjust(x, q)
      BY <2>1, <2>2, <2>4, <3>1 DEF Book!Adjust
    <3> QED BY <1>2, <1>5, <3>2 DEF Book!Next
  <2> QED BY <2>3, <2>4
<1>9. CASE r.op = "transfer"
  <2>1. stock' = [stock EXCEPT ![x] = stock[x] - q, ![r.to] = stock[r.to] + q]
    BY <1>1, <1>2, <1>9 DEF Result
  <2>2. history' = history \o
           <<Book!Movement("transfer_out", x, q, "", Len(history) + 1),
             Book!Movement("transfer_in", r.to, q, "", Len(history) + 1)>>
    BY <1>1, <1>9 DEF Entries
  <2>3. q > 0 /\ stock[x] >= q /\ x # r.to
    BY <1>2, <1>9 DEF Shape, Acceptable
  <2>4. Book!Transfer(x, r.to, q)
    BY <1>4, <2>1, <2>2, <2>3 DEF Book!Transfer
  <2> QED BY <1>2, <1>5, <2>4 DEF Book!Next
<1> QED BY <1>3, <1>6, <1>7, <1>8, <1>9

-----------------------------------------------------------------------------
\* Every step keeps the locks in order, and is a movement of the book or none.
LEMMA NextIInv == IInv /\ [Next]_vars => IInv' /\ [Book!Next]_Book!vars
<1> SUFFICES ASSUME IInv, [Next]_vars PROVE IInv' /\ [Book!Next]_Book!vars
  OBVIOUS
<1>1. ASSUME NEW w \in Workers, NEW r \in Requests, Begin(w, r)
      PROVE  IInv' /\ [Book!Next]_Book!vars
  BY <1>1, BeginIInv DEF Begin, Book!vars
<1>2. ASSUME NEW w \in Workers, Lock(w) PROVE IInv' /\ [Book!Next]_Book!vars
  BY <1>2, LockIInv DEF Lock, Book!vars
<1>3. ASSUME NEW w \in Workers, LockDestination(w)
      PROVE  IInv' /\ [Book!Next]_Book!vars
  BY <1>3, LockDestinationIInv DEF LockDestination, Book!vars
<1>4. ASSUME NEW w \in Workers, Rollback(w) PROVE IInv' /\ [Book!Next]_Book!vars
  BY <1>4, RollbackIInv DEF Rollback, Book!vars
<1>5. ASSUME NEW w \in Workers, Save(w) PROVE IInv' /\ [Book!Next]_Book!vars
  BY <1>5, SaveIInv, SaveIsMovement
<1>6. ASSUME NEW x \in Spaces, EditSpace(x) PROVE IInv' /\ [Book!Next]_Book!vars
  <2>1. capable' \subseteq Spaces
    BY <1>6 DEF EditSpace, IInv, TypeOK
  <2>2. UNCHANGED <<rows, stock, history, lock, pc, request, seen>>
    BY <1>6 DEF EditSpace
  <2>3. TypeOK'
    BY <2>1, <2>2 DEF IInv, TypeOK
  <2>4. LockDiscipline'
    BY <2>2 DEF IInv, LockDiscipline, Granted, Acceptable
  <2> QED BY <2>2, <2>3, <2>4 DEF IInv, Book!vars
<1>7. CASE UNCHANGED vars
  <2>1. TypeOK'
    BY <1>7 DEF vars, IInv, TypeOK
  <2>2. LockDiscipline'
    BY <1>7 DEF vars, IInv, LockDiscipline, Granted, Acceptable
  <2> QED BY <1>7, <2>1, <2>2 DEF vars, IInv, Book!vars
<1> QED BY <1>1, <1>2, <1>3, <1>4, <1>5, <1>6, <1>7
        DEF Next, Step, Refuse, FailClean, DeadlockAbort

\* The lock discipline holds in every state.
THEOREM Invariance == Spec => []IInv
BY InitIInv, NextIInv, PTL DEF Spec

\* The rows of the inventory tables always have their types; in particular no
\* quantity is negative or too large for its column.
THEOREM TypeCorrect == Spec => []TypeOK
<1>1. IInv => TypeOK
  BY DEF IInv
<1> QED BY <1>1, Invariance, PTL

\* Every inventory request is one movement of the stock book, or none, however
\* the requests of the workers interleave.
THEOREM RefinesBook == Spec => ImplementsBook
<1>1. Init => Book!Init
  BY DEF Init, Nothing, Book!Init
<1> QED BY <1>1, InitIInv, NextIInv, PTL DEF Spec, ImplementsBook, Book!Spec

\* What is on hand in a space is, in every state, what the history of its
\* movements adds up to.
THEOREM HistoryExplainsStock == Spec => []StockMatchesHistory
BY BookAgrees, RefinesBook, PTL DEF ImplementsBook, StockMatchesHistory
=============================================================================
