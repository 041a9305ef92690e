----------------------------- MODULE LedgerSums -----------------------------
(* Sums over the rows of a table, the aggregate(Sum(...)) of the code.     *)
EXTENDS Integers

\* f[1] + ... + f[n]
SumTo(f, n) ==
    LET total[i \in 0..n] == IF i = 0 THEN 0 ELSE total[i - 1] + f[i]
    IN  total[n]
=============================================================================
