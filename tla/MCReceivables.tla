--------------------------- MODULE MCReceivables ---------------------------
(* Receivables on a small instance.  Accounts are interchangeable: no      *)
(* definition of Receivables tells two accounts apart.                     *)
EXTENDS Receivables

Symmetry == Permutations(Accounts)
=============================================================================
