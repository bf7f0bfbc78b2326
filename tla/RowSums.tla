------------------------------ MODULE RowSums ------------------------------
(***************************************************************************)
(* SELECT COALESCE(SUM(column), 0) over the rows a WHERE clause picks: the *)
(* one aggregate the budget ledger computes (ledger.py:155-172, 239-245).  *)
(* RowSumTheorems proves the algebra of it that the ledger's proofs use.   *)
(***************************************************************************)
EXTENDS Naturals, FiniteSetsExt

\* The sum of the column f over the rows S.
SumOver(f, S) == MapThenSumSet(LAMBDA x : f[x], S)
=============================================================================
