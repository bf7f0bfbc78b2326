--------------------------- MODULE MCBudgetLedger ---------------------------
(***************************************************************************)
(* A small ledger for TLC.  The ceiling is not a whole number of stored    *)
(* units and the reserve is not a whole number of nano-USD, so both        *)
(* roundings happen; two overruns saturate a day; a reservation made on    *)
(* the first day can lapse on the second.                                  *)
(***************************************************************************)
EXTENDS BudgetLedger, TLC

CONSTANTS r1, r2, r3

MCRows == {r1, r2, r3}
MCReserveRatio == <<2, 5>>
MCMaxCosts == {3, 6}
MCReports == {-1, 2, 6, 20}
Symmetry == Permutations(MCRows)
=============================================================================
