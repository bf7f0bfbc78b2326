------------------------ MODULE MCLedgerTransactions ------------------------
(***************************************************************************)
(* Two clients, two rows.  Two maxima of one day do not both fit under     *)
(* the ceiling, and one report both overruns and saturates.                *)
(***************************************************************************)
EXTENDS LedgerTransactions

CONSTANTS r1, r2, c1, c2

MCRows == {r1, r2}
MCClients == {c1, c2}
MCReserveRatio == <<1, 4>>
MCMaxCosts == {6}
MCReports == {4, 20}
=============================================================================
