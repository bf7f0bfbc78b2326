-------------------------- MODULE ProviderContract --------------------------
(***************************************************************************)
(* What the service promises of a reservation when a provider's call ends  *)
(* (provider.py, _account_for_failure): it is charged only for an answer   *)
(* that was billed, and released only when what it heard of was not.  When *)
(* nobody can tell, the reservation stays for its expiry.                  *)
(***************************************************************************)

VARIABLES
  row,    \* the reservation of the call: none, held, charged or released
  attempt \* the attempt last heard of: untried, billed or free

contractVars == <<row, attempt>>

ContractInit == row = "none" /\ attempt = "untried"

Reserve == row = "none" /\ row' = "held" /\ UNCHANGED attempt
Try == row = "held" /\ attempt' \in {"billed", "free"} /\ UNCHANGED row
Charge == row = "held" /\ attempt = "billed" /\ row' = "charged" /\ UNCHANGED attempt
Release == row = "held" /\ attempt = "free" /\ row' = "released" /\ UNCHANGED attempt

\* The call is over; what is still held is the ledger's to reclaim.
Close == row' = "none" /\ attempt' = "untried"

ContractNext == Reserve \/ Try \/ Charge \/ Release \/ Close

Contract == ContractInit /\ [][ContractNext]_contractVars
=============================================================================
