---------------------------- MODULE BudgetLedger ----------------------------
(***************************************************************************)
(* The budget ledger of the sidecar: playerbots_llm/ledger.py over the     *)
(* policy of playerbots_llm/budget.py.                                     *)
(*                                                                         *)
(* The state is the database's: the columns of the reservation table, one  *)
(* function per column; the two totals of the per-day budget table; and    *)
(* the circuit breaker of the singleton runtime control row.  Every method *)
(* of BudgetLedger is one transaction under the named lock budget_day, and *)
(* is one action here; LedgerTransactions splits it into its statements    *)
(* and shows that the lock makes the two views agree.                      *)
(*                                                                         *)
(* The methods are driven by their callers, and the callers here are the   *)
(* freest ones: any number of sidecars, each holding any reservation ever  *)
(* made, settling or releasing it at any time, twice, or never (a crash),  *)
(* with a reading of the clock that may be old by the time it is used.     *)
(*                                                                         *)
(* Money is in nano-USD.  A stored amount is a multiple of Scale, because  *)
(* the columns are DECIMAL(12, 6).                                         *)
(***************************************************************************)
EXTENDS Integers, FiniteSets, RowSums

CONSTANTS
  Rows,         \* ids of the reservation rows the table may come to hold
  Ceiling,      \* the configured daily ceiling
  ReserveRatio, \* the protected share of it, a fraction <<numerator, denominator>>
  Scale,        \* STORAGE_SCALE_NANO, nano-USD per stored unit
  MaxUnits,     \* the widest value a money column holds, in stored units
  MaxCosts,     \* the conservative maxima requests ask for
  Unpriced,     \* the maximum of a request whose price is unknown (None)
  Reports,      \* the costs a provider may report for a completion
  Expiry,       \* RESERVATION_EXPIRY, in clock ticks
  DayLength,    \* clock ticks in a UTC day
  LastTime      \* the bound of the clock

MaxStored == MaxUnits * Scale \* MAX_STORABLE_NANO
Stored == {units * Scale : units \in 0 .. MaxUnits}

Lanes == {"immediate_human", "background"}
RowStates == {"absent", "reserved", "completed", "released", "expired"}
Times == 0 .. LastTime
DayOf(now) == now \div DayLength \* utc_day
Days == {DayOf(now) : now \in Times}

ASSUME LedgerAssumption ==
  /\ IsFiniteSet(Rows)
  /\ Scale \in Nat \ {0}
  /\ MaxUnits \in Nat
  /\ Ceiling \in 1 .. MaxStored
  /\ ReserveRatio \in Nat \X (Nat \ {0})
  /\ ReserveRatio[1] <= ReserveRatio[2]
  /\ MaxCosts \subseteq Nat
  /\ Unpriced \notin Int
  /\ Reports \subseteq Int
  /\ Expiry \in Nat
  /\ DayLength \in Nat \ {0}
  /\ LastTime \in Nat

VARIABLES
  rowState,    \* state; "absent" before the row is inserted
  rowDay,      \* budget_date
  rowMax,      \* max_cost_usd
  rowActual,   \* actual_cost_usd
  rowExpires,  \* expires_at
  rowLane,     \* who asked: the caller's argument, not a column of the table
  spent,       \* spent_usd of each day; a day with no row yet reads as 0
  reservedUsd, \* reserved_usd of each day
  circuitOpen, \* budget_circuit_open; no control row yet reads as closed
  cleared      \* history: an operator has closed the circuit by hand

vars == <<rowState, rowDay, rowMax, rowActual, rowExpires, rowLane,
          spent, reservedUsd, circuitOpen, cleared>>

-----------------------------------------------------------------------------
(* budget.py: the arithmetic and the admission policy.                     *)

CeilDiv(a, b) == (a + b - 1) \div b
AtMost(a, b) == IF a <= b THEN a ELSE b

\* quantize_storable_nano: rounded up to a whole number of stored units.
Quantize(nano) == IF nano <= 0 THEN 0 ELSE CeilDiv(nano, Scale) * Scale

\* Mutant: a report is rounded to stored units, but not clamped to the column.
StorableUnclamped(reported) == Quantize(reported)

\* storable_actual_cost_nano: what of a reported cost a column can hold.
Storable(reported) == AtMost(Quantize(reported), MaxStored)

\* Mutant: an overrun is judged against the day's ceiling.
BreachOfCeiling(max, reported) == reported < 0 \/ reported > Ceiling

\* circuit_should_open: a report nobody authorised.
Breach(max, reported) == reported < 0 \/ reported > max

\* Mutant: the protected share is rounded down.
ReserveFloorDown == (Ceiling * ReserveRatio[1]) \div ReserveRatio[2]

\* reserve_floor_nano: rounded up, to the side that protects.
ReserveFloor == CeilDiv(Ceiling * ReserveRatio[1], ReserveRatio[2])

\* admit: an open circuit and an unknown price deny; the ceiling binds every
\* lane; the reserve binds background work only.
Admitted(open, committed, max, lane) ==
  /\ ~open
  /\ max # Unpriced
  /\ committed + max <= Ceiling
  /\ lane = "background" => committed + max <= Ceiling - ReserveFloor

-----------------------------------------------------------------------------
(* ledger.py: the rows a day's statements pick, and its transactions.      *)

Reserved(day) == {r \in Rows : rowState[r] = "reserved" /\ rowDay[r] = day}
Completed(day) == {r \in Rows : rowState[r] = "completed" /\ rowDay[r] = day}
Outstanding(day) == SumOver(rowMax, Reserved(day))

\* Mutant: a reservation lapses as soon as it is older than the caller's clock.
LapsedAtOnce(day, now) == {r \in Reserved(day) : rowExpires[r] <= now + Expiry}

\* What the expiry sweep of _outstanding_nano reclaims.
Lapsed(day, now) == {r \in Reserved(day) : rowExpires[r] <= now}

\* Mutant: admission reads the settled total only.
CommittedSettled(day, now) == spent[day]

\* What is committed once the sweep has run: the BudgetState admit is given.
Committed(day, now) ==
  spent[day] + SumOver(rowMax, Reserved(day) \ Lapsed(day, now))

\* Mutant: summed before the transaction changes the rows.
RefreshReservedEarly(day) == reservedUsd' = [reservedUsd EXCEPT ![day] = Outstanding(day)]

\* _refresh_reserved_usd: rewritten from the rows as this transaction leaves them.
RefreshReserved(day) ==
  reservedUsd' = [reservedUsd EXCEPT ![day] = SumOver(rowMax', Reserved(day)')]

\* Mutant: a retried settlement finds its row again.
StillReservedOrCharged(r) == rowState[r] \in {"reserved", "completed"}
\* Mutant: a late settlement finds a row the sweep reclaimed.
StillReservedOrLapsed(r) == rowState[r] \in {"reserved", "expired"}

\* WHERE id = r AND state = 'reserved': what settle and release may write.
StillReserved(r) == rowState[r] = "reserved"

Init ==
  /\ rowState = [r \in Rows |-> "absent"]
  /\ rowDay = [r \in Rows |-> 0]
  /\ rowMax = [r \in Rows |-> 0]
  /\ rowActual = [r \in Rows |-> 0]
  /\ rowExpires = [r \in Rows |-> 0]
  /\ rowLane = [r \in Rows |-> "background"]
  /\ spent = [d \in Days |-> 0]
  /\ reservedUsd = [d \in Days |-> 0]
  /\ circuitOpen = FALSE
  /\ cleared = FALSE

\* reserve, refused: what the sweep reclaimed stays reclaimed.  The refusal may
\* rest on a circuit that an operator closed after it was read.
ReserveDenied(now, max, lane) ==
  LET day == DayOf(now)
      held == IF max = Unpriced THEN Unpriced ELSE Quantize(max)
  IN  /\ ~Admitted(circuitOpen, Committed(day, now), held, lane) \/ cleared
      /\ rowState' = [s \in Rows |-> IF s \in Lapsed(day, now) THEN "expired"
                                     ELSE rowState[s]]
      /\ UNCHANGED <<rowDay, rowMax, rowActual, rowExpires, rowLane>>
      /\ RefreshReserved(day)
      /\ UNCHANGED <<spent, circuitOpen, cleared>>

\* reserve, admitted: row r is inserted under a fresh id.
ReserveAdmitted(now, max, lane, r) ==
  LET day == DayOf(now)
      held == Quantize(max)
  IN  /\ max # Unpriced
      /\ rowState[r] = "absent"
      /\ Admitted(circuitOpen, Committed(day, now), held, lane)
      /\ rowState' = [s \in Rows |-> IF s = r THEN "reserved"
                                     ELSE IF s \in Lapsed(day, now) THEN "expired"
                                     ELSE rowState[s]]
      /\ rowDay' = [rowDay EXCEPT ![r] = day]
      /\ rowMax' = [rowMax EXCEPT ![r] = held]
      /\ rowExpires' = [rowExpires EXCEPT ![r] = now + Expiry]
      /\ rowLane' = [rowLane EXCEPT ![r] = lane]
      /\ RefreshReserved(day)
      /\ UNCHANGED <<rowActual, spent, circuitOpen, cleared>>

\* settle: only a row still reserved is charged, whatever its expiry says; the
\* day's total takes what it has room for; an overrun or a discarded remainder
\* opens the circuit.
Settle(r, reported) ==
  LET day == rowDay[r]
      stored == Storable(reported)
      added == AtMost(stored, MaxStored - spent[day])
  IN  /\ StillReserved(r)
      /\ rowState' = [rowState EXCEPT ![r] = "completed"]
      /\ rowActual' = [rowActual EXCEPT ![r] = stored]
      /\ UNCHANGED <<rowDay, rowMax, rowExpires, rowLane>>
      /\ spent' = [spent EXCEPT ![day] = @ + added]
      /\ RefreshReserved(day)
      /\ circuitOpen' = (circuitOpen \/ Breach(rowMax[r], reported) \/ added < stored)
      /\ UNCHANGED cleared

\* release: a request that failed before it could be billed.
Release(r) ==
  /\ StillReserved(r)
  /\ rowState' = [rowState EXCEPT ![r] = "released"]
  /\ UNCHANGED <<rowDay, rowMax, rowActual, rowExpires, rowLane>>
  /\ RefreshReserved(rowDay[r])
  /\ UNCHANGED <<spent, circuitOpen, cleared>>

\* settle or release of a row that has left the reserved state: rowcount is 0,
\* nothing is written, and the caller is told so.
TurnedAway(r) ==
  /\ rowState[r] # "absent" /\ ~StillReserved(r)
  /\ UNCHANGED vars

\* The operator clears the breaker in the runtime control row.
OperatorClears ==
  /\ circuitOpen
  /\ circuitOpen' = FALSE
  /\ cleared' = TRUE
  /\ UNCHANGED <<rowState, rowDay, rowMax, rowActual, rowExpires, rowLane,
                 spent, reservedUsd>>

Next ==
  \/ \E now \in Times, max \in MaxCosts \cup {Unpriced}, lane \in Lanes :
       ReserveDenied(now, max, lane)
  \/ \E now \in Times, max \in MaxCosts, lane \in Lanes, r \in Rows :
       ReserveAdmitted(now, max, lane, r)
  \/ \E r \in Rows, reported \in Reports : Settle(r, reported)
  \/ \E r \in Rows : Release(r)
  \/ \E r \in Rows : TurnedAway(r)
  \/ OperatorClears

Spec == Init /\ [][Next]_vars

-----------------------------------------------------------------------------
(* Properties.                                                             *)

\* Every column holds its value exactly: money is a whole number of stored
\* units within DECIMAL(12, 6), which is what storable_actual_cost_nano and the
\* headroom clamp of settle are for (ledger.py:373-381).
TypeOK ==
  /\ rowState \in [Rows -> RowStates]
  /\ rowDay \in [Rows -> Days]
  /\ rowMax \in [Rows -> Stored]
  /\ rowActual \in [Rows -> Stored]
  /\ rowExpires \in [Rows -> 0 .. LastTime + Expiry]
  /\ rowLane \in [Rows -> Lanes]
  /\ spent \in [Days -> 0 .. MaxStored]
  /\ reservedUsd \in [Days -> 0 .. MaxStored]
  /\ circuitOpen \in BOOLEAN
  /\ cleared \in BOOLEAN

\* By how much the completed row r was reported above what it had reserved.
overrun == [r \in Rows |-> IF rowActual[r] > rowMax[r] THEN rowActual[r] - rowMax[r] ELSE 0]

\* Settled cost plus live maxima stay within the ceiling of their day, however
\* reservations, settlements, sweeps and crashes interleave and however old a
\* caller's clock is: only an overrun a provider reported can lift them above it,
\* and by no more than that overrun (budget.py:279-284, ledger.py:283-336).
CeilingHolds ==
  \A d \in Days : spent[d] + Outstanding(d) <= Ceiling + SumOver(overrun, Completed(d))

\* What background row r was authorised to take of day d, and has not given back.
BackgroundClaim(d) ==
  [r \in Rows |->
     IF rowLane[r] = "background" /\ r \in Reserved(d) THEN rowMax[r]
     ELSE IF rowLane[r] = "background" /\ r \in Completed(d) THEN AtMost(rowActual[r], rowMax[r])
     ELSE 0]

\* Background work leaves the configured share of every day to people who are
\* waiting, and no rounding takes from that share (budget.py:182-191, 286-289).
HumanReserveKept ==
  \A d \in Days :
    (Ceiling - SumOver(BackgroundClaim(d), Rows)) * ReserveRatio[2] >= Ceiling * ReserveRatio[1]

\* reserved_usd never drifts from the rows it summarises, although three kinds of
\* transaction and the sweep inside a refused one all change them
\* (ledger.py:155-172, 301-306).
ReservedIsDerived == \A d \in Days : reservedUsd[d] = Outstanding(d)

\* spent_usd is the sum of the completed rows of its own day, whenever they were
\* settled, each counted once; past the column's width it stays at the width
\* (ledger.py:373-386).
SpentIsTheBooks ==
  \A d \in Days : spent[d] = AtMost(SumOver(rowActual, Completed(d)), MaxStored)

\* While the circuit is closed and no operator ever closed it, no row was charged
\* above its reservation and no charge was discarded, on this day or an earlier
\* one (ledger.py:116-134, 390-411).
BreakerRemembers ==
  ~circuitOpen /\ ~cleared =>
    \A d \in Days : /\ \A r \in Completed(d) : rowActual[r] <= rowMax[r]
                    /\ SumOver(rowActual, Completed(d)) <= MaxStored

\* A row that was charged, released or reclaimed is never touched again: a late
\* completion of a reclaimed row charges nothing, and a retry charges nothing
\* twice (ledger.py:217-221, 363-371).
FinalRowsUntouched ==
  \A r \in Rows : rowState[r] \in {"completed", "released", "expired"} =>
    /\ rowState'[r] = rowState[r]
    /\ rowActual'[r] = rowActual[r]
    /\ rowMax'[r] = rowMax[r]
    /\ rowDay'[r] = rowDay[r]
FinalRowsStay == [][FinalRowsUntouched]_vars
=============================================================================
