------------------------- MODULE BudgetLedgerProofs -------------------------
(***************************************************************************)
(* The ledger's safety properties, for any number of rows, any amounts,    *)
(* any clock and any reports.                                              *)
(*                                                                         *)
(* First the arithmetic of budget.py, then the types of the columns, then  *)
(* what each transaction does to the totals of a day, and last the         *)
(* inductive invariant LedgerInv, which the properties follow from.        *)
(***************************************************************************)
EXTENDS BudgetLedger, RowSumTheorems

\* The rounding up of quantize_storable_nano and reserve_floor_nano: never below
\* the quotient, and above it by less than one unit.
LEMMA CeilDivBounds ==
  ASSUME NEW a \in Nat, NEW b \in Nat \ {0}
  PROVE  /\ CeilDiv(a, b) \in Nat
         /\ a <= CeilDiv(a, b) * b
         /\ CeilDiv(a, b) * b <= a + b - 1
<1> DEFINE n == a + b - 1
<1>1. n \in Nat
  OBVIOUS
<1>2. n \div b \in Nat /\ n % b \in 0 .. (b - 1) /\ n = b * (n \div b) + (n % b)
  <2> HIDE DEF n
  <2>1. QED
    BY <1>1
<1>3. CeilDiv(a, b) = n \div b
  BY DEF CeilDiv
<1> DEFINE q == n \div b
<1>4. q * b = b * q /\ q * b \in Nat
  <2> HIDE DEF q
  <2>1. q \in Nat
    BY <1>2 DEF q
  <2>2. QED
    BY <2>1
<1> DEFINE m == q * b
<1>5. n = m + (n % b)
  <2> HIDE DEF n
  <2>1. QED
    BY <1>2, <1>4
<1>6. a <= m /\ m <= n
  <2> DEFINE e == n % b
  <2>1. e \in 0 .. (b - 1) /\ n = m + e /\ m \in Nat
    BY <1>2, <1>4, <1>5
  <2> HIDE DEF e, m
  <2>2. QED
    BY <2>1
<1>7. QED
  BY <1>2, <1>3, <1>6

\* quantize_storable_nano returns the least whole number of stored units that is
\* not below its argument.
LEMMA QuantizeUnits ==
  ASSUME NEW nano \in Int
  PROVE  /\ \E units \in Nat : Quantize(nano) = units * Scale
         /\ Quantize(nano) \in Nat
         /\ nano <= Quantize(nano)
         /\ \A units \in Nat : nano <= units * Scale => Quantize(nano) <= units * Scale
<1>1. Scale \in Nat \ {0}
  BY LedgerAssumption
<1>2. CASE nano <= 0
  <2>1. Quantize(nano) = 0
    BY <1>2 DEF Quantize
  <2>2. 0 = 0 * Scale
    BY <1>1
  <2>3. \A units \in Nat : 0 <= units * Scale
    BY <1>1
  <2>4. QED
    BY <1>2, <2>1, <2>2, <2>3
<1>3. CASE nano > 0
  <2> DEFINE q == CeilDiv(nano, Scale)
  <2>1. q \in Nat /\ nano <= q * Scale /\ q * Scale <= nano + Scale - 1
    BY <1>1, <1>3, CeilDivBounds
  <2>2. Quantize(nano) = q * Scale
    BY <1>3 DEF Quantize
  <2> HIDE DEF q
  <2>3. q * Scale \in Nat
    BY <1>1, <2>1
  <2>4. ASSUME NEW units \in Nat, nano <= units * Scale
        PROVE  q * Scale <= units * Scale
    <3>1. CASE q <= units
      BY <1>1, <2>1, <3>1
    <3>2. CASE q >= units + 1
      <4>1. q * Scale >= (units + 1) * Scale
        BY <1>1, <2>1, <3>2
      <4>2. (units + 1) * Scale = units * Scale + Scale
        BY <1>1
      <4>3. units * Scale \in Nat
        BY <1>1
      <4>4. QED
        BY <1>1, <2>1, <2>3, <2>4, <4>1, <4>2, <4>3
    <3>3. QED
      BY <2>1, <3>1, <3>2
  <2>5. QED
    BY <2>1, <2>2, <2>3, <2>4
<1>4. QED
  BY <1>2, <1>3

\* The column's bounds are stored amounts, and the ceiling is within them.
LEMMA MoneyTypes ==
  /\ MaxStored \in Nat
  /\ Stored \subseteq 0 .. MaxStored
  /\ MaxStored \in Stored
  /\ 0 \in Stored
  /\ Ceiling \in Nat \ {0} /\ Ceiling <= MaxStored
<1>1. Scale \in Nat \ {0} /\ MaxUnits \in Nat
  BY LedgerAssumption
<1>2. MaxStored \in Nat
  BY <1>1 DEF MaxStored
<1>3. ASSUME NEW units \in 0 .. MaxUnits PROVE units * Scale \in 0 .. MaxStored
  BY <1>1, <1>2 DEF MaxStored
<1>4. 0 * Scale = 0
  BY <1>1
<1>5. 0 \in 0 .. MaxUnits /\ MaxUnits \in 0 .. MaxUnits
  BY <1>1
<1>6. 0 \in Stored /\ MaxStored \in Stored
  BY <1>4, <1>5 DEF Stored, MaxStored
<1>7. QED
  BY <1>2, <1>3, <1>6, LedgerAssumption DEF Stored

\* A rounded amount that is not above the column's width can be stored.
LEMMA QuantizeStored ==
  ASSUME NEW nano \in Int, Quantize(nano) <= MaxStored
  PROVE  Quantize(nano) \in Stored
<1>1. Scale \in Nat \ {0} /\ MaxUnits \in Nat
  BY LedgerAssumption
<1>2. PICK units \in Nat : Quantize(nano) = units * Scale
  BY QuantizeUnits
<1>3. units <= MaxUnits
  <2>1. SUFFICES ASSUME units >= MaxUnits + 1 PROVE FALSE
    BY <1>1
  <2>2. units * Scale >= (MaxUnits + 1) * Scale
    BY <1>1, <2>1
  <2>3. (MaxUnits + 1) * Scale = MaxUnits * Scale + Scale
    BY <1>1
  <2>4. MaxUnits * Scale \in Nat
    BY <1>1
  <2>5. units * Scale <= MaxUnits * Scale
    BY <1>2 DEF MaxStored
  <2>6. units * Scale \in Nat
    BY <1>1
  <2>7. QED
    BY <1>1, <2>2, <2>3, <2>4, <2>5, <2>6
<1>4. QED
  BY <1>1, <1>2, <1>3 DEF Stored

\* storable_actual_cost_nano returns an amount the column holds, whatever a
\* provider reports (budget.py:336-355).
LEMMA StorableStored ==
  ASSUME NEW reported \in Int
  PROVE  /\ Storable(reported) \in Stored
         /\ Storable(reported) \in Nat
         /\ Storable(reported) <= MaxStored
<1>1. Quantize(reported) \in Nat
  BY QuantizeUnits
<1>2. CASE Quantize(reported) <= MaxStored
  BY <1>1, <1>2, MoneyTypes, QuantizeStored DEF Storable, AtMost
<1>3. CASE ~(Quantize(reported) <= MaxStored)
  BY <1>1, <1>3, MoneyTypes DEF Storable, AtMost
<1>4. QED
  BY <1>2, <1>3

-----------------------------------------------------------------------------
(* The columns' types, without the bound of reserved_usd, which needs the  *)
(* ceiling.                                                                *)

ColumnTypes ==
  /\ rowState \in [Rows -> RowStates]
  /\ rowDay \in [Rows -> Days]
  /\ rowMax \in [Rows -> Stored]
  /\ rowActual \in [Rows -> Stored]
  /\ rowExpires \in [Rows -> 0 .. LastTime + Expiry]
  /\ rowLane \in [Rows -> Lanes]
  /\ spent \in [Days -> 0 .. MaxStored]
  /\ reservedUsd \in [Days -> Nat]
  /\ circuitOpen \in BOOLEAN
  /\ cleared \in BOOLEAN

\* Every reading of the clock has a day.
LEMMA DayTypes ==
  /\ 0 \in Days
  /\ \A now \in Times : DayOf(now) \in Days
<1>1. 0 \in Times /\ DayLength \in Nat \ {0}
  BY LedgerAssumption DEF Times
<1>2. DayOf(0) = 0
  BY <1>1 DEF DayOf
<1>3. QED
  BY <1>1, <1>2 DEF Days

\* A row's money is a number, and its day one that has a total.
LEMMA ColumnsAreNat ==
  ASSUME ColumnTypes, NEW r \in Rows
  PROVE  /\ rowMax[r] \in Nat /\ rowActual[r] \in Nat
         /\ rowDay[r] \in Days
         /\ spent[rowDay[r]] \in 0 .. MaxStored
<1>1. Stored \subseteq Nat
  BY MoneyTypes
<1>2. rowMax[r] \in Stored /\ rowActual[r] \in Stored /\ rowDay[r] \in Days
  BY DEF ColumnTypes
<1>3. QED
  BY <1>1, <1>2 DEF ColumnTypes

\* The sums over any set of rows are numbers.
LEMMA SumTypes ==
  ASSUME ColumnTypes, NEW S \in SUBSET Rows
  PROVE  /\ IsFiniteSet(S)
         /\ SumOver(rowMax, S) \in Nat
         /\ SumOver(rowActual, S) \in Nat
         /\ SumOver(overrun, S) \in Nat
<1>1. IsFiniteSet(S)
  BY LedgerAssumption, FS_Subset
<1>2. \A x \in S : rowMax[x] \in Nat /\ rowActual[x] \in Nat
  BY ColumnsAreNat
<1>3. \A x \in S : overrun[x] \in Nat
  BY <1>2 DEF overrun
<1>4. QED
  BY <1>1, <1>2, <1>3, SumNat

\* What the statements' WHERE clauses pick are rows.
LEMMA RowSets ==
  ASSUME NEW d, NEW now
  PROVE  /\ Reserved(d) \in SUBSET Rows
         /\ Completed(d) \in SUBSET Rows
         /\ Lapsed(d, now) \in SUBSET Reserved(d)
         /\ Reserved(d) \ Lapsed(d, now) \in SUBSET Rows
  BY DEF Reserved, Completed, Lapsed

\* An empty database is well typed.
LEMMA InitColumns ==
  ASSUME Init PROVE ColumnTypes
<1>1. 0 \in 0 .. LastTime + Expiry /\ 0 \in 0 .. MaxStored
  BY LedgerAssumption, MoneyTypes
<1>2. QED
  BY <1>1, MoneyTypes, DayTypes DEF Init, ColumnTypes, RowStates, Lanes

\* What an admitted reservation holds can be stored, because the ceiling can.
LEMMA HeldStored ==
  ASSUME ColumnTypes, NEW now \in Times, NEW max \in MaxCosts, NEW lane \in Lanes,
         NEW r \in Rows, ReserveAdmitted(now, max, lane, r)
  PROVE  /\ Quantize(max) \in Stored
         /\ Quantize(max) \in Nat
         /\ Committed(DayOf(now), now) \in Nat
         /\ Committed(DayOf(now), now) + Quantize(max) <= Ceiling
<1>1. DayOf(now) \in Days
  BY DayTypes
<1>2. max \in Int /\ Quantize(max) \in Nat
  BY LedgerAssumption, QuantizeUnits
<1>3. Committed(DayOf(now), now) \in Nat
  <2>1. SumOver(rowMax, Reserved(DayOf(now)) \ Lapsed(DayOf(now), now)) \in Nat
    BY RowSets, SumTypes
  <2>2. spent[DayOf(now)] \in Nat
    BY <1>1, MoneyTypes DEF ColumnTypes
  <2>3. QED
    BY <2>1, <2>2 DEF Committed
<1>4. Committed(DayOf(now), now) + Quantize(max) <= Ceiling
  BY DEF ReserveAdmitted, Admitted
<1>5. Quantize(max) <= MaxStored
  BY <1>2, <1>3, <1>4, MoneyTypes
<1>6. QED
  BY <1>2, <1>3, <1>4, <1>5, QuantizeStored

\* What settle adds to a day's total is what the total has room for: adding it
\* saturates the total at the column's width (ledger.py:373-386).
LEMMA AddedFits ==
  ASSUME ColumnTypes, NEW r \in Rows, NEW reported \in Reports
  PROVE  LET stored == Storable(reported)
             added == AtMost(stored, MaxStored - spent[rowDay[r]])
         IN  /\ stored \in Nat /\ stored \in Stored
             /\ added \in Nat /\ added <= stored
             /\ spent[rowDay[r]] + added = AtMost(spent[rowDay[r]] + stored, MaxStored)
             /\ spent[rowDay[r]] + added \in 0 .. MaxStored
<1>1. reported \in Int
  BY LedgerAssumption
<1>2. Storable(reported) \in Nat /\ Storable(reported) \in Stored
  BY <1>1, StorableStored
<1>3. spent[rowDay[r]] \in 0 .. MaxStored
  BY ColumnsAreNat
<1>4. QED
  BY <1>2, <1>3, MoneyTypes DEF AtMost

\* Every transaction leaves every column well typed.
LEMMA StepColumns ==
  ASSUME ColumnTypes, [Next]_vars
  PROVE  ColumnTypes'
<1> DEFINE RowColumns == /\ rowState \in [Rows -> RowStates]
                         /\ rowDay \in [Rows -> Days]
                         /\ rowMax \in [Rows -> Stored]
                         /\ rowActual \in [Rows -> Stored]
                         /\ rowExpires \in [Rows -> 0 .. LastTime + Expiry]
                         /\ rowLane \in [Rows -> Lanes]
<1>1. ASSUME RowColumns', NEW day, RefreshReserved(day) PROVE reservedUsd' \in [Days -> Nat]
  <2>1. \A x \in Reserved(day)' : rowMax'[x] \in Nat
    <3>1. rowMax' \in [Rows -> Stored] /\ Stored \subseteq Nat
      BY <1>1, MoneyTypes
    <3>2. Reserved(day)' \subseteq Rows
      BY DEF Reserved
    <3>3. QED
      BY <3>1, <3>2
  <2>2. IsFiniteSet(Reserved(day)')
    <3>1. Reserved(day)' \in SUBSET Rows
      BY DEF Reserved
    <3>2. QED
      BY <3>1, LedgerAssumption, FS_Subset
  <2>3. QED
    BY <1>1, <2>1, <2>2, SumNat DEF RefreshReserved, ColumnTypes
<1>2. ASSUME NEW now \in Times, NEW max \in MaxCosts \cup {Unpriced}, NEW lane \in Lanes,
             ReserveDenied(now, max, lane)
      PROVE  ColumnTypes'
  <2>1. RowColumns'
    BY <1>2 DEF ReserveDenied, ColumnTypes, RowStates
  <2>2. QED
    BY <1>1, <1>2, <2>1 DEF ReserveDenied, ColumnTypes
<1>3. ASSUME NEW now \in Times, NEW max \in MaxCosts, NEW lane \in Lanes, NEW r \in Rows,
             ReserveAdmitted(now, max, lane, r)
      PROVE  ColumnTypes'
  <2>1. Quantize(max) \in Stored
    BY <1>3, HeldStored
  <2>2. DayOf(now) \in Days
    BY DayTypes
  <2>3. now + Expiry \in 0 .. LastTime + Expiry
    BY LedgerAssumption DEF Times
  <2>4. RowColumns'
    BY <1>3, <2>1, <2>2, <2>3 DEF ReserveAdmitted, ColumnTypes, RowStates
  <2>5. QED
    BY <1>1, <1>3, <2>4 DEF ReserveAdmitted, ColumnTypes
<1>4. ASSUME NEW r \in Rows, NEW reported \in Reports, Settle(r, reported)
      PROVE  ColumnTypes'
  <2>1. /\ Storable(reported) \in Stored
        /\ spent[rowDay[r]] + AtMost(Storable(reported), MaxStored - spent[rowDay[r]])
             \in 0 .. MaxStored
    BY AddedFits
  <2>2. RowColumns'
    BY <1>4, <2>1 DEF Settle, StillReserved, ColumnTypes, RowStates
  <2>3. spent' \in [Days -> 0 .. MaxStored]
    BY <1>4, <2>1 DEF Settle, StillReserved, ColumnTypes
  <2>4. circuitOpen' \in BOOLEAN
    BY <1>4 DEF Settle, StillReserved
  <2>5. QED
    BY <1>1, <1>4, <2>2, <2>3, <2>4 DEF Settle, StillReserved, ColumnTypes
<1>5. ASSUME NEW r \in Rows, Release(r)
      PROVE  ColumnTypes'
  <2>1. RowColumns'
    BY <1>5 DEF Release, StillReserved, ColumnTypes, RowStates
  <2>2. QED
    BY <1>1, <1>5, <2>1 DEF Release, StillReserved, ColumnTypes
<1>6. ASSUME OperatorClears PROVE ColumnTypes'
  BY <1>6 DEF OperatorClears, ColumnTypes
<1>7. ASSUME UNCHANGED vars PROVE ColumnTypes'
  BY <1>7 DEF vars, ColumnTypes
<1>8. QED
  BY <1>2, <1>3, <1>4, <1>5, <1>6, <1>7 DEF Next, TurnedAway

-----------------------------------------------------------------------------
(* What each transaction does to the totals of a day.                      *)

\* The totals of day d that its reserved rows do not enter.
SettledTotals(d) ==
  <<spent[d], SumOver(rowActual, Completed(d)), SumOver(overrun, Completed(d))>>

\* _refresh_reserved_usd rewrites one day's total and leaves the others alone.
LEMMA Refreshed ==
  ASSUME ColumnTypes, NEW day \in Days, RefreshReserved(day), NEW d \in Days
  PROVE  /\ d = day => reservedUsd'[d] = Outstanding(d)'
         /\ d # day => reservedUsd'[d] = reservedUsd[d]
  BY DEF RefreshReserved, ColumnTypes, Outstanding

\* A refusal settles nothing and only lowers what its own day has outstanding.
LEMMA DenyEffect ==
  ASSUME ColumnTypes, NEW now \in Times, NEW max \in MaxCosts \cup {Unpriced},
         NEW lane \in Lanes, ReserveDenied(now, max, lane), NEW d \in Days
  PROVE  /\ SettledTotals(d)' = SettledTotals(d)
         /\ Outstanding(d)' \in Nat /\ Outstanding(d)' <= Outstanding(d)
         /\ d # DayOf(now) => Outstanding(d)' = Outstanding(d)
<1>1. DayOf(now) \in Days /\ \A r \in Lapsed(DayOf(now), now) : rowState[r] = "reserved"
  BY DayTypes DEF Lapsed, Reserved
<1>2. Completed(d)' = Completed(d)
  BY <1>1 DEF ReserveDenied, Completed
<1>3. Reserved(d)' \in SUBSET Reserved(d)
  BY DEF ReserveDenied, Reserved
<1>4. d # DayOf(now) => Reserved(d)' = Reserved(d)
  BY DEF ReserveDenied, Reserved, Lapsed
<1>5. rowMax' = rowMax /\ rowActual' = rowActual /\ spent' = spent /\ overrun' = overrun
  BY DEF ReserveDenied, overrun
<1>6. /\ \A x \in Reserved(d) : rowMax[x] \in Nat
      /\ IsFiniteSet(Reserved(d))
  BY RowSets, SumTypes, ColumnsAreNat
<1>7. SumOver(rowMax, Reserved(d)') <= SumOver(rowMax, Reserved(d))
  BY <1>3, <1>6, SumMonotone
<1>8. SumOver(rowMax, Reserved(d)') \in Nat
  BY <1>3, RowSets, SumTypes
<1>9. QED
  BY <1>2, <1>4, <1>5, <1>7, <1>8 DEF Outstanding, SettledTotals

\* An admission adds its maximum to what the sweep left of its day.
LEMMA AdmitEffect ==
  ASSUME ColumnTypes, NEW now \in Times, NEW max \in MaxCosts, NEW lane \in Lanes,
         NEW r \in Rows, ReserveAdmitted(now, max, lane, r), NEW d \in Days
  PROVE  /\ SettledTotals(d)' = SettledTotals(d)
         /\ d = DayOf(now) =>
              Outstanding(d)' = Quantize(max) + SumOver(rowMax, Reserved(d) \ Lapsed(d, now))
         /\ d # DayOf(now) => Outstanding(d)' = Outstanding(d)
<1> DEFINE kept == Reserved(d) \ Lapsed(d, now)
<1>1. Quantize(max) \in Nat /\ rowState[r] = "absent"
  BY HeldStored DEF ReserveAdmitted
<1>2. r \notin Reserved(d) /\ r \notin Completed(d)
  BY <1>1 DEF Reserved, Completed
<1>3. Completed(d)' = Completed(d)
  BY <1>1 DEF ReserveAdmitted, Completed, Lapsed, Reserved, ColumnTypes
<1>4. d = DayOf(now) => Reserved(d)' = kept \cup {r}
  BY <1>1 DEF ReserveAdmitted, Reserved, Lapsed, ColumnTypes
<1>5. d # DayOf(now) => Reserved(d)' = Reserved(d)
  BY <1>1 DEF ReserveAdmitted, Reserved, Lapsed, ColumnTypes
<1>6. /\ \A x \in Rows : x # r => rowMax'[x] = rowMax[x] /\ overrun'[x] = overrun[x]
      /\ rowMax'[r] = Quantize(max)
      /\ rowActual' = rowActual /\ spent' = spent
  BY DEF ReserveAdmitted, ColumnTypes, overrun
<1>7. SettledTotals(d)' = SettledTotals(d)
  <2>1. IsFiniteSet(Completed(d)) /\ Completed(d) \in SUBSET Rows
    BY RowSets, SumTypes
  <2>2. \A x \in Completed(d) : overrun[x] \in Nat /\ overrun'[x] = overrun[x]
    BY <1>2, <1>6, <2>1, ColumnsAreNat DEF overrun
  <2>3. SumOver(overrun', Completed(d)) = SumOver(overrun, Completed(d))
    BY <2>1, <2>2, SumSame
  <2>4. QED
    BY <1>3, <1>6, <2>3 DEF SettledTotals
<1>8. ASSUME d = DayOf(now)
      PROVE  Outstanding(d)' = Quantize(max) + SumOver(rowMax, kept)
  <2>1. IsFiniteSet(kept) /\ kept \in SUBSET Rows /\ r \notin kept
    BY <1>2, RowSets, SumTypes
  <2>2. \A x \in kept : rowMax[x] \in Nat /\ rowMax'[x] = rowMax[x]
    BY <1>6, <2>1, ColumnsAreNat
  <2>3. \A x \in kept \cup {r} : rowMax'[x] \in Nat
    BY <1>1, <1>6, <2>2
  <2> HIDE DEF kept
  <2>4. SumOver(rowMax', kept \cup {r}) = rowMax'[r] + SumOver(rowMax', kept)
    BY <2>1, <2>3, SumInsert
  <2>5. SumOver(rowMax', kept) = SumOver(rowMax, kept)
    BY <2>1, <2>2, SumSame
  <2>6. QED
    BY <1>4, <1>6, <1>8, <2>4, <2>5 DEF Outstanding
<1>9. ASSUME d # DayOf(now) PROVE Outstanding(d)' = Outstanding(d)
  <2>1. IsFiniteSet(Reserved(d)) /\ Reserved(d) \in SUBSET Rows
    BY RowSets, SumTypes
  <2>2. \A x \in Reserved(d) : rowMax[x] \in Nat /\ rowMax'[x] = rowMax[x]
    BY <1>2, <1>6, <2>1, ColumnsAreNat
  <2>3. SumOver(rowMax', Reserved(d)) = SumOver(rowMax, Reserved(d))
    BY <2>1, <2>2, SumSame
  <2>4. QED
    BY <1>5, <1>9, <2>3 DEF Outstanding
<1>10. QED
  BY <1>7, <1>8, <1>9

\* A settlement moves its row's maximum out of what is outstanding and its
\* reported cost, saturated, into what is spent, on the day of the row.
LEMMA SettleEffect ==
  ASSUME ColumnTypes, NEW r \in Rows, NEW reported \in Reports, Settle(r, reported),
         NEW d \in Days
  PROVE  /\ Outstanding(d)' \in Nat
         /\ d = rowDay[r] =>
              /\ Outstanding(d) = rowMax[r] + Outstanding(d)'
              /\ spent'[d] = AtMost(spent[d] + Storable(reported), MaxStored)
              /\ SumOver(rowActual, Completed(d))'
                   = Storable(reported) + SumOver(rowActual, Completed(d))
              /\ SumOver(overrun, Completed(d))'
                   = (IF Storable(reported) > rowMax[r] THEN Storable(reported) - rowMax[r] ELSE 0)
                     + SumOver(overrun, Completed(d))
         /\ d # rowDay[r] =>
              SettledTotals(d)' = SettledTotals(d) /\ Outstanding(d)' = Outstanding(d)
<1> DEFINE stored == Storable(reported)
           over == IF stored > rowMax[r] THEN stored - rowMax[r] ELSE 0
<1>1. /\ rowState[r] = "reserved" /\ stored \in Nat /\ rowDay[r] \in Days
      /\ rowMax[r] \in Nat
  BY AddedFits, ColumnsAreNat DEF Settle, StillReserved
<1>2. r \notin Completed(d) /\ IsFiniteSet(Completed(d)) /\ Completed(d) \in SUBSET Rows
  BY <1>1, RowSets, SumTypes DEF Completed
<1>3. IsFiniteSet(Reserved(d)) /\ Reserved(d) \in SUBSET Rows
  BY RowSets, SumTypes
<1>4. /\ rowMax' = rowMax
      /\ rowActual'[r] = stored
      /\ overrun'[r] = over
      /\ \A x \in Rows : x # r => rowActual'[x] = rowActual[x] /\ overrun'[x] = overrun[x]
  BY DEF Settle, StillReserved, ColumnTypes, overrun
<1>5. /\ d = rowDay[r] => Reserved(d)' = Reserved(d) \ {r} /\ r \in Reserved(d)
      /\ d # rowDay[r] => Reserved(d)' = Reserved(d)
  BY <1>1 DEF Settle, StillReserved, Reserved, ColumnTypes
<1>6. /\ d = rowDay[r] => Completed(d)' = Completed(d) \cup {r}
      /\ d # rowDay[r] => Completed(d)' = Completed(d)
  BY <1>1 DEF Settle, StillReserved, Completed, ColumnTypes
<1>7. \A x \in Completed(d) : /\ rowActual[x] \in Nat /\ rowActual'[x] = rowActual[x]
                              /\ overrun[x] \in Nat /\ overrun'[x] = overrun[x]
  BY <1>2, <1>4, ColumnsAreNat DEF overrun
<1> HIDE DEF stored
<1>8. /\ SumOver(rowActual', Completed(d)) = SumOver(rowActual, Completed(d))
      /\ SumOver(overrun', Completed(d)) = SumOver(overrun, Completed(d))
  BY <1>2, <1>7, SumSame
<1>9. \A x \in Completed(d) \cup {r} : rowActual'[x] \in Nat /\ overrun'[x] \in Nat
  BY <1>1, <1>4, <1>7
<1>10. /\ SumOver(rowActual', Completed(d) \cup {r}) = stored + SumOver(rowActual', Completed(d))
       /\ SumOver(overrun', Completed(d) \cup {r}) = over + SumOver(overrun', Completed(d))
  <2> HIDE DEF over
  <2>1. QED
    BY <1>2, <1>4, <1>9, SumInsert
<1>11. \A x \in Reserved(d) : rowMax[x] \in Nat
  BY <1>3, ColumnsAreNat
<1>12. ASSUME d = rowDay[r]
       PROVE  Outstanding(d) = rowMax[r] + Outstanding(d)'
  BY <1>3, <1>4, <1>5, <1>11, <1>12, SumRemove DEF Outstanding
<1>13. ASSUME d = rowDay[r]
       PROVE  spent'[d] = AtMost(spent[d] + stored, MaxStored)
  BY <1>13, AddedFits DEF Settle, StillReserved, ColumnTypes, stored
<1>14. ASSUME d # rowDay[r]
       PROVE  SettledTotals(d)' = SettledTotals(d) /\ Outstanding(d)' = Outstanding(d)
  <2>1. spent'[d] = spent[d]
    BY <1>14 DEF Settle, StillReserved, ColumnTypes
  <2>2. QED
    BY <1>4, <1>5, <1>6, <1>8, <1>14, <2>1 DEF SettledTotals, Outstanding
<1>15. Outstanding(d)' \in Nat
  <2>1. Reserved(d)' \in SUBSET Rows
    BY <1>3, <1>5
  <2>2. SumOver(rowMax, Reserved(d)') \in Nat
    BY <2>1, SumTypes
  <2>3. QED
    BY <1>4, <2>2 DEF Outstanding
<1>16. QED
  BY <1>6, <1>8, <1>10, <1>12, <1>13, <1>14, <1>15 DEF stored

\* A release settles nothing and only lowers what the row's day has outstanding.
LEMMA ReleaseEffect ==
  ASSUME ColumnTypes, NEW r \in Rows, Release(r), NEW d \in Days
  PROVE  /\ SettledTotals(d)' = SettledTotals(d)
         /\ Outstanding(d)' \in Nat /\ Outstanding(d)' <= Outstanding(d)
         /\ d # rowDay[r] => Outstanding(d)' = Outstanding(d)
<1>1. rowState[r] = "reserved" /\ rowMax[r] \in Nat
  BY ColumnsAreNat DEF Release, StillReserved
<1>2. Completed(d)' = Completed(d)
  BY <1>1 DEF Release, StillReserved, Completed, ColumnTypes
<1>3. /\ d = rowDay[r] => Reserved(d)' = Reserved(d) \ {r} /\ r \in Reserved(d)
      /\ d # rowDay[r] => Reserved(d)' = Reserved(d)
  BY <1>1 DEF Release, StillReserved, Reserved, ColumnTypes
<1>4. rowMax' = rowMax /\ rowActual' = rowActual /\ spent' = spent /\ overrun' = overrun
  BY DEF Release, StillReserved, overrun
<1>5. IsFiniteSet(Reserved(d)) /\ \A x \in Reserved(d) : rowMax[x] \in Nat
  BY RowSets, SumTypes, ColumnsAreNat
<1>6. Reserved(d)' \in SUBSET Reserved(d) /\ Reserved(d)' \in SUBSET Rows
  BY <1>3, RowSets
<1>7. SumOver(rowMax, Reserved(d)') <= SumOver(rowMax, Reserved(d))
  BY <1>5, <1>6, SumMonotone
<1>8. SumOver(rowMax, Reserved(d)') \in Nat
  BY <1>6, SumTypes
<1>9. QED
  BY <1>2, <1>3, <1>4, <1>7, <1>8 DEF Outstanding, SettledTotals

-----------------------------------------------------------------------------
(* The inductive invariant.  CeilingHolds is not inductive by itself: what *)
(* a settlement adds to the day is bounded by what leaves the reserved     *)
(* rows only up to its overrun, the saturation test reads spent as the sum *)
(* of the charged rows, and the breaker is shut only while both agree.     *)

OutstandingFits == \A d \in Days : Outstanding(d) <= Ceiling

LedgerInv ==
  /\ ColumnTypes
  /\ OutstandingFits
  /\ CeilingHolds
  /\ ReservedIsDerived
  /\ SpentIsTheBooks
  /\ BreakerRemembers

\* A day's totals are numbers.
LEMMA TotalTypes ==
  ASSUME ColumnTypes, NEW d \in Days
  PROVE  /\ Outstanding(d) \in Nat
         /\ SumOver(rowActual, Completed(d)) \in Nat
         /\ SumOver(overrun, Completed(d)) \in Nat
         /\ spent[d] \in Nat /\ spent[d] <= MaxStored
<1>1. spent[d] \in 0 .. MaxStored
  BY DEF ColumnTypes
<1>2. QED
  BY <1>1, RowSets, SumTypes, MoneyTypes DEF Outstanding

\* The invariant holds of an empty database.
LEMMA InitInv ==
  ASSUME Init PROVE LedgerInv
<1>1. ColumnTypes
  BY InitColumns
<1>2. \A d \in Days : Reserved(d) = {} /\ Completed(d) = {} /\ spent[d] = 0 /\ reservedUsd[d] = 0
  BY DEF Init, Reserved, Completed
<1>3. \A d \in Days : /\ Outstanding(d) = 0
                      /\ SumOver(rowActual, Completed(d)) = 0
                      /\ SumOver(overrun, Completed(d)) = 0
  BY <1>2, SumEmpty DEF Outstanding
<1>4. QED
  BY <1>1, <1>2, <1>3, MoneyTypes
     DEF LedgerInv, OutstandingFits, CeilingHolds, ReservedIsDerived, SpentIsTheBooks,
         BreakerRemembers, AtMost

\* A step that leaves the settled totals alone and lowers what is outstanding.
LEMMA LoweredKeeps ==
  ASSUME LedgerInv, ColumnTypes', NEW day \in Days, RefreshReserved(day),
         \A d \in Days : /\ SettledTotals(d)' = SettledTotals(d)
                         /\ Outstanding(d)' \in Nat /\ Outstanding(d)' <= Outstanding(d)
                         /\ d # day => Outstanding(d)' = Outstanding(d),
         \A d \in Days : Completed(d)' = Completed(d),
         rowMax' = rowMax, rowActual' = rowActual,
         circuitOpen' = circuitOpen, cleared' = cleared
  PROVE  LedgerInv'
<1>1. ColumnTypes
  BY DEF LedgerInv
<1>2. \A d \in Days : /\ spent'[d] = spent[d]
                      /\ SumOver(rowActual, Completed(d))' = SumOver(rowActual, Completed(d))
                      /\ SumOver(overrun, Completed(d))' = SumOver(overrun, Completed(d))
  BY DEF SettledTotals
<1>3. ReservedIsDerived'
  BY <1>1, Refreshed DEF LedgerInv, ReservedIsDerived
<1>4. OutstandingFits'
  BY <1>1, TotalTypes, MoneyTypes DEF LedgerInv, OutstandingFits
<1>5. CeilingHolds'
  BY <1>1, <1>2, TotalTypes, MoneyTypes DEF LedgerInv, CeilingHolds
<1>6. SpentIsTheBooks'
  BY <1>2 DEF LedgerInv, SpentIsTheBooks
<1>7. BreakerRemembers'
  BY <1>2 DEF LedgerInv, BreakerRemembers
<1>8. QED
  BY <1>3, <1>4, <1>5, <1>6, <1>7 DEF LedgerInv

\* A refusal keeps the invariant.
LEMMA DenyKeeps ==
  ASSUME LedgerInv, ColumnTypes', NEW now \in Times, NEW max \in MaxCosts \cup {Unpriced},
         NEW lane \in Lanes, ReserveDenied(now, max, lane)
  PROVE  LedgerInv'
<1>1. ColumnTypes /\ DayOf(now) \in Days
  BY DayTypes DEF LedgerInv
<1>2. \A d \in Days : Completed(d)' = Completed(d)
  BY DEF ReserveDenied, Completed, Lapsed, Reserved
<1>3. \A d \in Days : /\ SettledTotals(d)' = SettledTotals(d)
                      /\ Outstanding(d)' \in Nat /\ Outstanding(d)' <= Outstanding(d)
                      /\ d # DayOf(now) => Outstanding(d)' = Outstanding(d)
  BY <1>1, DenyEffect
<1>4. /\ RefreshReserved(DayOf(now))
      /\ rowMax' = rowMax /\ rowActual' = rowActual
      /\ circuitOpen' = circuitOpen /\ cleared' = cleared
  BY DEF ReserveDenied
<1>5. QED
  BY <1>1, <1>2, <1>3, <1>4, LoweredKeeps

\* A release keeps the invariant.
LEMMA ReleaseKeeps ==
  ASSUME LedgerInv, ColumnTypes', NEW r \in Rows, Release(r)
  PROVE  LedgerInv'
<1>1. ColumnTypes /\ rowDay[r] \in Days
  BY ColumnsAreNat DEF LedgerInv
<1>2. \A d \in Days : Completed(d)' = Completed(d)
  BY <1>1 DEF Release, StillReserved, Completed, ColumnTypes
<1>3. \A d \in Days : /\ SettledTotals(d)' = SettledTotals(d)
                      /\ Outstanding(d)' \in Nat /\ Outstanding(d)' <= Outstanding(d)
                      /\ d # rowDay[r] => Outstanding(d)' = Outstanding(d)
  BY <1>1, ReleaseEffect
<1>4. /\ RefreshReserved(rowDay[r])
      /\ rowMax' = rowMax /\ rowActual' = rowActual
      /\ circuitOpen' = circuitOpen /\ cleared' = cleared
  BY DEF Release, StillReserved
<1>5. QED
  BY <1>1, <1>2, <1>3, <1>4, LoweredKeeps

\* An admission keeps the invariant: spent_usd is what admit compares with the
\* ceiling, and below the ceiling it is exactly the sum of the charged rows.
LEMMA AdmitKeeps ==
  ASSUME LedgerInv, ColumnTypes', NEW now \in Times, NEW max \in MaxCosts,
         NEW lane \in Lanes, NEW r \in Rows, ReserveAdmitted(now, max, lane, r)
  PROVE  LedgerInv'
<1> DEFINE day == DayOf(now)
           live == SumOver(rowMax, Reserved(day) \ Lapsed(day, now))
<1>1. ColumnTypes /\ day \in Days
  BY DayTypes DEF LedgerInv
<1>2. live \in Nat
  BY <1>1, RowSets, SumTypes
<1>3. Quantize(max) \in Nat /\ spent[day] + live + Quantize(max) <= Ceiling
  <2>1. spent[day] + live + Quantize(max) <= Ceiling
    BY <1>1 DEF ReserveAdmitted, Admitted, Committed
  <2>2. Quantize(max) \in Nat
    BY <1>1, HeldStored
  <2>3. QED
    BY <2>1, <2>2
<1>4. \A d \in Days : /\ spent'[d] = spent[d]
                      /\ SumOver(rowActual, Completed(d))' = SumOver(rowActual, Completed(d))
                      /\ SumOver(overrun, Completed(d))' = SumOver(overrun, Completed(d))
  BY <1>1, AdmitEffect DEF SettledTotals
<1>5. Outstanding(day)' = Quantize(max) + live
  BY <1>1, AdmitEffect
<1>6. \A d \in Days : d # day => Outstanding(d)' = Outstanding(d)
  BY <1>1, AdmitEffect
<1> HIDE DEF live, day
<1>7. ReservedIsDerived'
  <2>1. RefreshReserved(day)
    BY DEF ReserveAdmitted, day
  <2>2. QED
    BY <1>1, <1>6, <2>1, Refreshed DEF LedgerInv, ReservedIsDerived
<1>8. OutstandingFits'
  BY <1>1, <1>2, <1>3, <1>5, <1>6, TotalTypes, MoneyTypes DEF LedgerInv, OutstandingFits
<1>9. CeilingHolds'
  BY <1>1, <1>2, <1>3, <1>4, <1>5, <1>6, TotalTypes, MoneyTypes DEF LedgerInv, CeilingHolds
<1>10. SpentIsTheBooks'
  BY <1>4 DEF LedgerInv, SpentIsTheBooks
<1>11. BreakerRemembers'
  <2>1. rowState[r] = "absent" /\ circuitOpen' = circuitOpen /\ cleared' = cleared
    BY DEF ReserveAdmitted
  <2>2. \A d \in Days : Completed(d)' = Completed(d) /\ r \notin Completed(d)
    BY <1>1, <2>1 DEF ReserveAdmitted, Completed, Lapsed, Reserved, ColumnTypes
  <2>3. \A d \in Days : \A x \in Completed(d) : rowMax'[x] = rowMax[x] /\ rowActual'[x] = rowActual[x]
    BY <1>1, <2>2, RowSets DEF ReserveAdmitted, ColumnTypes
  <2>4. QED
    BY <1>4, <2>1, <2>2, <2>3 DEF LedgerInv, BreakerRemembers
<1>12. QED
  BY <1>7, <1>8, <1>9, <1>10, <1>11 DEF LedgerInv

\* A report within the reservation is stored within it: both are rounded up to
\* the same units.
LEMMA WithinReservation ==
  ASSUME ColumnTypes, NEW r \in Rows, NEW reported \in Reports, ~Breach(rowMax[r], reported)
  PROVE  Storable(reported) <= rowMax[r]
<1>1. rowMax[r] \in Stored /\ reported \in Int /\ reported <= rowMax[r]
  BY LedgerAssumption, ColumnsAreNat DEF ColumnTypes, Breach
<1>2. PICK units \in Nat : rowMax[r] = units * Scale
  BY <1>1, LedgerAssumption DEF Stored
<1>3. Quantize(reported) \in Nat /\ Quantize(reported) <= rowMax[r]
  BY <1>1, <1>2, QuantizeUnits
<1>4. rowMax[r] \in Nat
  BY ColumnsAreNat
<1>5. QED
  BY <1>3, <1>4, MoneyTypes DEF Storable, AtMost

\* A settlement keeps the invariant: what it charges above the row's maximum is
\* an overrun, and an overrun or a discarded remainder opens the circuit.
LEMMA SettleKeeps ==
  ASSUME LedgerInv, ColumnTypes', NEW r \in Rows, NEW reported \in Reports,
         Settle(r, reported)
  PROVE  LedgerInv'
<1> DEFINE stored == Storable(reported)
<1>0. PICK day \in Days : day = rowDay[r]
  BY ColumnsAreNat DEF LedgerInv
<1>1. /\ ColumnTypes /\ stored \in Nat
      /\ rowMax[r] \in Nat /\ rowState[r] = "reserved"
  BY ColumnsAreNat, AddedFits DEF LedgerInv, Settle, StillReserved
<1>2. /\ Outstanding(day) = rowMax[r] + Outstanding(day)'
      /\ spent'[day] = AtMost(spent[day] + stored, MaxStored)
      /\ SumOver(rowActual, Completed(day))' = stored + SumOver(rowActual, Completed(day))
      /\ SumOver(overrun, Completed(day))'
           = (IF stored > rowMax[r] THEN stored - rowMax[r] ELSE 0)
             + SumOver(overrun, Completed(day))
  BY <1>0, <1>1, SettleEffect
<1>3. \A d \in Days : d # day =>
        /\ spent'[d] = spent[d]
        /\ SumOver(rowActual, Completed(d))' = SumOver(rowActual, Completed(d))
        /\ SumOver(overrun, Completed(d))' = SumOver(overrun, Completed(d))
        /\ Outstanding(d)' = Outstanding(d)
  BY <1>0, <1>1, SettleEffect DEF SettledTotals
<1>4. \A d \in Days : Outstanding(d)' \in Nat
  BY <1>1, SettleEffect
<1> HIDE DEF stored
<1>5. ReservedIsDerived'
  <2>1. RefreshReserved(day)
    BY <1>0 DEF Settle, StillReserved
  <2>2. QED
    BY <1>1, <1>3, <2>1, Refreshed DEF LedgerInv, ReservedIsDerived
<1>6. OutstandingFits'
  <2>1. Outstanding(day)' <= Ceiling
    BY <1>1, <1>2, <1>4, MoneyTypes DEF LedgerInv, OutstandingFits
  <2>2. QED
    BY <1>3, <2>1 DEF LedgerInv, OutstandingFits
<1>7. CeilingHolds'
  <2>1. spent[day] \in Nat /\ SumOver(overrun, Completed(day)) \in Nat
    BY <1>1, TotalTypes
  <2>2. spent'[day] <= spent[day] + stored /\ spent'[day] \in Nat
    BY <1>1, <1>2, <2>1, MoneyTypes DEF AtMost
  <2>3. spent[day] + Outstanding(day) <= Ceiling + SumOver(overrun, Completed(day))
    BY <1>1 DEF LedgerInv, CeilingHolds
  <2>4. spent'[day] + Outstanding(day)' <= Ceiling + SumOver(overrun, Completed(day))'
    BY <1>1, <1>2, <1>4, <2>1, <2>2, <2>3, MoneyTypes
  <2>5. QED
    BY <1>3, <2>4 DEF LedgerInv, CeilingHolds
<1>8. SpentIsTheBooks'
  <2>1. spent[day] = AtMost(SumOver(rowActual, Completed(day)), MaxStored)
    BY <1>1 DEF LedgerInv, SpentIsTheBooks
  <2>2. spent'[day] = AtMost(SumOver(rowActual, Completed(day))', MaxStored)
    BY <1>1, <1>2, <2>1, TotalTypes, MoneyTypes DEF AtMost
  <2>3. QED
    BY <1>3, <2>2 DEF LedgerInv, SpentIsTheBooks
<1>9. BreakerRemembers'
  <2>1. SUFFICES ASSUME ~circuitOpen', ~cleared', NEW d \in Days
                 PROVE  /\ \A x \in Completed(d)' : rowActual'[x] <= rowMax'[x]
                        /\ SumOver(rowActual, Completed(d))' <= MaxStored
    BY DEF BreakerRemembers
  <2>2. /\ ~circuitOpen /\ ~cleared
        /\ ~Breach(rowMax[r], reported)
        /\ ~(AtMost(stored, MaxStored - spent[day]) < stored)
    BY <1>0, <2>1 DEF Settle, StillReserved, stored
  <2>3. /\ \A x \in Completed(d) : rowActual[x] <= rowMax[x]
        /\ SumOver(rowActual, Completed(d)) <= MaxStored
    BY <2>2 DEF LedgerInv, BreakerRemembers
  <2>4. stored <= rowMax[r]
    BY <1>1, <2>2, WithinReservation DEF stored
  <2>5. /\ Completed(d)' \subseteq Completed(d) \cup {r}
        /\ rowMax' = rowMax /\ rowActual'[r] = stored
        /\ \A x \in Rows : x # r => rowActual'[x] = rowActual[x]
    BY <1>1 DEF Settle, StillReserved, Completed, ColumnTypes, stored
  <2>6. \A x \in Completed(d)' : rowActual'[x] <= rowMax'[x]
    <3>1. Completed(d) \in SUBSET Rows
      BY RowSets
    <3>2. QED
      BY <2>3, <2>4, <2>5, <3>1
  <2>7. CASE d = day
    <3>1. spent[day] = SumOver(rowActual, Completed(day))
      BY <1>1, <2>3, <2>7 DEF LedgerInv, SpentIsTheBooks, AtMost
    <3>2. spent[day] \in Nat /\ stored <= MaxStored - spent[day]
      BY <1>1, <2>2, TotalTypes, MoneyTypes DEF AtMost
    <3>3. SumOver(rowActual, Completed(d))' <= MaxStored
      BY <1>1, <1>2, <2>7, <3>1, <3>2, MoneyTypes
    <3>4. QED
      BY <2>6, <3>3
  <2>8. CASE d # day
    BY <1>3, <2>3, <2>6, <2>8
  <2>9. QED
    BY <2>7, <2>8
<1>10. QED
  BY <1>5, <1>6, <1>7, <1>8, <1>9 DEF LedgerInv

\* Every transaction keeps the invariant.
LEMMA InvStep ==
  ASSUME LedgerInv, [Next]_vars PROVE LedgerInv'
<1>1. ColumnTypes'
  BY StepColumns DEF LedgerInv
<1>2. ASSUME UNCHANGED vars PROVE LedgerInv'
  BY <1>1, <1>2 DEF vars, LedgerInv, OutstandingFits, CeilingHolds, ReservedIsDerived,
       SpentIsTheBooks, BreakerRemembers, Outstanding, Reserved, Completed, overrun
<1>3. ASSUME OperatorClears PROVE LedgerInv'
  BY <1>1, <1>3 DEF OperatorClears, LedgerInv, OutstandingFits, CeilingHolds,
       ReservedIsDerived, SpentIsTheBooks, BreakerRemembers, Outstanding, Reserved,
       Completed, overrun
<1>4. QED
  BY <1>1, <1>2, <1>3, DenyKeeps, AdmitKeeps, SettleKeeps, ReleaseKeeps DEF Next, TurnedAway

\* The inductive invariant holds in every state the ledger reaches.
THEOREM LedgerInvariant == Spec => []LedgerInv
<1>1. Init => LedgerInv
  BY InitInv
<1>2. LedgerInv /\ [Next]_vars => LedgerInv'
  BY InvStep
<1>3. QED
  BY <1>1, <1>2, PTL DEF Spec

-----------------------------------------------------------------------------
(* What follows from the invariant.                                        *)

\* Every column keeps its type: reserved_usd stays within its column because it
\* is a sum the ceiling bounds (ledger.py:155-172, schema.py's DECIMAL(12, 6)).
THEOREM TypeCorrect == Spec => []TypeOK
<1>1. LedgerInv => TypeOK
  <2>1. SUFFICES ASSUME LedgerInv, NEW d \in Days PROVE reservedUsd[d] \in 0 .. MaxStored
    BY DEF LedgerInv, ColumnTypes, TypeOK
  <2>2. Outstanding(d) \in Nat /\ Outstanding(d) <= Ceiling /\ reservedUsd[d] = Outstanding(d)
    BY <2>1, TotalTypes DEF LedgerInv, OutstandingFits, ReservedIsDerived
  <2>3. QED
    BY <2>2, MoneyTypes
<1>2. QED
  BY <1>1, LedgerInvariant, PTL

\* A day's settled cost and live maxima stay within its ceiling plus the overruns
\* reported on it, for any number of rows, lanes and clock readings.
THEOREM CeilingAlwaysHolds == Spec => []CeilingHolds
<1>1. LedgerInv => CeilingHolds
  BY DEF LedgerInv
<1>2. QED
  BY <1>1, LedgerInvariant, PTL

\* reserved_usd is the sum of the rows still reserved, after every transaction.
THEOREM ReservedAlwaysDerived == Spec => []ReservedIsDerived
<1>1. LedgerInv => ReservedIsDerived
  BY DEF LedgerInv
<1>2. QED
  BY <1>1, LedgerInvariant, PTL

\* spent_usd is the saturated sum of the charged rows of its day.
THEOREM SpentAlwaysTheBooks == Spec => []SpentIsTheBooks
<1>1. LedgerInv => SpentIsTheBooks
  BY DEF LedgerInv
<1>2. QED
  BY <1>1, LedgerInvariant, PTL

\* A breaker that is closed and was never cleared has seen no overrun and no
\* discarded charge on any day.
THEOREM BreakerAlwaysRemembers == Spec => []BreakerRemembers
<1>1. LedgerInv => BreakerRemembers
  BY DEF LedgerInv
<1>2. QED
  BY <1>1, LedgerInvariant, PTL

\* One step of the ledger writes no row that was charged, released or reclaimed.
LEMMA FinalRowsKept ==
  ASSUME ColumnTypes, [Next]_vars PROVE FinalRowsUntouched
<1> DEFINE Final(r) == rowState[r] \in {"completed", "released", "expired"}
           Kept(r) == /\ rowState'[r] = rowState[r] /\ rowActual'[r] = rowActual[r]
                      /\ rowMax'[r] = rowMax[r] /\ rowDay'[r] = rowDay[r]
<1>1. SUFFICES ASSUME NEW r \in Rows, Final(r) PROVE Kept(r)
  BY DEF FinalRowsUntouched
<1>2. ASSUME NEW now \in Times, NEW max \in MaxCosts \cup {Unpriced}, NEW lane \in Lanes,
             ReserveDenied(now, max, lane)
      PROVE  Kept(r)
  BY <1>1, <1>2 DEF ReserveDenied, Lapsed, Reserved
<1>3. ASSUME NEW now \in Times, NEW max \in MaxCosts, NEW lane \in Lanes, NEW s \in Rows,
             ReserveAdmitted(now, max, lane, s)
      PROVE  Kept(r)
  BY <1>1, <1>3 DEF ReserveAdmitted, Lapsed, Reserved, ColumnTypes
<1>4. ASSUME NEW s \in Rows, NEW reported \in Reports, Settle(s, reported) PROVE Kept(r)
  BY <1>1, <1>4 DEF Settle, StillReserved, ColumnTypes
<1>5. ASSUME NEW s \in Rows, Release(s) PROVE Kept(r)
  BY <1>1, <1>5 DEF Release, StillReserved, ColumnTypes
<1>6. CASE OperatorClears
  BY <1>6 DEF OperatorClears
<1>7. CASE UNCHANGED vars
  BY <1>7 DEF vars
<1>8. QED
  BY <1>2, <1>3, <1>4, <1>5, <1>6, <1>7 DEF Next, TurnedAway

\* No transaction writes a row that was charged, released or reclaimed.
THEOREM FinalRowsAlwaysStay == Spec => FinalRowsStay
<1>1. LedgerInv /\ [Next]_vars => [FinalRowsUntouched]_vars
  BY FinalRowsKept DEF LedgerInv
<1>2. QED
  BY <1>1, LedgerInvariant, PTL DEF Spec, FinalRowsStay

-----------------------------------------------------------------------------
(***************************************************************************)
(* The share of a day kept for people who are waiting.  What background    *)
(* rows took of a day is bounded by what admission read, because the       *)
(* ledger's invariant makes spent_usd the sum of the charged rows; the     *)
(* saturated day, where it is not, admits nothing that costs anything.     *)
(***************************************************************************)

\* The sum of a function each of whose terms is paid for by one of two others.
LEMMA SumCover ==
  ASSUME NEW S, IsFiniteSet(S), NEW c, \A x \in S : c[x] \in Nat,
         NEW A \in SUBSET S, NEW f, \A x \in A : f[x] \in Nat,
         NEW B \in SUBSET S, NEW g, \A x \in B : g[x] \in Nat,
         \A x \in S : \/ c[x] = 0
                      \/ x \in A /\ c[x] <= f[x]
                      \/ x \in B /\ c[x] <= g[x]
  PROVE  SumOver(c, S) <= SumOver(f, A) + SumOver(g, B)
<1>1. IsFiniteSet(A) /\ IsFiniteSet(B)
  BY FS_Subset
<1>2. IsFiniteSet(Units(f, A)) /\ IsFiniteSet(Units(g, B))
  BY <1>1, UnitsFinite
<1>3. Units(c, S) \subseteq Units(f, A) \cup Units(g, B)
  <2>1. SUFFICES ASSUME NEW x \in S, NEW k \in 1 .. c[x]
                 PROVE  <<x, k>> \in Units(f, A) \cup Units(g, B)
    BY DEF Units
  <2>2. CASE x \in A /\ c[x] <= f[x]
    <3>1. k \in 1 .. f[x]
      BY <2>2
    <3>2. QED
      BY <2>2, <3>1 DEF Units
  <2>3. CASE x \in B /\ c[x] <= g[x]
    <3>1. k \in 1 .. g[x]
      BY <2>3
    <3>2. QED
      BY <2>3, <3>1 DEF Units
  <2>4. c[x] # 0
    OBVIOUS
  <2>5. QED
    BY <2>2, <2>3, <2>4
<1>4. /\ IsFiniteSet(Units(f, A) \cup Units(g, B))
      /\ Cardinality(Units(f, A) \cup Units(g, B))
           <= Cardinality(Units(f, A)) + Cardinality(Units(g, B))
  <2>1. Cardinality(Units(f, A) \cap Units(g, B)) \in Nat
    BY <1>2, FS_Intersection, FS_CardinalityType
  <2>2. /\ IsFiniteSet(Units(f, A) \cup Units(g, B))
        /\ Cardinality(Units(f, A) \cup Units(g, B))
             = Cardinality(Units(f, A)) + Cardinality(Units(g, B))
               - Cardinality(Units(f, A) \cap Units(g, B))
    BY <1>2, FS_Union
  <2>3. Cardinality(Units(f, A)) \in Nat /\ Cardinality(Units(g, B)) \in Nat
    BY <1>2, FS_CardinalityType
  <2>4. QED
    BY <2>1, <2>2, <2>3
<1>5. Cardinality(Units(c, S)) <= Cardinality(Units(f, A) \cup Units(g, B))
  BY <1>3, <1>4, FS_Subset
<1>6. /\ Cardinality(Units(f, A)) \in Nat /\ Cardinality(Units(g, B)) \in Nat
      /\ Cardinality(Units(c, S)) \in Nat
      /\ Cardinality(Units(f, A) \cup Units(g, B)) \in Nat
  BY <1>2, <1>4, UnitsFinite, FS_CardinalityType
<1>7. SumOver(c, S) <= Cardinality(Units(f, A)) + Cardinality(Units(g, B))
  BY <1>4, <1>5, <1>6, SumIsCardinality
<1>8. QED
  BY <1>1, <1>7, SumIsCardinality

-----------------------------------------------------------------------------

ClaimFits == \A d \in Days : SumOver(BackgroundClaim(d), Rows) <= Ceiling - ReserveFloor

\* The protected share is a number within the ceiling, and no less than the
\* configured ratio of it (budget.py:182-191).
LEMMA FloorBounds ==
  /\ ReserveFloor \in Nat
  /\ ReserveFloor <= Ceiling
  /\ Ceiling * ReserveRatio[1] <= ReserveFloor * ReserveRatio[2]
<1> DEFINE n == ReserveRatio[1]
           d == ReserveRatio[2]
<1>1. n \in Nat /\ d \in Nat \ {0} /\ n <= d /\ Ceiling \in Nat
  BY LedgerAssumption, MoneyTypes
<1>2. ReserveFloor = CeilDiv(Ceiling * n, d)
  BY DEF ReserveFloor
<1> HIDE DEF n, d
<1>3. Ceiling * n \in Nat /\ Ceiling * n <= Ceiling * d /\ Ceiling * d \in Nat
  BY <1>1
<1>4. /\ ReserveFloor \in Nat
      /\ Ceiling * n <= ReserveFloor * d
      /\ ReserveFloor * d <= Ceiling * n + d - 1
  BY <1>1, <1>2, <1>3, CeilDivBounds
<1>5. ReserveFloor <= Ceiling
  <2>1. SUFFICES ASSUME ReserveFloor >= Ceiling + 1 PROVE FALSE
    BY <1>1, <1>4
  <2>2. ReserveFloor * d >= (Ceiling + 1) * d
    BY <1>1, <1>4, <2>1
  <2>3. (Ceiling + 1) * d = Ceiling * d + d
    BY <1>1
  <2>4. ReserveFloor * d \in Nat
    BY <1>1, <1>4
  <2>5. QED
    BY <1>1, <1>3, <1>4, <2>2, <2>3, <2>4
<1>6. QED
  BY <1>4, <1>5 DEF n, d

\* A day's background claims are numbers.
LEMMA ClaimTypes ==
  ASSUME ColumnTypes, NEW d \in Days
  PROVE  /\ IsFiniteSet(Rows)
         /\ \A x \in Rows : BackgroundClaim(d)[x] \in Nat
         /\ SumOver(BackgroundClaim(d), Rows) \in Nat
<1>1. IsFiniteSet(Rows)
  BY LedgerAssumption
<1>2. \A x \in Rows : BackgroundClaim(d)[x] \in Nat
  BY ColumnsAreNat DEF BackgroundClaim, AtMost
<1>3. QED
  BY <1>1, <1>2, SumNat

\* They are numbers after a step as well.
LEMMA ClaimTypesAfter ==
  ASSUME ColumnTypes', NEW d \in Days
  PROVE  /\ \A x \in Rows : rowMax'[x] \in Nat /\ rowActual'[x] \in Nat
         /\ \A x \in Rows : BackgroundClaim(d)'[x] \in Nat
         /\ SumOver(BackgroundClaim(d)', Rows) \in Nat
<1>1. \A x \in Rows : rowMax'[x] \in Stored /\ rowActual'[x] \in Stored
  BY DEF ColumnTypes
<1>2. Stored \subseteq Nat
  BY MoneyTypes
<1>3. \A x \in Rows : rowMax'[x] \in Nat /\ rowActual'[x] \in Nat
  BY <1>1, <1>2
<1>4. \A x \in Rows : BackgroundClaim(d)'[x] \in Nat
  BY <1>3 DEF BackgroundClaim, AtMost
<1> DEFINE e == BackgroundClaim(d)'
<1>5. SumOver(e, Rows) \in Nat
  <2>1. IsFiniteSet(Rows) /\ \A x \in Rows : e[x] \in Nat
    BY <1>4, LedgerAssumption
  <2> HIDE DEF e
  <2>2. QED
    BY <2>1, SumNat
<1>6. QED
  BY <1>3, <1>4, <1>5

\* A step after which no row claims more of a day keeps that day's claim within
\* its bound.
LEMMA ClaimLowered ==
  ASSUME ColumnTypes, ColumnTypes', ClaimFits, NEW d \in Days,
         \A x \in Rows : BackgroundClaim(d)'[x] <= BackgroundClaim(d)[x]
  PROVE  SumOver(BackgroundClaim(d)', Rows) <= Ceiling - ReserveFloor
<1> DEFINE c == BackgroundClaim(d)
           e == BackgroundClaim(d)'
<1>1. /\ IsFiniteSet(Rows) /\ Rows \in SUBSET Rows
      /\ \A x \in Rows : c[x] \in Nat /\ e[x] \in Nat /\ e[x] <= c[x]
  BY ClaimTypes, ClaimTypesAfter, LedgerAssumption
<1>2. SumOver(c, Rows) <= Ceiling - ReserveFloor
  BY DEF ClaimFits
<1>3. SumOver(c, Rows) \in Nat /\ SumOver(e, Rows) \in Nat
  BY ClaimTypes, ClaimTypesAfter
<1>4. SumOver(e, Rows) <= SumOver(c, Rows)
  <2> HIDE DEF c, e
  <2>1. QED
    BY <1>1, SumMonotone
<1>5. QED
  BY <1>2, <1>3, <1>4, FloorBounds, MoneyTypes

\* An admission keeps a day's background claims within what the floor leaves:
\* what admit read of the day bounds the claims already made on it.
LEMMA AdmitClaims ==
  ASSUME LedgerInv, ColumnTypes', ClaimFits,
         NEW now \in Times, NEW max \in MaxCosts, NEW lane \in Lanes, NEW r \in Rows,
         ReserveAdmitted(now, max, lane, r)
  PROVE  ClaimFits'
<1> DEFINE day == DayOf(now)
           live == SumOver(rowMax, Reserved(day) \ Lapsed(day, now))
           held == Quantize(max)
<1>1. ColumnTypes /\ day \in Days /\ IsFiniteSet(Rows)
  BY DayTypes, LedgerAssumption DEF LedgerInv
<1>2. /\ rowState[r] = "absent" /\ held \in Nat /\ live \in Nat
      /\ spent[day] \in Nat
  <2>1. live \in Nat
    BY <1>1, RowSets, SumTypes
  <2>2. held \in Nat
    BY <1>1, HeldStored
  <2>3. QED
    BY <1>1, <2>1, <2>2, TotalTypes DEF ReserveAdmitted
\* Off the day, and for a person waiting, no row claims more than before.
<1>3. ASSUME NEW d \in Days, NEW x \in Rows,
             x # r \/ d # day \/ lane # "background" \/ held = 0
      PROVE  BackgroundClaim(d)'[x] <= BackgroundClaim(d)[x]
  <2>1. /\ x # r => /\ rowMax'[x] = rowMax[x] /\ rowActual'[x] = rowActual[x]
                    /\ rowLane'[x] = rowLane[x] /\ rowDay'[x] = rowDay[x]
                    /\ rowState'[x] = rowState[x] \/ rowState'[x] = "expired"
        /\ rowMax'[r] = held /\ rowLane'[r] = lane /\ rowDay'[r] = day
        /\ rowState'[r] = "reserved"
    BY <1>1 DEF ReserveAdmitted, ColumnTypes
  <2>2. rowMax[x] \in Nat /\ rowActual[x] \in Nat /\ BackgroundClaim(d)[x] \in Nat
    BY <1>1, ColumnsAreNat, ClaimTypes
  <2> HIDE DEF day, live, held
  <2>3. CASE x # r
    BY <2>1, <2>2, <2>3 DEF BackgroundClaim, Reserved, Completed, AtMost
  <2>4. CASE x = r
    <3>1. BackgroundClaim(d)'[x] = 0
      BY <1>3, <2>1, <2>4 DEF BackgroundClaim, Reserved, Completed
    <3>2. QED
      BY <2>2, <3>1
  <2>5. QED
    BY <2>3, <2>4
<1>4. CASE lane # "background" \/ held = 0
  <2>1. ASSUME NEW d \in Days PROVE SumOver(BackgroundClaim(d)', Rows) <= Ceiling - ReserveFloor
    <3>1. \A x \in Rows : BackgroundClaim(d)'[x] <= BackgroundClaim(d)[x]
      BY <1>3, <1>4
    <3>2. QED
      BY <1>1, <3>1, ClaimLowered
  <2>2. QED
    BY <2>1 DEF ClaimFits
<1>5. CASE lane = "background" /\ held # 0
  <2>1. spent[day] + live + held <= Ceiling - ReserveFloor
    BY <1>5 DEF ReserveAdmitted, Admitted, Committed
  <2>2. SumOver(rowActual, Completed(day)) = spent[day]
    <3>1. spent[day] < MaxStored
      BY <1>2, <1>5, <2>1, FloorBounds, MoneyTypes
    <3>2. spent[day] = AtMost(SumOver(rowActual, Completed(day)), MaxStored)
      BY <1>1 DEF LedgerInv, SpentIsTheBooks
    <3>3. QED
      BY <1>1, <3>1, <3>2, TotalTypes, MoneyTypes DEF AtMost
  <2>3. /\ SumOver(rowMax', Reserved(day)') = held + live
        /\ SumOver(rowActual', Completed(day)') = spent[day]
    BY <1>1, <2>2, AdmitEffect DEF SettledTotals, Outstanding
  <2>4. SumOver(BackgroundClaim(day)', Rows)
          <= SumOver(rowMax', Reserved(day)') + SumOver(rowActual', Completed(day)')
    <3>1. \A x \in Rows : rowMax'[x] \in Nat /\ rowActual'[x] \in Nat
      BY <1>1, ClaimTypesAfter
    <3>2. Reserved(day)' \in SUBSET Rows /\ Completed(day)' \in SUBSET Rows
      BY DEF Reserved, Completed
    <3> DEFINE c == BackgroundClaim(day)'
               A == Reserved(day)'
               B == Completed(day)'
    <3>3. \A x \in Rows : c[x] \in Nat
      BY <3>1 DEF BackgroundClaim, AtMost
    <3>4. \A x \in Rows : \/ c[x] = 0
                          \/ x \in A /\ c[x] <= rowMax'[x]
                          \/ x \in B /\ c[x] <= rowActual'[x]
      BY <3>1 DEF BackgroundClaim, AtMost
    <3> HIDE DEF c, A, B
    <3>5. SumOver(c, Rows) <= SumOver(rowMax', A) + SumOver(rowActual', B)
      <4>1. A \in SUBSET Rows /\ B \in SUBSET Rows
        BY <3>2 DEF A, B
      <4>2. /\ \A x \in A : rowMax'[x] \in Nat
            /\ \A x \in B : rowActual'[x] \in Nat
        BY <3>1, <4>1
      <4>3. QED
        BY <1>1, <3>3, <3>4, <4>1, <4>2, SumCover
    <3>6. QED
      BY <3>5 DEF c, A, B
  <2>5. ASSUME NEW d \in Days PROVE SumOver(BackgroundClaim(d)', Rows) <= Ceiling - ReserveFloor
    <3>1. CASE d = day
      <4>1. SumOver(BackgroundClaim(day)', Rows) \in Nat
        BY <1>1, ClaimTypesAfter
      <4>2. SumOver(BackgroundClaim(day)', Rows) <= held + live + spent[day]
        BY <2>3, <2>4
      <4> HIDE DEF held, live
      <4>3. QED
        BY <1>2, <2>1, <3>1, <4>1, <4>2, FloorBounds, MoneyTypes
    <3>2. CASE d # day
      <4>1. \A x \in Rows : BackgroundClaim(d)'[x] <= BackgroundClaim(d)[x]
        BY <1>3, <3>2
      <4>2. QED
        BY <1>1, <4>1, ClaimLowered
    <3>3. QED
      BY <3>1, <3>2
  <2>6. QED
    BY <2>5 DEF ClaimFits
<1>6. QED
  BY <1>4, <1>5

\* The other transactions raise no claim: a settled row keeps at most what it had
\* reserved, and a released or reclaimed row gives everything back.
LEMMA OthersLower ==
  ASSUME ColumnTypes, NEW d \in Days, NEW x \in Rows,
         \/ \E now \in Times, max \in MaxCosts \cup {Unpriced}, lane \in Lanes :
              ReserveDenied(now, max, lane)
         \/ \E r \in Rows, reported \in Reports : Settle(r, reported)
         \/ \E r \in Rows : Release(r)
         \/ OperatorClears
         \/ UNCHANGED vars
  PROVE  BackgroundClaim(d)'[x] <= BackgroundClaim(d)[x]
<1>1. rowMax[x] \in Nat /\ rowActual[x] \in Nat
  BY ColumnsAreNat
<1>2. ASSUME NEW now \in Times, NEW max \in MaxCosts \cup {Unpriced}, NEW lane \in Lanes,
             ReserveDenied(now, max, lane)
      PROVE  BackgroundClaim(d)'[x] <= BackgroundClaim(d)[x]
  <2>1. /\ rowMax' = rowMax /\ rowActual' = rowActual /\ rowLane' = rowLane /\ rowDay' = rowDay
        /\ rowState'[x] = rowState[x] \/ rowState'[x] = "expired"
    BY <1>2 DEF ReserveDenied
  <2>2. QED
    BY <1>1, <2>1 DEF BackgroundClaim, Reserved, Completed, AtMost
<1>3. ASSUME NEW r \in Rows, NEW reported \in Reports, Settle(r, reported)
      PROVE  BackgroundClaim(d)'[x] <= BackgroundClaim(d)[x]
  <2>1. /\ rowMax' = rowMax /\ rowLane' = rowLane /\ rowDay' = rowDay
        /\ x # r => rowState'[x] = rowState[x] /\ rowActual'[x] = rowActual[x]
        /\ rowState[r] = "reserved" /\ rowState'[r] = "completed"
        /\ rowActual'[r] = Storable(reported)
    BY <1>3 DEF Settle, StillReserved, ColumnTypes
  <2>2. Storable(reported) \in Nat
    BY AddedFits
  <2>3. QED
    BY <1>1, <2>1, <2>2 DEF BackgroundClaim, Reserved, Completed, AtMost
<1>4. ASSUME NEW r \in Rows, Release(r)
      PROVE  BackgroundClaim(d)'[x] <= BackgroundClaim(d)[x]
  <2>1. /\ rowMax' = rowMax /\ rowActual' = rowActual /\ rowLane' = rowLane /\ rowDay' = rowDay
        /\ rowState'[x] = rowState[x] \/ rowState'[x] = "released"
    BY <1>4 DEF Release, StillReserved, ColumnTypes
  <2>2. QED
    BY <1>1, <2>1 DEF BackgroundClaim, Reserved, Completed, AtMost
<1>5. CASE OperatorClears \/ UNCHANGED vars
  BY <1>1, <1>5 DEF OperatorClears, vars, BackgroundClaim, Reserved, Completed, AtMost
<1>6. QED
  BY <1>2, <1>3, <1>4, <1>5

\* On every day, and for every number of rows, the configured share is left to
\* people who are waiting (budget.py:182-191, 286-289).
THEOREM HumanReserveAlwaysKept == Spec => []HumanReserveKept
<1>1. Init => ClaimFits
  <2>1. ASSUME Init, NEW d \in Days PROVE SumOver(BackgroundClaim(d), Rows) <= Ceiling - ReserveFloor
    <3>1. \A x \in Rows : BackgroundClaim(d)[x] = 0
      BY <2>1 DEF Init, BackgroundClaim, Reserved, Completed
    <3> DEFINE c == BackgroundClaim(d)
    <3>2. SumOver(c, Rows) <= SumOver(c, {}) + SumOver(c, {})
      <4>1. IsFiniteSet(Rows) /\ \A x \in Rows : c[x] \in Nat /\ c[x] = 0
        BY <3>1, LedgerAssumption
      <4> HIDE DEF c
      <4>2. QED
        BY <4>1, SumCover
    <3>3. SumOver(c, {}) = 0
      <4> HIDE DEF c
      <4>1. QED
        BY SumEmpty
    <3>4. SumOver(c, Rows) \in Nat
      BY <2>1, InitColumns, ClaimTypes
    <3>5. QED
      BY <3>2, <3>3, <3>4, FloorBounds, MoneyTypes
  <2>2. QED
    BY <2>1 DEF ClaimFits
<1>2. LedgerInv /\ LedgerInv' /\ ClaimFits /\ [Next]_vars => ClaimFits'
  <2>1. SUFFICES ASSUME LedgerInv, LedgerInv', ClaimFits, [Next]_vars PROVE ClaimFits'
    OBVIOUS
  <2>2. ColumnTypes /\ ColumnTypes'
    BY <2>1 DEF LedgerInv
  <2>3. CASE \E now \in Times, max \in MaxCosts, lane \in Lanes, r \in Rows :
               ReserveAdmitted(now, max, lane, r)
    BY <2>1, <2>2, <2>3, AdmitClaims
  <2>4. CASE ~\E now \in Times, max \in MaxCosts, lane \in Lanes, r \in Rows :
               ReserveAdmitted(now, max, lane, r)
    <3>1. \A d \in Days, x \in Rows : BackgroundClaim(d)'[x] <= BackgroundClaim(d)[x]
      BY <2>1, <2>2, <2>4, OthersLower DEF Next, TurnedAway
    <3>2. QED
      BY <2>1, <2>2, <3>1, ClaimLowered DEF ClaimFits
  <2>5. QED
    BY <2>3, <2>4
<1>3. LedgerInv /\ ClaimFits => HumanReserveKept
  <2>1. SUFFICES ASSUME LedgerInv, ClaimFits, NEW d \in Days
                 PROVE  (Ceiling - SumOver(BackgroundClaim(d), Rows)) * ReserveRatio[2]
                          >= Ceiling * ReserveRatio[1]
    BY DEF HumanReserveKept
  <2> DEFINE left == Ceiling - SumOver(BackgroundClaim(d), Rows)
             n == ReserveRatio[1]
             den == ReserveRatio[2]
  <2>2. left \in Int /\ left >= ReserveFloor
    <3>1. SumOver(BackgroundClaim(d), Rows) \in Nat
      BY <2>1, ClaimTypes DEF LedgerInv
    <3>2. SumOver(BackgroundClaim(d), Rows) <= Ceiling - ReserveFloor
      BY <2>1 DEF ClaimFits
    <3>3. QED
      BY <3>1, <3>2, FloorBounds, MoneyTypes
  <2>3. den \in Nat /\ n \in Nat /\ Ceiling \in Nat /\ ReserveFloor \in Nat
    BY FloorBounds, MoneyTypes, LedgerAssumption
  <2>4. Ceiling * n <= ReserveFloor * den
    BY FloorBounds
  <2> HIDE DEF left, n, den
  <2>5. left * den >= ReserveFloor * den
    BY <2>2, <2>3
  <2>6. left * den \in Int /\ ReserveFloor * den \in Int /\ Ceiling * n \in Int
    BY <2>2, <2>3
  <2>7. left * den >= Ceiling * n
    BY <2>4, <2>5, <2>6
  <2>8. QED
    BY <2>7 DEF left, n, den
<1>4. QED
  BY <1>1, <1>2, <1>3, LedgerInvariant, PTL DEF Spec
=============================================================================
