---------------------- MODULE LedgerTransactionsProofs ----------------------
(***************************************************************************)
(* The statements of any number of clients implement the ledger: each      *)
(* commit is one of its transactions and everything else is a stutter, so  *)
(* what is proved of the ledger holds of the statements.                   *)
(***************************************************************************)
EXTENDS LedgerTransactions, BudgetLedgerProofs

-----------------------------------------------------------------------------
(* The invariant of the transactions that are open.                        *)

\* The steps of a transaction that has the named lock, and those after its view is taken.
Locked == {"locked", "read", "swept", "written", "refreshed", "turned_away"}
Deciding == {"read", "swept", "written", "refreshed"}

TxShape ==
  /\ DOMAIN tx = Clients
  /\ \A c \in Clients :
       /\ DOMAIN tx[c] = {"step", "kind", "now", "row", "day", "view", "draft"}
       /\ DOMAIN tx[c].draft = {"rows", "added", "opens", "reserved"}

\* A transaction past the lock has it, so there is one.
LockHeld == \A c \in Clients : tx[c].step \in Locked => holder = c

\* The view is of what is committed, but for a circuit an operator closed since.
Viewed(c) ==
  tx[c].step \in Deciding =>
    /\ tx[c].view.rows = [r \in Rows |-> Row(r)]
    /\ tx[c].view.spent = spent[tx[c].day]
    /\ tx[c].view.open \in BOOLEAN
    /\ IF tx[c].view.open THEN circuitOpen \/ cleared ELSE ~circuitOpen

\* What the call was made with.
Called(c) ==
  /\ tx[c].kind \in Kinds \cup {"none"}
  /\ tx[c].step \in Deciding =>
       IF tx[c].kind = "reserve" THEN tx[c].now \in Times /\ tx[c].day = DayOf(tx[c].now)
       ELSE /\ tx[c].row \in Rows
            /\ rowState[tx[c].row] # "absent"
            /\ tx[c].day = rowDay[tx[c].row]

WritesNoTotal(c) == tx[c].draft.added = 0 /\ tx[c].draft.opens = FALSE

\* A row as the sweep of c leaves it.
SweptRow(c, r) ==
  IF r \in Lapsed(tx[c].day, tx[c].now) THEN [Row(r) EXCEPT !.state = "expired"] ELSE Row(r)

HasSwept(c) ==
  /\ tx[c].kind = "reserve"
  /\ DOMAIN tx[c].draft.rows = Lapsed(tx[c].day, tx[c].now)
  /\ \A r \in Lapsed(tx[c].day, tx[c].now) : tx[c].draft.rows[r] = SweptRow(c, r)
  /\ WritesNoTotal(c)

HasRefused(c) ==
  /\ tx[c].kind = "reserve"
  /\ \A r \in Rows : Current(c, r) = SweptRow(c, r)
  /\ WritesNoTotal(c)
  /\ \E max \in MaxCosts \cup {Unpriced}, lane \in Lanes :
       ~Admitted(tx[c].view.open, Committed(tx[c].day, tx[c].now),
                 IF max = Unpriced THEN Unpriced ELSE Quantize(max), lane)

\* Row q is inserted for a maximum of max.
HasInserted(c, max, lane, q) ==
  /\ tx[c].kind = "reserve"
  /\ rowState[q] = "absent"
  /\ Admitted(tx[c].view.open, Committed(tx[c].day, tx[c].now), Quantize(max), lane)
  /\ \A r \in Rows : Current(c, r) =
       IF r = q THEN [state |-> "reserved", day |-> tx[c].day, max |-> Quantize(max),
                      actual |-> rowActual[q], expires |-> tx[c].now + Expiry, lane |-> lane]
       ELSE SweptRow(c, r)
  /\ WritesNoTotal(c)

HasCharged(c, reported) ==
  LET stored == Storable(reported)
      added == AtMost(stored, MaxStored - spent[tx[c].day])
  IN  /\ tx[c].kind = "settle"
      /\ rowState[tx[c].row] = "reserved"
      /\ \A r \in Rows : Current(c, r) =
           IF r = tx[c].row THEN [Row(r) EXCEPT !.state = "completed", !.actual = stored]
           ELSE Row(r)
      /\ tx[c].draft.added = added
      /\ tx[c].draft.opens = (Breach(rowMax[tx[c].row], reported) \/ added < stored)

HasGivenBack(c) ==
  /\ tx[c].kind = "release"
  /\ rowState[tx[c].row] = "reserved"
  /\ \A r \in Rows : Current(c, r) =
       IF r = tx[c].row THEN [Row(r) EXCEPT !.state = "released"] ELSE Row(r)
  /\ WritesNoTotal(c)

Written(c) ==
  \/ HasRefused(c)
  \/ \E max \in MaxCosts, lane \in Lanes, q \in Rows : HasInserted(c, max, lane, q)
  \/ \E reported \in Reports : HasCharged(c, reported)
  \/ HasGivenBack(c)

\* The rows of its day that are reserved as c leaves them, and their sum.
Live(c) == {r \in Rows : Current(c, r).state = "reserved" /\ Current(c, r).day = tx[c].day}
Reckoned(c) == tx[c].draft.reserved = SumOver([r \in Rows |-> Current(c, r).max], Live(c))

\* What the draft holds.
Drafted(c) ==
  /\ tx[c].step \in {"idle", "begun", "locked", "read"} => tx[c].draft = NoDraft
  /\ tx[c].step = "swept" => HasSwept(c)
  /\ tx[c].step \in {"written", "refreshed"} => Written(c)
  /\ tx[c].step = "refreshed" => Reckoned(c)

Working(c) == Viewed(c) /\ Called(c) /\ Drafted(c)

TxInv == LedgerInv /\ TxShape /\ LockHeld /\ \A c \in Clients : Working(c)

-----------------------------------------------------------------------------
(* The rows a transaction finds.                                           *)

\* A row's columns.
LEMMA RowFields ==
  \A r : /\ Row(r).state = rowState[r] /\ Row(r).day = rowDay[r] /\ Row(r).max = rowMax[r]
         /\ Row(r).actual = rowActual[r] /\ Row(r).expires = rowExpires[r]
         /\ Row(r).lane = rowLane[r]
BY DEF Row

\* With an empty draft an UPDATE finds what is committed.
LEMMA CurrentIsCommitted ==
  ASSUME NEW c, NEW r, tx[c].draft = NoDraft PROVE Current(c, r) = Row(r)
BY DEF Current, NoDraft

\* What the sweep makes of a row: its state, and no other column.
LEMMA SweptFields ==
  ASSUME NEW c, NEW r
  PROVE  /\ SweptRow(c, r).state = IF r \in Lapsed(tx[c].day, tx[c].now) THEN "expired"
                                   ELSE rowState[r]
         /\ SweptRow(c, r).day = rowDay[r] /\ SweptRow(c, r).max = rowMax[r]
         /\ SweptRow(c, r).actual = rowActual[r] /\ SweptRow(c, r).expires = rowExpires[r]
         /\ SweptRow(c, r).lane = rowLane[r]
BY DEF Row, SweptRow

\* What the sweep of c has left is what both kinds of read find.
LEMMA AfterSweep ==
  ASSUME NEW c, HasSwept(c), tx[c].view.rows = [r \in Rows |-> Row(r)], NEW r \in Rows
  PROVE  Current(c, r) = SweptRow(c, r) /\ Seen(c, r) = SweptRow(c, r)
BY DEF HasSwept, Current, Seen, SweptRow

\* The sum a reservation reads, of its snapshot and its own sweep, is the ledger's.
LEMMA SeenIsCommitted ==
  ASSUME LedgerInv, NEW c, HasSwept(c), tx[c].view.rows = [r \in Rows |-> Row(r)],
         tx[c].view.spent = spent[tx[c].day]
  PROVE  CommittedSeen(c) = Committed(tx[c].day, tx[c].now)
<1> DEFINE day == tx[c].day
           now == tx[c].now
<1>1. \A r \in Rows : /\ Seen(c, r).max = rowMax[r]
                      /\ Seen(c, r).day = rowDay[r]
                      /\ Seen(c, r).state = "reserved"
                           <=> rowState[r] = "reserved" /\ r \notin Lapsed(day, now)
  BY AfterSweep, SweptFields
<1>2. [r \in Rows |-> Seen(c, r).max] = rowMax
  BY <1>1 DEF LedgerInv, ColumnTypes
<1>3. {r \in Rows : Seen(c, r).state = "reserved" /\ Seen(c, r).day = day}
        = Reserved(day) \ Lapsed(day, now)
  BY <1>1 DEF Reserved
<1> HIDE DEF day, now
<1> QED BY <1>2, <1>3 DEF CommittedSeen, Committed, day, now

-----------------------------------------------------------------------------
(* A transaction others leave alone.                                       *)

RowsKept == UNCHANGED <<rowState, rowDay, rowMax, rowActual, rowExpires, rowLane, spent>>
BreakerMoves == UNCHANGED <<circuitOpen, cleared>> \/ OperatorClears

\* While no row and no total changes, an open transaction stays what it is, whatever an
\* operator does to the circuit.
LEMMA Undisturbed ==
  ASSUME NEW c, Working(c), RowsKept, BreakerMoves, tx'[c] = tx[c]
  PROVE  Working(c)'
<1>1. \A r : Row(r)' = Row(r)
  BY DEF RowsKept, Row
<1>2. \A r : Current(c, r)' = Current(c, r)
  BY <1>1 DEF Current
<1>3. \A day, now : Lapsed(day, now)' = Lapsed(day, now) /\ Reserved(day)' = Reserved(day)
  BY DEF RowsKept, Lapsed, Reserved
<1>4. \A day, now : Committed(day, now)' = Committed(day, now)
  BY <1>3 DEF RowsKept, Committed
<1>5. \A r : SweptRow(c, r)' = SweptRow(c, r)
  BY <1>1, <1>3 DEF SweptRow
<1>6. Viewed(c)'
  BY <1>1 DEF Working, Viewed, RowsKept, BreakerMoves, OperatorClears
<1>7. Called(c)'
  BY DEF Working, Called, RowsKept
<1>8. /\ WritesNoTotal(c)' <=> WritesNoTotal(c)
      /\ HasSwept(c)' <=> HasSwept(c)
      /\ HasRefused(c)' <=> HasRefused(c)
      /\ HasGivenBack(c)' <=> HasGivenBack(c)
  BY <1>1, <1>2, <1>3, <1>4, <1>5 DEF WritesNoTotal, HasSwept, HasRefused, HasGivenBack, RowsKept
<1>9. /\ \A max, lane, q : HasInserted(c, max, lane, q)' <=> HasInserted(c, max, lane, q)
      /\ \A reported : HasCharged(c, reported)' <=> HasCharged(c, reported)
  BY <1>1, <1>2, <1>4, <1>5 DEF WritesNoTotal, HasInserted, HasCharged, RowsKept
<1>10. Written(c)' <=> Written(c)
  BY <1>8, <1>9 DEF Written
<1>11. Reckoned(c)' <=> Reckoned(c)
  <2>1. Live(c)' = Live(c)
    BY <1>2 DEF Live
  <2>2. [r \in Rows |-> Current(c, r).max]' = [r \in Rows |-> Current(c, r).max]
    BY <1>2
  <2> QED BY <2>1, <2>2 DEF Reckoned
<1>12. Drafted(c)'
  BY <1>8, <1>10, <1>11 DEF Working, Drafted
<1> QED BY <1>6, <1>7, <1>12 DEF Working

\* What is left to show of a statement of c that commits nothing.
LEMMA StatementKeeps ==
  ASSUME TxInv, NEW c \in Clients, UNCHANGED vars, TxShape',
         \A d \in Clients \ {c} : tx'[d] = tx[d],
         LockHeld', Working(c)'
  PROVE  TxInv'
<1>1. LedgerInv'
  BY InvStep DEF TxInv
<1>2. RowsKept /\ BreakerMoves
  BY DEF vars, RowsKept, BreakerMoves
<1>3. \A d \in Clients \ {c} : Working(d)'
  BY <1>2, Undisturbed DEF TxInv
<1> QED BY <1>1, <1>3 DEF TxInv

-----------------------------------------------------------------------------
(* The statements up to the first write.                                   *)

\* A transaction begins without a view and without a draft.
LEMMA BeginKeeps ==
  ASSUME TxInv, NEW c \in Clients, NEW kind \in Kinds, Begin(c, kind) PROVE TxInv'
<1> USE DEF Begin, KeepCommitted, TxInv
<1>1. /\ tx'[c].step = "begun" /\ tx'[c].kind = kind /\ tx'[c].draft = tx[c].draft
      /\ TxShape' /\ \A d \in Clients \ {c} : tx'[d] = tx[d]
  BY DEF TxShape
<1>2. LockHeld'
  BY <1>1 DEF LockHeld, Locked
<1>3. Working(c)'
  BY <1>1 DEF Working, Viewed, Called, Drafted, Deciding
<1> QED BY <1>1, <1>2, <1>3, StatementKeeps

\* The named lock goes to a client when nobody has it (schema.py:354-380).
LEMMA AcquireKeeps == ASSUME TxInv, NEW c \in Clients, Acquire(c) PROVE TxInv'
<1> USE DEF Acquire, TxInv
<1>1. /\ tx'[c].step = "locked" /\ tx'[c].kind = tx[c].kind /\ tx'[c].draft = tx[c].draft
      /\ TxShape' /\ \A d \in Clients \ {c} : tx'[d] = tx[d]
  BY DEF TxShape
<1>2. LockHeld'
  BY <1>1, ClientAssumption DEF LockHeld, Locked
<1>3. Working(c)'
  BY <1>1 DEF Working, Viewed, Called, Drafted, Deciding
<1> QED BY <1>1, <1>2, <1>3, StatementKeeps

\* A view is taken of what is committed.
LEMMA SnapshotViews ==
  ASSUME TxInv, NEW c \in Clients, UNCHANGED vars, NEW d,
         tx'[c].view = Snapshot(d), tx'[c].day = d
  PROVE  Viewed(c)'
<1>1. \A r : Row(r)' = Row(r)
  BY DEF vars, Row
<1>2. circuitOpen \in BOOLEAN /\ circuitOpen' = circuitOpen /\ spent' = spent
  BY DEF TxInv, LedgerInv, ColumnTypes, vars
<1> QED BY <1>1, <1>2 DEF Viewed, Snapshot

\* A reservation locks the row of its day, and reads it as it is committed.
LEMMA ReadDayForKeeps ==
  ASSUME TxInv, NEW c \in Clients, NEW now \in Times, ReadDayFor(c, now) PROVE TxInv'
<1> USE DEF ReadDayFor, At, KeepCommitted, TxInv
<1>1. /\ tx'[c].step = "read" /\ tx'[c].kind = "reserve" /\ tx'[c].draft = tx[c].draft
      /\ tx'[c].now = now /\ tx'[c].day = DayOf(now) /\ tx'[c].view = Snapshot(DayOf(now))
      /\ TxShape' /\ \A d \in Clients \ {c} : tx'[d] = tx[d]
  BY DEF TxShape
<1>2. LockHeld'
  BY <1>1 DEF LockHeld, Locked
<1>3. Viewed(c)'
  BY <1>1, SnapshotViews
<1>4. Called(c)' /\ Drafted(c)'
  BY <1>1 DEF Working, Called, Drafted, Kinds
<1> QED BY <1>1, <1>2, <1>3, <1>4, StatementKeeps DEF Working

\* A settlement or a release reads the day of its own row.
LEMMA ReadDayOfKeeps ==
  ASSUME TxInv, NEW c \in Clients, NEW r \in Rows, ReadDayOf(c, r) PROVE TxInv'
<1> USE DEF ReadDayOf, At, KeepCommitted, TxInv
<1>1. /\ tx'[c].step = "read" /\ tx'[c].kind = tx[c].kind /\ tx'[c].draft = tx[c].draft
      /\ tx'[c].row = r /\ tx'[c].day = rowDay[r] /\ tx'[c].view = Snapshot(rowDay[r])
      /\ TxShape' /\ \A d \in Clients \ {c} : tx'[d] = tx[d]
  BY DEF TxShape
<1>2. LockHeld'
  BY <1>1 DEF LockHeld, Locked
<1>3. Viewed(c)'
  BY <1>1, SnapshotViews
<1>4. Called(c)' /\ Drafted(c)'
  BY <1>1 DEF Working, Called, Drafted, Kinds, vars
<1> QED BY <1>1, <1>2, <1>3, <1>4, StatementKeeps DEF Working

\* Statements that write rows, and otherwise leave the transaction as it is.
LEMMA WritesShape ==
  ASSUME TxInv, NEW c \in Clients, tx[c].step \in Deciding, NEW step \in Deciding, NEW rows,
         Writes(c, step, rows)
  PROVE  /\ tx'[c].step = step /\ tx'[c].draft.rows = rows
         /\ tx'[c].kind = tx[c].kind /\ tx'[c].now = tx[c].now /\ tx'[c].row = tx[c].row
         /\ tx'[c].day = tx[c].day /\ tx'[c].view = tx[c].view
         /\ tx'[c].draft.added = tx[c].draft.added /\ tx'[c].draft.opens = tx[c].draft.opens
         /\ TxShape' /\ LockHeld' /\ Viewed(c)' /\ Called(c)'
         /\ UNCHANGED vars /\ \A d \in Clients \ {c} : tx'[d] = tx[d]
<1> USE DEF TxInv, Writes, KeepCommitted
<1>1. /\ tx'[c].step = step /\ tx'[c].draft.rows = rows
      /\ tx'[c].kind = tx[c].kind /\ tx'[c].now = tx[c].now /\ tx'[c].row = tx[c].row
      /\ tx'[c].day = tx[c].day /\ tx'[c].view = tx[c].view
      /\ tx'[c].draft.added = tx[c].draft.added /\ tx'[c].draft.opens = tx[c].draft.opens
      /\ TxShape' /\ \A d \in Clients \ {c} : tx'[d] = tx[d]
  BY DEF TxShape
<1>2. LockHeld'
  BY <1>1 DEF LockHeld, Locked, Deciding
<1>3. \A r : Row(r)' = Row(r)
  BY DEF vars, Row
<1>4. Viewed(c)' /\ Called(c)'
  BY <1>1, <1>3 DEF Working, Viewed, Called, vars
<1> QED BY <1>1, <1>2, <1>4

\* What does not change with a statement that commits nothing.
LEMMA CommittedKept ==
  ASSUME UNCHANGED vars, NEW c, tx'[c].day = tx[c].day, tx'[c].now = tx[c].now
  PROVE  /\ \A r : Row(r)' = Row(r) /\ SweptRow(c, r)' = SweptRow(c, r)
         /\ Lapsed(tx[c].day, tx[c].now)' = Lapsed(tx[c].day, tx[c].now)
         /\ Committed(tx[c].day, tx[c].now)' = Committed(tx[c].day, tx[c].now)
         /\ \A day, now : Committed(day, now)' = Committed(day, now)
<1>1. \A r : Row(r)' = Row(r)
  BY DEF vars, Row
<1>2. \A day, now : Lapsed(day, now)' = Lapsed(day, now) /\ Reserved(day)' = Reserved(day)
  BY DEF vars, Lapsed, Reserved
<1>3. \A day, now : Committed(day, now)' = Committed(day, now)
  BY <1>2 DEF vars, Committed
<1>4. Lapsed(tx[c].day, tx[c].now)' = Lapsed(tx[c].day, tx[c].now)
  BY <1>2
<1> QED BY <1>1, <1>3, <1>4 DEF SweptRow

-----------------------------------------------------------------------------
(* The statements that write.                                              *)

\* The sweep of a reservation drafts the expired rows of its day (ledger.py:214-238).
LEMMA SweepKeeps == ASSUME TxInv, NEW c \in Clients, Sweep(c) PROVE TxInv'
<1> DEFINE lapsed == {r \in Rows : /\ Current(c, r).state = "reserved"
                                   /\ Current(c, r).day = tx[c].day
                                   /\ Current(c, r).expires <= tx[c].now}
           rows == [r \in lapsed |-> [Current(c, r) EXCEPT !.state = "expired"]]
<1>1. tx[c].step = "read" /\ tx[c].kind = "reserve" /\ tx[c].draft = NoDraft
  BY DEF Sweep, At, TxInv, Working, Drafted
<1>2. \A r : Current(c, r) = Row(r)
  BY <1>1, CurrentIsCommitted
<1>3. lapsed = Lapsed(tx[c].day, tx[c].now)
  BY <1>2, RowFields DEF Lapsed, Reserved
<1>4. Writes(c, "swept", rows)
  BY DEF Sweep
<1>5. /\ DOMAIN rows = Lapsed(tx[c].day, tx[c].now)
      /\ \A r \in Lapsed(tx[c].day, tx[c].now) : rows[r] = SweptRow(c, r)
  BY <1>2, <1>3 DEF SweptRow
<1> HIDE DEF rows, lapsed
<1>6. /\ tx'[c].step = "swept" /\ tx'[c].draft.rows = rows
      /\ tx'[c].kind = "reserve" /\ tx'[c].now = tx[c].now /\ tx'[c].day = tx[c].day
      /\ tx'[c].draft.added = 0 /\ tx'[c].draft.opens = FALSE
      /\ TxShape' /\ LockHeld' /\ Viewed(c)' /\ Called(c)'
      /\ UNCHANGED vars /\ \A d \in Clients \ {c} : tx'[d] = tx[d]
  BY <1>1, <1>4, WritesShape DEF Deciding, NoDraft
<1>7. HasSwept(c)'
  BY <1>5, <1>6, CommittedKept DEF HasSwept, WritesNoTotal
<1>8. Drafted(c)'
  BY <1>6, <1>7 DEF Drafted
<1> QED BY <1>6, <1>8, StatementKeeps DEF Working

\* A refusal drafts nothing beside the sweep (ledger.py:286-306).
LEMMA RefuseKeeps ==
  ASSUME TxInv, NEW c \in Clients, NEW max \in MaxCosts \cup {Unpriced}, NEW lane \in Lanes,
         Refuse(c, max, lane)
  PROVE  TxInv'
<1> DEFINE held == IF max = Unpriced THEN Unpriced ELSE Quantize(max)
<1>1. /\ tx[c].step = "swept" /\ HasSwept(c)
      /\ tx[c].view.rows = [r \in Rows |-> Row(r)] /\ tx[c].view.spent = spent[tx[c].day]
  BY DEF Refuse, TxInv, Working, Drafted, Viewed, Deciding
<1>2. ~Admitted(tx[c].view.open, Committed(tx[c].day, tx[c].now), held, lane)
  BY <1>1, SeenIsCommitted DEF Refuse, TxInv
<1>3. Writes(c, "written", tx[c].draft.rows)
  BY DEF Refuse
<1>4. /\ tx'[c].step = "written" /\ tx'[c].draft.rows = tx[c].draft.rows
      /\ tx'[c].kind = "reserve" /\ tx'[c].now = tx[c].now /\ tx'[c].day = tx[c].day
      /\ tx'[c].view = tx[c].view
      /\ tx'[c].draft.added = 0 /\ tx'[c].draft.opens = FALSE
      /\ TxShape' /\ LockHeld' /\ Viewed(c)' /\ Called(c)'
      /\ UNCHANGED vars /\ \A d \in Clients \ {c} : tx'[d] = tx[d]
  BY <1>1, <1>3, WritesShape DEF Deciding, HasSwept, WritesNoTotal
<1>5. /\ \A r : Row(r)' = Row(r) /\ SweptRow(c, r)' = SweptRow(c, r)
      /\ Committed(tx[c].day, tx[c].now)' = Committed(tx[c].day, tx[c].now)
  BY <1>4, CommittedKept
<1>6. \A r \in Rows : Current(c, r)' = SweptRow(c, r)
  BY <1>1, <1>4, <1>5, AfterSweep DEF Current
<1>7. ~Admitted(tx'[c].view.open, Committed(tx[c].day, tx[c].now)', held, lane)
  BY <1>2, <1>4, <1>5
<1>8. HasRefused(c)'
  BY <1>4, <1>5, <1>6, <1>7 DEF HasRefused, WritesNoTotal
<1>9. Drafted(c)'
  BY <1>4, <1>8 DEF Drafted, Written
<1> QED BY <1>4, <1>9, StatementKeeps DEF Working

\* An admission drafts its row, because the policy found room in what was read
\* (ledger.py:286-336).
LEMMA InsertKeeps ==
  ASSUME TxInv, NEW c \in Clients, NEW max \in MaxCosts, NEW lane \in Lanes, NEW q \in Rows,
         Insert(c, max, lane, q)
  PROVE  TxInv'
<1> DEFINE swept == tx[c].draft.rows
           row == [state |-> "reserved", day |-> tx[c].day, max |-> Quantize(max),
                   actual |-> Row(q).actual, expires |-> tx[c].now + Expiry, lane |-> lane]
           rows == [s \in DOMAIN swept \cup {q} |-> IF s = q THEN row ELSE swept[s]]
<1>1. /\ tx[c].step = "swept" /\ HasSwept(c)
      /\ tx[c].view.rows = [r \in Rows |-> Row(r)] /\ tx[c].view.spent = spent[tx[c].day]
  BY DEF Insert, TxInv, Working, Drafted, Viewed, Deciding
<1>2. Admitted(tx[c].view.open, Committed(tx[c].day, tx[c].now), Quantize(max), lane)
  BY <1>1, SeenIsCommitted DEF Insert, TxInv
<1>3. Writes(c, "written", rows)
  BY DEF Insert
<1>4. rowState[q] = "absent"
  BY <1>1, AfterSweep, SweptFields DEF Insert
<1> HIDE DEF rows, row
<1>5. /\ tx'[c].step = "written" /\ tx'[c].draft.rows = rows
      /\ tx'[c].kind = "reserve" /\ tx'[c].now = tx[c].now /\ tx'[c].day = tx[c].day
      /\ tx'[c].view = tx[c].view
      /\ tx'[c].draft.added = 0 /\ tx'[c].draft.opens = FALSE
      /\ TxShape' /\ LockHeld' /\ Viewed(c)' /\ Called(c)'
      /\ UNCHANGED vars /\ \A d \in Clients \ {c} : tx'[d] = tx[d]
  BY <1>1, <1>3, WritesShape DEF Deciding, HasSwept, WritesNoTotal
<1>6. /\ \A r : Row(r)' = Row(r) /\ SweptRow(c, r)' = SweptRow(c, r)
      /\ Committed(tx[c].day, tx[c].now)' = Committed(tx[c].day, tx[c].now)
  BY <1>5, CommittedKept
<1>7. \A r \in Rows : Current(c, r)' = IF r = q THEN row ELSE Current(c, r)
  BY <1>5, <1>6 DEF Current, rows
<1>8. row = [state |-> "reserved", day |-> tx'[c].day, max |-> Quantize(max),
             actual |-> rowActual'[q], expires |-> tx'[c].now + Expiry, lane |-> lane]
  BY <1>5, RowFields DEF row, vars
<1>9. \A r \in Rows : Current(c, r) = SweptRow(c, r)
  BY <1>1, AfterSweep
<1>10. rowState'[q] = "absent"
  BY <1>4, <1>5 DEF vars
<1>11. Admitted(tx'[c].view.open, Committed(tx[c].day, tx[c].now)', Quantize(max), lane)
  BY <1>2, <1>5, <1>6
<1>12. HasInserted(c, max, lane, q)'
  BY <1>5, <1>6, <1>7, <1>8, <1>9, <1>10, <1>11 DEF HasInserted, WritesNoTotal
<1>13. Drafted(c)'
  BY <1>5, <1>12 DEF Drafted, Written
<1> QED BY <1>5, <1>13, StatementKeeps DEF Working

\* A row that is no longer reserved gives a draft of nothing (ledger.py:369-371).
LEMMA FindNothingKeeps == ASSUME TxInv, NEW c \in Clients, FindNothing(c) PROVE TxInv'
<1> USE DEF FindNothing, At, KeepCommitted, TxInv
<1>1. /\ tx'[c].step = "turned_away" /\ tx'[c].kind = tx[c].kind
      /\ TxShape' /\ \A d \in Clients \ {c} : tx'[d] = tx[d]
  BY DEF TxShape
<1>2. LockHeld'
  BY <1>1 DEF LockHeld, Locked
<1>3. Working(c)'
  BY <1>1 DEF Working, Viewed, Called, Drafted, Deciding
<1> QED BY <1>1, <1>2, <1>3, StatementKeeps

\* A settlement drafts its row, the charge and the breaker (ledger.py:358-411).
LEMMA ChargeKeeps ==
  ASSUME TxInv, NEW c \in Clients, NEW reported \in Reports, Charge(c, reported) PROVE TxInv'
<1> DEFINE stored == Storable(reported)
           added == AtMost(stored, MaxStored - tx[c].view.spent)
           found == Current(c, tx[c].row)
           opens == Breach(found.max, reported) \/ added < stored
           rows == [r \in {tx[c].row} |-> [found EXCEPT !.state = "completed", !.actual = stored]]
<1>1. /\ tx[c].step = "read" /\ tx[c].kind = "settle" /\ tx[c].draft = NoDraft
      /\ tx[c].row \in Rows /\ tx[c].view.spent = spent[tx[c].day]
  BY DEF Charge, At, TxInv, Working, Drafted, Called, Viewed, Deciding
<1>2. \A r : Current(c, r) = Row(r)
  BY <1>1, CurrentIsCommitted
<1>3. found.state = "reserved"
      /\ tx' = [tx EXCEPT ![c].step = "written",
                          ![c].draft = [rows |-> rows, added |-> added, opens |-> opens,
                                        reserved |-> 0]]
  BY DEF Charge
<1> HIDE DEF rows, opens, added
<1>4. /\ tx'[c].step = "written" /\ tx'[c].kind = "settle"
      /\ tx'[c].row = tx[c].row /\ tx'[c].day = tx[c].day /\ tx'[c].now = tx[c].now
      /\ tx'[c].view = tx[c].view
      /\ tx'[c].draft.rows = rows /\ tx'[c].draft.added = added /\ tx'[c].draft.opens = opens
      /\ TxShape' /\ \A d \in Clients \ {c} : tx'[d] = tx[d]
  BY <1>1, <1>3 DEF TxShape, TxInv
<1>5. UNCHANGED vars /\ UNCHANGED holder
  BY DEF Charge, KeepCommitted
<1>6. LockHeld'
  BY <1>1, <1>4, <1>5 DEF LockHeld, Locked, TxInv
<1>7. \A r : Row(r)' = Row(r)
  BY <1>4, <1>5, CommittedKept
<1>8. Viewed(c)' /\ Called(c)'
  BY <1>1, <1>4, <1>5, <1>7 DEF TxInv, Working, Viewed, Called, Deciding, vars
<1>9. \A r \in Rows : Current(c, r)' =
        IF r = tx[c].row THEN [Row(r) EXCEPT !.state = "completed", !.actual = stored]
        ELSE Row(r)
  <2>1. rows = [r \in {tx[c].row} |-> [Row(r) EXCEPT !.state = "completed", !.actual = stored]]
    BY <1>2 DEF rows
  <2> HIDE DEF found, stored
  <2> QED BY <1>4, <1>7, <2>1 DEF Current
<1>10. added = AtMost(stored, MaxStored - spent'[tx[c].day])
  BY <1>1, <1>5 DEF added, vars
<1>11. opens = (Breach(rowMax'[tx[c].row], reported) \/ added < stored)
  BY <1>2, <1>5, RowFields DEF opens, vars
<1>12. rowState'[tx[c].row] = "reserved"
  BY <1>2, <1>3, <1>5, RowFields DEF vars
<1>13. HasCharged(c, reported)'
  BY <1>4, <1>7, <1>9, <1>10, <1>11, <1>12 DEF HasCharged
<1>14. Drafted(c)'
  BY <1>4, <1>13 DEF Drafted, Written
<1> QED BY <1>4, <1>5, <1>6, <1>8, <1>14, StatementKeeps DEF Working

\* A release drafts its row (ledger.py:420-445).
LEMMA GiveBackKeeps == ASSUME TxInv, NEW c \in Clients, GiveBack(c) PROVE TxInv'
<1> DEFINE found == Current(c, tx[c].row)
           rows == [r \in {tx[c].row} |-> [found EXCEPT !.state = "released"]]
<1>1. /\ tx[c].step = "read" /\ tx[c].kind = "release" /\ tx[c].draft = NoDraft
      /\ tx[c].row \in Rows
  BY DEF GiveBack, At, TxInv, Working, Drafted, Called, Deciding
<1>2. \A r : Current(c, r) = Row(r)
  BY <1>1, CurrentIsCommitted
<1>3. found.state = "reserved" /\ Writes(c, "written", rows)
  BY DEF GiveBack
<1> HIDE DEF rows
<1>4. /\ tx'[c].step = "written" /\ tx'[c].draft.rows = rows
      /\ tx'[c].kind = "release" /\ tx'[c].row = tx[c].row
      /\ tx'[c].now = tx[c].now /\ tx'[c].day = tx[c].day
      /\ tx'[c].draft.added = 0 /\ tx'[c].draft.opens = FALSE
      /\ TxShape' /\ LockHeld' /\ Viewed(c)' /\ Called(c)'
      /\ UNCHANGED vars /\ \A d \in Clients \ {c} : tx'[d] = tx[d]
  BY <1>1, <1>3, WritesShape DEF Deciding, NoDraft
<1>5. \A r : Row(r)' = Row(r)
  BY <1>4, CommittedKept
<1>6. \A r \in Rows : Current(c, r)' =
        IF r = tx[c].row THEN [Row(r) EXCEPT !.state = "released"] ELSE Row(r)
  BY <1>2, <1>4, <1>5 DEF Current, rows
<1>7. rowState'[tx[c].row] = "reserved"
  BY <1>2, <1>3, <1>4, RowFields DEF vars
<1>8. HasGivenBack(c)'
  BY <1>4, <1>5, <1>6, <1>7 DEF HasGivenBack, WritesNoTotal
<1>9. Drafted(c)'
  BY <1>4, <1>8 DEF Drafted, Written
<1> QED BY <1>4, <1>9, StatementKeeps DEF Working

\* The derived total is that of the rows as the transaction leaves them (ledger.py:155-172).
LEMMA RefreshKeeps == ASSUME TxInv, NEW c \in Clients, Refresh(c) PROVE TxInv'
<1> DEFINE live == {r \in Rows : Current(c, r).state = "reserved" /\ Current(c, r).day = tx[c].day}
           total == SumOver([r \in Rows |-> Current(c, r).max], live)
<1>1. /\ tx[c].step = "written" /\ Written(c)
      /\ tx' = [tx EXCEPT ![c].step = "refreshed", ![c].draft.reserved = total]
      /\ UNCHANGED vars /\ UNCHANGED holder
  BY DEF Refresh, KeepCommitted, TxInv, Working, Drafted
<1>2. total = SumOver([r \in Rows |-> Current(c, r).max], Live(c))
  BY DEF Live
<1> HIDE DEF total
<1>3. /\ tx'[c].step = "refreshed" /\ tx'[c].draft.reserved = total
      /\ tx'[c].kind = tx[c].kind /\ tx'[c].row = tx[c].row
      /\ tx'[c].now = tx[c].now /\ tx'[c].day = tx[c].day /\ tx'[c].view = tx[c].view
      /\ tx'[c].draft.rows = tx[c].draft.rows /\ tx'[c].draft.added = tx[c].draft.added
      /\ tx'[c].draft.opens = tx[c].draft.opens
      /\ TxShape' /\ \A d \in Clients \ {c} : tx'[d] = tx[d]
  BY <1>1 DEF TxShape, TxInv
<1>4. LockHeld'
  BY <1>1, <1>3 DEF LockHeld, Locked, TxInv
<1>5. /\ \A r : Row(r)' = Row(r) /\ SweptRow(c, r)' = SweptRow(c, r)
      /\ \A day, now : Committed(day, now)' = Committed(day, now)
  BY <1>1, <1>3, CommittedKept
<1>6. \A r : Current(c, r)' = Current(c, r)
  BY <1>3, <1>5 DEF Current
<1>7. Viewed(c)' /\ Called(c)'
  BY <1>1, <1>3, <1>5 DEF TxInv, Working, Viewed, Called, Deciding, vars
<1>8. Written(c)'
  <2> HIDE DEF live
  <2>a. WritesNoTotal(c)' <=> WritesNoTotal(c)
    BY <1>3 DEF WritesNoTotal
  <2>b. UNCHANGED <<rowState, rowMax, rowActual, spent>>
    BY <1>1 DEF vars
  <2>1. HasRefused(c) => HasRefused(c)'
    BY <1>3, <1>5, <1>6, <2>a DEF HasRefused
  <2>2. HasGivenBack(c) => HasGivenBack(c)'
    BY <1>3, <1>5, <1>6, <2>a, <2>b DEF HasGivenBack
  <2>3. \A max, lane, q : HasInserted(c, max, lane, q) => HasInserted(c, max, lane, q)'
    BY <1>3, <1>5, <1>6, <2>a, <2>b DEF HasInserted
  <2>4. \A reported : HasCharged(c, reported) => HasCharged(c, reported)'
    <3> SUFFICES ASSUME NEW reported, HasCharged(c, reported) PROVE HasCharged(c, reported)'
      OBVIOUS
    <3> DEFINE added == AtMost(Storable(reported), MaxStored - spent[tx[c].day])
               opens == Breach(rowMax[tx[c].row], reported) \/ added < Storable(reported)
    <3>1. tx'[c].draft.added = added /\ tx'[c].draft.opens = opens
      BY <1>3 DEF HasCharged
    <3>2. /\ added = AtMost(Storable(reported), MaxStored - spent'[tx'[c].day])
          /\ opens = (Breach(rowMax'[tx'[c].row], reported) \/ added < Storable(reported))
      BY <1>3, <2>b
    <3>3. /\ tx'[c].kind = "settle" /\ rowState'[tx'[c].row] = "reserved"
          /\ \A r \in Rows : Current(c, r)' =
               IF r = tx'[c].row
               THEN [Row(r)' EXCEPT !.state = "completed", !.actual = Storable(reported)]
               ELSE Row(r)'
      BY <1>3, <1>5, <1>6, <2>b DEF HasCharged
    <3> HIDE DEF added, opens
    <3> QED BY <3>1, <3>2, <3>3 DEF HasCharged
  <2> QED BY <1>1, <2>1, <2>2, <2>3, <2>4 DEF Written
<1>9. Reckoned(c)'
  <2>1. Live(c)' = Live(c)
    BY <1>3, <1>6 DEF Live
  <2>2. [r \in Rows |-> Current(c, r).max]' = [r \in Rows |-> Current(c, r).max]
    BY <1>6
  <2> QED BY <1>2, <1>3, <2>1, <2>2 DEF Reckoned
<1>10. Drafted(c)'
  BY <1>3, <1>8, <1>9 DEF Drafted
<1> QED BY <1>1, <1>3, <1>4, <1>7, <1>10, StatementKeeps DEF Working

-----------------------------------------------------------------------------
(* The end of a transaction.                                               *)

\* A client that is done is idle, and has left the lock.
LEMMA CloseLeaves ==
  ASSUME TxInv, NEW c \in Clients, Close(c)
  PROVE  TxShape' /\ LockHeld' /\ Working(c)' /\ \A d \in Clients \ {c} : tx'[d] = tx[d]
<1> USE DEF TxInv, Close
<1>1. tx'[c] = Idle /\ \A d \in Clients \ {c} : tx'[d] = tx[d]
  BY DEF TxShape
<1>2. TxShape'
  BY <1>1 DEF TxShape, Idle, NoDraft
<1>3. LockHeld'
  BY <1>1 DEF LockHeld, Locked, Idle
<1>4. tx'[c].step = "idle" /\ tx'[c].kind = "none" /\ tx'[c].draft = NoDraft
  BY <1>1 DEF Idle
<1>5. Working(c)'
  BY <1>4 DEF Working, Viewed, Called, Drafted, Deciding
<1> QED BY <1>1, <1>2, <1>3, <1>5

\* A transaction that wrote nothing, or is rolled back, leaves no trace.
LEMMA RolledBackKeeps ==
  ASSUME TxInv, NEW c \in Clients, UNCHANGED vars, Close(c) PROVE TxInv'
BY CloseLeaves, StatementKeeps

\* The rows a commit leaves, in the columns of the ledger.
LEMMA CommitColumns ==
  ASSUME TxInv, NEW c \in Clients, Commit(c), NEW r \in Rows
  PROVE  /\ rowState'[r] = Current(c, r).state /\ rowDay'[r] = Current(c, r).day
         /\ rowMax'[r] = Current(c, r).max /\ rowActual'[r] = Current(c, r).actual
         /\ rowExpires'[r] = Current(c, r).expires /\ rowLane'[r] = Current(c, r).lane
BY DEF Commit

\* The sum a transaction refreshed is that of the rows its commit leaves.
LEMMA CommitRefreshes ==
  ASSUME TxInv, NEW c \in Clients, Commit(c), NEW day, day = tx[c].day
  PROVE  RefreshReserved(day)
<1>1. Reckoned(c)
  BY DEF Commit, TxInv, Working, Drafted
<1>2. rowMax' = [r \in Rows |-> Current(c, r).max]
  BY DEF Commit
<1>3. Reserved(day)' = Live(c)
  BY CommitColumns DEF Reserved, Live
<1> QED BY <1>1, <1>2, <1>3 DEF Commit, RefreshReserved, Reckoned

\* What a commit leaves alone when the draft holds no charge.
LEMMA CommitNoTotal ==
  ASSUME TxInv, NEW c \in Clients, Commit(c), WritesNoTotal(c)
  PROVE  UNCHANGED <<spent, circuitOpen, cleared>>
<1>1. spent \in [Days -> Nat] /\ circuitOpen \in BOOLEAN
  BY MoneyTypes DEF TxInv, LedgerInv, ColumnTypes
<1>2. spent' = [spent EXCEPT ![tx[c].day] = @ + 0]
  BY DEF Commit, WritesNoTotal
<1>3. spent' = spent
  BY <1>1, <1>2
<1>4. circuitOpen' = circuitOpen /\ cleared' = cleared
  BY <1>1 DEF Commit, WritesNoTotal
<1> QED BY <1>3, <1>4

-----------------------------------------------------------------------------
(* A commit is a transaction of the ledger.                                *)

\* What a row keeps when a commit leaves it what it was, but for its state.
LEMMA ColumnsKept ==
  ASSUME TxInv, NEW c \in Clients, Commit(c),
         \A r \in Rows : /\ Current(c, r).day = rowDay[r] /\ Current(c, r).max = rowMax[r]
                         /\ Current(c, r).expires = rowExpires[r]
                         /\ Current(c, r).lane = rowLane[r]
  PROVE  UNCHANGED <<rowDay, rowMax, rowExpires, rowLane>>
<1>1. rowDay' = rowDay
  BY DEF Commit, TxInv, LedgerInv, ColumnTypes
<1>2. rowMax' = rowMax
  BY DEF Commit, TxInv, LedgerInv, ColumnTypes
<1>3. rowExpires' = rowExpires
  BY DEF Commit, TxInv, LedgerInv, ColumnTypes
<1>4. rowLane' = rowLane
  BY DEF Commit, TxInv, LedgerInv, ColumnTypes
<1> QED BY <1>1, <1>2, <1>3, <1>4

\* A refusal that held when the view was taken holds still, or an operator intervened.
LEMMA RefusalStands ==
  ASSUME TxInv, NEW c \in Clients, tx[c].step = "refreshed", NEW committed, NEW max, NEW lane,
         ~Admitted(tx[c].view.open, committed, max, lane)
  PROVE  ~Admitted(circuitOpen, committed, max, lane) \/ cleared
<1>1. IF tx[c].view.open THEN circuitOpen \/ cleared ELSE ~circuitOpen
  BY DEF TxInv, Working, Viewed, Deciding
<1>2. CASE tx[c].view.open
  BY <1>1, <1>2 DEF Admitted
<1>3. CASE ~tx[c].view.open
  BY <1>1, <1>3 DEF Admitted
<1> QED BY <1>2, <1>3

\* The commit of a refusal is the ledger's.
LEMMA CommitRefused ==
  ASSUME TxInv, NEW c \in Clients, Commit(c), HasRefused(c)
  PROVE  \E now \in Times, max \in MaxCosts \cup {Unpriced}, lane \in Lanes :
           ReserveDenied(now, max, lane)
<1> DEFINE now == tx[c].now
           day == tx[c].day
<1>1. tx[c].step = "refreshed" /\ now \in Times /\ day = DayOf(now)
  BY DEF Commit, TxInv, Working, Called, Deciding, HasRefused
<1>2. PICK max \in MaxCosts \cup {Unpriced}, lane \in Lanes :
        ~Admitted(tx[c].view.open, Committed(day, now),
                  IF max = Unpriced THEN Unpriced ELSE Quantize(max), lane)
  BY DEF HasRefused
<1>3. \/ ~Admitted(circuitOpen, Committed(day, now),
                   IF max = Unpriced THEN Unpriced ELSE Quantize(max), lane)
      \/ cleared
  BY <1>1, <1>2, RefusalStands
<1>4. \A r \in Rows : Current(c, r) = SweptRow(c, r)
  BY DEF HasRefused
<1>5. UNCHANGED <<rowDay, rowMax, rowExpires, rowLane>>
  BY <1>4, SweptFields, ColumnsKept
<1>6. rowActual' = rowActual
  BY <1>4, SweptFields DEF Commit, TxInv, LedgerInv, ColumnTypes
<1>7. rowState' = [s \in Rows |-> IF s \in Lapsed(day, now) THEN "expired" ELSE rowState[s]]
  BY <1>4, SweptFields DEF Commit
<1>8. UNCHANGED <<spent, circuitOpen, cleared>>
  BY CommitNoTotal DEF HasRefused
<1>9. ASSUME NEW d, d = day PROVE RefreshReserved(d)
  BY <1>9, CommitRefreshes
<1> HIDE DEF day, now
<1>10. ASSUME NEW t \in Times, t = now PROVE ReserveDenied(t, max, lane)
  <2>1. RefreshReserved(DayOf(t))
    BY <1>1, <1>9, <1>10
  <2> QED BY <1>1, <1>3, <1>5, <1>6, <1>7, <1>8, <1>10, <2>1 DEF ReserveDenied
<1> QED BY <1>1, <1>10

\* A column that differs from f in row q at most.
LEMMA ColumnSet ==
  ASSUME NEW f, f = [r \in Rows |-> f[r]], NEW g, g = [r \in Rows |-> g[r]],
         NEW q \in Rows, NEW value, g[q] = value, \A r \in Rows \ {q} : g[r] = f[r]
  PROVE  g = [f EXCEPT ![q] = value]
OBVIOUS

\* The columns are functions on the rows, before a commit and after.
LEMMA CommitFunctions ==
  ASSUME TxInv, NEW c \in Clients, Commit(c)
  PROVE  /\ rowState = [r \in Rows |-> rowState[r]] /\ rowState' = [r \in Rows |-> rowState'[r]]
         /\ rowDay = [r \in Rows |-> rowDay[r]] /\ rowDay' = [r \in Rows |-> rowDay'[r]]
         /\ rowMax = [r \in Rows |-> rowMax[r]] /\ rowMax' = [r \in Rows |-> rowMax'[r]]
         /\ rowActual = [r \in Rows |-> rowActual[r]]
         /\ rowActual' = [r \in Rows |-> rowActual'[r]]
         /\ rowExpires = [r \in Rows |-> rowExpires[r]]
         /\ rowExpires' = [r \in Rows |-> rowExpires'[r]]
         /\ rowLane = [r \in Rows |-> rowLane[r]] /\ rowLane' = [r \in Rows |-> rowLane'[r]]
<1>1. /\ rowState = [r \in Rows |-> rowState[r]] /\ rowDay = [r \in Rows |-> rowDay[r]]
      /\ rowMax = [r \in Rows |-> rowMax[r]] /\ rowActual = [r \in Rows |-> rowActual[r]]
      /\ rowExpires = [r \in Rows |-> rowExpires[r]] /\ rowLane = [r \in Rows |-> rowLane[r]]
  BY DEF TxInv, LedgerInv, ColumnTypes
<1>2. /\ rowState' = [r \in Rows |-> rowState'[r]] /\ rowDay' = [r \in Rows |-> rowDay'[r]]
      /\ rowMax' = [r \in Rows |-> rowMax'[r]] /\ rowActual' = [r \in Rows |-> rowActual'[r]]
      /\ rowExpires' = [r \in Rows |-> rowExpires'[r]]
      /\ rowLane' = [r \in Rows |-> rowLane'[r]]
  BY DEF Commit
<1> QED BY <1>1, <1>2

\* The commit of an admission is the ledger's, at the reading it was asked with.
LEMMA CommitInserted ==
  ASSUME TxInv, NEW c \in Clients, Commit(c), NEW max \in MaxCosts, NEW lane \in Lanes,
         NEW q \in Rows, HasInserted(c, max, lane, q)
  PROVE  \E now \in Times : ReserveAdmitted(now, max, lane, q)
<1> DEFINE now == tx[c].now
           day == tx[c].day
<1>1. tx[c].step = "refreshed" /\ now \in Times /\ day = DayOf(now)
  BY DEF Commit, TxInv, Working, Called, Deciding, HasInserted
<1>2. ~tx[c].view.open /\ Admitted(tx[c].view.open, Committed(day, now), Quantize(max), lane)
  BY DEF HasInserted, Admitted
<1>3. ~circuitOpen
  BY <1>1, <1>2 DEF TxInv, Working, Viewed, Deciding
<1>4. Admitted(circuitOpen, Committed(day, now), Quantize(max), lane)
  BY <1>2, <1>3 DEF Admitted
<1>5. max # Unpriced /\ rowState[q] = "absent"
  BY LedgerAssumption DEF HasInserted
<1>6. /\ \A r \in Rows \ {q} : Current(c, r) = SweptRow(c, r)
      /\ Current(c, q) = [state |-> "reserved", day |-> day, max |-> Quantize(max),
                          actual |-> rowActual[q], expires |-> now + Expiry, lane |-> lane]
  BY DEF HasInserted
<1> HIDE DEF day, now
<1>7. /\ Current(c, q).state = "reserved" /\ Current(c, q).day = day
      /\ Current(c, q).max = Quantize(max) /\ Current(c, q).actual = rowActual[q]
      /\ Current(c, q).expires = now + Expiry /\ Current(c, q).lane = lane
  BY <1>6
<1>a. \A r \in Rows \ {q} :
        /\ rowState'[r] = IF r \in Lapsed(day, now) THEN "expired" ELSE rowState[r]
        /\ rowDay'[r] = rowDay[r] /\ rowMax'[r] = rowMax[r] /\ rowActual'[r] = rowActual[r]
        /\ rowExpires'[r] = rowExpires[r] /\ rowLane'[r] = rowLane[r]
  BY <1>6, CommitColumns, SweptFields DEF day, now
<1>b. /\ rowState'[q] = "reserved" /\ rowDay'[q] = day /\ rowMax'[q] = Quantize(max)
      /\ rowActual'[q] = rowActual[q] /\ rowExpires'[q] = now + Expiry /\ rowLane'[q] = lane
  BY <1>7, CommitColumns
<1>8. rowState' = [s \in Rows |-> IF s = q THEN "reserved"
                                  ELSE IF s \in Lapsed(day, now) THEN "expired"
                                  ELSE rowState[s]]
  BY <1>a, <1>b, CommitFunctions
<1>9. rowDay' = [rowDay EXCEPT ![q] = day]
  BY <1>a, <1>b, CommitFunctions, ColumnSet
<1>10. rowMax' = [rowMax EXCEPT ![q] = Quantize(max)]
  BY <1>a, <1>b, CommitFunctions, ColumnSet
<1>11. rowExpires' = [rowExpires EXCEPT ![q] = now + Expiry]
  BY <1>a, <1>b, CommitFunctions, ColumnSet
<1>12. rowLane' = [rowLane EXCEPT ![q] = lane]
  BY <1>a, <1>b, CommitFunctions, ColumnSet
<1>13. rowActual' = rowActual
  BY <1>a, <1>b, CommitFunctions
<1>14. UNCHANGED <<spent, circuitOpen, cleared>>
  BY CommitNoTotal DEF HasInserted
<1>15. ASSUME NEW d, d = day PROVE RefreshReserved(d)
  BY <1>15, CommitRefreshes DEF day
<1>16. ASSUME NEW t \in Times, t = now PROVE ReserveAdmitted(t, max, lane, q)
  <2>1. RefreshReserved(DayOf(t))
    BY <1>1, <1>15, <1>16
  <2> QED BY <1>1, <1>4, <1>5, <1>8, <1>9, <1>10, <1>11, <1>12, <1>13, <1>14, <1>16, <2>1
          DEF ReserveAdmitted
<1> QED BY <1>1, <1>16

\* What a settlement or a release commits, of a row that was still reserved.
LEMMA CommitOne ==
  ASSUME TxInv, NEW c \in Clients, Commit(c), NEW q \in Rows,
         \A r \in Rows \ {q} : Current(c, r) = Row(r),
         /\ Current(c, q).day = rowDay[q] /\ Current(c, q).max = rowMax[q]
         /\ Current(c, q).expires = rowExpires[q] /\ Current(c, q).lane = rowLane[q]
  PROVE  /\ rowState' = [rowState EXCEPT ![q] = Current(c, q).state]
         /\ rowActual' = [rowActual EXCEPT ![q] = Current(c, q).actual]
         /\ UNCHANGED <<rowDay, rowMax, rowExpires, rowLane>>
<1>1. \A r \in Rows \ {q} : /\ rowState'[r] = rowState[r] /\ rowActual'[r] = rowActual[r]
                            /\ Current(c, r).day = rowDay[r] /\ Current(c, r).max = rowMax[r]
                            /\ Current(c, r).expires = rowExpires[r]
                            /\ Current(c, r).lane = rowLane[r]
  BY CommitColumns, RowFields
<1>2. UNCHANGED <<rowDay, rowMax, rowExpires, rowLane>>
  BY <1>1, ColumnsKept
<1>3. rowState' = [rowState EXCEPT ![q] = Current(c, q).state]
  BY <1>1, CommitColumns, CommitFunctions, ColumnSet
<1>4. rowActual' = [rowActual EXCEPT ![q] = Current(c, q).actual]
  BY <1>1, CommitColumns, CommitFunctions, ColumnSet
<1> QED BY <1>2, <1>3, <1>4

\* The commit of a settlement is the ledger's, clamp and breaker included.
LEMMA CommitCharged ==
  ASSUME TxInv, NEW c \in Clients, Commit(c), NEW reported \in Reports, HasCharged(c, reported)
  PROVE  \E r \in Rows : Settle(r, reported)
<1> DEFINE day == tx[c].day
           row == tx[c].row
           stored == Storable(reported)
           added == AtMost(stored, MaxStored - spent[day])
           opens == Breach(rowMax[row], reported) \/ added < stored
<1>1. tx[c].step = "refreshed" /\ row \in Rows /\ day = rowDay[row]
  BY DEF Commit, TxInv, Working, Called, Deciding, HasCharged
<1>2. /\ rowState[row] = "reserved" /\ tx[c].draft.added = added
      /\ \A r \in Rows \ {row} : Current(c, r) = Row(r)
      /\ Current(c, row) = [Row(row) EXCEPT !.state = "completed", !.actual = stored]
  BY <1>1 DEF HasCharged
<1>3. tx[c].draft.opens = opens
  BY DEF HasCharged
<1> HIDE DEF day, row, added, stored, opens
<1>4. /\ Current(c, row).state = "completed" /\ Current(c, row).actual = stored
      /\ Current(c, row).day = rowDay[row] /\ Current(c, row).max = rowMax[row]
      /\ Current(c, row).expires = rowExpires[row] /\ Current(c, row).lane = rowLane[row]
  BY <1>2 DEF Row
<1>5. /\ rowState' = [rowState EXCEPT ![row] = "completed"]
      /\ rowActual' = [rowActual EXCEPT ![row] = stored]
      /\ UNCHANGED <<rowDay, rowMax, rowExpires, rowLane>>
  <2>1. /\ rowState' = [rowState EXCEPT ![row] = Current(c, row).state]
        /\ rowActual' = [rowActual EXCEPT ![row] = Current(c, row).actual]
        /\ UNCHANGED <<rowDay, rowMax, rowExpires, rowLane>>
    BY <1>1, <1>2, <1>4, CommitOne
  <2> QED BY <1>4, <2>1
<1>6. spent' = [spent EXCEPT ![day] = @ + added] /\ cleared' = cleared
  BY <1>2 DEF Commit, day
<1>7. circuitOpen' = (circuitOpen \/ opens)
  BY <1>3 DEF Commit
<1>8. ASSUME NEW r \in Rows, r = row PROVE Settle(r, reported)
  <2>1. RefreshReserved(rowDay[r])
    <3>1. ASSUME NEW d, d = day PROVE RefreshReserved(d)
      BY <3>1, CommitRefreshes DEF day
    <3>2. rowDay' = rowDay
      BY <1>5
    <3> QED BY <1>1, <1>8, <3>1, <3>2 DEF RefreshReserved
  <2>2. spent' = [spent EXCEPT ![rowDay[r]] = @ + AtMost(stored, MaxStored - spent[rowDay[r]])]
    BY <1>1, <1>6, <1>8 DEF added
  <2>3. circuitOpen' = (circuitOpen \/ Breach(rowMax[r], reported)
                          \/ AtMost(stored, MaxStored - spent[rowDay[r]]) < stored)
    BY <1>1, <1>7, <1>8 DEF added, opens
  <2> QED BY <1>2, <1>5, <1>6, <1>8, <2>1, <2>2, <2>3 DEF Settle, StillReserved, stored
<1> QED BY <1>1, <1>8

\* The commit of a release is the ledger's.
LEMMA CommitGivenBack ==
  ASSUME TxInv, NEW c \in Clients, Commit(c), HasGivenBack(c)
  PROVE  \E r \in Rows : Release(r)
<1> DEFINE day == tx[c].day
           row == tx[c].row
<1>1. tx[c].step = "refreshed" /\ row \in Rows /\ day = rowDay[row]
  BY DEF Commit, TxInv, Working, Called, Deciding, HasGivenBack
<1>2. /\ rowState[row] = "reserved"
      /\ \A r \in Rows \ {row} : Current(c, r) = Row(r)
      /\ Current(c, row) = [Row(row) EXCEPT !.state = "released"]
  BY <1>1 DEF HasGivenBack
<1> HIDE DEF day, row
<1>3. /\ Current(c, row).state = "released" /\ Current(c, row).actual = rowActual[row]
      /\ Current(c, row).day = rowDay[row] /\ Current(c, row).max = rowMax[row]
      /\ Current(c, row).expires = rowExpires[row] /\ Current(c, row).lane = rowLane[row]
  BY <1>2 DEF Row
<1>4. /\ rowState' = [rowState EXCEPT ![row] = "released"]
      /\ rowActual' = [rowActual EXCEPT ![row] = rowActual[row]]
      /\ UNCHANGED <<rowDay, rowMax, rowExpires, rowLane>>
  <2>1. /\ rowState' = [rowState EXCEPT ![row] = Current(c, row).state]
        /\ rowActual' = [rowActual EXCEPT ![row] = Current(c, row).actual]
        /\ UNCHANGED <<rowDay, rowMax, rowExpires, rowLane>>
    BY <1>1, <1>2, <1>3, CommitOne
  <2> QED BY <1>3, <2>1
<1>5. rowActual' = rowActual
  BY <1>4 DEF TxInv, LedgerInv, ColumnTypes
<1>6. UNCHANGED <<spent, circuitOpen, cleared>>
  BY CommitNoTotal DEF HasGivenBack
<1>7. ASSUME NEW r \in Rows, r = row PROVE Release(r)
  <2>1. RefreshReserved(rowDay[r])
    <3>1. ASSUME NEW d, d = day PROVE RefreshReserved(d)
      BY <3>1, CommitRefreshes DEF day
    <3>2. rowDay' = rowDay
      BY <1>4
    <3> QED BY <1>1, <1>7, <3>1, <3>2 DEF RefreshReserved
  <2> QED BY <1>2, <1>4, <1>5, <1>6, <1>7, <2>1 DEF Release, StillReserved
<1> QED BY <1>1, <1>7

\* A commit is one of the ledger's transactions, whatever other clients have begun.
LEMMA CommitIsATransaction ==
  ASSUME TxInv, NEW c \in Clients, Commit(c) PROVE Next
<1>1. Written(c)
  BY DEF Commit, TxInv, Working, Drafted
<1> QED BY <1>1, CommitRefused, CommitInserted, CommitCharged, CommitGivenBack DEF Written, Next

\* The others have not passed the lock, so a commit changes nothing they have read.
LEMMA CommitKeeps == ASSUME TxInv, NEW c \in Clients, Commit(c) PROVE TxInv'
<1>1. LedgerInv'
  BY CommitIsATransaction, InvStep DEF TxInv
<1>2. Close(c) /\ tx[c].step = "refreshed"
  BY DEF Commit
<1>3. TxShape' /\ LockHeld' /\ Working(c)' /\ \A d \in Clients \ {c} : tx'[d] = tx[d]
  BY <1>2, CloseLeaves
<1>4. ASSUME NEW d \in Clients \ {c} PROVE Working(d)'
  <2>1. tx[d].step \notin Locked
    BY <1>2 DEF TxInv, LockHeld, Locked
  <2> QED BY <1>3, <2>1 DEF TxInv, Working, Viewed, Called, Drafted, Deciding, Locked
<1> QED BY <1>1, <1>3, <1>4 DEF TxInv

-----------------------------------------------------------------------------
(* The theorems.                                                           *)

\* What an operator does to the circuit disturbs no transaction.
LEMMA OperatorKeeps ==
  ASSUME TxInv, OperatorClears, UNCHANGED <<holder, tx>> PROVE TxInv'
<1>1. RowsKept /\ BreakerMoves
  BY DEF OperatorClears, RowsKept, BreakerMoves
<1>2. LedgerInv'
  BY InvStep DEF TxInv, Next
<1>3. TxShape' /\ LockHeld'
  BY DEF TxInv, TxShape, LockHeld
<1>4. \A c \in Clients : Working(c)'
  BY <1>1, Undisturbed DEF TxInv
<1> QED BY <1>2, <1>3, <1>4 DEF TxInv

\* What a step of any client does: it keeps the invariant, and is a step of the ledger.
LEMMA StatementStep ==
  ASSUME TxInv, NEW c \in Clients, Statement(c) PROVE TxInv' /\ [Next]_vars
<1>1. CASE Commit(c)
  BY <1>1, CommitKeeps, CommitIsATransaction
<1>2. CASE CommitNothing(c)
  BY <1>2, RolledBackKeeps DEF CommitNothing
<1>3. ASSUME Statement(c), ~Commit(c), ~CommitNothing(c) PROVE TxInv' /\ UNCHANGED vars
  <2>1. UNCHANGED vars
    BY <1>3 DEF Statement, ReadDayFor, ReadDayOf, Sweep, Refuse, Insert, FindNothing, Charge,
                GiveBack, Refresh, Writes, KeepCommitted
  <2>2. TxInv'
    BY <1>3, ReadDayForKeeps, ReadDayOfKeeps, SweepKeeps, RefuseKeeps, InsertKeeps,
       FindNothingKeeps, ChargeKeeps, GiveBackKeeps, RefreshKeeps DEF Statement
  <2> QED BY <2>1, <2>2
<1> QED BY <1>1, <1>2, <1>3

\* Every statement keeps the invariant, and is a step of the ledger or a stutter.
LEMMA TxStep == ASSUME TxInv, [TxNext]_txVars PROVE TxInv' /\ [Next]_vars
<1>1. ASSUME NEW c \in Clients, NEW kind \in Kinds, Begin(c, kind) PROVE TxInv' /\ [Next]_vars
  BY <1>1, BeginKeeps DEF Begin, KeepCommitted
<1>2. ASSUME NEW c \in Clients, Acquire(c) PROVE TxInv' /\ [Next]_vars
  BY <1>2, AcquireKeeps DEF Acquire
<1>3. ASSUME NEW c \in Clients, Abort(c) PROVE TxInv' /\ [Next]_vars
  BY <1>3, RolledBackKeeps DEF Abort
<1>4. CASE OperatorClears /\ UNCHANGED <<holder, tx>>
  BY <1>4, OperatorKeeps DEF Next
<1>5. CASE UNCHANGED txVars
  <2>1. RowsKept /\ BreakerMoves /\ tx' = tx /\ holder' = holder /\ UNCHANGED vars
    BY <1>5 DEF txVars, vars, RowsKept, BreakerMoves
  <2>2. LedgerInv'
    BY <2>1, InvStep DEF TxInv
  <2> QED BY <2>1, <2>2, Undisturbed DEF TxInv, TxShape, LockHeld
<1> QED BY <1>1, <1>2, <1>3, <1>4, <1>5, StatementStep DEF TxNext, Interrupted

\* At first no client has a transaction.
LEMMA TxInitInv == TxInit => TxInv
<1> SUFFICES ASSUME TxInit PROVE TxInv
  OBVIOUS
<1>1. LedgerInv
  BY InitInv DEF TxInit
<1>2. \A c \in Clients : tx[c] = Idle
  BY DEF TxInit
<1>3. TxShape /\ LockHeld
  BY <1>2 DEF TxInit, TxShape, LockHeld, Locked, Idle, NoDraft
<1>4. \A c \in Clients : Working(c)
  BY <1>2 DEF Working, Viewed, Called, Drafted, Deciding, Idle
<1> QED BY <1>1, <1>3, <1>4 DEF TxInv

\* In every reachable state of the statements, of any number of clients, the lock has
\* kept each open transaction's reads and writes true to what is committed.
THEOREM TransactionsInvariant == TxSpec => []TxInv
<1>1. TxInv /\ [TxNext]_txVars => TxInv'
  BY TxStep
<1> QED BY <1>1, TxInitInv, PTL DEF TxSpec

\* Every interleaving of the statements, with aborts anywhere, is a behaviour of BudgetLedger.
LEMMA TransactionsImplementSpec == TxSpec => Spec
<1>1. TxInit => Init
  BY DEF TxInit
<1>2. TxInv /\ [TxNext]_txVars => [Next]_vars
  BY TxStep
<1> QED BY <1>1, <1>2, TransactionsInvariant, PTL DEF TxSpec, Spec

\* The instance the runs check is the ledger itself, definition by definition.
LEMMA SameInit == Init <=> Ledger!Init
BY DEF Init, Ledger!Init, Days, Ledger!Days, Times, Ledger!Times, DayOf, Ledger!DayOf

\* And step by step.
LEMMA SameNext == [Next]_vars <=> [Ledger!Next]_(Ledger!vars)
BY DEF vars, Next, ReserveDenied, ReserveAdmitted, Settle, Release, TurnedAway, OperatorClears,
       Ledger!vars, Ledger!Next, Ledger!ReserveDenied, Ledger!ReserveAdmitted, Ledger!Settle,
       Ledger!Release, Ledger!TurnedAway, Ledger!OperatorClears,
       RefreshReserved, StillReserved, Committed, Reserved, Lapsed, Admitted, ReserveFloor,
       Ledger!RefreshReserved, Ledger!StillReserved, Ledger!Committed, Ledger!Reserved,
       Ledger!Lapsed, Ledger!Admitted, Ledger!ReserveFloor,
       Times, Lanes, DayOf, CeilDiv, Quantize, Storable, AtMost, Breach, MaxStored,
       Ledger!Times, Ledger!Lanes, Ledger!DayOf, Ledger!CeilDiv, Ledger!Quantize,
       Ledger!Storable, Ledger!AtMost, Ledger!Breach, Ledger!MaxStored,
       SumOver, MapThenSumSet, MapThenFoldSet,
       Ledger!SumOver, Ledger!MapThenSumSet, Ledger!MapThenFoldSet

\* The statements of any number of clients, interleaved and interrupted anywhere, add up to
\* the ledger's transactions (ledger.py:174-212, 252-336).
THEOREM TransactionsImplementLedger == TxSpec => LedgerSpec
<1>1. TxInit => Ledger!Init
  BY SameInit DEF TxInit
<1>2. TxInv /\ [TxNext]_txVars => [Ledger!Next]_(Ledger!vars)
  BY TxStep, SameNext
<1> QED BY <1>1, <1>2, TransactionsInvariant, PTL DEF TxSpec, LedgerSpec, Ledger!Spec

\* No transaction decides on a row or a total that another has changed since it read it
\* (ledger.py:247-265; test_ledger_mysql.py:986).
THEOREM ViewsAreNeverStale == TxSpec => []NoStaleView
<1>1. TxInv => NoStaleView
  BY DEF TxInv, Working, Viewed, Deciding, NoStaleView
<1> QED BY <1>1, TransactionsInvariant, PTL

\* So what is proved of the ledger's transactions holds of their statements: the ceiling,
\* the share kept for people, and every total and the breaker as the completed rows have them
\* (budget.py:279-284, ledger.py:283-336).
THEOREM StatementsKeepTheBooks ==
  TxSpec => [](/\ CeilingHolds /\ HumanReserveKept /\ ReservedIsDerived /\ SpentIsTheBooks
              /\ BreakerRemembers)
BY TransactionsImplementSpec, CeilingAlwaysHolds, HumanReserveAlwaysKept, ReservedAlwaysDerived,
   SpentAlwaysTheBooks, BreakerAlwaysRemembers, PTL

\* And a row that a client has settled, released or swept is not written again, though
\* another read it as reserved before (ledger.py:369-408).
THEOREM StatementsLeaveFinalRows == TxSpec => FinalRowsStay
BY TransactionsImplementSpec, FinalRowsAlwaysStay, PTL
=============================================================================
