------------------------- MODULE LedgerTransactions -------------------------
(***************************************************************************)
(* The ledger's transactions, statement by statement: ledger.py over the   *)
(* named lock of schema.py.                                                *)
(*                                                                         *)
(* The inherited variables of BudgetLedger are what is committed.  A       *)
(* client (a pooled connection of some sidecar) works on a draft that      *)
(* becomes visible when it commits.  Its SELECTs read the snapshot InnoDB  *)
(* takes at its first one (REPEATABLE READ), its UPDATEs what is committed *)
(* now; both see its own draft.  The arguments of a call are chosen when   *)
(* the transaction first uses them.                                        *)
(*                                                                         *)
(* Each commit is a step of BudgetLedger, and everything else is a         *)
(* stutter: LedgerSpec.                                                    *)
(***************************************************************************)
EXTENDS BudgetLedger

CONSTANTS Clients, NoOne

ASSUME ClientAssumption == NoOne \notin Clients

VARIABLES
  holder, \* who has written the row budget_day of the lock table
  tx      \* the open transaction of each client

txVars == <<vars, holder, tx>>

Kinds == {"reserve", "settle", "release"}
NoView == [rows |-> <<>>, spent |-> 0, open |-> FALSE]
NoDraft == [rows |-> <<>>, added |-> 0, opens |-> FALSE, reserved |-> 0]
Idle == [step |-> "idle", kind |-> "none", now |-> 0, row |-> NoOne, day |-> 0,
         view |-> NoView, draft |-> NoDraft]

\* A row, as it is committed.
Row(r) == [state |-> rowState[r], day |-> rowDay[r], max |-> rowMax[r],
           actual |-> rowActual[r], expires |-> rowExpires[r], lane |-> rowLane[r]]

\* What a snapshot of day d holds.
Snapshot(d) == [rows |-> [r \in Rows |-> Row(r)], spent |-> spent[d], open |-> circuitOpen]

\* What an UPDATE of c finds, and what a SELECT of c returns.
Current(c, r) == IF r \in DOMAIN tx[c].draft.rows THEN tx[c].draft.rows[r] ELSE Row(r)
Seen(c, r) == IF r \in DOMAIN tx[c].draft.rows THEN tx[c].draft.rows[r]
              ELSE tx[c].view.rows[r]

At(c, step, kinds) == tx[c].step = step /\ tx[c].kind \in kinds

KeepCommitted == UNCHANGED <<vars, holder>>

TxInit ==
  /\ Init
  /\ holder = NoOne
  /\ tx = [c \in Clients |-> Idle]

\* The bound of the model: a reservation begins only while an id is left for it.
IdLeft ==
  Cardinality({c \in Clients : tx[c].step # "idle" /\ tx[c].kind = "reserve"})
    < Cardinality({r \in Rows : rowState[r] = "absent"})

\* connection.begin(): no snapshot yet.  A settlement or a release has a
\* reservation some earlier call returned.
Begin(c, kind) ==
  /\ tx[c].step = "idle"
  /\ IF kind = "reserve" THEN IdLeft ELSE \E r \in Rows : rowState[r] # "absent"
  /\ tx' = [tx EXCEPT ![c].step = "begun", ![c].kind = kind]
  /\ KeepCommitted

\* Mutant: the upsert of the lock row does not wait for its holder.
AcquireUnheld(c) ==
  /\ tx[c].step = "begun"
  /\ holder' = c
  /\ tx' = [tx EXCEPT ![c].step = "locked"]
  /\ UNCHANGED vars

\* acquire_named_lock: an upsert that always writes, and so waits for the holder.
Acquire(c) ==
  /\ tx[c].step = "begun"
  /\ holder = NoOne
  /\ holder' = c
  /\ tx' = [tx EXCEPT ![c].step = "locked"]
  /\ UNCHANGED vars

\* _lock_day: the day's total and the circuit, in the transaction's first SELECT.
\* A reservation's day is that of its caller's clock, the others' that of the row.
ReadDayFor(c, now) ==
  /\ At(c, "locked", {"reserve"})
  /\ tx' = [tx EXCEPT ![c].step = "read", ![c].now = now, ![c].day = DayOf(now),
                      ![c].view = Snapshot(DayOf(now))]
  /\ KeepCommitted

ReadDayOf(c, r) ==
  /\ At(c, "locked", {"settle", "release"})
  /\ rowState[r] # "absent"
  /\ tx' = [tx EXCEPT ![c].step = "read", ![c].row = r, ![c].day = rowDay[r],
                      ![c].view = Snapshot(rowDay[r])]
  /\ KeepCommitted

\* The transaction of c goes on to step, with these rows in its draft.
Writes(c, step, rows) ==
  /\ tx' = [tx EXCEPT ![c].step = step, ![c].draft.rows = rows]
  /\ KeepCommitted

\* _outstanding_nano, its UPDATE: the sweep.
Sweep(c) ==
  LET lapsed == {r \in Rows : /\ Current(c, r).state = "reserved"
                              /\ Current(c, r).day = tx[c].day
                              /\ Current(c, r).expires <= tx[c].now}
  IN  /\ At(c, "read", {"reserve"})
      /\ Writes(c, "swept", [r \in lapsed |-> [Current(c, r) EXCEPT !.state = "expired"]])

\* _outstanding_nano, its SELECT SUM, added to the total the lock was read with.
CommittedSeen(c) ==
  LET live == {r \in Rows : Seen(c, r).state = "reserved" /\ Seen(c, r).day = tx[c].day}
  IN  tx[c].view.spent + SumOver([r \in Rows |-> Seen(c, r).max], live)

Refuse(c, max, lane) ==
  LET held == IF max = Unpriced THEN Unpriced ELSE Quantize(max)
  IN  /\ tx[c].step = "swept"
      /\ ~Admitted(tx[c].view.open, CommittedSeen(c), held, lane)
      /\ Writes(c, "written", tx[c].draft.rows)

Insert(c, max, lane, r) ==
  LET swept == tx[c].draft.rows
      row == [state |-> "reserved", day |-> tx[c].day, max |-> Quantize(max),
              actual |-> Row(r).actual, expires |-> tx[c].now + Expiry, lane |-> lane]
  IN  /\ tx[c].step = "swept"
      /\ Admitted(tx[c].view.open, CommittedSeen(c), Quantize(max), lane)
      /\ Current(c, r).state = "absent"
      /\ Writes(c, "written", [s \in DOMAIN swept \cup {r} |-> IF s = r THEN row ELSE swept[s]])

\* settle or release, its UPDATE ... AND state = 'reserved' finding no row.
FindNothing(c) ==
  /\ At(c, "read", {"settle", "release"})
  /\ Current(c, tx[c].row).state # "reserved"
  /\ tx' = [tx EXCEPT ![c].step = "turned_away"]
  /\ KeepCommitted

Charge(c, reported) ==
  LET stored == Storable(reported)
      added == AtMost(stored, MaxStored - tx[c].view.spent)
      found == Current(c, tx[c].row)
  IN  /\ At(c, "read", {"settle"})
      /\ found.state = "reserved"
      /\ tx' = [tx EXCEPT ![c].step = "written",
                          ![c].draft = [rows |-> [r \in {tx[c].row} |->
                                                    [found EXCEPT !.state = "completed",
                                                                  !.actual = stored]],
                                        added |-> added,
                                        opens |-> Breach(found.max, reported) \/ added < stored,
                                        reserved |-> 0]]
      /\ KeepCommitted

GiveBack(c) ==
  LET found == Current(c, tx[c].row)
  IN  /\ At(c, "read", {"release"})
      /\ found.state = "reserved"
      /\ Writes(c, "written", [r \in {tx[c].row} |-> [found EXCEPT !.state = "released"]])

\* Mutant: summed from the snapshot, where what this transaction wrote is not.
RefreshFromSnapshot(c) ==
  LET rows == tx[c].view.rows
      live == {r \in Rows : rows[r].state = "reserved" /\ rows[r].day = tx[c].day}
  IN  /\ tx[c].step = "written"
      /\ tx' = [tx EXCEPT ![c].step = "refreshed",
                          ![c].draft.reserved = SumOver([r \in Rows |-> rows[r].max], live)]
      /\ KeepCommitted

\* _refresh_reserved_usd: one UPDATE over a sub-select, so it reads what is current.
Refresh(c) ==
  LET live == {r \in Rows : Current(c, r).state = "reserved" /\ Current(c, r).day = tx[c].day}
  IN  /\ tx[c].step = "written"
      /\ tx' = [tx EXCEPT ![c].step = "refreshed",
                          ![c].draft.reserved = SumOver([r \in Rows |-> Current(c, r).max], live)]
      /\ KeepCommitted

Close(c) ==
  /\ tx' = [tx EXCEPT ![c] = Idle]
  /\ holder' = IF holder = c THEN NoOne ELSE holder

\* commit: the draft becomes visible and the lock is let go, together.
Commit(c) ==
  /\ tx[c].step = "refreshed"
  /\ rowState' = [r \in Rows |-> Current(c, r).state]
  /\ rowDay' = [r \in Rows |-> Current(c, r).day]
  /\ rowMax' = [r \in Rows |-> Current(c, r).max]
  /\ rowActual' = [r \in Rows |-> Current(c, r).actual]
  /\ rowExpires' = [r \in Rows |-> Current(c, r).expires]
  /\ rowLane' = [r \in Rows |-> Current(c, r).lane]
  /\ spent' = [spent EXCEPT ![tx[c].day] = @ + tx[c].draft.added]
  /\ reservedUsd' = [reservedUsd EXCEPT ![tx[c].day] = tx[c].draft.reserved]
  /\ circuitOpen' = (circuitOpen \/ tx[c].draft.opens)
  /\ UNCHANGED cleared
  /\ Close(c)

\* Mutant: a call that found nothing to write returns with its transaction open.
ReturnUncommitted(c) ==
  /\ tx[c].step = "turned_away"
  /\ tx' = [tx EXCEPT ![c] = Idle]
  /\ UNCHANGED <<vars, holder>>

\* commit of a transaction that wrote nothing.
CommitNothing(c) ==
  /\ tx[c].step = "turned_away"
  /\ UNCHANGED vars
  /\ Close(c)

\* An exception rolls back; so does the server when the client dies, is cancelled
\* at an await, or waits too long for the lock.
Abort(c) ==
  /\ tx[c].step # "idle"
  /\ UNCHANGED vars
  /\ Close(c)

\* Any other statement of the transaction c has open.
Statement(c) ==
  \/ \E now \in Times : ReadDayFor(c, now)
  \/ \E r \in Rows : ReadDayOf(c, r)
  \/ Sweep(c)
  \/ \E max \in MaxCosts \cup {Unpriced}, lane \in Lanes : Refuse(c, max, lane)
  \/ \E max \in MaxCosts, lane \in Lanes, r \in Rows : Insert(c, max, lane, r)
  \/ FindNothing(c)
  \/ \E reported \in Reports : Charge(c, reported)
  \/ GiveBack(c)
  \/ Refresh(c)
  \/ Commit(c)
  \/ CommitNothing(c)

Interrupted == \E c \in Clients : Abort(c)

TxNext ==
  \/ \E c \in Clients, kind \in Kinds : Begin(c, kind)
  \/ \E c \in Clients : Acquire(c)
  \/ \E c \in Clients : Statement(c)
  \/ Interrupted
  \/ OperatorClears /\ UNCHANGED <<holder, tx>>

TxSpec == TxInit /\ [][TxNext]_txVars

\* A client that is not interrupted goes on to its next statement, and InnoDB
\* grants a lock in the order it was asked for.
FairTxSpec ==
  /\ TxSpec
  /\ \A c \in Clients : WF_txVars(Statement(c)) /\ SF_txVars(Acquire(c))

-----------------------------------------------------------------------------
(* Properties.                                                             *)

\* The statements of any number of clients, interleaved and interrupted anywhere,
\* add up to the transactions BudgetLedger describes: the lock is taken before
\* anything is read and let go with the commit (ledger.py:174-212, 252-336).
Ledger == INSTANCE BudgetLedger
            WITH rowState <- rowState, rowDay <- rowDay, rowMax <- rowMax,
                 rowActual <- rowActual, rowExpires <- rowExpires, rowLane <- rowLane,
                 spent <- spent, reservedUsd <- reservedUsd,
                 circuitOpen <- circuitOpen, cleared <- cleared
LedgerSpec == Ledger!Spec

\* No transaction decides on a row or a total that another has changed since it
\* read it (ledger.py:247-265; test_ledger_mysql.py:986).
NoStaleView ==
  \A c \in Clients :
    tx[c].step \in {"read", "swept", "written", "refreshed"} =>
      /\ tx[c].view.rows = [r \in Rows |-> Row(r)]
      /\ tx[c].view.spent = spent[tx[c].day]
      /\ tx[c].view.open \/ ~circuitOpen

\* A transaction that has begun ends, whoever else is at the ledger: the lock is
\* never left behind, by a refusal, a row already gone or a client that died
\* (schema.py:354-380, state.py:112-128).
EveryTransactionEnds == \A c \in Clients : tx[c].step # "idle" ~> tx[c].step = "idle"
=============================================================================
