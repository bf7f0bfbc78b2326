# A verification of mod-playerbots-llm

mod-playerbots-llm lets the bots of an AzerothCore server speak, choose careers and
remember conversations through a language model. A C++ module in the worldserver sends
requests over a loopback socket to a Python sidecar, which pays a provider for them under
a daily budget kept in MySQL.

This directory holds TLA+ specifications of the parts where order, failure and money meet,
TLC configurations that check them, and proofs, checked by TLAPS, of every safety property
that a passing run checks: of the budget ledger and its statements, of the request pipelines
that spend from it, of the bridge and the transport over it, of the rules an answer passes on
its way, and of the start and the purge.
Line numbers in comments refer to the files of this repository: `ledger.py`, `app.py` and
the like are under `sidecar/src/playerbots_llm/`, `PlayerbotLLM.cpp`, `PlayerbotLLM.h` and
`PlayerbotLLMScripts.cpp` under `src/`.

## 1. The system

| Component | State it keeps | Operations | Talks to |
|---|---|---|---|
| Budget ledger (`ledger.py`, `budget.py`) | reservation rows, day totals, circuit breaker | reserve, settle, release, snapshot | MySQL, one named lock |
| Schema and locks (`schema.py`) | table layout, lock rows | ensure_schema, acquire_named_lock | MySQL, which the worldserver's updater migrates |
| Migrations (`data/sql/`) | the same tables | preflight, RENAME TABLE, identifiers | MySQL |
| Durable store (`store.py`, `state.py`) | profiles, conversation turns, career decisions, ambient attempts, purge intents | one method, one transaction | MySQL through a pool |
| Request pipelines (`app.py`) | the generation lock, a request's locals | seven kinds of request, purge loop, connections | ledger, store, provider |
| Provider (`provider.py`, `providers/anthropic.py`) | none | count, generate, map an error | the SDK, which retries by itself |
| Prompts and gates (`generation.py`) | none | build a prompt, judge a reply | |
| Wire protocol (`protocol.py`, C++ parsers and serializers) | none | framing, parsing, encoding | |
| Bridge (`PlayerbotLLM.cpp`, `Bridge::Impl`) | bounded queues, socket, flags, a worker thread | TryEnqueue and its kin, drains, Stop | sidecar |
| Social transport (`SocialTransport`) | exchanges by token, regeneration budget | Submit, Drain, Shutdown | bridge, coordinator of mod-playerbots |
| Assessment transport | exchanges by token | submit, drain, sweep | bridge, coordinator |
| World thread lanes (`PlayerbotLLMScripts.cpp`) | pending chat, career, biography and memory tables | drains and sweeps of every world update | bridge, game |
| Purge publisher (`PlayerbotLLMPurgeExtension`) | purge intents | PrepareBotPurge | MySQL |
| Pure selection (threads, milestones, ambient speaker, personality) | none | functions of game objects | |
| Configuration, doctor, command line, scripts, tests, migrations | files and tables | sequential | |

What makes it correct, component by component:

- **Ledger.** A day never commits more than its ceiling, whoever reserves and settles, in
  whatever order and with whatever clock; background work leaves a share to people who
  wait; a charge is made once, on its own day, and never on a row that was given up; a
  report nobody authorised stops all spending until an operator looks.
- **Transactions.** The statements behave as the atomic ledger does, and every transaction
  ends.
- **Pipelines.** Nothing is spoken that was not charged; what a failed generation owes is
  what is known of it; a cut request leaves nothing half done and no lock held.
- **Bridge.** A request is generated once, an answer belongs to its request, everything
  taken leaves, and Stop returns.
- **Social transport.** One final outcome for each exchange, at most one regeneration, and
  no slot lost.
- **Schema.** Nothing is created or served in a database that is not migrated, and a start
  that failed for the order of things succeeds when it is repeated.
- **Purge.** What the worldserver is told is queued is deleted, by whichever sidecar.
- **Gates and wire.** What was heard in private stays there, what is claimed is grounded in
  the request's own facts, and an answer that passed the gate reaches the worldserver.
- **Provider.** A reservation follows its bill: charged when billed, released when not, and
  left alone when nobody can tell.
- **Other lanes of the world thread.** See section 8.

The hard behaviours are in `PROJECT.json` under `hazards`, each at its line: two sidecars on
one database, expiry against late settlement, cancellation at any await, crashes between
transactions, a socket closed under a blocked read, an answer racing a sweep, a retry
racing its own deadline.

## 2. The modules

| Module | Models | State and actions |
|---|---|---|
| `RowSums` | the SUM of a column over rows | one operator |
| `BudgetLedger` | `ledger.py` over `budget.py` | the columns as functions of the row; one action per outcome of reserve, settle and release |
| `LedgerTransactions` | the same methods, statement by statement | committed tables, each client's own writes and read view, the named lock; refines `BudgetLedger` |
| `Bridge` | `Bridge::Impl`, `BoundedQueue` | the worker's program counter, the world thread's place in Stop, queues, socket and flags |
| `SocialTransport` | `SocialTransport`, the social drain, Shutdown | extends `Bridge` with exchanges and the steps of Drain |
| `SidecarService` | `SidecarService` of `app.py`, `store.py` | extends `BudgetLedger` with the lock, each request's place, turns, profiles, decisions, ambient attempts, purge intents |
| `SocialGate` | the rules for one social generation: `protocol.py`'s request and context, `generation.py`'s prompt and gate, the frame of `protocol.py` and `PlayerbotLLM.cpp` | operators on a request and a reply |
| `AnswerPath` | the way of an answer in every lane: `providers/anthropic.py`, the gates, `app.py`'s accounting, the encoders, the readers | extends `SocialGate` with the request in progress, its reservation, the client's retries and the memories extracted; refines `ProviderContract` |
| `ProviderContract` | what `provider.py`'s billing statuses promise | a reservation and the attempt heard of |
| `SchemaGuard` | `ensure_schema` and the migration of 08_07, statement by statement | which tables have which names and shapes, the updater's and each sidecar's place |
| `BotPurge` | `PrepareBotPurge`, `purge_pending_bot_data` | extends `SchemaGuard` with intents, rows, the publisher's and each purge's place |
| `RowSumTheorems`, `BudgetLedgerProofs` | | lemmas and proofs about the ledger |
| `LedgerTransactionsProofs` | | the refinement of the ledger by its statements |
| `BridgeProofs` | | proofs about the bridge |
| `SocialTransportProofs` | | proofs about the transport, over those of the bridge |
| `SidecarServiceProofs` | | proofs about the service |
| `AnswerPathProofs` | | proofs about the gates, the path of an answer and its contract |
| `BotPurgeProofs` | | proofs about the start and the purge |
| `MC*` | | constants of small instances |

How they compose. `SidecarService` calls the actions of `BudgetLedger`, so row *r* is the
reservation of request *r*; `SocialTransport` uses the queue and worker of `Bridge`.
`LedgerTransactions` instantiates `BudgetLedger` over the committed tables: its `LedgerSpec`
is the abstract specification as a property. `AnswerPath` instantiates `ProviderContract`
the same way. `BotPurge` is the purge of sidecars that start, serve and crash as
`SchemaGuard` says: a purge runs where a sidecar serves.

How code becomes actions. The ledger's methods run under one named lock, so each is one
action of `BudgetLedger`; `LedgerTransactions` is there to show that this is right. In the
service every await that touches the store, the provider or the lock is a boundary between
actions, because the event loop may run another task, cancel this one or die there; code
between two awaits is one step. In the bridge every access to state that both threads use
is a step of its own. C++ leaves the order of `Drain`'s two arguments (queue and clock)
open; the model takes both.

In `SchemaGuard` and `BotPurge` a statement is an action, since MySQL commits data
definition by itself and since a purge is visible to others, through its row locks, before
it commits. Reads that cannot contradict each other are one action: what the preflight counts
and what `ensure_schema` asks of the identifiers only ever move forward. In `AnswerPath` a
stage is an action; the pipeline's own interleavings are `SidecarService`'s, whose generation
lock lets one request at a time through the stages.

Mutants. A definition headed "Mutant:" is a plausible wrong version of a definition after
it. Nothing uses it but a test of the properties: with the mutant in place of the original
TLC finds the property violated, so the property does depend on that code.

## 3. The runs

| Run | Question | Bounds |
|---|---|---|
| `ledger` | Does the ledger keep its books under the freest callers? | three rows, three clock readings over two days, an expiry of one tick, a ceiling of 4.5 units, reports below, at and above a reservation, impossible (-1) and wider than a column |
| `transactions` | Do the statements implement the atomic ledger, and does every transaction end? | two clients, two rows, one maximum of which only one fits under the ceiling |
| `bridge` | Once sent, once answered, by the right answer; does everything taken leave, and Stop return? | four requests on three lanes, queues of one |
| `social` | One outcome, two generations, one deadline; does every exchange end? | two tokens over the whole bridge, queues of one |
| `social_in_time` | *violated*: is an answer in time always used? | one token |
| `social_ceiling` | *violated*: is an exchange held no longer than its coordinator waits? | one token |
| `service` | Nothing spoken uncharged, every bill accounted? | two sidecars, a chat and a social request, an expiry below the deadline so that each may reclaim the other's row, an overrun that opens the circuit |
| `service_memory` | Is the memory bounded and whole, and the generation lock given back? | one sidecar, two lines to a bot that may be deleted between any two steps, a limit of three turns so that trimming cuts an exchange |
| `service_unasked` | Is the rolling window kept, and a live reservation left alone? | two ambient requests on one sidecar, a career request on another, a limit of one in two ticks, an expiry above the deadline |
| `service_dead` | *violated*: does a dead exchange stay out of memory? | one sidecar, a chat and a career request |
| `answers` | Does a private word stay private, is a claim grounded, an accepted answer delivered, a bill followed? | all lanes; two evidence ids, two memories, eight lines, six contexts; one retry; limits of three citations and one extraction |
| `schema` | Does every start end well, is nothing created too early, and is a purge the worldserver was told of carried out? | two sidecars, a worldserver, seven layouts, two tables and two identifiers, one bot, two interruptions or failures, two purges |

Why the bounds are enough. The ledger's interactions are between a row and the sweep, two
rows and a ceiling, and a row and its day: three rows and two days contain all of them, and
the theorems of section 5 remove the bound. A queue of one is full and empty in turn. Two
sidecars and two requests give every order of two reservations, their sweeps, settlements
and ends; a third request adds money already spent, which the ledger's own run has. The
clocks stop at `LastTime`; a request is only taken when its deadline lies within it, so that
no timeout is cut off by the bound, and the ambient clock is two windows long.

In `answers` the lines are one for each thing the patterns tell apart and each way they can
be combined with a cited fact: a level right and wrong, of oneself and of the other, a deed,
a state of now. Two memories and two facts reach past a limit of three citations, and a limit
of one extraction is passed by two. Ids are interchangeable, which the symmetry uses. In
`schema` two tables have one layout between them, as two identifiers have; two interruptions
hit a migration and a start, or a purge and its repetition; two purges of one bot overlap. A
cohort of two bots (1.5 million states) satisfies the same invariants; its liveness takes longer
than a run should.

Deadlock is not checked in the service runs: once every request has ended, the clock has
reached its bound and no bot is left to delete, those systems really stop. The bridge and
the transports say when they are finished, and the ledger never stops.

## 4. What the violated runs show

- `social_in_time`. `Drain` empties the queue, reads the clock, then sweeps what is overdue.
  An answer queued between the two, and stamped within its deadline, is swept with its
  exchange, though `PlayerbotLLM.h:350-351` says that judging by the drain would be wrong.
  The window is one drain wide; the answer was paid for.
- `social_ceiling`. A regeneration starts a whole new deadline, so an exchange may hold its
  slot past the timeout its coordinator counts from the submission, which
  `PlayerbotLLM.h:424-426` calls the ceiling.
- `service_dead`. `docs/architecture.md:61` and the docstring of `SidecarService` say that a
  request cut by its deadline never enters conversation memory. The turns of a chat are two
  transactions inside the deadline: it may fire between them or just after them.

## 5. The proofs

Assumptions: `LedgerAssumption` (finitely many rows, a positive scale, a ceiling within a
column, a reserve ratio between 0 and 1, non-negative maxima, integer reports); for the
service `ServiceAssumption` (what each request is for, a deadline and a turn limit that are
numbers); for an answer `GateAssumption` (finitely many ids; facts, lines and contexts of the
kinds the parser admits) and `PathAssumption` (limits that are numbers); for the start and
the purge `SchemaAssumption` (at least one table besides the budget's) and `PurgeAssumption`;
for the statements `ClientAssumption` (`NoOne` is no client); for the bridge and the transport
`BridgeAssumption` and `TransportAssumption` (queues that hold something, limits that are
numbers). TLC evaluates each in every run over its module.

`BudgetLedgerProofs` proves, for every value of the constants, `Spec => []TypeOK` and then
`CeilingHolds`, `ReservedIsDerived`, `SpentIsTheBooks`, `BreakerRemembers` and the action
property `FinalRowsStay`. `CeilingHolds` is not inductive by itself: a settlement moves a
row's cost from what is outstanding to what is spent, and the total it moves to may have
been clamped. The strengthening `LedgerInv` joins the type invariant, the three
bookkeeping facts (`ReservedIsDerived`, `SpentIsTheBooks`, `BreakerRemembers`) and the
ceiling. The argument for the ceiling: an admission adds a maximum the policy found room
for, judged after its own sweep, and a sweep only removes; a settlement replaces a maximum
by a cost that exceeds it by exactly the row's overrun, which the right hand side gains;
the clamp of a saturated day only lowers the left.

Its second part proves `HumanReserveKept` from the same invariant. The lemma
`ClaimFits` says that what background rows claim of a day is part of what the day has
committed, apart from overruns, so that a background admission, which leaves
`ReserveFloor` of the ceiling untouched, leaves it untouched by background work; the floor
is rounded up, so the fraction is never undercut.

`RowSumTheorems` proves how a sum over rows changes when a row is added, removed or
changed, by the fold lemmas of the library. TLC checks every property above on `ledger`
first, and would show a mistaken one in seconds.

`LedgerTransactionsProofs` is the refinement: any number of clients, interrupted anywhere,
take only the ledger's steps. A client's statements change nothing committed until it commits,
so all but `Commit` are stutters; what has to be shown of a commit is that the draft it
publishes is what the ledger's action would have made of the tables of this moment, though
it was computed from reads of an earlier one. `TxInv` is the reason: a client between
`Acquire` and its commit holds the named lock (`LockHeld`), so nobody else commits meanwhile;
what it has read is what is committed still (`Viewed`), its row and its day are those its
reads found (`Called`), and its draft has exactly the rows and totals its statements so far
should have written (`Drafted`, by cases: refused, inserted, charged, given back).
`NoStaleView` is part of it. `TransactionsImplementLedger` then follows with one lemma for
each kind of commit, and `StatementsKeepTheBooks` and `StatementsLeaveFinalRows` carry the
ledger's theorems down to the statements.

`BridgeProofs` is about any requests and any capacity. `SentOnce` and `AnswersItsRequest` are
statements about the past of a request and are inductive only together with where it is now:
`BridgeInv` says that a request is in one place (queued, in the worker's hand, or gone), that
the worker's program counter says whether its frame may still be sent (`SendsLeft`), that the
socket carries one unanswered frame at most and only while the worker waits for it
(`OneUnanswered`), and that a connection is never used for a second request while it may
still deliver the answer of a first.

`SocialTransportProofs` extends it. `TransportInv` gives a token one place at a time: in a
queue, in hand, among the answers, in the drain's batch, or nowhere; never an answer beside a
request (`OneAnswer`). `Accounts` counts what a token has been taken for against the
regeneration its exchange has spent, from which `AtMostTwoGenerations` follows with `SentOnce`.
`OneFinalOutcome` needs both: an answer may arrive after its exchange was swept, and a second
answer of a regeneration after the first was rejected, and neither finds an exchange to close
twice. Every step of the transport is a step of the bridge or leaves the bridge alone, so
`BridgeInv` is carried along.

`SidecarServiceProofs` is about any number of sidecars and requests. `StepIsLedgers` says
that every step of the service is a step of the ledger or leaves it alone, which needs
`JobTypes`: a request asks for a maximum of `MaxCosts` and settles a cost of `Reports`.
So `ServiceImplementsLedger`, and each theorem of the ledger holds of the service;
`ServiceKeepsCeiling` is the one stated. `NoFreeReply` and `EndedAsBilled` are not inductive:
they speak of requests that have ended. `Books` says what the row of a request may be at
each place on the way, and is inductive because between two steps of a request the only
thing that happens to its row is that a sweep reclaims it while it is reserved
(`AtMostLapses`).

It also proves `NotReclaimedUnderneath`, the reason `ledger.py:36-42` gives
for its ten minutes. The row's expiry is counted from the reading its own request was given,
which is no earlier than the arrival its deadline is counted from (`InTime`); a sweeper's
reading, however old, is none of the future (`OthersInTime`). So a row that is swept belongs
to a request whose deadline has passed.

The last part is about the tables beside the ledger. `LockHeld` says that a request past the
wait has the lock of its sidecar, through cancellations, crashes and purges. With it
`ExchangesAlwaysTogether` follows from `LinesWait`: the request about to write a reply finds its
line last in the bot's history, since neither another request nor a purge has the lock, and
`AppendedKeepsTheEnd`: trimming keeps neighbours, and takes nothing from a history below its
limit. So a reply without its line can only be the first of a full history; one that a purge
had parted from its line would be the first of a history that is not full. `AmbientAlwaysBounded`
follows from `AmbientDates`: the table keeps every attempt a window open now still counts, and
the one request that is about to ask has a reading no accepted attempt is later than. Both
theorems have a hypothesis that their runs share: `OneSidecar`, and `OneLaneOfAmbient`, which
one sidecar meets: the requests nobody asked for reach one sidecar. Without them both fail,
since the lock is the process's. Two sidecars may write the lines of one bot in turn, and the
purge of one may delete a line whose reply the other has yet to write, whichever of them the
bot's requests reach; section 8 says how the window is exceeded.

`AnswerPathProofs` is about any facts, lines, contexts and limits. None of its properties is
inductive: a verdict is worth something at the reader only because of the gate it passed
before the encoder, and a memory only because of the extraction that filed it. `PathInv` says
what the row, the last attempt and the verdict may be at each place (`Billed`, `Judged`), that
a social request keeps the memories it was asked with and its answer has passed the gate
(`Asked`), and that a memory is filed under the scope of the surface it was heard on
(`FiledAsHeard`). From it, `NothingPrivateIsRepeated` needs that an accepted answer cites only
what `memories_within` shows; `ClaimsHaveGrounds` is the case analysis of the gate;
`AcceptedAnswersArrive` is a chain of lemmas, one for each pair of neighbouring rules (gate and
encoder, encoder and reader), which count the fields of a frame. `PathKeepsTheContract` is the
refinement: `Billed` makes a verdict that says the bill is known one of a billed attempt, and
one that says there is none one of a free attempt.

`BotPurgeProofs` is about any number of sidecars, tables, bots and interruptions. `SchemaInv`
rests on what nobody undoes: `Ready` (nothing legacy, every module table, every identifier
renamed) stays once it holds. What a start has seen may be old, but it is no more than there
is (`SeenHolds`) once it has seen the purge's table, the last that a migration makes; so a
start that found nothing wrong finds nothing wrong later. `WholeSchemaIsServed` and
`CreatedWhereMigrated` follow. For the purge, `PurgerInv` gives the named lock one holder, and
`Publishing` says that what the publisher has found of a bot (`SeenTo`: asked for, or done) stays
true through the other statements of every sidecar, since a row is deleted before, and in the
same transaction as, its intent is acknowledged.

Only model-checked: liveness, since the prover has no `ENABLED` (`EveryTransactionEnds`,
`StopReturns`, `EveryRequestLeaves`, `EveryExchangeEnds`, `LockIsFreed`, `StartsUnlessCut` and
`PendingIsPurged`); and the three violations of section 4, which are counterexamples. The
mutants of section 2 are TLC's as well: that a property can fail is shown on an instance.

## 6. Fairness

- `LedgerTransactions`: a client with a transaction open goes on or aborts; a lock whose
  holder is gone is released, because the server rolls back a lost connection.
- `Bridge`, `FairSpec`: both threads run. Nothing is promised of the sidecar, not even that
  a read times out: `SO_RCVTIMEO` does not end Asio's synchronous read, which waits again
  when the kernel reports a timeout. Only Stop is sure to end it. A dial and a write are
  taken to end, as the kernel's own limits make them, and a frame fits the send buffer.
- `TimelySidecar`, the premise of `EveryRequestLeaves` alone, adds the clock and a sidecar
  that answers or closes each connection in the end: its own deadline does so
  (`app.py:432-441`, `1065-1072`).
- `SocialTransport`: the world thread drains on every update, and time passes.
- `SidecarService`, `FairServiceSpec`: time passes and `asyncio.timeout` fires. It does not
  assume that a provider or a database call ever returns. That a cancelled call leaves its
  connection at once is the driver's promise: it closes a connection that is cancelled in
  the middle of a command.
- `BotPurge`, `PurgeFairness`: a migration and a start go on and are begun again, because
  whoever runs the two processes restarts them; the purge worker polls (`app.py:1080-1101`);
  a statement ends, well or badly. Failures and interruptions are bounded by `MaxFaults`, as
  "in the end nothing fails" must be said of any retry.

## 7. The plan

Done: 1 `BudgetLedger` with its proofs, 2 `LedgerTransactions`, 3 `Bridge`,
4 `SocialTransport`, 5 `SidecarService` with its proofs, 6 `SocialGate`, `AnswerPath` and
`ProviderContract` with their proofs, 7 `SchemaGuard` and `BotPurge` with their proofs, 8 the proofs of
`LedgerTransactions`, `Bridge` and `SocialTransport`, and of the tables of the service.

Next, in this order:

1. The pending tables of the world thread's other lanes (`PlayerbotLLMScripts.cpp:741-1200`),
   as far as they can be told without the game's objects.
2. Two sidecars that read the clock in one order and sweep in another: a bound on the ambient
   window that holds without `OneLaneOfAmbient`.
3. The service over `LedgerTransactions` instead of `BudgetLedger`, which the two refinements
   suggest but do not compose.

## 8. Abstractions, and what is not modelled

- A prompt, a reply and a profile are values without content, except in `SocialGate` and
  `AnswerPath`. There a line is what the gate's patterns tell of it (whom it speaks of, what it
  claims, a value), a text is one of the shapes the checks of length and characters separate,
  and a frame is its number of fields.
- A provider's answer is accepted with a cost, unusable with a cost, unusable without,
  unpriceable, refused or unknown; the token counts behind a cost are left out.
- Money keeps its rounding and its width, with a small scale and a narrow column.
- The clock of `SidecarService` is shared by the sidecars and does not go back. A pipeline
  runs only up to its deadline. The abandoned thread of a cancelled provider call changes no
  state of the sidecar and has no action.
- The ambient window is checked, and proved, for ambient requests of one sidecar. With two, one
  whose reading of the clock is older than the other's sweep may exceed it by the attempts that
  were swept.
- The conversation memory is checked, and proved, with one sidecar, whose generation lock keeps
  the purge away from a request. Between processes nothing does: the store's lock of a history
  covers one `append_turn` (`store.py:152-162`), and the purge does not take it.
- Database failures roll back or lose their answer; MySQL's deadlock detector, isolation and
  locking are modelled in `LedgerTransactions`, and its row locks in `BotPurge`.
- `SchemaGuard`'s table `budget` stands for the two the migration creates before the others.
  The shape of a table is canonical or not (`odd`). The updater applies revisions in order, so
  that a schema with all module tables has the identifiers: the check of `ensure_schema` on
  them is implied, and is left in the model because it is in the code. The revision of 08_04
  and `retire_superseded_locks` are left out: neither is read by anything modelled.
- Not modelled: the bytes of a frame, the wording of prompts and the patterns of the gate; the
  assessment exchange, which repeats the transport's table on one thread; the other lanes'
  pending tables; the pure selection rules, configuration and command line, scripts, build and
  tests. `PROJECT.json` gives the reason for each.

What the model says of the code that a reader may not expect, beside section 4. Each is in the
model as it is in the code, and the properties say so where they have to:

- The reader of a social answer allows a number of fields (`PlayerbotLLM.cpp:1626-1628`) that
  leaves no room for the citations the encoder may frame (`AcceptedIsDelivered`).
- A memory reply of more than four candidates, or with padded text, and a biography with a
  control character pass their gates and are charged, and then their encoders refuse them.
- After an attempt that timed out, and may be billed, the SDK's own retry may be refused for
  its rate: what is known is known of the last attempt, and the reservation is released.
- A completion that does not fit its schema has a cost nobody reports: its row stays
  outstanding and counts at its maximum.
- A claim in the first person that the model labels as the participant's is compared with the
  cited fact only when it states a level.
- The history shown to a chat is chosen by the bot alone (`app.py:1037-1041`), whoever asks.
- A migration of a fresh schema cut off after its `RENAME`, and a first start cut off between
  two `CREATE TABLE`, leave a schema that is refused until it is repaired (`StartsUnlessCut`
  excepts both).
