---------------------------- MODULE SidecarService ----------------------------
(***************************************************************************)
(* The sidecar's request pipelines: SidecarService of playerbots_llm/app.py *)
(* over the ledger and the rest of the store (store.py).                   *)
(*                                                                         *)
(* Any number of sidecars share one database.  Inside one, asyncio         *)
(* interleaves requests and the purge of deleted bots at every await, and  *)
(* the generation lock is held over a whole pipeline.  A request ends with *)
(* a reply, a silence or a request to regenerate; its deadline may cancel  *)
(* it at any await, the database may fail under it, and its process may    *)
(* die.  What its transactions have committed stays.                       *)
(*                                                                         *)
(* Each call of the store is one transaction and one action.  The ledger's *)
(* are those of BudgetLedger; row r is the reservation of request r.       *)
(***************************************************************************)
EXTENDS BudgetLedger, Sequences

CONSTANTS
  Sidecars,
  SidecarOf,        \* which of them each request reaches
  KindOf,           \* what each asks for
  Waiting,          \* the social requests whose lane is immediate_human
  Bots,
  BotOf,            \* which bot each is for
  Deleted,          \* the bots the worldserver may come to delete
  ResponseDeadline, \* ResponseDeadlineMs
  TurnLimit,        \* CONVERSATION_TURN_LIMIT
  AmbientLimit,     \* ambient messages allowed in a window
  AmbientWindow,    \* AMBIENT_WINDOW
  Nobody

Requests == Rows
ChatKinds == {"dialogue", "ambient", "career"} \* the three of a ChatRequest
Kinds == ChatKinds \cup {"social", "biography", "memory", "assessment"}

ASSUME ServiceAssumption ==
  /\ SidecarOf \in [Requests -> Sidecars]
  /\ KindOf \in [Requests -> Kinds]
  /\ Waiting \subseteq {q \in Requests : KindOf[q] = "social"}
  /\ BotOf \in [Requests -> Bots] /\ Deleted \subseteq Bots
  /\ ResponseDeadline \in Nat
  /\ TurnLimit \in Nat \ {0}
  /\ AmbientLimit \in 1 .. 6
  /\ AmbientWindow \in Nat
  /\ "purge" \notin Requests /\ Nobody \notin Requests \cup {"purge"}

VARIABLES
  clock,     \* the UTC clock
  holder,    \* who holds each sidecar's generation lock
  job,       \* where each request is
  turns,     \* playerbot_llm_conversation_turn, by bot
  profiles,  \* the bots with a row in playerbot_llm_profile
  decisions, \* the bots with a row in playerbot_llm_career_decision
  attempts,  \* playerbot_llm_ambient_attempt
  accepted,  \* history: every attempt ever inserted there
  intents    \* playerbot_llm_bot_purge: none, pending or acknowledged

store == <<turns, profiles, decisions, attempts, accepted, intents>>
serviceVars == <<vars, clock, holder, job, store>>

\* Places are named for what comes next.
InProgress == {"queued", "ambient", "profile", "count", "reserve", "generate", "judge",
               "user_turn", "reply_turn", "decision", "finish"}
Answered == {"silent", "regenerated", "replied"}
Cut == {"cancelled", "failed", "crashed"}

Results ==
  {[kind |-> kind, cost |-> cost] : kind \in {"answered", "invalid"}, cost \in Reports \cap Nat}
  \cup {[kind |-> kind] : kind \in {"unpriceable", "garbled", "refused", "unknown"}}
NoResult == [kind |-> "none"]

\* _priority_for and _social_priority_for, and what the other lanes say of themselves.
PriorityOf(q) ==
  IF KindOf[q] \in {"dialogue", "assessment"} \/ q \in Waiting THEN "immediate_human"
  ELSE "background"

\* A request outside the pipeline: of its locals the model keeps what its provider said, and
\* nothing if it was cut short.
Over(how, result) == [at |-> how, deadline |-> 0, now |-> 0, max |-> 0, result |-> result]

ServiceInit ==
  /\ Init
  /\ clock = 0
  /\ holder = [s \in Sidecars |-> Nobody]
  /\ job = [q \in Requests |-> Over("new", NoResult)]
  /\ turns = [b \in Bots |-> <<>>]
  /\ profiles = {}
  /\ decisions = {}
  /\ attempts = {}
  /\ accepted = {}
  /\ intents = [b \in Bots |-> "none"]

KeepLedger == UNCHANGED vars
KeepStore == UNCHANGED store

\* asyncio.timeout lets a request run to its deadline, and not past it.
At(q, place) == job[q].at = place /\ clock <= job[q].deadline

Goes(q, place) ==
  /\ job' = [job EXCEPT ![q].at = place]
  /\ UNCHANGED <<clock, holder>>

Unlocked(q) == [holder EXCEPT ![SidecarOf[q]] = IF @ = q THEN Nobody ELSE @]

\* A return from the pipeline: the lock goes with it.
Ends(q, how) ==
  /\ job' = [job EXCEPT ![q] = Over(how, @.result)]
  /\ holder' = Unlocked(q)
  /\ UNCHANGED clock

\* An exception or a cancellation that leaves the pipeline: the lock goes too.
CutShort(q, how) ==
  /\ job' = [job EXCEPT ![q] = Over(how, NoResult)]
  /\ holder' = Unlocked(q)
  /\ UNCHANGED clock

-----------------------------------------------------------------------------
(* The pipeline.                                                           *)

\* process_payload: the deadline covers the wait for the lock.
Receive(q) ==
  /\ job[q].at = "new"
  /\ clock + ResponseDeadline < LastTime
  /\ job' = [job EXCEPT ![q].at = "queued", ![q].deadline = clock + ResponseDeadline]
  /\ UNCHANGED <<clock, holder>>
  /\ KeepLedger /\ KeepStore

Lock(q) ==
  /\ At(q, "queued")
  /\ holder[SidecarOf[q]] = Nobody
  /\ holder' = [holder EXCEPT ![SidecarOf[q]] = q]
  /\ job' = [job EXCEPT ![q].now = clock,
                        ![q].at = IF KindOf[q] = "ambient" THEN "ambient"
                                  ELSE IF KindOf[q] \in ChatKinds THEN "profile" ELSE "count"]
  /\ UNCHANGED clock /\ KeepLedger /\ KeepStore

\* try_begin_ambient: what its DELETE leaves, and its COUNT counts.
Recent(now) == {a \in attempts : a.at > now - AmbientWindow}

\* Mutant: the limit is tested one late.
AmbientOneMore(q) ==
  LET attempt == [of |-> q, at |-> job[q].now]
  IN  /\ At(q, "ambient")
      /\ Cardinality(Recent(job[q].now)) <= AmbientLimit
      /\ attempts' = Recent(job[q].now) \cup {attempt}
      /\ accepted' = accepted \cup {attempt}
      /\ Goes(q, "profile")
      /\ KeepLedger /\ UNCHANGED <<turns, profiles, decisions, intents>>

AmbientAccepted(q) ==
  LET attempt == [of |-> q, at |-> job[q].now]
  IN  /\ At(q, "ambient")
      /\ Cardinality(Recent(job[q].now)) < AmbientLimit
      /\ attempts' = Recent(job[q].now) \cup {attempt}
      /\ accepted' = accepted \cup {attempt}
      /\ Goes(q, "profile")
      /\ KeepLedger /\ UNCHANGED <<turns, profiles, decisions, intents>>

AmbientRefused(q) ==
  /\ At(q, "ambient")
  /\ Cardinality(Recent(job[q].now)) >= AmbientLimit
  /\ attempts' = Recent(job[q].now)
  /\ Ends(q, "silent")
  /\ KeepLedger /\ UNCHANGED <<turns, profiles, decisions, accepted, intents>>

\* record_profile; the history read next only feeds the prompt.
RecordProfile(q) ==
  /\ At(q, "profile")
  /\ profiles' = profiles \cup {BotOf[q]}
  /\ Goes(q, "count")
  /\ KeepLedger /\ UNCHANGED <<turns, decisions, attempts, accepted, intents>>

\* The prompt's tokens, counted by the provider, price the maximum.
Count(q, max) ==
  /\ At(q, "count")
  /\ job' = [job EXCEPT ![q].at = "reserve", ![q].max = max]
  /\ UNCHANGED <<clock, holder>>
  /\ KeepLedger /\ KeepStore

\* The count failed, or the prompt is above its limit.
CountRefused(q) ==
  /\ At(q, "count")
  /\ Ends(q, "silent")
  /\ KeepLedger /\ KeepStore

Reserve(q) ==
  /\ At(q, "reserve")
  /\ \E now \in Times : now = job[q].now /\ ReserveAdmitted(now, job[q].max, PriorityOf(q), q)
  /\ Goes(q, "generate")
  /\ KeepStore

Refused(q) ==
  /\ At(q, "reserve")
  /\ \E now \in Times : now = job[q].now /\ ReserveDenied(now, job[q].max, PriorityOf(q))
  /\ Ends(q, "silent")
  /\ KeepStore

\* The provider answers, in one of the ways GenerationError and its usage tell apart.
Generate(q, result) ==
  /\ At(q, "generate")
  /\ job' = [job EXCEPT ![q].at = "judge", ![q].result = result]
  /\ UNCHANGED <<clock, holder>>
  /\ KeepLedger /\ KeepStore

Kind(q) == job[q].result.kind
Judging(q, kinds) == At(q, "judge") /\ Kind(q) \in kinds

\* The store's settle and release, and whether they found the row still reserved.
Charges(q) == Settle(q, job[q].result.cost)
TooLate(q) == TurnedAway(q)

\* SettlementReceipt: breach or saturated.
Unsafe(q) ==
  LET stored == Storable(job[q].result.cost)
  IN  Breach(rowMax[q], job[q].result.cost) \/ stored > MaxStored - spent[rowDay[q]]

\* Where a reply that was paid for is kept, if anywhere.
Keeps(q) ==
  IF KindOf[q] = "dialogue" THEN "user_turn"
  ELSE IF KindOf[q] = "career" THEN "decision" ELSE "finish"

\* A completion that was charged goes on to what the lane keeps of it; a social one
\* whose charge opened the circuit is not spoken, nor one whose metadata is refused.
Charged(q) ==
  /\ Judging(q, {"answered"})
  /\ Charges(q)
  /\ \/ KindOf[q] = "social" /\ Ends(q, "silent")
     \/ ~(KindOf[q] = "social" /\ Unsafe(q)) /\ Goes(q, Keeps(q))
  /\ KeepStore

\* Mutant: a refused settlement is taken for a charge.
SpokenUncharged(q) ==
  /\ Judging(q, {"answered"})
  /\ TooLate(q)
  /\ Goes(q, "finish")
  /\ KeepStore

\* The reservation was reclaimed meanwhile: the reply is dropped.
NotCharged(q) ==
  /\ Judging(q, {"answered"})
  /\ TooLate(q)
  /\ Ends(q, "silent")
  /\ KeepStore

\* Nothing can be concluded: the row is left to expire.
LeftOutstanding(q) ==
  /\ Judging(q, {"unpriceable", "garbled", "unknown"})
  /\ Ends(q, IF KindOf[q] = "social" /\ Kind(q) = "garbled" THEN "regenerated" ELSE "silent")
  /\ KeepLedger /\ KeepStore

\* Mutant: a completion that was unusable is released.
InvalidReleased(q) ==
  /\ Judging(q, {"invalid"})
  /\ Release(q) \/ TooLate(q)
  /\ Ends(q, IF KindOf[q] = "social" THEN "regenerated" ELSE "silent")
  /\ KeepStore

\* _account_for_failure: unusable output is charged at what it cost, and asked for
\* again on the social lane.
InvalidCharged(q) ==
  /\ Judging(q, {"invalid"})
  /\ Charges(q) \/ TooLate(q)
  /\ Ends(q, IF KindOf[q] = "social" THEN "regenerated" ELSE "silent")
  /\ KeepStore

\* _account_for_failure: nothing was generated.
RefusalReleased(q) ==
  /\ Judging(q, {"refused"})
  /\ Release(q) \/ TooLate(q)
  /\ Ends(q, "silent")
  /\ KeepStore

\* Mutant: the history is trimmed when it is read, not when it is written.
AppendedUntrimmed(b, turn) == Append(turns[b], turn)

\* append_turn: inserted, and the bot's history trimmed to its last turns.
Appended(b, turn) ==
  LET all == Append(turns[b], turn)
  IN  IF Len(all) <= TurnLimit THEN all ELSE SubSeq(all, Len(all) - TurnLimit + 1, Len(all))

Remember(q, place, role, next) ==
  /\ At(q, place)
  /\ turns' = [turns EXCEPT ![BotOf[q]] = Appended(BotOf[q], [of |-> q, role |-> role])]
  /\ Goes(q, next)
  /\ KeepLedger /\ UNCHANGED <<profiles, decisions, attempts, accepted, intents>>

RecordDecision(q) ==
  /\ At(q, "decision")
  /\ decisions' = decisions \cup {BotOf[q]}
  /\ Goes(q, "finish")
  /\ KeepLedger /\ UNCHANGED <<turns, profiles, attempts, accepted, intents>>

Finish(q) ==
  /\ At(q, "finish")
  /\ Ends(q, "replied")
  /\ KeepLedger /\ KeepStore

Pipeline(q) ==
  \/ Receive(q) \/ Lock(q)
  \/ AmbientAccepted(q) \/ AmbientRefused(q) \/ RecordProfile(q)
  \/ \E max \in MaxCosts : Count(q, max)
  \/ CountRefused(q) \/ Reserve(q) \/ Refused(q)
  \/ \E result \in Results : Generate(q, result)
  \/ Charged(q) \/ NotCharged(q) \/ LeftOutstanding(q) \/ InvalidCharged(q) \/ RefusalReleased(q)
  \/ Remember(q, "user_turn", "user", "reply_turn")
  \/ Remember(q, "reply_turn", "assistant", "finish")
  \/ RecordDecision(q) \/ Finish(q)

-----------------------------------------------------------------------------
(* What interrupts it.                                                     *)

\* Mutant: a cancelled request leaves the lock held.
CancelLocked(q) ==
  /\ job[q].at \in InProgress
  /\ clock >= job[q].deadline
  /\ job' = [job EXCEPT ![q] = Over("cancelled", NoResult)]
  /\ UNCHANGED <<clock, holder>>
  /\ KeepLedger /\ KeepStore

\* asyncio.timeout, at any await: a transaction just committed stays committed.
Cancel(q) ==
  /\ job[q].at \in InProgress
  /\ clock >= job[q].deadline
  /\ CutShort(q, "cancelled")
  /\ KeepLedger /\ KeepStore

\* The store raised, and the connection is closed: its transaction was rolled back,
\* or had been committed when the answer was lost.
Fail(q) ==
  /\ job[q].at \in InProgress \ {"queued"}
  /\ job[q].at = "count" => KindOf[q] \in ChatKinds
  /\ job[q].at = "judge" => Kind(q) \in {"answered", "invalid", "refused"}
  /\ CutShort(q, "failed")
  /\ KeepLedger /\ KeepStore

\* The process dies, and another takes its place.
Crash(s) ==
  /\ \E q \in Requests : SidecarOf[q] = s /\ job[q].at \in InProgress
  /\ job' = [q \in Requests |-> IF SidecarOf[q] = s /\ job[q].at \in InProgress
                                THEN Over("crashed", NoResult) ELSE job[q]]
  /\ holder' = [holder EXCEPT ![s] = Nobody]
  /\ UNCHANGED clock
  /\ KeepLedger /\ KeepStore

-----------------------------------------------------------------------------
(* The purge of deleted bots.                                              *)

Pending == {b \in Bots : intents[b] = "pending"}

\* PrepareBotPurge of the worldserver queues a deleted bot, again if need be.
BotDeleted(b) ==
  /\ b \in Deleted /\ intents[b] # "pending"
  /\ intents' = [intents EXCEPT ![b] = "pending"]
  /\ UNCHANGED <<clock, holder, job, turns, profiles, decisions, attempts, accepted>>
  /\ KeepLedger

\* purge_pending_bot_data, from a new connection or the poll.
PurgeBegins(s) ==
  /\ holder[s] = Nobody
  /\ holder' = [holder EXCEPT ![s] = "purge"]
  /\ UNCHANGED <<clock, job>>
  /\ KeepLedger /\ KeepStore

\* Mutant: the purge takes no generation lock, and runs beside whoever has it.
PurgeBotUnlocked(s, b) ==
  /\ b \in Pending
  /\ turns' = [turns EXCEPT ![b] = <<>>]
  /\ profiles' = profiles \ {b}
  /\ decisions' = decisions \ {b}
  /\ intents' = [intents EXCEPT ![b] = "acknowledged"]
  /\ UNCHANGED <<clock, holder, job, attempts, accepted>>
  /\ KeepLedger

\* One bot, in one transaction that acknowledges it.
PurgeBot(s, b) ==
  /\ holder[s] = "purge"
  /\ b \in Pending
  /\ turns' = [turns EXCEPT ![b] = <<>>]
  /\ profiles' = profiles \ {b}
  /\ decisions' = decisions \ {b}
  /\ intents' = [intents EXCEPT ![b] = "acknowledged"]
  /\ UNCHANGED <<clock, holder, job, attempts, accepted>>
  /\ KeepLedger

\* Nothing is pending, or the database failed.
PurgeEnds(s) ==
  /\ holder[s] = "purge"
  /\ holder' = [holder EXCEPT ![s] = Nobody]
  /\ UNCHANGED <<clock, job>>
  /\ KeepLedger /\ KeepStore

Purge(s) == PurgeBegins(s) \/ (\E b \in Bots : PurgeBot(s, b)) \/ PurgeEnds(s)

-----------------------------------------------------------------------------

Time ==
  /\ clock < LastTime
  /\ clock' = clock + 1
  /\ UNCHANGED <<holder, job>>
  /\ KeepLedger /\ KeepStore

ServiceNext ==
  \/ Time
  \/ \E q \in Requests : Pipeline(q) \/ Cancel(q) \/ Fail(q)
  \/ \E s \in Sidecars : Crash(s) \/ Purge(s)
  \/ \E b \in Bots : BotDeleted(b)

ServiceSpec == ServiceInit /\ [][ServiceNext]_serviceVars

\* Time passes and a deadline fires: nothing is promised of the provider, of the
\* database, or of the requests themselves.
FairServiceSpec ==
  /\ ServiceSpec
  /\ WF_serviceVars(Time)
  /\ \A q \in Requests : WF_serviceVars(Cancel(q))

-----------------------------------------------------------------------------
(* Properties.                                                             *)

Turn == [of : Requests, role : {"user", "assistant"}]

ServiceTypeOK ==
  /\ TypeOK
  /\ clock \in 0 .. LastTime
  /\ holder \in [Sidecars -> Requests \cup {"purge", Nobody}]
  /\ \A q \in Requests : job[q].at \in {"new"} \cup InProgress \cup Answered \cup Cut
  /\ \A b \in Bots : turns[b] \in Seq(Turn) /\ Len(turns[b]) <= TurnLimit
  /\ profiles \subseteq Bots /\ decisions \subseteq Bots
  /\ attempts \subseteq accepted
  /\ intents \in [Bots -> {"none", "pending", "acknowledged"}]

\* A reservation is not reclaimed underneath a request that may still be charged on
\* it, by whichever sidecar, while the response deadline is within the expiry
\* (ledger.py:36-42; each sidecar judges by its own earlier reading of the clock).
NotReclaimedUnderneath ==
  \A q \in Requests :
    ResponseDeadline < Expiry /\ (At(q, "generate") \/ At(q, "judge")) =>
      rowState[q] = "reserved"

\* A line is spoken only if the ledger charged what the provider reported for it,
\* and a social one only if that was within its reservation: a reservation another
\* sidecar reclaimed meanwhile leaves its request silent (app.py:838-845, 950-963).
NoFreeReply ==
  \A q \in Requests : job[q].at = "replied" =>
    /\ rowState[q] = "completed"
    /\ rowActual[q] = Storable(job[q].result.cost)
    /\ KindOf[q] = "social" => job[q].result.cost <= rowMax[q]

\* However a request ended, unless it was cut short, its row says what is known of
\* its bill: charged at the reported cost, released because nothing was generated,
\* or left to expire because nothing is known (app.py:988-1035).
EndedAsBilled ==
  \A q \in Requests : job[q].at \in Answered =>
    CASE Kind(q) = "none" -> rowState[q] = "absent"
      [] Kind(q) \in {"answered", "invalid"} ->
           \/ rowState[q] = "completed" /\ rowActual[q] = Storable(job[q].result.cost)
           \/ rowState[q] = "expired"
      [] Kind(q) = "refused" -> rowState[q] \in {"released", "expired"}
      [] OTHER -> rowState[q] \in {"reserved", "expired"}

\* With one sidecar a bot's reply follows the line it answers in the conversation
\* memory, through cancellations, crashes and purges: neither another request nor the
\* deletion of a purge comes between the two transactions that write them. Only the
\* trimming of a full history may leave a reply first, without its line, and a history
\* once full stays full until a purge empties it (app.py:389-396, 974-983).
ExchangesStayTogether ==
  \A b \in Bots : \A i \in 1 .. Len(turns[b]) :
    turns[b][i].role = "assistant" =>
      \/ i = 1 /\ Len(turns[b]) = TurnLimit
      \/ i > 1 /\ turns[b][i - 1] = [of |-> turns[b][i].of, role |-> "user"]

\* With one sidecar no window of AMBIENT_WINDOW ever accepts more than its limit,
\* whatever became of the requests that were accepted (store.py:230-275).
AmbientBounded ==
  \A t \in Times :
    Cardinality({a \in accepted : a.at <= t /\ a.at > t - AmbientWindow}) <= AmbientLimit

\* The generation lock is always given back, though a provider call never returns
\* and the database stops answering (app.py:432-441).
LockIsFreed ==
  \A s \in Sidecars, q \in Requests : holder[s] = q ~> holder[s] # q

\* Violated.  What docs/architecture.md:61 says of a request that cannot finish in
\* time: the dead exchange never enters conversation memory.
DeadExchangeForgotten ==
  \A q \in Requests : job[q].at = "cancelled" =>
    \A b \in Bots : \A i \in 1 .. Len(turns[b]) : turns[b][i].of # q
=============================================================================
