--------------------------- MODULE SocialTransport ---------------------------
(***************************************************************************)
(* The social lane's exchanges over the bridge: SocialTransport and        *)
(* SocialExchange of PlayerbotLLM.cpp, driven by the social adapter of     *)
(* PlayerbotLLMScripts.cpp.                                                *)
(*                                                                         *)
(* The coordinator of mod-playerbots submits a token once.  The transport  *)
(* keeps an exchange for it until an answer is classified or its deadline  *)
(* has passed, and asks again once when the sidecar wants to.  A drain     *)
(* takes what the worker has queued and reads the clock, in the order the  *)
(* compiler chose for two arguments of one call; then it resolves the      *)
(* answers one by one and sweeps.  The worker goes on meanwhile.           *)
(***************************************************************************)
EXTENDS Bridge

CONSTANTS
  MaxOutstanding, \* MAX_OUTSTANDING_SOCIAL_REQUESTS
  CoordinatorTimeout, \* PLAYERBOT_SOCIAL_PROVIDER_TIMEOUT_SECONDS
  Regenerate,     \* the answer that asks for another attempt
  Nobody          \* no clock reading yet

ASSUME TransportAssumption ==
  /\ Regenerate \in Answers \ Garbled
  /\ MaxOutstanding \in Nat
  /\ CoordinatorTimeout \in Nat
  /\ Nobody \notin Nat
  /\ Deadline <= CoordinatorTimeout \* SocialRequestDeadlineMs takes the lower

VARIABLES
  exchanges, \* _exchanges: by token, its deadline and regenerations
  drain,     \* where the world thread is in Drain
  outcomes,  \* history: what each token's drains completed with, in order
  submitted, \* history: when each token was submitted
  inTime     \* history: tokens that met their deadline on the worker's stamp,
             \* and whose answer the lane's queue took

transportVars == <<vars, exchanges, drain, outcomes, submitted, inTime>>

MaxRegenerations == 1 \* MAX_REGENERATIONS_PER_REQUEST
Idle == [at |-> "idle"]
Open == DOMAIN exchanges

\* The exchanges without the one of id.
Without(id) == [other \in Open \ {id} |-> exchanges[other]]

KeepBridge == UNCHANGED vars
KeepExchanges == UNCHANGED <<exchanges, outcomes, submitted, inTime>>

TransportInit ==
  /\ Init
  /\ exchanges = <<>>
  /\ drain = Idle
  /\ outcomes = [id \in Ids |-> <<>>]
  /\ submitted = [id \in Ids |-> Nobody]
  /\ inTime = {}

\* SubmitAt: refused for a token that is open, a full transport, or a bridge that
\* will not take it; a refusal leaves nothing behind.  The model submits each
\* token once, and before its bound of the clock.
Submit(id) ==
  /\ drain = Idle /\ stopping = "running"
  /\ LaneOf[id] = "social"
  /\ submitted[id] = Nobody
  /\ clock + Deadline < LastTime
  /\ id \notin Open
  /\ Cardinality(Open) < MaxOutstanding
  /\ CanEnqueue(clock + Deadline)
  /\ Push(id, clock + Deadline)
  /\ exchanges' = [other \in Open \cup {id} |->
                     IF other = id THEN [expires |-> clock + Deadline, regenerations |-> 0]
                     ELSE exchanges[other]]
  /\ submitted' = [submitted EXCEPT ![id] = clock]
  /\ UNCHANGED <<clock, replies, shut, flags, socket, unanswered, worker, sent,
                 drain, outcomes, inTime>>

-----------------------------------------------------------------------------
(* Drain and Resolve.                                                      *)

TakeReplies == replies' = [replies EXCEPT !["social"] = <<>>]
KeepRest == UNCHANGED <<clock, requests, shut, flags, socket, unanswered, worker, histories>>

\* Drain: the queue first, then the clock ...
DrainFirst ==
  /\ drain = Idle /\ stopping = "running"
  /\ TakeReplies
  /\ drain' = [at |-> "drained", batch |-> replies["social"]]
  /\ KeepRest /\ KeepExchanges

ThenReadClock ==
  /\ drain.at = "drained"
  /\ drain' = [at |-> "resolving", batch |-> drain.batch, now |-> clock]
  /\ KeepBridge /\ KeepExchanges

\* ... or the clock first, then the queue.
ReadClockFirst ==
  /\ drain = Idle /\ stopping = "running"
  /\ drain' = [at |-> "clocked", now |-> clock]
  /\ KeepBridge /\ KeepExchanges

ThenDrain ==
  /\ drain.at = "clocked"
  /\ TakeReplies
  /\ drain' = [at |-> "resolving", batch |-> replies["social"], now |-> drain.now]
  /\ KeepRest /\ KeepExchanges

\* Resolve, one answer at a time.
Resolving == drain.at = "resolving" /\ drain.batch # <<>>
Raw == Head(drain.batch)
Known == Raw.id \in Open
Late == Raw.at > exchanges[Raw.id].expires

NextReply == drain' = [drain EXCEPT !.batch = Tail(@)]
Completes(id, outcome) == outcomes' = [outcomes EXCEPT ![id] = Append(@, outcome)]

\* An answer whose exchange is gone resurrects nothing.
Ignore ==
  /\ Resolving /\ ~Known
  /\ NextReply
  /\ KeepBridge /\ KeepExchanges

\* Mutant: an exchange completed with an answer keeps its slot until the sweep.
EraseLater(id, outcome) ==
  /\ Completes(id, outcome)
  /\ UNCHANGED <<exchanges, submitted, inTime>>

Erase(id, outcome) ==
  /\ exchanges' = Without(id)
  /\ Completes(id, outcome)
  /\ UNCHANGED <<submitted, inTime>>

\* Classify: whether another attempt is still allowed.
MayRegenerate == exchanges[Raw.id].regenerations < MaxRegenerations

\* Late, unparseable, for another request, or asking for one attempt too many.
Abandon ==
  /\ Resolving /\ Known
  /\ \/ Late
     \/ Raw.answer \in Garbled \/ Raw.answers # Raw.id
     \/ Raw.answer = Regenerate /\ ~MayRegenerate
  /\ Erase(Raw.id, "abandon")
  /\ NextReply
  /\ KeepBridge

Deliver ==
  /\ Resolving /\ Known /\ ~Late
  /\ Raw.answer \notin Garbled \cup {Regenerate} /\ Raw.answers = Raw.id
  /\ Erase(Raw.id, "deliver")
  /\ NextReply
  /\ KeepBridge

Retries ==
  /\ Resolving /\ Known /\ ~Late
  /\ Raw.answer = Regenerate /\ Raw.answers = Raw.id /\ MayRegenerate

\* Mutant: the retry leaves the exchange on its first deadline.
RetryOnOldDeadline ==
  /\ Retries
  /\ CanEnqueue(drain.now + Deadline)
  /\ Push(Raw.id, drain.now + Deadline)
  /\ exchanges' = [exchanges EXCEPT ![Raw.id].regenerations = @ + 1]
  /\ Completes(Raw.id, "regenerate")
  /\ NextReply
  /\ inTime' = inTime \ {Raw.id}
  /\ UNCHANGED <<clock, replies, shut, flags, socket, unanswered, worker, sent, submitted>>

\* Mutant: the retry opens a new exchange, with a new regeneration budget.
RetryWithNewBudget ==
  /\ Retries
  /\ CanEnqueue(drain.now + Deadline)
  /\ Push(Raw.id, drain.now + Deadline)
  /\ exchanges' = [exchanges EXCEPT ![Raw.id].expires = drain.now + Deadline]
  /\ Completes(Raw.id, "regenerate")
  /\ NextReply
  /\ inTime' = inTime \ {Raw.id}
  /\ UNCHANGED <<clock, replies, shut, flags, socket, unanswered, worker, sent, submitted>>

\* The retained request goes back to the bridge, and the deadline moves with it.
Retry ==
  /\ Retries
  /\ CanEnqueue(drain.now + Deadline)
  /\ Push(Raw.id, drain.now + Deadline)
  /\ exchanges' = [exchanges EXCEPT ![Raw.id] = [expires |-> drain.now + Deadline,
                                                 regenerations |-> @.regenerations + 1]]
  /\ Completes(Raw.id, "regenerate")
  /\ NextReply
  /\ inTime' = inTime \ {Raw.id}
  /\ UNCHANGED <<clock, replies, shut, flags, socket, unanswered, worker, sent, submitted>>

\* A retry the bridge will not take ends the exchange.
RetryRefused ==
  /\ Retries
  /\ ~CanEnqueue(drain.now + Deadline)
  /\ Erase(Raw.id, "abandon")
  /\ NextReply
  /\ KeepBridge

\* Mutant: an exchange that was asked for again is not swept.
OverdueAtFirst == {id \in Open : exchanges[id].expires <= drain.now /\ exchanges[id].regenerations = 0}

Overdue == {id \in Open : exchanges[id].expires <= drain.now}

\* The sweep that ends Resolve: whatever never answered.
Sweep ==
  /\ drain.at = "resolving" /\ drain.batch = <<>>
  /\ exchanges' = [id \in Open \ Overdue |-> exchanges[id]]
  /\ outcomes' = [id \in Ids |-> IF id \in Overdue THEN Append(outcomes[id], "swept")
                                ELSE outcomes[id]]
  /\ drain' = Idle
  /\ KeepBridge /\ UNCHANGED <<submitted, inTime>>

DrainStep ==
  \/ DrainFirst \/ ThenReadClock \/ ReadClockFirst \/ ThenDrain
  \/ Ignore \/ Abandon \/ Deliver \/ Retry \/ RetryRefused \/ Sweep

\* Shutdown: the transport is dropped before the bridge is stopped.
Shutdown ==
  /\ drain = Idle
  /\ StopFlag
  /\ exchanges' = <<>>
  /\ UNCHANGED <<drain, outcomes, submitted, inTime>>

-----------------------------------------------------------------------------

\* The worker's last step with an answer, seen from here: the queue has room and
\* the stamp meets the deadline of an open exchange.
StampedInTime ==
  LET id == worker.id
  IN  IF /\ LaneOf[id] = "social" /\ "social" \notin shut /\ Len(replies["social"]) < Capacity
         /\ id \in Open /\ worker.stamp <= exchanges[id].expires
         /\ worker.answers = id /\ worker.answer \notin Garbled \cup {Regenerate}
      THEN {id} ELSE {}

WorkerTurn ==
  /\ WorkerStep
  /\ UNCHANGED <<exchanges, drain, outcomes, submitted>>
  /\ inTime' = inTime \cup (IF worker.at = "stamped" THEN StampedInTime ELSE {})

SidecarTurn ==
  /\ SidecarStep
  /\ UNCHANGED <<exchanges, drain, outcomes, submitted, inTime>>

\* The clock runs to its bound, and past it while an exchange is still to expire.
Time ==
  /\ clock < LastTime \/ \E id \in Open : clock <= exchanges[id].expires
  /\ clock' = clock + 1
  /\ UNCHANGED <<queues, flags, socket, unanswered, worker, histories,
                 exchanges, drain, outcomes, submitted, inTime>>

TransportNext ==
  \/ Time
  \/ \E id \in Ids : Submit(id)
  \/ DrainStep
  \/ Shutdown
  \/ StopStep /\ UNCHANGED <<exchanges, drain, outcomes, submitted, inTime>>
  \/ WorkerTurn
  \/ SidecarTurn
  \/ stopping = "joined" /\ UNCHANGED transportVars

TransportSpec == TransportInit /\ [][TransportNext]_transportVars

\* The world thread drains on every tick and time passes; nothing is promised of
\* the worker or the sidecar.
FairTransportSpec ==
  /\ TransportSpec
  /\ WF_transportVars(DrainStep)
  /\ WF_transportVars(Time)

-----------------------------------------------------------------------------
(* Properties.                                                             *)

Exchange == [expires : Nat, regenerations : 0 .. MaxRegenerations]
Outcomes == {"deliver", "abandon", "regenerate", "swept"}

TransportTypeOK ==
  /\ TypeOK
  /\ Open \subseteq Ids
  /\ \A id \in Open : exchanges[id] \in Exchange
  /\ Cardinality(Open) <= MaxOutstanding
  /\ drain.at \in {"idle", "drained", "clocked", "resolving"}
  /\ outcomes \in [Ids -> Seq(Outcomes)]
  /\ submitted \in [Ids -> Nat \cup {Nobody}]
  /\ inTime \subseteq Ids

Final(outcome) == outcome # "regenerate"

\* A token is completed once: after its line, its abandonment or its sweep nothing
\* more is heard of it, however late or often the sidecar answers, and an exchange
\* that still holds its slot has had no final outcome (PlayerbotLLM.cpp:794-798, 891-894).
OneFinalOutcome ==
  \A id \in Ids : \A i \in 1 .. Len(outcomes[id]) :
    Final(outcomes[id][i]) => i = Len(outcomes[id]) /\ id \notin Open

\* A token costs two generations at most, whatever the sidecar answers and whatever
\* the connection loses: its request and the one retry its budget allows
\* (PlayerbotLLM.h:253-260).
AtMostTwoGenerations == \A id \in Ids : sent[id] <= 1 + MaxRegenerations

\* The request the bridge still holds for an open exchange expires with it: the
\* sweep never drops an exchange whose retry may still be answered in time
\* (PlayerbotLLM.cpp:823-831).
RequestKeepsExchangeDeadline ==
  \A id \in Open :
    /\ \A i \in 1 .. Len(requests) :
         requests[i].id = id => requests[i].expires = exchanges[id].expires
    /\ Held(id) => worker.expires = exchanges[id].expires

\* Every exchange gives its slot back while the world thread drains and time passes,
\* though neither the worker nor the sidecar need do anything
\* (PlayerbotLLM.h:1155-1166).
EveryExchangeEnds == \A id \in Ids : id \in Open ~> id \notin Open

\* Violated.  What PlayerbotLLM.h:347-352 says of the worker's stamp: an answer that
\* was in time is not discarded because of when the drain ran.
InTimeAnswerIsNotSwept ==
  \A id \in inTime : \A i \in 1 .. Len(outcomes[id]) : outcomes[id][i] # "swept"

\* Violated.  What PlayerbotLLM.h:420-427 says of the coordinator's timeout, as the
\* ceiling of how long an exchange is held.
HeldWithinCoordinatorTimeout ==
  \A id \in Open : exchanges[id].expires <= submitted[id] + CoordinatorTimeout
=============================================================================
