------------------------ MODULE SocialTransportProofs ------------------------
(***************************************************************************)
(* The social lane's exchanges, for any number of tokens, any deadline and *)
(* any answers.  What the proofs rest on is that a token is in one place:  *)
(* in the request queue, with the worker, in the lane's replies or in the  *)
(* batch of the drain.  So a retry never overtakes the request it repeats, *)
(* and an exchange's deadline is that of the one request out for it.       *)
(***************************************************************************)
EXTENDS SocialTransport, BridgeProofs, FiniteSetTheorems

-----------------------------------------------------------------------------
(* The invariant.                                                          *)

Social == replies["social"]
Batch == IF drain.at \in {"drained", "resolving"} THEN drain.batch ELSE <<>>

DrainTypes ==
  /\ drain.at \in {"idle", "drained", "clocked", "resolving"}
  /\ drain.at \in {"clocked", "resolving"} => drain.now \in Nat
  /\ drain.at \in {"drained", "resolving"} => drain.batch \in Seq(Reply)
  /\ drain.at = "resolving" => {"at", "batch", "now"} \subseteq DOMAIN drain

ExchangeTypes ==
  /\ Open \subseteq Ids /\ IsFiniteSet(Open) /\ Cardinality(Open) <= MaxOutstanding
  /\ \A id \in Open : exchanges[id] \in Exchange

HistoryTypes ==
  /\ outcomes \in [Ids -> Seq(Outcomes)]
  /\ submitted \in [Ids -> Nat \cup {Nobody}]
  /\ inTime \subseteq Ids

\* An answered token is in one place, and no request of it is left in the bridge.
OneAnswer ==
  /\ Distinct(Social) /\ Distinct(Batch)
  /\ \A id \in Ids : Has(Batch, id) => ~Has(Social, id)
  /\ \A id \in Ids : Has(Batch, id) \/ Has(Social, id) =>
       ~Has(requests, id) /\ ~Held(id) /\ accepted[id] >= 1

\* What a token was granted so far, and what it came to.
Accounts ==
  \A id \in Ids :
    /\ submitted[id] = Nobody => accepted[id] = 0 /\ id \notin Open /\ outcomes[id] = <<>>
    /\ id \in Open => accepted[id] <= 1 + exchanges[id].regenerations
    /\ accepted[id] <= 1 + MaxRegenerations

TransportInv ==
  /\ BridgeInv
  /\ DrainTypes /\ ExchangeTypes /\ HistoryTypes
  /\ OneAnswer
  /\ Accounts
  /\ OneFinalOutcome
  /\ RequestKeepsExchangeDeadline

-----------------------------------------------------------------------------
(* What the bridge does to a token.                                        *)

\* The request queue and what is in hand, as a step that picks nothing up leaves them.
SameRequests ==
  /\ requests' = requests
  /\ \A id : Held(id)' => Held(id) /\ worker'.expires = worker.expires

\* The head of the queue goes to the worker.
PickedUp ==
  /\ requests # <<>> /\ requests' = Tail(requests)
  /\ \A id : Held(id)' => id = Head(requests).id /\ worker'.expires = Head(requests).expires

\* What was in hand goes to its lane.
Answering ==
  /\ SameRequests
  /\ worker.id \in Ids /\ Held(worker.id) /\ \A id : ~Held(id)'
  /\ TheReply \in Reply /\ TheReply.id = worker.id
  /\ replies' = [replies EXCEPT ![LaneOf[worker.id]] = Append(@, TheReply)]

\* What a step of the worker means to the transport: nothing, a request picked up from its
\* queue, or an answer queued for the request in hand.
LEMMA WorkerEffect ==
  ASSUME BridgeInv, WorkerStep \/ SidecarStep
  PROVE  /\ UNCHANGED accepted
         /\ \/ SameRequests /\ UNCHANGED replies
            \/ PickedUp /\ UNCHANGED replies
            \/ Answering
<1>1. CASE QuietStep
  <2>1. PICK from, to : Quiet(from, to)
    BY <1>1, QuietSteps
  <2>2. /\ to \notin Free => /\ worker'.id = worker.id /\ worker'.expires = worker.expires
                             /\ worker.at \notin Free
        /\ worker'.at = to
    BY <2>1, MovesTo DEF Quiet
  <2>3. UNCHANGED <<requests, replies, accepted>>
    BY <2>1 DEF Quiet, KeepWorld, queues
  <2> QED BY <2>2, <2>3 DEF SameRequests, Held
<1>2. CASE Pop
  <2>1. /\ requests # <<>> /\ requests' = Tail(requests) /\ UNCHANGED <<accepted, replies>>
        /\ worker'.id = Head(requests).id /\ worker'.expires = Head(requests).expires
    BY <1>2 DEF Pop, KeepWorld
  <2> QED BY <2>1 DEF PickedUp, Held
<1>3. CASE SendFrame
  <2>1. /\ worker'.id = worker.id /\ worker'.expires = worker.expires /\ worker.at \notin Free
    BY <1>3, MovesTo DEF SendFrame, Free
  <2>2. UNCHANGED <<requests, replies, accepted>>
    BY <1>3 DEF SendFrame, KeepWorld, queues
  <2> QED BY <2>1, <2>2 DEF SameRequests, Held
<1>4. ASSUME NEW answer \in Answers, ReadAnswer(answer) PROVE SameRequests /\ UNCHANGED <<accepted, replies>>
  <2>1. /\ worker'.id = worker.id /\ worker'.expires = worker.expires /\ worker.at \notin Free
    BY <1>4 DEF ReadAnswer, Free
  <2>2. UNCHANGED <<requests, replies, accepted>>
    BY <1>4 DEF ReadAnswer, KeepWorld, queues
  <2> QED BY <2>1, <2>2 DEF SameRequests, Held
<1>5. CASE Judge
  <2>1. /\ worker.at \notin Free
        /\ \/ worker'.at = "top"
           \/ worker'.id = worker.id /\ worker'.expires = worker.expires
    BY <1>5 DEF Judge, Free
  <2>2. UNCHANGED <<requests, replies, accepted>>
    BY <1>5 DEF Judge, KeepWorld, queues
  <2> QED BY <2>1, <2>2 DEF SameRequests, Held, Free
<1>6. CASE PushReply
  <2>1. /\ worker.at = "stamped" /\ worker.id \in Ids /\ worker'.at = "top"
        /\ TheReply \in Reply /\ TheReply.id = worker.id
        /\ \/ replies' = replies
           \/ replies' = [replies EXCEPT ![LaneOf[worker.id]] = Append(@, TheReply)]
        /\ UNCHANGED <<requests, accepted>>
    BY <1>6, PushReplyEffect
  <2>2. Held(worker.id) /\ \A id : ~Held(id)'
    BY <2>1 DEF Held, Free
  <2> QED BY <2>1, <2>2 DEF SameRequests, Answering
<1> QED BY <1>1, <1>2, <1>3, <1>4, <1>5, <1>6 DEF WorkerStep, SidecarStep, AbortedRead, QuietStep

-----------------------------------------------------------------------------
(* Steps of the bridge: no exchange changes, nor what the drain holds.     *)

ExchangesKept == UNCHANGED <<exchanges, drain, outcomes, submitted>> /\ inTime' \subseteq Ids

\* A step of the bridge alone keeps what the transport has of its own.
LEMMA KeptTypes ==
  ASSUME TransportInv, ExchangesKept
  PROVE  DrainTypes' /\ ExchangeTypes' /\ HistoryTypes' /\ OneFinalOutcome'
         /\ Open' = Open /\ Batch' = Batch
<1> USE DEF TransportInv, ExchangesKept
<1>1. Open' = Open /\ Batch' = Batch
  BY DEF Open, Batch
<1>2. DrainTypes'
  BY DEF DrainTypes
<1>3. ExchangeTypes'
  BY <1>1 DEF ExchangeTypes
<1>4. HistoryTypes'
  BY DEF HistoryTypes
<1>5. OneFinalOutcome'
  BY <1>1 DEF OneFinalOutcome
<1> QED BY <1>1, <1>2, <1>3, <1>4, <1>5

\* And what each token has been granted, while nothing is taken.
LEMMA KeptAccounts ==
  ASSUME TransportInv, ExchangesKept, UNCHANGED accepted PROVE Accounts'
BY KeptTypes DEF TransportInv, ExchangesKept, Accounts

\* What is queued and what is in hand moves, but keeps its deadline.
LEMMA SameRequestsKeep ==
  ASSUME TransportInv, ExchangesKept, SameRequests PROVE RequestKeepsExchangeDeadline'
<1>1. Open' = Open /\ exchanges' = exchanges
  BY KeptTypes DEF ExchangesKept
<1> QED BY <1>1 DEF TransportInv, SameRequests, RequestKeepsExchangeDeadline

\* A request picked up has in hand the deadline it had in the queue.
LEMMA PickedUpKeeps ==
  ASSUME TransportInv, ExchangesKept, PickedUp
  PROVE  /\ RequestKeepsExchangeDeadline'
         /\ \A id : Has(requests, id)' => Has(requests, id)
         /\ \A id : Held(id)' => Has(requests, id)
<1>1. requests \in Seq(Request) /\ requests # <<>> /\ requests' = Tail(requests)
  BY DEF TransportInv, BridgeInv, TypeOK, PickedUp
<1>2. /\ \A i \in 1 .. Len(requests') : i + 1 \in 1 .. Len(requests) /\ requests'[i] = requests[i + 1]
      /\ \A id : Has(requests', id) => Has(requests, id)
      /\ Has(requests, Head(requests).id)
  BY <1>1, TailIds
<1>3. Head(requests) = requests[1] /\ 1 \in 1 .. Len(requests)
  BY <1>1, HeadTailProperties, EmptySeq, LenProperties
<1>4. Open' = Open /\ exchanges' = exchanges
  BY KeptTypes DEF ExchangesKept
<1>5. ASSUME NEW id \in Open
      PROVE  /\ \A i \in 1 .. Len(requests') :
                  requests'[i].id = id => requests'[i].expires = exchanges[id].expires
             /\ Held(id)' => worker'.expires = exchanges[id].expires
  <2>1. \A i \in 1 .. Len(requests) : requests[i].id = id => requests[i].expires = exchanges[id].expires
    BY DEF TransportInv, RequestKeepsExchangeDeadline
  <2>2. Held(id)' => worker'.expires = exchanges[id].expires
    BY <1>3, <2>1 DEF PickedUp
  <2> QED BY <1>2, <2>1, <2>2
<1>6. RequestKeepsExchangeDeadline'
  BY <1>4, <1>5 DEF RequestKeepsExchangeDeadline
<1> QED BY <1>1, <1>2, <1>6 DEF PickedUp

\* A token that is answered stays where it is while the bridge moves other requests.
LEMMA SameRepliesKeep ==
  ASSUME TransportInv, ExchangesKept, UNCHANGED <<replies, accepted>>,
         \A id : Has(requests, id)' => Has(requests, id),
         \A id : Held(id)' => Held(id) \/ Has(requests, id)
  PROVE  OneAnswer'
<1>1. Social' = Social /\ Batch' = Batch
  BY KeptTypes DEF Social
<1> QED BY <1>1 DEF TransportInv, OneAnswer

\* A token that is answered now leaves the worker for the lane.
LEMMA AnsweringKeeps ==
  ASSUME TransportInv, ExchangesKept, Answering, UNCHANGED accepted PROVE OneAnswer'
<1> USE DEF TransportInv
<1>1. Batch' = Batch /\ requests' = requests
  BY KeptTypes DEF Answering, SameRequests
<1>2. Social \in Seq(Reply) /\ DOMAIN replies = Lanes /\ "social" \in Lanes
  BY DEF BridgeInv, TypeOK, Social, Lanes
<1> DEFINE id == worker.id
<1>3. CASE LaneOf[id] = "social"
  <2>1. Social' = Append(Social, TheReply)
    BY <1>2, <1>3 DEF Answering, Social
  <2>2. /\ \A other : Has(Social', other) <=> Has(Social, other) \/ other = id
        /\ Distinct(Social) /\ ~Has(Social, id) => Distinct(Social')
    BY <1>2, <2>1, AppendIds DEF Answering
  <2>3. ~Has(Social, id) /\ ~Has(Batch, id) /\ ~Has(requests, id) /\ accepted[id] >= 1
    BY DEF Answering, OneAnswer, BridgeInv, OnePlace
  <2> HIDE DEF id
  <2> QED BY <1>1, <2>2, <2>3 DEF OneAnswer, Answering
<1>4. CASE LaneOf[id] # "social"
  <2>1. Social' = Social
    BY <1>2, <1>4 DEF Answering, Social
  <2> QED BY <1>1, <2>1 DEF OneAnswer, Answering
<1> QED BY <1>3, <1>4

\* A turn of the worker or of the sidecar keeps the invariant.
LEMMA TurnKeeps ==
  ASSUME TransportInv, ExchangesKept, WorkerStep \/ SidecarStep PROVE TransportInv'
<1>1. BridgeInv'
  BY WorkerKeeps DEF TransportInv
<1>2. /\ UNCHANGED accepted
      /\ \/ SameRequests /\ UNCHANGED replies
         \/ PickedUp /\ UNCHANGED replies
         \/ Answering
  BY WorkerEffect DEF TransportInv
<1>3. RequestKeepsExchangeDeadline' /\ OneAnswer'
  <2>1. CASE SameRequests /\ UNCHANGED replies
    <3>1. \A id : /\ Has(requests, id)' => Has(requests, id)
                  /\ Held(id)' => Held(id)
      BY <2>1 DEF SameRequests
    <3> QED BY <1>2, <2>1, <3>1, SameRequestsKeep, SameRepliesKeep
  <2>2. CASE PickedUp /\ UNCHANGED replies
    BY <1>2, <2>2, PickedUpKeeps, SameRepliesKeep
  <2>3. CASE Answering
    BY <1>2, <2>3, SameRequestsKeep, AnsweringKeeps DEF Answering
  <2> QED BY <1>2, <2>1, <2>2, <2>3
<1> QED BY <1>1, <1>2, <1>3, KeptTypes, KeptAccounts DEF TransportInv

\* Time passes, Stop goes on, or nothing happens.
LEMMA StillKeeps ==
  ASSUME TransportInv, BridgeInv', ExchangesKept, UNCHANGED <<requests, replies, worker, accepted>>
  PROVE  TransportInv'
<1>1. SameRequests
  BY DEF SameRequests, Held
<1>2. \A id : Has(requests, id)' => Has(requests, id)
  OBVIOUS
<1>3. \A id : Held(id)' => Held(id)
  BY <1>1 DEF SameRequests
<1>4. OneAnswer'
  BY <1>2, <1>3, SameRepliesKeep
<1> QED BY <1>1, <1>4, SameRequestsKeep, KeptTypes, KeptAccounts DEF TransportInv

-----------------------------------------------------------------------------
(* The drain.                                                              *)

\* What the bridge holds is as it was.
BridgeStill == UNCHANGED <<requests, replies, worker, accepted>>

\* A step of the world thread that keeps the bridge keeps the bridge's invariant.
LEMMA KeepBridgeStill == ASSUME TransportInv, KeepBridge PROVE BridgeStill /\ BridgeInv'
<1>1. BridgeStill
  BY DEF KeepBridge, vars, BridgeStill
<1>2. BridgeInv'
  BY BridgeStep DEF TransportInv, KeepBridge
<1> QED BY <1>1, <1>2

\* While only the drain and the lane move, the exchanges' books stand.
LEMMA BooksStand ==
  ASSUME TransportInv, UNCHANGED <<requests, worker, accepted, exchanges, outcomes, submitted, inTime>>
  PROVE  ExchangeTypes' /\ HistoryTypes' /\ Accounts' /\ OneFinalOutcome'
         /\ RequestKeepsExchangeDeadline'
<1> USE DEF TransportInv
<1>1. Open' = Open
  BY DEF Open
<1>2. ExchangeTypes' /\ HistoryTypes'
  BY <1>1 DEF ExchangeTypes, HistoryTypes
<1>3. Accounts' /\ OneFinalOutcome'
  BY <1>1 DEF Accounts, OneFinalOutcome
<1>4. RequestKeepsExchangeDeadline'
  BY <1>1 DEF RequestKeepsExchangeDeadline, Held
<1> QED BY <1>2, <1>3, <1>4

\* One answer less in the batch, or the same batch.
LEMMA BatchKeeps ==
  ASSUME TransportInv, BridgeStill, Batch' = Batch \/ (Batch # <<>> /\ Batch' = Tail(Batch))
  PROVE  OneAnswer'
<1> USE DEF TransportInv
<1>1. Batch \in Seq(Reply)
  BY DEF Batch, DrainTypes
<1>2. Distinct(Batch') /\ \A id : Has(Batch', id) => Has(Batch, id)
  BY <1>1, TailIds DEF OneAnswer
<1>3. Social' = Social /\ requests' = requests /\ accepted' = accepted /\ \A id : Held(id)' <=> Held(id)
  BY DEF BridgeStill, Social, Held
<1> QED BY <1>2, <1>3 DEF OneAnswer

\* Resolve goes on to the next answer.
LEMMA NextReplyEffect ==
  ASSUME TransportInv, Resolving, NextReply
  PROVE  /\ DrainTypes' /\ Batch # <<>> /\ Batch' = Tail(Batch)
         /\ Raw \in Reply /\ Has(Batch, Raw.id) /\ ~Has(Batch', Raw.id)
         /\ Batch \in Seq(Reply) /\ drain.now \in Nat
<1> USE DEF TransportInv, Resolving
<1>1. /\ drain.at = "resolving" /\ drain.batch # <<>> /\ drain.batch \in Seq(Reply)
      /\ drain.now \in Nat /\ {"at", "batch", "now"} \subseteq DOMAIN drain
  BY DEF DrainTypes
<1>2. /\ drain'.at = "resolving" /\ drain'.now = drain.now /\ drain'.batch = Tail(drain.batch)
      /\ {"at", "batch", "now"} \subseteq DOMAIN drain'
  BY <1>1 DEF NextReply
<1>3. Batch = drain.batch /\ Batch' = Tail(Batch)
  BY <1>1, <1>2 DEF Batch
<1>4. /\ Tail(Batch) \in Seq(Reply) /\ Head(Batch) \in Reply /\ Has(Batch, Head(Batch).id)
      /\ ~Has(Tail(Batch), Head(Batch).id)
  BY <1>1, <1>3, TailIds DEF OneAnswer
<1>5. Raw = Head(Batch)
  BY <1>3 DEF Raw
<1>6. DrainTypes'
  BY <1>1, <1>2, <1>3, <1>4 DEF DrainTypes
<1> QED BY <1>1, <1>3, <1>4, <1>5, <1>6

\* An answer whose exchange is gone is passed over (PlayerbotLLM.cpp:794-798).
LEMMA IgnoreKeeps == ASSUME TransportInv, Ignore PROVE TransportInv'
<1>1. BridgeStill /\ BridgeInv'
  BY KeepBridgeStill DEF Ignore
<1>2. DrainTypes' /\ OneAnswer'
  BY <1>1, NextReplyEffect, BatchKeeps DEF Ignore
<1>3. UNCHANGED <<requests, worker, accepted, exchanges, outcomes, submitted, inTime>>
  BY <1>1 DEF Ignore, KeepExchanges, BridgeStill
<1> QED BY <1>1, <1>2, <1>3, BooksStand DEF TransportInv

\* Reading the clock moves no answer.
LEMMA ReadClockKeeps ==
  ASSUME TransportInv, ThenReadClock \/ ReadClockFirst PROVE TransportInv'
<1> USE DEF TransportInv
<1>1. BridgeStill /\ BridgeInv' /\ clock \in Nat
  BY KeepBridgeStill DEF ThenReadClock, ReadClockFirst, BridgeInv, TypeOK
<1>2. DrainTypes' /\ Batch' = Batch
  <2>1. CASE ThenReadClock
    <3>1. drain.at = "drained" /\ drain.batch \in Seq(Reply)
          /\ drain' = [at |-> "resolving", batch |-> drain.batch, now |-> clock]
      BY <2>1 DEF ThenReadClock, DrainTypes
    <3>2. /\ drain'.at = "resolving" /\ drain'.batch = drain.batch /\ drain'.now = clock
          /\ {"at", "batch", "now"} \subseteq DOMAIN drain'
      BY <3>1
    <3> QED BY <1>1, <3>1, <3>2 DEF DrainTypes, Batch
  <2>2. CASE ReadClockFirst
    <3>1. drain.at = "idle" /\ drain'.at = "clocked" /\ drain'.now = clock
      BY <2>2 DEF ReadClockFirst, Idle
    <3> QED BY <1>1, <3>1 DEF DrainTypes, Batch
  <2> QED BY <2>1, <2>2
<1>3. UNCHANGED <<requests, worker, accepted, exchanges, outcomes, submitted, inTime>>
  BY <1>1 DEF ThenReadClock, ReadClockFirst, KeepExchanges, BridgeStill
<1> QED BY <1>1, <1>2, <1>3, BatchKeeps, BooksStand

\* The lane's replies become the batch.
LEMMA TakeKeeps == ASSUME TransportInv, DrainFirst \/ ThenDrain PROVE TransportInv'
<1> USE DEF TransportInv
<1>1. /\ UNCHANGED <<clock, requests, shut, flags, socket, unanswered, worker, histories,
                     exchanges, outcomes, submitted, inTime>>
      /\ replies' = [replies EXCEPT !["social"] = <<>>] /\ UNCHANGED accepted
  BY DEF DrainFirst, ThenDrain, TakeReplies, KeepRest, KeepExchanges, histories
<1>2. "social" \in Lanes /\ DOMAIN replies = Lanes /\ Social \in Seq(Reply)
  BY DEF Lanes, BridgeInv, TypeOK, Social
<1>3. BridgeInv'
  BY <1>1, <1>2, TakenKeeps
<1>4. Social' = <<>>
  BY <1>1, <1>2 DEF Social
<1>5. DrainTypes' /\ Batch = <<>> /\ Batch' = Social
  <2>1. CASE DrainFirst
    <3>1. drain.at = "idle" /\ drain'.at = "drained" /\ drain'.batch = Social
      BY <2>1 DEF DrainFirst, Idle, Social
    <3> QED BY <1>2, <3>1 DEF DrainTypes, Batch
  <2>2. CASE ThenDrain
    <3>1. drain.at = "clocked" /\ drain.now \in Nat
          /\ drain' = [at |-> "resolving", batch |-> Social, now |-> drain.now]
      BY <2>2 DEF ThenDrain, Social, DrainTypes
    <3>2. /\ drain'.at = "resolving" /\ drain'.batch = Social /\ drain'.now = drain.now
          /\ {"at", "batch", "now"} \subseteq DOMAIN drain'
      BY <3>1
    <3> QED BY <1>2, <3>1, <3>2 DEF DrainTypes, Batch
  <2> QED BY <2>1, <2>2
<1>6. \A id : Held(id)' <=> Held(id)
  BY <1>1 DEF Held
<1>7. OneAnswer'
  BY <1>1, <1>4, <1>5, <1>6, EmptyIds DEF OneAnswer
<1>8. UNCHANGED <<requests, worker, accepted, exchanges, outcomes, submitted, inTime>>
  BY <1>1
<1> QED BY <1>3, <1>5, <1>7, <1>8, BooksStand

-----------------------------------------------------------------------------
(* Exchanges that end.                                                     *)

\* The exchanges of gone end; each of them with one outcome more at most, the others with none.
Drops(gone) ==
  /\ gone \subseteq Open
  /\ exchanges' = [id \in Open \ gone |-> exchanges[id]]
  /\ outcomes' \in [Ids -> Seq(Outcomes)]
  /\ \A id \in Ids : \/ outcomes'[id] = outcomes[id]
                     \/ id \in gone /\ \E outcome \in Outcomes :
                                         outcomes'[id] = Append(outcomes[id], outcome)
  /\ UNCHANGED <<submitted, inTime>>

\* Closing a set of open exchanges, each with one final outcome, keeps what is known of
\* each token.
LEMMA DropsKeep ==
  ASSUME TransportInv, BridgeStill, NEW gone, Drops(gone)
  PROVE  ExchangeTypes' /\ HistoryTypes' /\ Accounts' /\ OneFinalOutcome'
         /\ RequestKeepsExchangeDeadline'
<1> USE DEF TransportInv
<1>1. Open' = Open \ gone /\ \A id \in Open' : exchanges'[id] = exchanges[id]
  BY DEF Drops, Open
<1>2. ExchangeTypes'
  <2>1. IsFiniteSet(Open) /\ Cardinality(Open) <= MaxOutstanding /\ Open' \subseteq Open
    BY <1>1 DEF ExchangeTypes
  <2>2. IsFiniteSet(Open') /\ Cardinality(Open') <= Cardinality(Open)
    BY <2>1, FS_Subset
  <2>3. Cardinality(Open') \in Nat /\ Cardinality(Open) \in Nat /\ MaxOutstanding \in Nat
    BY <2>1, <2>2, FS_CardinalityType, TransportAssumption
  <2>4. Cardinality(Open') <= MaxOutstanding
    BY <2>1, <2>2, <2>3
  <2> QED BY <1>1, <2>2, <2>4 DEF ExchangeTypes
<1>3. HistoryTypes'
  BY DEF HistoryTypes, Drops
<1>4. Accounts'
  <2>1. \A id \in Ids : submitted[id] = Nobody => outcomes'[id] = <<>>
    BY DEF Accounts, Drops
  <2> QED BY <1>1, <2>1 DEF Accounts, Drops, BridgeStill
<1>5. ASSUME NEW id \in Ids, NEW i \in 1 .. Len(outcomes'[id]), Final(outcomes'[id][i])
      PROVE  i = Len(outcomes'[id]) /\ id \notin Open'
  <2>1. outcomes[id] \in Seq(Outcomes) /\ Len(outcomes[id]) \in Nat
    BY LenProperties DEF HistoryTypes
  <2>2. CASE outcomes'[id] = outcomes[id]
    BY <1>1, <1>5, <2>2 DEF OneFinalOutcome
  <2>3. ASSUME id \in gone, NEW outcome \in Outcomes, outcomes'[id] = Append(outcomes[id], outcome)
        PROVE  i = Len(outcomes'[id]) /\ id \notin Open'
    <3> DEFINE n == Len(outcomes[id])
    <3>1. Len(outcomes'[id]) = n + 1 /\ \A j \in 1 .. n : outcomes'[id][j] = outcomes[id][j]
      BY <2>1, <2>3, AppendProperties
    <3>2. i \notin 1 .. n
      BY <1>5, <2>3, <3>1 DEF OneFinalOutcome, Drops
    <3> HIDE DEF n
    <3>3. i = n + 1
      BY <2>1, <3>1, <3>2 DEF n
    <3> QED BY <1>1, <2>3, <3>1, <3>3
  <2> QED BY <2>2, <2>3 DEF Drops
<1>6. OneFinalOutcome'
  BY <1>5 DEF OneFinalOutcome
<1>7. RequestKeepsExchangeDeadline'
  BY <1>1 DEF RequestKeepsExchangeDeadline, BridgeStill, Held
<1> QED BY <1>2, <1>3, <1>4, <1>6, <1>7

\* Erasing an exchange closes it alone.
LEMMA EraseDrops ==
  ASSUME TransportInv, NEW id \in Open, NEW outcome \in Outcomes, Erase(id, outcome)
  PROVE  Drops({id})
<1>1. id \in Ids /\ outcomes \in [Ids -> Seq(Outcomes)]
  BY DEF TransportInv, ExchangeTypes, HistoryTypes
<1>2. outcomes' = [outcomes EXCEPT ![id] = Append(@, outcome)]
  BY DEF Erase, Completes
<1>3. Append(outcomes[id], outcome) \in Seq(Outcomes)
  BY <1>1, AppendProperties
<1>4. outcomes' \in [Ids -> Seq(Outcomes)]
  BY <1>1, <1>2, <1>3
<1>5. outcomes'[id] = Append(outcomes[id], outcome)
      /\ \A other \in Ids \ {id} : outcomes'[other] = outcomes[other]
  BY <1>1, <1>2
<1> QED BY <1>4, <1>5 DEF Drops, Erase, Without

\* An answer that ends its exchange.
LEMMA EraseKeeps ==
  ASSUME TransportInv, Abandon \/ Deliver \/ RetryRefused PROVE TransportInv'
<1>1. /\ Resolving /\ Known /\ NextReply /\ KeepBridge
      /\ \E outcome \in Outcomes : Erase(Raw.id, outcome)
  BY DEF Abandon, Deliver, RetryRefused, Retries, Outcomes
<1>2. Drops({Raw.id})
  BY <1>1, EraseDrops DEF Known
<1>3. BridgeStill /\ BridgeInv'
  BY <1>1, KeepBridgeStill
<1>4. DrainTypes' /\ OneAnswer'
  BY <1>1, <1>3, NextReplyEffect, BatchKeeps
<1> QED BY <1>2, <1>3, <1>4, DropsKeep DEF TransportInv

\* The sweep closes the exchanges whose deadline has passed (PlayerbotLLM.cpp:891-894).
LEMMA SweepKeeps == ASSUME TransportInv, Sweep PROVE TransportInv'
<1> USE DEF TransportInv
<1>1. Drops(Overdue)
  <2>1. Overdue \subseteq Open /\ Open \subseteq Ids /\ outcomes \in [Ids -> Seq(Outcomes)]
    BY DEF Overdue, ExchangeTypes, HistoryTypes
  <2>2. "swept" \in Outcomes /\ \A id \in Ids : Append(outcomes[id], "swept") \in Seq(Outcomes)
    BY <2>1, AppendProperties DEF Outcomes
  <2>3. outcomes' = [id \in Ids |-> IF id \in Overdue THEN Append(outcomes[id], "swept")
                                   ELSE outcomes[id]]
    BY DEF Sweep
  <2> HIDE DEF TransportInv
  <2>4. outcomes' \in [Ids -> Seq(Outcomes)]
    BY <2>1, <2>2, <2>3
  <2>5. \A id \in Ids : outcomes'[id] = IF id \in Overdue THEN Append(outcomes[id], "swept")
                                        ELSE outcomes[id]
    BY <2>3
  <2> QED BY <2>1, <2>2, <2>4, <2>5 DEF Drops, Sweep
<1>2. BridgeStill /\ BridgeInv'
  BY KeepBridgeStill DEF Sweep
<1>3. DrainTypes' /\ Batch' = Batch
  BY DEF Sweep, Idle, DrainTypes, Batch
<1> QED BY <1>1, <1>2, <1>3, DropsKeep, BatchKeeps

\* Shutdown forgets every exchange.
LEMMA ShutdownKeeps == ASSUME TransportInv, Shutdown PROVE TransportInv'
<1> USE DEF TransportInv
<1>1. Drops(Open)
  <2>1. exchanges' = [id \in Open \ Open |-> exchanges[id]]
    BY DEF Shutdown
  <2> QED BY <2>1 DEF Drops, Shutdown, HistoryTypes
<1>2. BridgeStill /\ BridgeInv'
  BY StopFlagKeeps DEF Shutdown, StopFlag, BridgeStill, queues, histories
<1>3. DrainTypes' /\ Batch' = Batch
  BY DEF Shutdown, DrainTypes, Batch
<1> QED BY <1>1, <1>2, <1>3, DropsKeep, BatchKeeps

-----------------------------------------------------------------------------
(* Requests that go out.                                                   *)

\* Token id is pushed to the bridge, with the deadline its exchange is given.
GoesOut(id, expires) ==
  /\ Push(id, expires)
  /\ Len(requests) < Capacity
  /\ exchanges'[id].expires = expires
  /\ \A other \in Open \ {id} : exchanges'[other] = exchanges[other]
  /\ Open' = Open \cup {id}
  /\ UNCHANGED <<clock, replies, shut, flags, socket, unanswered, worker, sent>>

\* No request is out for a token that is answered, or was never asked for.
LEMMA GoesOutKeeps ==
  ASSUME TransportInv, NEW id \in Ids, NEW expires \in Nat, GoesOut(id, expires),
         ~Has(requests, id), ~Held(id)
  PROVE  /\ BridgeInv' /\ RequestKeepsExchangeDeadline'
         /\ \A other : Has(requests, other)' <=> Has(requests, other) \/ other = id
         /\ \A other : Held(other)' <=> Held(other)
         /\ accepted'[id] = accepted[id] + 1
         /\ \A other \in Ids \ {id} : accepted'[other] = accepted[other]
<1> USE DEF TransportInv
<1>1. /\ BridgeInv'
      /\ requests' = Append(requests, [id |-> id, expires |-> expires])
      /\ \A other : Has(requests', other) <=> Has(requests, other) \/ other = id
  BY PushKeeps DEF GoesOut
<1>2. \A other : Held(other)' <=> Held(other)
  BY DEF Held, GoesOut
<1>3. accepted' = [accepted EXCEPT ![id] = @ + 1] /\ accepted \in [Ids -> Nat]
  BY DEF GoesOut, Push, BridgeInv, TypeOK
<1> DEFINE n == Len(requests)
<1>4. /\ n \in Nat /\ Len(requests') = n + 1 /\ requests'[n + 1] = [id |-> id, expires |-> expires]
      /\ \A i \in 1 .. n : requests'[i] = requests[i] /\ requests[i].id # id
  <2>1. requests \in Seq(Request) /\ [id |-> id, expires |-> expires] \in Request
    BY DEF BridgeInv, TypeOK, Request
  <2> QED BY <1>1, <2>1, AppendProperties, LenProperties DEF Has
<1> HIDE DEF n
<1>5. ASSUME NEW other \in Open',
             NEW i \in 1 .. Len(requests'), requests'[i].id = other
      PROVE  requests'[i].expires = exchanges'[other].expires
  <2>1. CASE i = n + 1
    BY <1>4, <1>5, <2>1 DEF GoesOut
  <2>2. CASE i # n + 1
    <3>1. i \in 1 .. n
      BY <1>4, <2>2
    <3>2. requests[i].id = other /\ other \in Open \ {id}
      BY <1>4, <1>5, <3>1 DEF GoesOut
    <3>3. requests[i].expires = exchanges[other].expires
      BY <3>1, <3>2 DEF RequestKeepsExchangeDeadline, n
    <3> QED BY <1>4, <3>1, <3>2, <3>3 DEF GoesOut
  <2> QED BY <2>1, <2>2
<1>6. ASSUME NEW other \in Open', Held(other)' PROVE worker'.expires = exchanges'[other].expires
  <2>1. other \in Open \ {id} /\ Held(other)
    BY <1>2, <1>6 DEF GoesOut
  <2> QED BY <2>1 DEF GoesOut, RequestKeepsExchangeDeadline
<1>7. RequestKeepsExchangeDeadline'
  BY <1>5, <1>6 DEF RequestKeepsExchangeDeadline
<1> QED BY <1>1, <1>2, <1>3, <1>7

\* A token that was never submitted is in no queue and no batch, so its request is the
\* first.
LEMMA SubmitKeeps == ASSUME TransportInv, NEW id \in Ids, Submit(id) PROVE TransportInv'
<1> USE DEF TransportInv
<1> DEFINE expires == clock + Deadline
<1>1. /\ submitted[id] = Nobody /\ id \notin Open /\ Cardinality(Open) < MaxOutstanding
      /\ expires \in Nat /\ clock \in Nat /\ Len(requests) < Capacity
      /\ accepted[id] = 0 /\ outcomes[id] = <<>>
  BY BridgeAssumption DEF Submit, CanEnqueue, BridgeInv, TypeOK, Accounts
<1>2. ~Has(requests, id) /\ ~Held(id) /\ ~Has(Social, id) /\ ~Has(Batch, id)
  BY <1>1 DEF BridgeInv, OnePlace, OneAnswer
<1>3. exchanges' = [other \in Open \cup {id} |->
                      IF other = id THEN [expires |-> expires, regenerations |-> 0]
                      ELSE exchanges[other]]
  BY DEF Submit
<1> HIDE DEF expires
<1>4. /\ Open' = Open \cup {id} /\ exchanges'[id].expires = expires
      /\ exchanges'[id] \in Exchange /\ exchanges'[id].regenerations = 0
      /\ \A other \in Open \ {id} : exchanges'[other] = exchanges[other]
  BY <1>1, <1>3 DEF Open, Exchange, MaxRegenerations
<1>5. GoesOut(id, expires)
  BY <1>1, <1>4 DEF GoesOut, Submit, expires
<1>6. /\ BridgeInv' /\ RequestKeepsExchangeDeadline'
      /\ \A other : Has(requests, other)' <=> Has(requests, other) \/ other = id
      /\ \A other : Held(other)' <=> Held(other)
      /\ accepted'[id] = 1
      /\ \A other \in Ids \ {id} : accepted'[other] = accepted[other]
  BY <1>1, <1>2, <1>5, GoesOutKeeps
<1>7. Social' = Social /\ Batch' = Batch /\ outcomes' = outcomes /\ drain' = drain
  BY DEF Submit, Social, Batch
<1>8. DrainTypes'
  BY <1>7 DEF DrainTypes
<1>9. OneAnswer'
  BY <1>2, <1>6, <1>7 DEF OneAnswer
<1>10. ExchangeTypes'
  <2>1. IsFiniteSet(Open') /\ Cardinality(Open') = Cardinality(Open) + 1
    BY <1>1, <1>4, FS_AddElement DEF ExchangeTypes
  <2>2. Cardinality(Open) \in Nat /\ MaxOutstanding \in Nat
    BY FS_CardinalityType, TransportAssumption DEF ExchangeTypes
  <2>3. Cardinality(Open') <= MaxOutstanding
    BY <1>1, <2>1, <2>2
  <2> QED BY <1>4, <2>1, <2>3 DEF ExchangeTypes
<1>11. submitted' = [submitted EXCEPT ![id] = clock] /\ submitted \in [Ids -> Nat \cup {Nobody}]
  BY DEF Submit, HistoryTypes
<1>12. HistoryTypes'
  BY <1>1, <1>11, <1>7 DEF HistoryTypes, Submit
<1>13. submitted'[id] # Nobody /\ \A other \in Ids \ {id} : submitted'[other] = submitted[other]
  BY <1>1, <1>11, TransportAssumption
<1>14. Accounts'
  BY <1>4, <1>6, <1>7, <1>13 DEF Accounts, MaxRegenerations
<1>15. OneFinalOutcome'
  <2>1. Len(outcomes[id]) = 0
    BY <1>1
  <2> QED BY <1>4, <1>7, <2>1 DEF OneFinalOutcome
<1> QED BY <1>6, <1>8, <1>9, <1>10, <1>12, <1>14, <1>15

\* A regeneration takes the place of the answer it rejects, and has the new deadline of
\* its exchange (PlayerbotLLM.cpp:823-831).
LEMMA RetryKeeps == ASSUME TransportInv, Retry PROVE TransportInv'
<1> USE DEF TransportInv
<1> DEFINE id == Raw.id
           expires == drain.now + Deadline
           again == exchanges[id].regenerations + 1
<1>1. Resolving /\ NextReply /\ id \in Open /\ exchanges[id].regenerations < MaxRegenerations
  BY DEF Retry, Retries, Known, MayRegenerate
<1>2. /\ DrainTypes' /\ Batch # <<>> /\ Batch' = Tail(Batch)
      /\ Has(Batch, id) /\ ~Has(Batch', id) /\ Batch \in Seq(Reply) /\ drain.now \in Nat
  BY <1>1, NextReplyEffect
<1>3. /\ id \in Ids /\ exchanges[id] \in Exchange /\ Len(requests) < Capacity
      /\ expires \in Nat
  BY <1>1, <1>2, BridgeAssumption DEF ExchangeTypes, Retry, CanEnqueue
<1>4. ~Has(requests, id) /\ ~Held(id) /\ ~Has(Social, id)
  BY <1>2, <1>3 DEF OneAnswer
<1>5. exchanges' = [exchanges EXCEPT ![id] = [expires |-> expires, regenerations |-> again]]
      /\ again \in 0 .. MaxRegenerations
  BY <1>1, <1>3 DEF Retry, Exchange, MaxRegenerations
<1>6. UNCHANGED <<clock, replies, shut, flags, socket, unanswered, worker, sent, submitted>>
      /\ Push(id, expires) /\ Completes(id, "regenerate") /\ inTime' = inTime \ {id}
  BY DEF Retry
<1>a. again = exchanges[id].regenerations + 1
  OBVIOUS
<1> HIDE DEF id, expires, again
<1>7. /\ Open' = Open \cup {id} /\ exchanges'[id] = [expires |-> expires, regenerations |-> again]
      /\ \A other \in Open \ {id} : exchanges'[other] = exchanges[other]
  BY <1>1, <1>5 DEF Open
<1>8. /\ exchanges'[id].expires = expires /\ exchanges'[id].regenerations = again
      /\ exchanges'[id] \in Exchange
  BY <1>3, <1>5, <1>7 DEF Exchange
<1>9. GoesOut(id, expires)
  BY <1>3, <1>6, <1>7, <1>8 DEF GoesOut
<1>10. /\ BridgeInv' /\ RequestKeepsExchangeDeadline'
       /\ \A other : Has(requests, other)' <=> Has(requests, other) \/ other = id
       /\ \A other : Held(other)' <=> Held(other)
       /\ accepted'[id] = accepted[id] + 1
       /\ \A other \in Ids \ {id} : accepted'[other] = accepted[other]
  BY <1>3, <1>4, <1>9, GoesOutKeeps
<1>11. OneAnswer'
  <2>1. Distinct(Batch') /\ \A other : Has(Batch', other) => Has(Batch, other)
    BY <1>2, TailIds DEF OneAnswer
  <2>2. Social' = Social
    BY <1>6 DEF Social
  <2> QED BY <1>2, <1>4, <1>10, <2>1, <2>2 DEF OneAnswer
<1>12. ExchangeTypes'
  <2>1. Open' = Open
    BY <1>1, <1>7
  <2> QED BY <1>7, <1>8, <2>1 DEF ExchangeTypes
<1>13. outcomes \in [Ids -> Seq(Outcomes)] /\ outcomes' = [outcomes EXCEPT ![id] = Append(@, "regenerate")]
  BY <1>6 DEF Completes, HistoryTypes
<1>14. Append(outcomes[id], "regenerate") \in Seq(Outcomes)
  BY <1>3, <1>13, AppendProperties DEF Outcomes
<1>15. HistoryTypes'
  BY <1>3, <1>6, <1>13, <1>14 DEF HistoryTypes
<1>16. Accounts'
  <2>1. submitted[id] # Nobody /\ accepted[id] <= 1 + exchanges[id].regenerations
    BY <1>1, <1>3 DEF Accounts
  <2>2. accepted[id] \in Nat /\ exchanges[id].regenerations \in Nat
    BY <1>3 DEF BridgeInv, TypeOK, Exchange
  <2>3. accepted'[id] <= 1 + exchanges'[id].regenerations /\ accepted'[id] <= 1 + MaxRegenerations
    BY <1>1, <1>8, <1>10, <1>a, <2>1, <2>2 DEF MaxRegenerations
  <2> QED BY <1>1, <1>3, <1>6, <1>7, <1>10, <1>13, <2>1, <2>3 DEF Accounts
<1>17. OneFinalOutcome'
  <2> DEFINE n == Len(outcomes[id])
  <2>1. /\ n \in Nat /\ outcomes'[id] = Append(outcomes[id], "regenerate")
        /\ Len(outcomes'[id]) = n + 1 /\ outcomes'[id][n + 1] = "regenerate"
        /\ \A i \in 1 .. n : outcomes'[id][i] = outcomes[id][i]
    BY <1>3, <1>13, AppendProperties, LenProperties
  <2>2. \A i \in 1 .. n : ~Final(outcomes[id][i])
    BY <1>1, <1>3 DEF OneFinalOutcome
  <2> HIDE DEF n
  <2>3. \A i \in 1 .. Len(outcomes'[id]) : ~Final(outcomes'[id][i])
    BY <2>1, <2>2 DEF Final
  <2>4. \A other \in Ids \ {id} : outcomes'[other] = outcomes[other]
    BY <1>13
  <2> QED BY <1>1, <1>7, <2>3, <2>4 DEF OneFinalOutcome
<1> QED BY <1>2, <1>10, <1>11, <1>12, <1>15, <1>16, <1>17

-----------------------------------------------------------------------------
(* The theorems.                                                           *)

\* At first no token was submitted.
LEMMA TransportInitInv == TransportInit => TransportInv
<1> SUFFICES ASSUME TransportInit PROVE TransportInv
  OBVIOUS
<1>1. BridgeInv
  BY BridgeInit DEF TransportInit
<1>2. Open = {} /\ Batch = <<>> /\ Social = <<>>
  BY DEF TransportInit, Init, Open, Batch, Social, Idle, Lanes
<1>3. DrainTypes
  BY DEF TransportInit, DrainTypes, Idle
<1>4. ExchangeTypes
  <2>1. IsFiniteSet({}) /\ Cardinality({}) = 0 /\ 0 <= MaxOutstanding
    BY FS_EmptySet, TransportAssumption
  <2> QED BY <1>2, <2>1 DEF ExchangeTypes
<1>5. HistoryTypes
  <2>1. <<>> \in Seq(Outcomes)
    OBVIOUS
  <2> QED BY <2>1 DEF TransportInit, HistoryTypes
<1>6. OneAnswer
  BY <1>2, EmptyIds DEF OneAnswer
<1>7. Accounts /\ OneFinalOutcome
  <2>1. Len(<<>>) = 0
    OBVIOUS
  <2> QED BY <1>2, <2>1 DEF TransportInit, Init, Accounts, OneFinalOutcome, MaxRegenerations
<1>8. RequestKeepsExchangeDeadline
  BY <1>2 DEF RequestKeepsExchangeDeadline
<1> QED BY <1>1, <1>3, <1>4, <1>5, <1>6, <1>7, <1>8 DEF TransportInv

\* What was stamped in time is of the tokens.
LEMMA StampedIds == ASSUME TransportInv PROVE StampedInTime \subseteq Ids
BY DEF TransportInv, ExchangeTypes, StampedInTime

\* Every step of the two threads keeps the invariant.
LEMMA TransportStep ==
  ASSUME TransportInv, [TransportNext]_transportVars PROVE TransportInv'
<1>0. inTime \subseteq Ids /\ BridgeInv
  BY DEF TransportInv, HistoryTypes
<1>1. CASE UNCHANGED transportVars
  <2>1. ExchangesKept /\ BridgeStill /\ UNCHANGED vars
    BY <1>0, <1>1 DEF transportVars, vars, ExchangesKept, BridgeStill
  <2>2. BridgeInv'
    BY <1>0, <2>1, BridgeStep
  <2> QED BY <2>1, <2>2, StillKeeps DEF BridgeStill
<1>2. CASE Time
  <2>1. ExchangesKept /\ BridgeStill
    BY <1>0, <1>2 DEF Time, ExchangesKept, BridgeStill, queues, histories
  <2>2. BridgeInv'
    BY <1>0, <1>2, TickKeeps DEF Time
  <2> QED BY <2>1, <2>2, StillKeeps DEF BridgeStill
<1>3. CASE StopStep /\ UNCHANGED <<exchanges, drain, outcomes, submitted, inTime>>
  <2>1. ExchangesKept
    BY <1>0, <1>3 DEF ExchangesKept
  <2>2. BridgeStill
    BY <1>3 DEF StopStep, StopRequest, StopQueue, AbortSocket, Join, BridgeStill, queues, histories
  <2>3. BridgeInv'
    BY <1>0, <1>3, StopStepKeeps
  <2> QED BY <2>1, <2>2, <2>3, StillKeeps DEF BridgeStill
<1>4. CASE WorkerTurn
  <2>1. ExchangesKept
    BY <1>0, <1>4, StampedIds DEF WorkerTurn, ExchangesKept
  <2> QED BY <1>4, <2>1, TurnKeeps DEF WorkerTurn
<1>5. CASE SidecarTurn
  <2>1. ExchangesKept
    BY <1>0, <1>5 DEF SidecarTurn, ExchangesKept
  <2> QED BY <1>5, <2>1, TurnKeeps DEF SidecarTurn
<1>6. CASE DrainStep
  BY <1>6, TakeKeeps, ReadClockKeeps, IgnoreKeeps, EraseKeeps, RetryKeeps, SweepKeeps DEF DrainStep
<1> QED BY <1>1, <1>2, <1>3, <1>4, <1>5, <1>6, SubmitKeeps, ShutdownKeeps DEF TransportNext

\* Wherever the world thread is in a drain, and the worker with a request, a token is in
\* one place, and its exchange knows how often it was asked for and until when.
THEOREM TransportInvariant == TransportSpec => []TransportInv
<1>1. TransportInv /\ [TransportNext]_transportVars => TransportInv'
  BY TransportStep
<1> QED BY <1>1, TransportInitInv, PTL DEF TransportSpec

\* The transport keeps its types, and never more exchanges than it may.
THEOREM TransportTypes == TransportSpec => []TransportTypeOK
<1>1. TransportInv => TransportTypeOK
  BY DEF TransportInv, BridgeInv, DrainTypes, ExchangeTypes, HistoryTypes, TransportTypeOK
<1> QED BY <1>1, TransportInvariant, PTL

\* A token is completed once: after its line, its abandonment or its sweep nothing more is
\* heard of it (PlayerbotLLM.cpp:794-798, 891-894).
THEOREM TokensEndOnce == TransportSpec => []OneFinalOutcome
<1>1. TransportInv => OneFinalOutcome
  BY DEF TransportInv
<1> QED BY <1>1, TransportInvariant, PTL

\* A token costs two generations at most: no frame is sent twice, and a request is taken
\* again only on the one retry its exchange allows (PlayerbotLLM.h:253-260).
THEOREM TwoGenerationsAtMost == TransportSpec => []AtMostTwoGenerations
<1>1. ASSUME TransportInv, NEW id \in Ids PROVE sent[id] <= 1 + MaxRegenerations
  <2>1. sent[id] <= accepted[id] /\ accepted[id] <= 1 + MaxRegenerations
    BY <1>1 DEF TransportInv, BridgeInv, SendsLeft, Accounts
  <2>2. sent[id] \in Nat /\ accepted[id] \in Nat
    BY <1>1 DEF TransportInv, BridgeInv, TypeOK
  <2> QED BY <2>1, <2>2 DEF MaxRegenerations
<1>2. TransportInv => AtMostTwoGenerations
  BY <1>1 DEF AtMostTwoGenerations
<1> QED BY <1>2, TransportInvariant, PTL

\* The one request that is out for an exchange expires with it (PlayerbotLLM.cpp:823-831).
THEOREM DeadlinesAgree == TransportSpec => []RequestKeepsExchangeDeadline
<1>1. TransportInv => RequestKeepsExchangeDeadline
  BY DEF TransportInv
<1> QED BY <1>1, TransportInvariant, PTL
=============================================================================
