---------------------------- MODULE BridgeProofs ----------------------------
(***************************************************************************)
(* The bridge, for any number of requests, lanes of any capacity and any   *)
(* clock.  The worker has one request in hand and one frame unanswered, so *)
(* what it reads is the answer of what it sent; and a frame, once sent, is *)
(* never sent again.                                                       *)
(***************************************************************************)
EXTENDS Bridge, SequenceTheorems, TLAPS

-----------------------------------------------------------------------------
(* Queues of records that carry an id.                                     *)

Has(queue, id) == \E i \in 1 .. Len(queue) : queue[i].id = id
Distinct(queue) == \A i, j \in 1 .. Len(queue) : queue[i].id = queue[j].id => i = j

\* What pushing x does to the ids of a queue.
LEMMA AppendIds ==
  ASSUME NEW S, NEW queue \in Seq(S), NEW x \in S
  PROVE  /\ Append(queue, x) \in Seq(S) /\ Len(Append(queue, x)) = Len(queue) + 1
         /\ \A id : Has(Append(queue, x), id) <=> Has(queue, id) \/ x.id = id
         /\ Distinct(queue) /\ ~Has(queue, x.id) => Distinct(Append(queue, x))
<1> DEFINE longer == Append(queue, x)
           n == Len(queue)
<1>1. /\ longer \in Seq(S) /\ Len(longer) = n + 1 /\ n \in Nat
      /\ longer[n + 1] = x /\ \A i \in 1 .. n : longer[i] = queue[i]
  BY AppendProperties, LenProperties
<1> HIDE DEF longer, n
<1>2. \A id : Has(longer, id) <=> Has(queue, id) \/ x.id = id
  BY <1>1 DEF Has, n
<1>3. Distinct(queue) /\ ~Has(queue, x.id) => Distinct(longer)
  BY <1>1 DEF Has, Distinct, n
<1> QED BY <1>1, <1>2, <1>3 DEF longer, n

\* What popping the head does.
LEMMA TailIds ==
  ASSUME NEW S, NEW queue \in Seq(S), queue # <<>>
  PROVE  /\ Tail(queue) \in Seq(S) /\ Len(Tail(queue)) = Len(queue) - 1
         /\ Head(queue) \in S /\ Has(queue, Head(queue).id)
         /\ \A id : Has(Tail(queue), id) => Has(queue, id)
         /\ \A i \in 1 .. Len(Tail(queue)) : i + 1 \in 1 .. Len(queue) /\ Tail(queue)[i] = queue[i + 1]
         /\ Distinct(queue) => Distinct(Tail(queue)) /\ ~Has(Tail(queue), Head(queue).id)
<1> DEFINE rest == Tail(queue)
           n == Len(queue)
<1>1. /\ rest \in Seq(S) /\ Len(rest) = n - 1 /\ n \in Nat \ {0}
      /\ \A i \in 1 .. Len(rest) : rest[i] = queue[i + 1]
      /\ Head(queue) = queue[1] /\ Head(queue) \in S
  BY HeadTailProperties, EmptySeq, LenProperties
<1> HIDE DEF rest, n
<1>2. Has(queue, Head(queue).id) /\ \A id : Has(rest, id) => Has(queue, id)
  BY <1>1 DEF Has, n
<1>3. Distinct(queue) => Distinct(rest) /\ ~Has(rest, Head(queue).id)
  BY <1>1 DEF Has, Distinct, n
<1>4. \A i \in 1 .. Len(rest) : i + 1 \in 1 .. n
  BY <1>1
<1> QED BY <1>1, <1>2, <1>3, <1>4 DEF rest, n

\* An empty queue has no request, and none twice.
LEMMA EmptyIds == Distinct(<<>>) /\ \A id : ~Has(<<>>, id)
BY DEF Has, Distinct

-----------------------------------------------------------------------------
(* The invariant.                                                          *)

Unsent == {"popped", "loop", "ensuring", "dialing", "dialed", "sending"}
Awaiting == {"sent", "reading"}
WithAnswer == {"answered", "stamped"}

\* The worker's locals at each of its places: an answer in hand is that of the request in hand.
WorkerTypes ==
  /\ "at" \in DOMAIN worker /\ worker.at \in Places
  /\ worker.at \notin Free => /\ "id" \in DOMAIN worker /\ worker.id \in Ids
                              /\ "expires" \in DOMAIN worker /\ worker.expires \in Nat
  /\ worker.at \in WithAnswer => worker.answers = worker.id /\ worker.answer \in Answers
  /\ worker.at = "stamped" => worker.stamp \in Nat

\* The sidecar owes an answer to the request in hand, once its frame is sent, and to no other.
OneUnanswered == unanswered = IF worker.at \in Awaiting THEN <<worker.id>> ELSE <<>>

\* A request is in one place of the bridge at most.
OnePlace ==
  /\ Distinct(requests)
  /\ \A id \in Ids : Has(requests, id) => ~Held(id)
  /\ \A id \in Ids : Has(requests, id) \/ Held(id) => accepted[id] >= 1

Pending(id) ==
  \/ Has(requests, id)
  \/ worker.at \in Unsent /\ worker.id = id

\* A request whose frame is still to be sent has been taken once more than it was sent.
SendsLeft ==
  \A id \in Ids : /\ sent[id] <= accepted[id]
                  /\ Pending(id) => sent[id] < accepted[id]

BridgeInv ==
  /\ TypeOK
  /\ DOMAIN replies = Lanes
  /\ WorkerTypes
  /\ OneUnanswered
  /\ AnswersItsRequest
  /\ OnePlace
  /\ SendsLeft

-----------------------------------------------------------------------------
(* The worker's steps.                                                     *)

\* A step that sends nothing, queues nothing and picks nothing up: the worker goes on
\* with what it has in hand, or lets go of it.
Quiet(from, to) ==
  /\ Moves(from, to)
  /\ to \in Places \ WithAnswer
  /\ from \in Free => to \in Free
  /\ to \in Unsent => from \in Unsent
  /\ to \in Awaiting => from \in Awaiting /\ unanswered' = unanswered
  /\ to \notin Awaiting => unanswered' = <<>>
  /\ socket' \in {"none", "open", "closed"}
  /\ KeepWorld /\ UNCHANGED <<queues, sent>>

\* Where Moves leaves the worker, and with what.
LEMMA MovesTo ==
  ASSUME BridgeInv, NEW from, NEW to, Moves(from, to), from \in Free => to \in Free
  PROVE  /\ worker'.at = to /\ "at" \in DOMAIN worker'
         /\ to \notin Free => /\ worker'.id = worker.id /\ worker'.expires = worker.expires
                              /\ "id" \in DOMAIN worker' /\ "expires" \in DOMAIN worker'
                              /\ worker.at \notin Free
BY DEF BridgeInv, WorkerTypes, Moves

\* A step of the worker that only moves it on, between places that agree on what it has
\* in hand and on the wire, keeps the invariant.
LEMMA QuietKeeps ==
  ASSUME BridgeInv, NEW from, NEW to, Quiet(from, to) PROVE BridgeInv'
<1>1. /\ worker.at = from /\ worker'.at = to /\ "at" \in DOMAIN worker'
      /\ to \notin Free => /\ worker'.id = worker.id /\ worker'.expires = worker.expires
                           /\ "id" \in DOMAIN worker' /\ "expires" \in DOMAIN worker'
                           /\ worker.at \notin Free
  BY MovesTo DEF Quiet, Moves
<1>2. /\ UNCHANGED <<clock, requests, replies, shut, stopped, stopRequested, stopping,
                     accepted, sent>>
      /\ to \in Places \ WithAnswer /\ socket' \in {"none", "open", "closed"}
  BY DEF Quiet, KeepWorld, flags, queues
<1>3. WorkerTypes'
  BY <1>1, <1>2 DEF BridgeInv, WorkerTypes, WithAnswer
<1>4. OneUnanswered'
  BY <1>1 DEF BridgeInv, OneUnanswered, Quiet, Awaiting, Free
<1>5. TypeOK' /\ (DOMAIN replies = Lanes)' /\ AnswersItsRequest'
  <2>1. unanswered' \in Seq(Ids)
    BY <1>4, <1>3, <1>1 DEF OneUnanswered, WorkerTypes, Awaiting, Free
  <2> QED BY <1>1, <1>2, <2>1 DEF BridgeInv, TypeOK, AnswersItsRequest
<1>6. \A id : /\ Held(id)' => Held(id) /\ Has(requests, id)' = Has(requests, id)
              /\ Pending(id)' => Pending(id)
  <2>1. \A id : Held(id)' => Held(id)
    BY <1>1 DEF Held
  <2>2. to \in Unsent => from \in Unsent /\ to \notin Free
    BY DEF Quiet, Unsent, Free
  <2> QED BY <1>1, <1>2, <2>1, <2>2 DEF Pending, Has
<1>7. OnePlace' /\ SendsLeft'
  BY <1>2, <1>6 DEF BridgeInv, OnePlace, SendsLeft, Distinct, Has
<1> QED BY <1>3, <1>4, <1>5, <1>7 DEF BridgeInv

\* The steps of the worker that are quiet.
QuietStep ==
  \/ CheckStop \/ WaitEnds \/ Discard \/ Serialize \/ Attempt \/ EnsureConnected
  \/ DialFails \/ DialSucceeds \/ Install \/ SendFails \/ StartRead \/ NoRead
  \/ LoseAnswer \/ Exit

\* The dials, the waits and the failures of the worker are such steps.
LEMMA QuietSteps ==
  ASSUME BridgeInv, QuietStep PROVE \E from, to : Quiet(from, to)
<1> USE DEF BridgeInv, TypeOK, OneUnanswered, Moves, KeepSocket, DiscardSocket, Unsent, Awaiting,
            WithAnswer, Free, Places
<1>1. CASE CheckStop
  BY <1>1 DEF CheckStop, Quiet
<1>2. CASE WaitEnds
  BY <1>2 DEF WaitEnds, Quiet
<1>3. CASE Discard
  <2>1. Quiet("popped", "top")
    BY <1>3 DEF Discard, Quiet
  <2> QED BY <2>1
<1>4. CASE Serialize
  BY <1>4 DEF Serialize, Quiet
<1>5. CASE Attempt
  BY <1>5 DEF Attempt, Quiet
<1>6. CASE EnsureConnected
  <2>1. Quiet("ensuring", IF stopped THEN "loop" ELSE IF socket = "open" THEN "sending" ELSE "dialing")
    BY <1>6 DEF EnsureConnected, Quiet
  <2> QED BY <2>1
<1>7. CASE DialFails
  BY <1>7 DEF DialFails, Quiet
<1>8. CASE DialSucceeds
  BY <1>8 DEF DialSucceeds, Quiet
<1>9. CASE Install
  BY <1>9 DEF Install, Quiet
<1>10. CASE SendFails
  BY <1>10 DEF SendFails, Quiet
<1>11. CASE StartRead
  BY <1>11 DEF StartRead, Quiet
<1>12. CASE NoRead
  <2>1. Quiet("sent", "top")
    BY <1>12 DEF NoRead, Quiet
  <2> QED BY <2>1
<1>13. CASE LoseAnswer
  <2>1. Quiet("reading", "top")
    BY <1>13 DEF LoseAnswer, Quiet
  <2> QED BY <2>1
<1>14. CASE Exit
  <2>1. Quiet("exiting", "done")
    BY <1>14 DEF Exit, Quiet
  <2> QED BY <2>1
<1> QED BY <1>1, <1>2, <1>3, <1>4, <1>5, <1>6, <1>7, <1>8, <1>9, <1>10, <1>11, <1>12, <1>13,
           <1>14 DEF QuietStep

\* The request in hand was at the head of the queue.
LEMMA PopKeeps == ASSUME BridgeInv, Pop PROVE BridgeInv'
<1> USE DEF BridgeInv
<1> DEFINE head == Head(requests)
<1>1. /\ worker.at = "waiting" /\ requests # <<>> /\ requests \in Seq(Request)
      /\ worker' = [at |-> "popped", id |-> head.id, expires |-> head.expires]
      /\ requests' = Tail(requests)
      /\ UNCHANGED <<clock, replies, shut, stopped, stopRequested, stopping, socket, unanswered,
                     accepted, sent>>
  BY DEF Pop, KeepWorld, KeepSocket, flags, TypeOK
<1>2. /\ requests' \in Seq(Request) /\ Len(requests') = Len(requests) - 1
      /\ head \in Request /\ Has(requests, head.id)
      /\ \A id : Has(requests', id) => Has(requests, id)
      /\ Distinct(requests) => Distinct(requests') /\ ~Has(requests', head.id)
  BY <1>1, TailIds
<1> HIDE DEF head
<1>3. head.id \in Ids /\ head.expires \in Nat
  BY <1>2 DEF Request
<1>4. worker'.at = "popped" /\ worker'.id = head.id /\ worker'.expires = head.expires
  BY <1>1
<1>5. WorkerTypes' /\ OneUnanswered'
  BY <1>1, <1>3, <1>4 DEF WorkerTypes, OneUnanswered, Awaiting, WithAnswer, Places, Free
<1>6. TypeOK' /\ AnswersItsRequest' /\ (DOMAIN replies = Lanes)'
  <2>1. Len(requests') <= Capacity
    BY <1>1, <1>2, BridgeAssumption, LenProperties DEF TypeOK
  <2> QED BY <1>1, <1>2, <1>4, <2>1 DEF TypeOK, AnswersItsRequest, Places
<1>7. \A id : Held(id)' <=> id = head.id
  BY <1>4 DEF Held, Free
<1>8. OnePlace'
  BY <1>1, <1>2, <1>7 DEF OnePlace
<1>9. \A id : Pending(id)' => Pending(id)
  BY <1>2, <1>1, <1>4 DEF Pending
<1>10. SendsLeft'
  BY <1>1, <1>9 DEF SendsLeft
<1> QED BY <1>5, <1>6, <1>8, <1>10

\* A frame goes out when none is unanswered, and leaves nothing to send of its request.
LEMMA SendFrameKeeps == ASSUME BridgeInv, SendFrame PROVE BridgeInv'
<1> USE DEF BridgeInv
<1>1. /\ worker.at = "sending" /\ worker.id \in Ids
      /\ UNCHANGED <<clock, requests, replies, shut, stopped, stopRequested, stopping, socket,
                     accepted>>
      /\ sent' = [sent EXCEPT ![worker.id] = @ + 1]
      /\ unanswered' = Append(unanswered, worker.id)
  BY DEF SendFrame, Moves, KeepWorld, flags, queues, WorkerTypes, Free
<1>2. /\ worker'.at = "sent" /\ worker'.id = worker.id /\ worker'.expires = worker.expires
      /\ "at" \in DOMAIN worker' /\ "id" \in DOMAIN worker' /\ "expires" \in DOMAIN worker'
      /\ worker'.expires \in Nat
  BY MovesTo DEF SendFrame, Free, WorkerTypes
<1>3. unanswered = <<>>
  BY <1>1 DEF OneUnanswered, Awaiting
<1>4. WorkerTypes' /\ OneUnanswered'
  <2>1. unanswered' = <<worker'.id>>
    BY <1>1, <1>2, <1>3
  <2> QED BY <1>1, <1>2, <2>1 DEF WorkerTypes, OneUnanswered, Awaiting, WithAnswer, Places
<1>5. sent \in [Ids -> Nat] /\ accepted \in [Ids -> Nat]
  BY DEF TypeOK
<1>6. TypeOK' /\ AnswersItsRequest' /\ (DOMAIN replies = Lanes)'
  <2>1. unanswered' \in Seq(Ids)
    BY <1>1, <1>3
  <2>2. sent' \in [Ids -> Nat]
    BY <1>1, <1>5
  <2> QED BY <1>1, <1>2, <2>1, <2>2 DEF TypeOK, AnswersItsRequest, Places
<1>7. \A id : Held(id)' <=> Held(id)
  BY <1>1, <1>2 DEF Held, Free
<1>8. OnePlace'
  BY <1>1, <1>7 DEF OnePlace
<1>9. \A id : Has(requests, id)' = Has(requests, id)
  BY <1>1
<1>10. Pending(worker.id) /\ ~Has(requests, worker.id)
  BY <1>1 DEF Pending, Unsent, OnePlace, Held, Free
<1>11. \A id : Pending(id)' => Pending(id) /\ id # worker.id
  BY <1>1, <1>2, <1>9, <1>10 DEF Pending, Unsent
<1>12. SendsLeft'
  BY <1>1, <1>5, <1>10, <1>11 DEF SendsLeft
<1> QED BY <1>4, <1>6, <1>8, <1>12

\* The answer read is the answer owed.
LEMMA ReadAnswerKeeps ==
  ASSUME BridgeInv, NEW answer \in Answers, ReadAnswer(answer) PROVE BridgeInv'
<1> USE DEF BridgeInv
<1>1. /\ worker.at = "reading" /\ worker.id \in Ids /\ worker.expires \in Nat
      /\ UNCHANGED <<clock, requests, replies, shut, stopped, stopRequested, stopping, socket,
                     accepted, sent>>
      /\ worker' = [at |-> "answered", id |-> worker.id, expires |-> worker.expires,
                    answers |-> Head(unanswered), answer |-> answer]
      /\ unanswered' = Tail(unanswered)
  BY DEF ReadAnswer, KeepWorld, flags, queues, WorkerTypes, Free
<1>2. unanswered = <<worker.id>>
  BY <1>1 DEF OneUnanswered, Awaiting
<1>3. Head(unanswered) = worker.id /\ unanswered' = <<>>
  BY <1>1, <1>2
<1>4. /\ worker'.at = "answered" /\ worker'.id = worker.id /\ worker'.expires = worker.expires
      /\ worker'.answers = worker'.id /\ worker'.answer = answer
      /\ "at" \in DOMAIN worker' /\ "id" \in DOMAIN worker' /\ "expires" \in DOMAIN worker'
  BY <1>1, <1>3
<1>5. WorkerTypes' /\ OneUnanswered'
  BY <1>1, <1>3, <1>4 DEF WorkerTypes, OneUnanswered, Awaiting, WithAnswer, Places
<1>6. TypeOK' /\ AnswersItsRequest' /\ (DOMAIN replies = Lanes)'
  <2>1. unanswered' \in Seq(Ids)
    BY <1>3
  <2>2. UNCHANGED <<clock, requests, replies, shut, stopped, stopRequested, stopping, socket,
                    accepted, sent>>
    BY <1>1
  <2>3. worker'.at \in Places
    BY <1>4 DEF Places
  <2> HIDE DEF BridgeInv
  <2>4. TypeOK /\ AnswersItsRequest /\ DOMAIN replies = Lanes
    BY DEF BridgeInv
  <2> QED BY <2>1, <2>2, <2>3, <2>4 DEF TypeOK, AnswersItsRequest
<1>7. \A id : Held(id)' <=> Held(id)
  BY <1>1, <1>4 DEF Held, Free
<1>8. OnePlace'
  BY <1>1, <1>7 DEF OnePlace
<1>9. \A id : Pending(id)' => Pending(id)
  BY <1>1, <1>4 DEF Pending, Unsent
<1>10. SendsLeft'
  BY <1>1, <1>9 DEF SendsLeft
<1> QED BY <1>5, <1>6, <1>8, <1>10

\* An answer is judged by the clock without changing hands (PlayerbotLLM.cpp:2361-2374).
LEMMA JudgeKeeps == ASSUME BridgeInv, Judge PROVE BridgeInv'
<1> USE DEF BridgeInv
<1>1. /\ worker.at = "answered" /\ worker.id \in Ids /\ worker.expires \in Nat
      /\ worker.answers = worker.id /\ worker.answer \in Answers /\ clock \in Nat
      /\ UNCHANGED <<clock, requests, replies, shut, stopped, stopRequested, stopping, socket,
                     unanswered, accepted, sent>>
  BY DEF Judge, KeepWorld, KeepSocket, flags, queues, WorkerTypes, WithAnswer, Free, TypeOK
<1>2. \/ worker' = [at |-> "top"]
      \/ worker' = [at |-> "stamped", id |-> worker.id, expires |-> worker.expires,
                    answers |-> worker.answers, answer |-> worker.answer, stamp |-> clock]
  BY DEF Judge
<1>3. /\ worker'.at \in {"top", "stamped"} /\ "at" \in DOMAIN worker'
      /\ worker'.at = "stamped" =>
           /\ worker'.id = worker.id /\ worker'.expires = worker.expires
           /\ worker'.answers = worker.answers /\ worker'.answer = worker.answer
           /\ worker'.stamp = clock /\ "id" \in DOMAIN worker' /\ "expires" \in DOMAIN worker'
  BY <1>2
<1>4. WorkerTypes' /\ OneUnanswered'
  BY <1>1, <1>3 DEF WorkerTypes, OneUnanswered, Awaiting, WithAnswer, Places, Free
<1>5. TypeOK' /\ AnswersItsRequest' /\ (DOMAIN replies = Lanes)'
  BY <1>1, <1>3 DEF TypeOK, AnswersItsRequest, Places
<1>6. \A id : Held(id)' => Held(id)
  BY <1>1, <1>3 DEF Held, Free
<1>7. OnePlace'
  BY <1>1, <1>6 DEF OnePlace
<1>8. \A id : Pending(id)' => Pending(id)
  BY <1>1, <1>3 DEF Pending, Unsent
<1>9. SendsLeft'
  BY <1>1, <1>8 DEF SendsLeft
<1> QED BY <1>4, <1>5, <1>7, <1>9

\* What TryPush does to the lane of the request in hand.
TheReply == [id |-> worker.id, answers |-> worker.answers, answer |-> worker.answer,
             at |-> worker.stamp]

\* What the worker pushes is the answer of the request it has, on that request's lane, and
\* only if the lane has room: else it is dropped (PlayerbotLLM.cpp:2374).
LEMMA PushReplyEffect ==
  ASSUME BridgeInv, PushReply
  PROVE  /\ worker.at = "stamped" /\ worker.id \in Ids /\ worker'.at = "top"
         /\ TheReply \in Reply /\ TheReply.id = worker.id /\ TheReply.answers = worker.id
         /\ LaneOf[worker.id] \in Lanes
         /\ \/ replies' = replies
            \/ /\ Len(replies[LaneOf[worker.id]]) < Capacity
               /\ replies' = [replies EXCEPT ![LaneOf[worker.id]] = Append(@, TheReply)]
         /\ UNCHANGED <<clock, requests, shut, stopped, stopRequested, stopping, socket,
                        unanswered, accepted, sent>>
<1> USE DEF BridgeInv
<1>1. /\ worker.at = "stamped" /\ worker.id \in Ids /\ worker.answers = worker.id
      /\ worker.answer \in Answers /\ worker.stamp \in Nat
  BY DEF PushReply, WorkerTypes, WithAnswer, Free
<1>2. worker'.at = "top"
  BY DEF PushReply, Moves, Free
<1>3. /\ TheReply \in Reply /\ TheReply.id = worker.id /\ TheReply.answers = worker.id
  BY <1>1 DEF TheReply, Reply
<1>4. LaneOf[worker.id] \in Lanes
  BY <1>1, BridgeAssumption
<1>5. Len(replies[LaneOf[worker.id]]) \in Nat /\ Capacity \in Nat
  BY <1>4, BridgeAssumption, LenProperties DEF TypeOK
<1>6. \/ replies' = replies
      \/ /\ ~(Len(replies[LaneOf[worker.id]]) >= Capacity)
         /\ replies' = [replies EXCEPT ![LaneOf[worker.id]] = Append(@, TheReply)]
  BY DEF PushReply, TheReply
<1>7. UNCHANGED <<clock, requests, shut, stopped, stopRequested, stopping, socket,
                  unanswered, accepted, sent>>
  BY DEF PushReply, KeepWorld, KeepSocket, flags
<1> QED BY <1>1, <1>2, <1>3, <1>4, <1>5, <1>6, <1>7

\* So answers stay those of their requests when one is queued.
LEMMA PushReplyKeeps == ASSUME BridgeInv, PushReply PROVE BridgeInv'
<1> USE DEF BridgeInv
<1> DEFINE lane == LaneOf[worker.id]
<1>1. /\ worker.at = "stamped" /\ worker.id \in Ids /\ worker'.at = "top" /\ "at" \in DOMAIN worker'
      /\ UNCHANGED <<clock, requests, shut, stopped, stopRequested, stopping, socket,
                     unanswered, accepted, sent>>
  BY PushReplyEffect DEF PushReply, Moves, Free
<1>2. DOMAIN replies' = Lanes
  BY PushReplyEffect
<1>3. /\ \A l \in Lanes : replies'[l] \in Seq(Reply) /\ Len(replies'[l]) <= Capacity
      /\ AnswersItsRequest'
  <2>1. CASE replies' = replies
    BY <2>1 DEF TypeOK, AnswersItsRequest
  <2>2. CASE /\ Len(replies[lane]) < Capacity
             /\ replies' = [replies EXCEPT ![lane] = Append(@, TheReply)]
    <3>1. /\ lane \in Lanes /\ replies[lane] \in Seq(Reply) /\ TheReply \in Reply
          /\ TheReply.id = worker.id /\ TheReply.answers = worker.id
      BY PushReplyEffect DEF TypeOK
    <3>2. replies'[lane] = Append(replies[lane], TheReply)
          /\ \A l \in Lanes \ {lane} : replies'[l] = replies[l]
      BY <2>2, <3>1
    <3> DEFINE n == Len(replies[lane])
    <3>3. /\ n \in Nat /\ replies'[lane] \in Seq(Reply) /\ Len(replies'[lane]) = n + 1
          /\ replies'[lane][n + 1] = TheReply
          /\ \A i \in 1 .. n : replies'[lane][i] = replies[lane][i]
      BY <3>1, <3>2, AppendProperties, LenProperties
    <3>4. Capacity \in Nat /\ n < Capacity
      BY <2>2, BridgeAssumption
    <3> HIDE DEF n
    <3>5. \A l \in Lanes : replies'[l] \in Seq(Reply) /\ Len(replies'[l]) <= Capacity
      <4>1. replies'[lane] \in Seq(Reply) /\ Len(replies'[lane]) <= Capacity
        BY <3>3, <3>4
      <4> QED BY <3>2, <4>1 DEF TypeOK
    <3>6. ASSUME NEW l \in Lanes, NEW i \in 1 .. Len(replies'[l])
          PROVE  replies'[l][i].answers = replies'[l][i].id /\ LaneOf[replies'[l][i].id] = l
      <4>1. CASE l = lane /\ i = n + 1
        BY <3>1, <3>3, <4>1
      <4>2. CASE l = lane /\ i # n + 1
        <5>1. i \in 1 .. n /\ replies'[l][i] = replies[lane][i]
          BY <3>3, <4>2
        <5> QED BY <3>1, <4>2, <5>1 DEF AnswersItsRequest, n
      <4>3. CASE l # lane
        BY <3>2, <4>3 DEF AnswersItsRequest
      <4> QED BY <4>1, <4>2, <4>3
    <3>7. AnswersItsRequest'
      BY <3>6 DEF AnswersItsRequest
    <3> QED BY <3>5, <3>7
  <2> QED BY <2>1, <2>2, PushReplyEffect
<1>4. WorkerTypes' /\ OneUnanswered'
  BY <1>1 DEF WorkerTypes, OneUnanswered, Awaiting, WithAnswer, Places, Free
<1>5. TypeOK'
  BY <1>1, <1>3 DEF TypeOK, Places
<1>6. \A id : ~Held(id)'
  BY <1>1 DEF Held, Free
<1>7. OnePlace'
  BY <1>1, <1>6 DEF OnePlace
<1>8. \A id : Pending(id)' => Pending(id)
  BY <1>1 DEF Pending, Unsent
<1>9. SendsLeft'
  BY <1>1, <1>8 DEF SendsLeft
<1> QED BY <1>2, <1>3, <1>4, <1>5, <1>7, <1>9

\* The worker's steps and the sidecar's keep the invariant.
LEMMA WorkerKeeps == ASSUME BridgeInv, WorkerStep \/ SidecarStep PROVE BridgeInv'
<1>1. CASE QuietStep
  BY <1>1, QuietSteps, QuietKeeps
<1> QED BY <1>1, PopKeeps, SendFrameKeeps, ReadAnswerKeeps, JudgeKeeps, PushReplyKeeps
        DEF WorkerStep, SidecarStep, AbortedRead, QuietStep

-----------------------------------------------------------------------------
(* The world thread's steps.                                               *)

\* A request may be queued again once the bridge has let go of it.
LEMMA PushKeeps ==
  ASSUME BridgeInv, NEW id \in Ids, NEW expires \in Nat,
         Len(requests) < Capacity, ~Has(requests, id), ~Held(id), Push(id, expires),
         UNCHANGED <<clock, replies, shut, flags, socket, unanswered, worker, sent>>
  PROVE  /\ BridgeInv'
         /\ requests' = Append(requests, [id |-> id, expires |-> expires])
         /\ \A other : Has(requests', other) <=> Has(requests, other) \/ other = id
<1> USE DEF BridgeInv
<1> DEFINE request == [id |-> id, expires |-> expires]
<1>1. /\ requests' = Append(requests, request) /\ requests \in Seq(Request)
      /\ accepted' = [accepted EXCEPT ![id] = @ + 1]
      /\ accepted \in [Ids -> Nat] /\ sent \in [Ids -> Nat]
      /\ UNCHANGED <<clock, replies, shut, stopped, stopRequested, stopping, socket, unanswered,
                     worker, sent>>
  BY DEF Push, TypeOK, flags
<1>2. request \in Request /\ request.id = id
  BY DEF Request
<1> HIDE DEF request
<1>3. /\ requests' \in Seq(Request) /\ Len(requests') = Len(requests) + 1
      /\ \A other : Has(requests', other) <=> Has(requests, other) \/ other = id
      /\ Distinct(requests')
  BY <1>1, <1>2, AppendIds DEF OnePlace
<1>4. /\ accepted' \in [Ids -> Nat] /\ accepted'[id] = accepted[id] + 1
      /\ \A other \in Ids \ {id} : accepted'[other] = accepted[other]
  BY <1>1
<1>5. TypeOK'
  <2>1. Len(requests') <= Capacity
    BY <1>1, <1>3, BridgeAssumption, LenProperties
  <2> QED BY <1>1, <1>3, <1>4, <2>1 DEF TypeOK
<1>6. (DOMAIN replies = Lanes)' /\ WorkerTypes' /\ OneUnanswered' /\ AnswersItsRequest'
  BY <1>1 DEF WorkerTypes, OneUnanswered, AnswersItsRequest
<1>7. \A other : Held(other)' <=> Held(other)
  BY <1>1 DEF Held
<1>8. OnePlace'
  BY <1>1, <1>3, <1>4, <1>7 DEF OnePlace
<1>9. ASSUME NEW other \in Ids
      PROVE  sent'[other] <= accepted'[other] /\ (Pending(other)' => sent'[other] < accepted'[other])
  <2>1. CASE other = id
    BY <1>1, <1>4, <2>1 DEF SendsLeft
  <2>2. CASE other # id
    <3>1. Pending(other)' => Pending(other)
      BY <1>1, <1>3, <2>2 DEF Pending
    <3> QED BY <1>1, <1>4, <2>2, <3>1 DEF SendsLeft
  <2> QED BY <2>1, <2>2
<1>10. SendsLeft'
  BY <1>9 DEF SendsLeft
<1> QED BY <1>1, <1>3, <1>5, <1>6, <1>8, <1>10 DEF request

\* A request that was never taken is nowhere in the bridge, and is then in one queue.
LEMMA EnqueueKeeps == ASSUME BridgeInv, NEW id \in Ids, Enqueue(id) PROVE BridgeInv'
<1>1. Len(requests) < Capacity /\ accepted[id] = 0 /\ clock + Deadline \in Nat
  BY BridgeAssumption DEF Enqueue, CanEnqueue, BridgeInv, TypeOK
<1>2. ~Has(requests, id) /\ ~Held(id)
  BY <1>1 DEF BridgeInv, OnePlace
<1> QED BY <1>1, <1>2, PushKeeps DEF Enqueue

\* Draining a lane loses no request that is not answered.
LEMMA TakenKeeps ==
  ASSUME BridgeInv, NEW lane \in Lanes, replies' = [replies EXCEPT ![lane] = <<>>],
         UNCHANGED <<clock, requests, shut, flags, socket, unanswered, worker, histories>>
  PROVE  BridgeInv'
<1> USE DEF BridgeInv, flags, histories
<1>1. /\ DOMAIN replies' = Lanes /\ replies'[lane] = <<>>
      /\ \A l \in Lanes \ {lane} : replies'[l] = replies[l]
  OBVIOUS
<1>2. \A l \in Lanes : replies'[l] \in Seq(Reply) /\ Len(replies'[l]) <= Capacity
  <2>1. <<>> \in Seq(Reply) /\ Len(<<>>) = 0 /\ 0 <= Capacity
    BY BridgeAssumption
  <2> QED BY <1>1, <2>1 DEF TypeOK
<1>3. TypeOK'
  BY <1>2 DEF TypeOK
<1>4. AnswersItsRequest'
  <2>1. Len(<<>>) = 0
    OBVIOUS
  <2> QED BY <1>1, <2>1 DEF AnswersItsRequest
<1>5. WorkerTypes' /\ OneUnanswered'
  BY DEF WorkerTypes, OneUnanswered
<1>6. OnePlace' /\ SendsLeft'
  BY DEF OnePlace, SendsLeft, Held, Pending
<1> QED BY <1>1, <1>3, <1>4, <1>5, <1>6

\* Time passes, and Stop raises its flags and closes what it can reach.
LEMMA AroundKeeps ==
  ASSUME BridgeInv, UNCHANGED <<requests, replies, unanswered, worker, histories>>,
         clock' \in Nat, shut' \subseteq {"requests", "chat", "social"},
         stopped' \in BOOLEAN, stopRequested' \in BOOLEAN,
         socket' \in {"none", "open", "closed"}, stopping' \in Stops
  PROVE  BridgeInv'
<1> USE DEF BridgeInv, histories
<1>1. TypeOK'
  BY DEF TypeOK
<1>2. WorkerTypes' /\ OneUnanswered' /\ AnswersItsRequest'
  BY DEF WorkerTypes, OneUnanswered, AnswersItsRequest
<1>3. OnePlace' /\ SendsLeft'
  BY DEF OnePlace, SendsLeft, Held, Pending
<1> QED BY <1>1, <1>2, <1>3

\* The clock touches nothing of the bridge.
LEMMA TickKeeps ==
  ASSUME BridgeInv, clock' = clock + 1,
         UNCHANGED <<queues, flags, socket, unanswered, worker, histories>>
  PROVE  BridgeInv'
<1>1. TypeOK
  BY DEF BridgeInv
<1> QED BY <1>1, AroundKeeps DEF TypeOK, queues, flags

\* Raising the flag moves no request.
LEMMA StopFlagKeeps == ASSUME BridgeInv, StopFlag PROVE BridgeInv'
<1>1. TypeOK
  BY DEF BridgeInv
<1> QED BY <1>1, AroundKeeps DEF StopFlag, TypeOK, queues, Stops

\* Stop shuts the queues, closes the socket and joins the worker.
LEMMA StopStepKeeps == ASSUME BridgeInv, StopStep PROVE BridgeInv'
<1>1. TypeOK
  BY DEF BridgeInv
<1>2. ASSUME StopRequest PROVE BridgeInv'
  BY <1>1, <1>2, AroundKeeps DEF StopRequest, TypeOK, queues, Stops
<1>3. ASSUME NEW from, NEW queue \in {"requests", "chat", "social"}, StopQueue(from, queue)
      PROVE  BridgeInv'
  BY <1>1, <1>3, AroundKeeps DEF StopQueue, TypeOK, Stops
<1>4. ASSUME AbortSocket PROVE BridgeInv'
  BY <1>1, <1>4, AroundKeeps DEF AbortSocket, TypeOK, queues, Stops
<1>5. ASSUME Join PROVE BridgeInv'
  BY <1>1, <1>5, AroundKeeps DEF Join, TypeOK, queues, Stops
<1> QED BY <1>2, <1>3, <1>4, <1>5 DEF StopStep

-----------------------------------------------------------------------------
(* The theorems.                                                           *)

\* At first nothing is queued, in hand or on the wire.
LEMMA BridgeInit == Init => BridgeInv
<1> SUFFICES ASSUME Init PROVE BridgeInv
  OBVIOUS
<1>1. \A S : <<>> \in Seq(S)
  OBVIOUS
<1>2. Len(<<>>) = 0 /\ 0 <= Capacity
  BY BridgeAssumption
<1>3. TypeOK
  BY <1>1, <1>2 DEF Init, TypeOK, Places, Stops
<1>4. WorkerTypes /\ OneUnanswered /\ AnswersItsRequest /\ DOMAIN replies = Lanes
  BY <1>2 DEF Init, WorkerTypes, OneUnanswered, AnswersItsRequest, Places, Free, WithAnswer,
              Awaiting
<1>5. OnePlace /\ SendsLeft
  BY EmptyIds DEF Init, OnePlace, SendsLeft, Held, Pending, Free, Unsent
<1> QED BY <1>3, <1>4, <1>5 DEF BridgeInv

\* Every step of either thread or of the sidecar keeps the invariant.
LEMMA BridgeStep == ASSUME BridgeInv, [Next]_vars PROVE BridgeInv'
<1>1. CASE UNCHANGED vars
  <2>1. TypeOK
    BY DEF BridgeInv
  <2> QED BY <1>1, <2>1, AroundKeeps DEF vars, histories, TypeOK
<1>2. CASE Tick
  BY <1>2, TickKeeps DEF Tick
<1>3. ASSUME NEW lane \in Lanes, Drain(lane) PROVE BridgeInv'
  BY <1>3, TakenKeeps DEF Drain
<1> QED BY <1>1, <1>2, <1>3, EnqueueKeeps, StopFlagKeeps, StopStepKeeps, WorkerKeeps
        DEF Next, Finished

\* Wherever the threads are, what the worker has in hand, in the queues and on the wire
\* is of one request each.
THEOREM BridgeInvariant == Spec => []BridgeInv
<1>1. BridgeInv /\ [Next]_vars => BridgeInv'
  BY BridgeStep
<1> QED BY <1>1, BridgeInit, PTL DEF Spec

\* The queues stay within their capacity and every place keeps its types.
THEOREM BridgeTypes == Spec => []TypeOK
<1>1. BridgeInv => TypeOK
  BY DEF BridgeInv
<1> QED BY <1>1, BridgeInvariant, PTL

\* A frame reaches the sidecar at most once for each time its request was taken
\* (PlayerbotLLM.cpp:2344-2368).
THEOREM FramesAreSentOnce == Spec => []SentOnce
<1>1. BridgeInv => SentOnce
  BY DEF BridgeInv, SendsLeft, SentOnce
<1> QED BY <1>1, BridgeInvariant, PTL

\* An answer on a lane is the answer of the request it is filed under
\* (PlayerbotLLM.cpp:2361-2368).
THEOREM AnswersAreOfTheirRequest == Spec => []AnswersItsRequest
<1>1. BridgeInv => AnswersItsRequest
  BY DEF BridgeInv
<1> QED BY <1>1, BridgeInvariant, PTL
=============================================================================
