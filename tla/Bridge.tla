------------------------------- MODULE Bridge -------------------------------
(***************************************************************************)
(* The module's bridge to the sidecar: PlayerbotLLM.cpp, struct            *)
(* Bridge::Impl and the BoundedQueues of PlayerbotLLM.h.                   *)
(*                                                                         *)
(* Two threads.  The world thread enqueues requests, drains the response   *)
(* queue of each lane and finally stops the bridge.  The worker takes one  *)
(* request at a time, connects, sends its frame, waits for the answer and  *)
(* queues it on the lane of the request.  They share the queues, each      *)
(* under its own mutex, the socket under another, and two flags.           *)
(*                                                                         *)
(* The sidecar answers the frames of a connection in order, closes it, or  *)
(* hangs.  A read that hangs is ended by the socket's receive timeout, by  *)
(* the peer or by Stop; only the last is certain.                          *)
(***************************************************************************)
EXTENDS Integers, Sequences, FiniteSets

CONSTANTS
  Ids,      \* the correlation tokens requests carry
  LaneOf,   \* the lane of each
  Refused,  \* those whose frame cannot be serialized within its budgets
  Answers,  \* what a sidecar may send back
  Garbled,  \* those of them that the worker's own parsers refuse
  Capacity, \* BridgeConfig::queueCapacity, of every queue
  Deadline, \* how long a request may wait for its answer
  LastTime  \* the bound of the clock

Lanes == {"chat", "social", "biography", "memory", "assessment"}

ASSUME BridgeAssumption ==
  /\ LaneOf \in [Ids -> Lanes]
  /\ Refused \subseteq Ids
  /\ Garbled \subseteq Answers
  /\ Capacity \in Nat \ {0}
  /\ Deadline \in Nat
  /\ LastTime \in Nat

VARIABLES
  clock,         \* SteadyNowMs
  requests,      \* the request queue
  replies,       \* the response queue of each lane
  shut,          \* the queues that were stopped
  stopped,       \* Impl::stopped
  stopRequested, \* the jthread's stop token
  socket,        \* "none", "open", or "closed" but still there
  unanswered,    \* the frames of this connection the sidecar has yet to answer
  worker,        \* where the worker is, and with which request and answer
  stopping,      \* where the world thread is in Stop
  accepted,      \* history: how often each request was enqueued
  sent           \* history: how often its frame reached the sidecar

vars == <<clock, requests, replies, shut, stopped, stopRequested, socket,
          unanswered, worker, stopping, accepted, sent>>
queues == <<requests, replies, shut>>
flags == <<stopped, stopRequested, stopping>>
histories == <<accepted, sent>>

Request == [id : Ids, expires : Nat]

\* An answer on a lane: to the request the worker was serving, and, what nothing
\* in it need say, to the request it really answers.
Reply == [id : Ids, answers : Ids, answer : Answers, at : Nat]

Places == {"top", "waiting", "popped", "loop", "ensuring", "dialing", "dialed",
           "sending", "sent", "reading", "answered", "stamped", "exiting", "done"}
Stops == {"running", "flagged", "requested", "requests", "chat", "social",
          "aborted", "joined"} \* each named for what Stop has just done

Init ==
  /\ clock = 0
  /\ requests = <<>>
  /\ replies = [lane \in Lanes |-> <<>>]
  /\ shut = {}
  /\ stopped = FALSE
  /\ stopRequested = FALSE
  /\ socket = "none"
  /\ unanswered = <<>>
  /\ worker = [at |-> "top"]
  /\ stopping = "running"
  /\ accepted = [id \in Ids |-> 0]
  /\ sent = [id \in Ids |-> 0]

Tick ==
  /\ clock < LastTime
  /\ clock' = clock + 1
  /\ UNCHANGED <<queues, flags, socket, unanswered, worker, histories>>

-----------------------------------------------------------------------------
(* The world thread.                                                       *)

\* Mutant: the queue's capacity is tested one late.
CanEnqueueOneMore(expires) ==
  /\ ~stopped
  /\ clock <= expires
  /\ "requests" \notin shut
  /\ Len(requests) <= Capacity

\* TryEnqueue, TryEnqueueSocial and the other lanes' alike: whether the request is
\* taken.
CanEnqueue(expires) ==
  /\ ~stopped
  /\ clock <= expires
  /\ "requests" \notin shut
  /\ Len(requests) < Capacity

Push(id, expires) ==
  /\ requests' = Append(requests, [id |-> id, expires |-> expires])
  /\ accepted' = [accepted EXCEPT ![id] = @ + 1]

\* The model asks for each id once, and leaves the clock room to pass its expiry.
Enqueue(id) ==
  /\ stopping = "running"
  /\ accepted[id] = 0
  /\ clock + Deadline < LastTime
  /\ CanEnqueue(clock + Deadline)
  /\ Push(id, clock + Deadline)
  /\ UNCHANGED <<clock, replies, shut, flags, socket, unanswered, worker, sent>>

\* Drain...Responses: TryPop until it fails.
Drain(lane) ==
  /\ stopping = "running"
  /\ lane \notin shut
  /\ replies[lane] # <<>>
  /\ replies' = [replies EXCEPT ![lane] = <<>>]
  /\ UNCHANGED <<clock, requests, shut, flags, socket, unanswered, worker, histories>>

\* Stop, one shared write at a time; the biography, memory and assessment queues
\* are left as they are.
StopFlag ==
  /\ stopping = "running"
  /\ stopped' = TRUE
  /\ stopping' = "flagged"
  /\ UNCHANGED <<clock, queues, stopRequested, socket, unanswered, worker, histories>>

StopRequest ==
  /\ stopping = "flagged"
  /\ stopRequested' = TRUE
  /\ stopping' = "requested"
  /\ UNCHANGED <<clock, queues, stopped, socket, unanswered, worker, histories>>

StopQueue(from, queue) ==
  /\ stopping = from
  /\ shut' = shut \cup {queue}
  /\ stopping' = queue
  /\ UNCHANGED <<clock, requests, replies, stopped, stopRequested, socket,
                 unanswered, worker, histories>>

\* Mutant: Stop leaves the socket to the worker.
AbortNothing ==
  /\ stopping = "social"
  /\ stopping' = "aborted"
  /\ UNCHANGED <<clock, queues, stopped, stopRequested, socket, unanswered,
                 worker, histories>>

AbortSocket ==
  /\ stopping = "social"
  /\ socket' = IF socket = "open" THEN "closed" ELSE socket
  /\ stopping' = "aborted"
  /\ UNCHANGED <<clock, queues, stopped, stopRequested, unanswered, worker, histories>>

Join ==
  /\ stopping = "aborted"
  /\ worker.at = "done"
  /\ stopping' = "joined"
  /\ UNCHANGED <<clock, queues, stopped, stopRequested, socket, unanswered,
                 worker, histories>>

StopStep ==
  \/ StopRequest
  \/ StopQueue("requested", "requests")
  \/ StopQueue("requests", "chat")
  \/ StopQueue("chat", "social")
  \/ AbortSocket
  \/ Join

-----------------------------------------------------------------------------
(* The worker.                                                             *)

\* Where the worker has no request in hand.
Free == {"top", "waiting", "exiting", "done"}

Moves(from, to) ==
  /\ worker.at = from
  /\ worker' = IF to \in Free THEN [at |-> to] ELSE [worker EXCEPT !.at = to]

DiscardSocket ==
  /\ socket' = "none"
  /\ unanswered' = <<>>

KeepSocket == UNCHANGED <<socket, unanswered>>
KeepWorld == UNCHANGED <<clock, flags, accepted>>

\* The outer loop's test, then WaitPop.
CheckStop ==
  /\ Moves("top", IF stopRequested THEN "exiting" ELSE "waiting")
  /\ KeepWorld /\ KeepSocket /\ UNCHANGED <<queues, sent>>

Pop ==
  /\ worker.at = "waiting"
  /\ "requests" \notin shut
  /\ requests # <<>>
  /\ worker' = [at |-> "popped", id |-> Head(requests).id, expires |-> Head(requests).expires]
  /\ requests' = Tail(requests)
  /\ KeepWorld /\ KeepSocket /\ UNCHANGED <<replies, shut, sent>>

\* The wait's timeout, or a stopped queue.
WaitEnds ==
  /\ "requests" \in shut \/ requests = <<>>
  /\ Moves("waiting", "top")
  /\ KeepWorld /\ KeepSocket /\ UNCHANGED <<queues, sent>>

\* Expired in the queue, or not serializable: dropped.
Discard ==
  /\ worker.at = "popped"
  /\ clock > worker.expires \/ worker.id \in Refused
  /\ Moves("popped", "top")
  /\ KeepWorld /\ KeepSocket /\ UNCHANGED <<queues, sent>>

Serialize ==
  /\ worker.at = "popped"
  /\ clock <= worker.expires
  /\ worker.id \notin Refused
  /\ Moves("popped", "loop")
  /\ KeepWorld /\ KeepSocket /\ UNCHANGED <<queues, sent>>

\* Mutant: a request is retried until Stop.
AttemptForever ==
  /\ worker.at = "loop"
  /\ Moves("loop", IF stopRequested THEN "top" ELSE "ensuring")
  /\ KeepWorld /\ KeepSocket /\ UNCHANGED <<queues, sent>>

\* The inner loop's test.
Attempt ==
  /\ worker.at = "loop"
  /\ Moves("loop", IF stopRequested \/ clock > worker.expires THEN "top" ELSE "ensuring")
  /\ KeepWorld /\ KeepSocket /\ UNCHANGED <<queues, sent>>

\* EnsureConnected: refused once stopped, the open socket kept, or a new one dialed.
EnsureConnected ==
  /\ Moves("ensuring", IF stopped THEN "loop" ELSE IF socket = "open" THEN "sending" ELSE "dialing")
  /\ IF stopped \/ socket = "open" THEN KeepSocket ELSE DiscardSocket
  /\ KeepWorld /\ UNCHANGED <<queues, sent>>

DialFails ==
  /\ Moves("dialing", "loop")
  /\ KeepWorld /\ KeepSocket /\ UNCHANGED <<queues, sent>>

DialSucceeds ==
  /\ Moves("dialing", "dialed")
  /\ KeepWorld /\ KeepSocket /\ UNCHANGED <<queues, sent>>

\* Under the socket mutex: a Stop that ran meanwhile missed this socket.
Install ==
  /\ Moves("dialed", IF stopped THEN "loop" ELSE "sending")
  /\ socket' = IF stopped THEN "closed" ELSE "open"
  /\ KeepWorld /\ UNCHANGED <<unanswered, queues, sent>>

SendFrame ==
  /\ socket = "open"
  /\ Moves("sending", "sent")
  /\ unanswered' = Append(unanswered, worker.id)
  /\ sent' = [sent EXCEPT ![worker.id] = @ + 1]
  /\ KeepWorld /\ UNCHANGED <<socket, queues>>

\* Retried on a new connection until the request expires.
SendFails ==
  /\ Moves("sending", "loop")
  /\ DiscardSocket
  /\ KeepWorld /\ UNCHANGED <<queues, sent>>

\* ReadFrame's test under the mutex; the read itself runs without it.
StartRead ==
  /\ socket # "none" /\ ~stopped
  /\ Moves("sent", "reading")
  /\ KeepWorld /\ KeepSocket /\ UNCHANGED <<queues, sent>>

\* Mutant: a lost answer is asked for again.
AskAgain ==
  /\ worker.at = "reading"
  /\ Moves("reading", "loop")
  /\ DiscardSocket
  /\ KeepWorld /\ UNCHANGED <<queues, sent>>

\* Mutant: the connection is kept for the next request.
KeepConnection ==
  /\ worker.at = "reading"
  /\ Moves("reading", "top")
  /\ KeepWorld /\ KeepSocket /\ UNCHANGED <<queues, sent>>

\* The receive timeout, a closed connection or an oversized frame: the request is
\* lost, and so is the connection.
LoseAnswer ==
  /\ worker.at = "reading"
  /\ Moves("reading", "top")
  /\ DiscardSocket
  /\ KeepWorld /\ UNCHANGED <<queues, sent>>

NoRead ==
  /\ socket = "none" \/ stopped
  /\ Moves("sent", "top")
  /\ DiscardSocket
  /\ KeepWorld /\ UNCHANGED <<queues, sent>>

ReadAnswer(answer) ==
  /\ worker.at = "reading"
  /\ socket = "open"
  /\ worker' = [at |-> "answered", id |-> worker.id, expires |-> worker.expires,
                answers |-> Head(unanswered), answer |-> answer]
  /\ unanswered' = Tail(unanswered)
  /\ KeepWorld /\ UNCHANGED <<socket, queues, sent>>

\* The social lane hands the payload on as it came, stamped; the others parse it,
\* and drop what does not parse.
Judge ==
  /\ worker.at = "answered"
  /\ worker' = IF LaneOf[worker.id] # "social" /\ worker.answer \in Garbled
               THEN [at |-> "top"]
               ELSE [at |-> "stamped", id |-> worker.id, expires |-> worker.expires,
                     answers |-> worker.answers, answer |-> worker.answer, stamp |-> clock]
  /\ KeepWorld /\ KeepSocket /\ UNCHANGED <<queues, sent>>

\* TryPush on the lane: a stopped or full queue drops the answer.
PushReply ==
  LET lane == LaneOf[worker.id]
      reply == [id |-> worker.id, answers |-> worker.answers, answer |-> worker.answer,
                at |-> worker.stamp]
  IN  /\ worker.at = "stamped"
      /\ replies' = IF lane \in shut \/ Len(replies[lane]) >= Capacity THEN replies
                    ELSE [replies EXCEPT ![lane] = Append(@, reply)]
      /\ Moves("stamped", "top")
      /\ KeepWorld /\ KeepSocket /\ UNCHANGED <<requests, shut, sent>>

Exit ==
  /\ Moves("exiting", "done")
  /\ DiscardSocket
  /\ KeepWorld /\ UNCHANGED <<queues, sent>>

\* What the worker does of its own accord.  A dial ends, one way or the other, and
\* so does a write; a read ends at once when Stop has closed the socket under it.
AbortedRead == socket = "closed" /\ LoseAnswer

WorkerStep ==
  \/ CheckStop \/ Pop \/ WaitEnds \/ Discard \/ Serialize \/ Attempt \/ EnsureConnected
  \/ DialFails \/ DialSucceeds \/ Install \/ SendFrame \/ SendFails
  \/ StartRead \/ NoRead \/ AbortedRead \/ Judge \/ PushReply \/ Exit

\* What it waits for: the sidecar, or the receive timeout.
SidecarStep ==
  \/ LoseAnswer
  \/ \E answer \in Answers : ReadAnswer(answer)

\* The bridge is gone.
Finished == stopping = "joined" /\ UNCHANGED vars

Next ==
  \/ Tick
  \/ \E id \in Ids : Enqueue(id)
  \/ \E lane \in Lanes : Drain(lane)
  \/ StopFlag
  \/ StopStep
  \/ WorkerStep
  \/ SidecarStep
  \/ Finished

Spec == Init /\ [][Next]_vars

\* The threads are scheduled; nothing is promised of the sidecar.
FairSpec == Spec /\ WF_vars(WorkerStep) /\ WF_vars(StopStep)

\* A sidecar that answers or drops every frame, by its own deadline.
TimelySidecar == WF_vars(Tick) /\ WF_vars(SidecarStep)

-----------------------------------------------------------------------------
(* Properties.                                                             *)

TypeOK ==
  /\ clock \in Nat
  /\ requests \in Seq(Request) /\ Len(requests) <= Capacity
  /\ \A lane \in Lanes : replies[lane] \in Seq(Reply) /\ Len(replies[lane]) <= Capacity
  /\ shut \subseteq {"requests", "chat", "social"}
  /\ stopped \in BOOLEAN /\ stopRequested \in BOOLEAN
  /\ socket \in {"none", "open", "closed"}
  /\ unanswered \in Seq(Ids)
  /\ worker.at \in Places
  /\ stopping \in Stops
  /\ accepted \in [Ids -> Nat] /\ sent \in [Ids -> Nat]

\* A frame reaches the sidecar at most once for each time its request was taken: a
\* send that failed is retried, an answer that was lost is not, so no request is
\* generated, and paid for, twice (PlayerbotLLM.cpp:2344-2368).
SentOnce == \A id \in Ids : sent[id] <= accepted[id]

\* An answer on a lane answers the request the worker had sent for it: a connection
\* whose answer was given up is never read again, so no answer is read one request
\* late (PlayerbotLLM.cpp:2361-2368).  On the chat lane nothing else ties the two.
AnswersItsRequest ==
  \A lane \in Lanes : \A i \in 1 .. Len(replies[lane]) :
    replies[lane][i].answers = replies[lane][i].id /\ LaneOf[replies[lane][i].id] = lane

\* Stop returns, wherever the worker is: waiting for work, retrying a connection,
\* dialing one Stop cannot see, or in a read the sidecar never answers
\* (PlayerbotLLM.cpp:2186-2195, 2229-2237, 2450-2465).
StopReturns == stopping = "flagged" ~> stopping = "joined"

Held(id) == worker.at \notin Free /\ worker.id = id
Queued(id) == \E i \in 1 .. Len(requests) : requests[i].id = id

\* A request that was taken leaves the bridge, answered or dropped, whatever is
\* ahead of it and whether or not the sidecar can be reached, so long as the sidecar
\* ends what it is sent (PlayerbotLLM.cpp:2306-2368, app.py:432-441).
EveryRequestLeaves ==
  TimelySidecar =>
    \A id \in Ids : (Queued(id) \/ Held(id)) ~> (stopped \/ ~(Queued(id) \/ Held(id)))
=============================================================================
