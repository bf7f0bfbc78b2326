------------------------ MODULE SidecarServiceProofs ------------------------
(***************************************************************************)
(* The service over the ledger, for any number of sidecars and requests:   *)
(* every step of a pipeline is a step of BudgetLedger or leaves it alone,  *)
(* so what is proved of the ledger holds of the service; nothing is spoken *)
(* that the ledger did not charge; no reservation is reclaimed under a     *)
(* request that may still be charged; and the generation lock keeps the    *)
(* conversation memory and the ambient window whole.                       *)
(***************************************************************************)
EXTENDS SidecarService, BudgetLedgerProofs, SequenceTheorems

Job == [at : {"new"} \cup InProgress \cup Answered \cup Cut, deadline : Nat, now : Times,
        max : Nat, result : Results \cup {NoResult}]

\* What the locals of a request must be for the calls its place makes next.
JobTypes ==
  /\ clock \in Times
  /\ job \in [Requests -> Job]
  /\ \A q \in Requests : job[q].at = "reserve" => job[q].max \in MaxCosts
  /\ \A q \in Requests : job[q].at = "judge" => job[q].result \in Results

\* A reported cost is one of those a provider may report.
LEMMA ReportedCosts ==
  \A result \in Results :
    result.kind \in {"answered", "invalid"} => result.cost \in Reports \cap Nat
BY DEF Results

\* The constants a request's locals are made of are numbers.
LEMMA ServiceTypes == MaxCosts \subseteq Nat /\ LastTime \in Nat /\ 0 \in Times
BY LedgerAssumption DEF Times

\* Every kind of request asks the ledger for one of its two lanes.
LEMMA PrioritiesAreLanes == \A q \in Requests : PriorityOf(q) \in Lanes
BY DEF PriorityOf, Lanes

-----------------------------------------------------------------------------
(* Steps of the service are steps of the ledger.                           *)

\* A request that asks for a reservation takes a step of the ledger.
LEMMA ReserveIsLedgers ==
  ASSUME JobTypes, NEW q \in Requests, Reserve(q) \/ Refused(q) PROVE Next
<1>1. job[q].max \in MaxCosts
  BY DEF Reserve, Refused, At, JobTypes
<1>2. PriorityOf(q) \in Lanes /\ q \in Rows
  BY PrioritiesAreLanes DEF Requests
<1>3. CASE Reserve(q)
  BY <1>1, <1>2, <1>3 DEF Reserve, Next
<1>4. CASE Refused(q)
  BY <1>1, <1>2, <1>4 DEF Refused, Next
<1>5. QED
  BY <1>3, <1>4

\* So does a request that judges what its provider said, and charges or releases it.
LEMMA JudgeIsLedgers ==
  ASSUME JobTypes, NEW q \in Requests,
         Charged(q) \/ NotCharged(q) \/ InvalidCharged(q) \/ RefusalReleased(q)
  PROVE  Next
<1>1. job[q].at = "judge" /\ job[q].result \in Results /\ q \in Rows
  BY DEF Charged, NotCharged, InvalidCharged, RefusalReleased, Judging, At, JobTypes, Requests
<1>2. ASSUME Judging(q, {"answered"}) \/ Judging(q, {"invalid"}), Charges(q) PROVE Next
  <2>1. job[q].result.cost \in Reports
    BY <1>1, <1>2, ReportedCosts DEF Judging, Kind
  <2>2. QED
    BY <1>1, <1>2, <2>1 DEF Charges, Next
<1>3. ASSUME TooLate(q) PROVE Next
  BY <1>1, <1>3 DEF TooLate, Next
<1>4. ASSUME Release(q) PROVE Next
  BY <1>1, <1>4 DEF Next
<1>5. QED
  BY <1>2, <1>3, <1>4 DEF Charged, NotCharged, InvalidCharged, RefusalReleased

\* Every other step, a crash and a purge among them, leaves the ledger alone.
LEMMA StepIsLedgers ==
  ASSUME JobTypes, [ServiceNext]_serviceVars PROVE [Next]_vars
<1>1. ASSUME NEW q \in Requests, Pipeline(q) PROVE [Next]_vars
  <2>1. CASE Reserve(q) \/ Refused(q)
    BY <2>1, ReserveIsLedgers
  <2>2. CASE Charged(q) \/ NotCharged(q) \/ InvalidCharged(q) \/ RefusalReleased(q)
    BY <2>2, JudgeIsLedgers
  <2>3. CASE Receive(q) \/ Lock(q) \/ AmbientAccepted(q) \/ AmbientRefused(q)
             \/ RecordProfile(q) \/ CountRefused(q) \/ LeftOutstanding(q)
             \/ RecordDecision(q) \/ Finish(q)
    BY <2>3 DEF Receive, Lock, AmbientAccepted, AmbientRefused, RecordProfile, CountRefused,
         LeftOutstanding, RecordDecision, Finish, KeepLedger
  <2>4. ASSUME NEW max \in MaxCosts, Count(q, max) PROVE [Next]_vars
    BY <2>4 DEF Count, KeepLedger
  <2>5. ASSUME NEW result \in Results, Generate(q, result) PROVE [Next]_vars
    BY <2>5 DEF Generate, KeepLedger
  <2>6. CASE \/ Remember(q, "user_turn", "user", "reply_turn")
             \/ Remember(q, "reply_turn", "assistant", "finish")
    BY <2>6 DEF Remember, KeepLedger
  <2>7. QED
    BY <1>1, <2>1, <2>2, <2>3, <2>4, <2>5, <2>6 DEF Pipeline
<1>2. ASSUME NEW q \in Requests, Cancel(q) \/ Fail(q) PROVE [Next]_vars
  BY <1>2 DEF Cancel, Fail, KeepLedger
<1>3. ASSUME NEW s \in Sidecars, Crash(s) \/ Purge(s) PROVE [Next]_vars
  BY <1>3 DEF Crash, Purge, PurgeBegins, PurgeBot, PurgeEnds, KeepLedger
<1>4. ASSUME NEW b \in Bots, BotDeleted(b) PROVE [Next]_vars
  BY <1>4 DEF BotDeleted, KeepLedger
<1>5. CASE Time
  BY <1>5 DEF Time, KeepLedger
<1>6. CASE UNCHANGED serviceVars
  BY <1>6 DEF serviceVars
<1>7. QED
  BY <1>1, <1>2, <1>3, <1>4, <1>5, <1>6 DEF ServiceNext

-----------------------------------------------------------------------------
(* The locals of a request.                                                *)

\* An assignment to the locals of one request leaves the others theirs.
LEMMA JobChanges ==
  ASSUME JobTypes, NEW q \in Requests, NEW local \in Job, job' = [job EXCEPT ![q] = local],
         clock' \in Times,
         local.at = "reserve" => local.max \in MaxCosts,
         local.at = "judge" => local.result \in Results
  PROVE  JobTypes'
BY DEF JobTypes

\* Moving on changes the place and no other local.
LEMMA GoesTo ==
  ASSUME JobTypes, NEW q \in Requests, NEW place \in InProgress, Goes(q, place),
         place \notin {"reserve", "judge"}
  PROVE  JobTypes'
<1> DEFINE local == [job[q] EXCEPT !.at = place]
<1>1. job[q] \in Job
  BY DEF JobTypes
<1>2. local \in Job /\ local.at = place
  BY <1>1 DEF Job
<1>3. job' = [job EXCEPT ![q] = local] /\ clock' \in Times
  BY DEF Goes, JobTypes
<1>4. QED
  BY <1>2, <1>3, JobChanges

\* A request that ends keeps what its provider said, or nothing.
LEMMA EndsTypes ==
  ASSUME JobTypes, NEW q \in Requests, NEW how \in Answered \cup Cut,
         Ends(q, how) \/ CutShort(q, how)
  PROVE  JobTypes'
<1>1. job[q] \in Job
  BY DEF JobTypes
<1>2. ASSUME NEW result \in Results \cup {NoResult}
      PROVE  /\ Over(how, result) \in Job
             /\ Over(how, result).at \notin {"reserve", "judge"}
  BY ServiceTypes DEF Over, Job, Answered, Cut
<1>3. CASE Ends(q, how)
  <2>1. job[q].result \in Results \cup {NoResult}
    BY <1>1 DEF Job
  <2>2. job' = [job EXCEPT ![q] = Over(how, job[q].result)] /\ clock' \in Times
    BY <1>3 DEF Ends, JobTypes
  <2>3. QED
    BY <1>2, <2>1, <2>2, JobChanges
<1>4. CASE CutShort(q, how)
  <2>1. job' = [job EXCEPT ![q] = Over(how, NoResult)] /\ clock' \in Times
    BY <1>4 DEF CutShort, JobTypes
  <2>2. QED
    BY <1>2, <2>1, JobChanges
<1>5. QED
  BY <1>3, <1>4

\* A step that leaves every request where it was.
LEMMA JobKept ==
  ASSUME JobTypes, UNCHANGED job, clock' \in Times
  PROVE  JobTypes'
BY DEF JobTypes

\* The actions that move a request on, and what each assigns.
LEMMA PipelineTypes ==
  ASSUME JobTypes, NEW q \in Requests, Pipeline(q)
  PROVE  JobTypes'
<1>1. job[q] \in Job /\ clock \in Times
  BY DEF JobTypes
<1>2. CASE Receive(q)
  <2> DEFINE local == [job[q] EXCEPT !.at = "queued", !.deadline = clock + ResponseDeadline]
  <2>1. clock + ResponseDeadline \in Nat
    BY <1>1, ServiceAssumption, ServiceTypes DEF Times
  <2>2. local \in Job /\ local.at = "queued"
    BY <1>1, <2>1 DEF Job, InProgress
  <2>3. job' = [job EXCEPT ![q] = local] /\ clock' \in Times
    BY <1>1, <1>2 DEF Receive
  <2> HIDE DEF local
  <2>4. QED
    BY <2>2, <2>3, JobChanges
<1>3. CASE Lock(q)
  <2> DEFINE place == IF KindOf[q] = "ambient" THEN "ambient"
                      ELSE IF KindOf[q] \in ChatKinds THEN "profile" ELSE "count"
             local == [job[q] EXCEPT !.now = clock, !.at = place]
  <2>1. place \in {"ambient", "profile", "count"}
    OBVIOUS
  <2> HIDE DEF place
  <2>2. local \in Job /\ local.at = place
    BY <1>1, <2>1 DEF Job, InProgress
  <2>3. job' = [job EXCEPT ![q] = local] /\ clock' \in Times
    BY <1>1, <1>3 DEF Lock, place
  <2> HIDE DEF local
  <2>4. QED
    BY <2>1, <2>2, <2>3, JobChanges
<1>4. ASSUME NEW max \in MaxCosts, Count(q, max) PROVE JobTypes'
  <2> DEFINE local == [job[q] EXCEPT !.at = "reserve", !.max = max]
  <2>1. local \in Job /\ local.at = "reserve" /\ local.max = max
    BY <1>1, ServiceTypes DEF Job, InProgress
  <2>2. job' = [job EXCEPT ![q] = local] /\ clock' \in Times
    BY <1>1, <1>4 DEF Count
  <2> HIDE DEF local
  <2>3. QED
    BY <2>1, <2>2, JobChanges
<1>5. ASSUME NEW result \in Results, Generate(q, result) PROVE JobTypes'
  <2> DEFINE local == [job[q] EXCEPT !.at = "judge", !.result = result]
  <2>1. local \in Job /\ local.at = "judge" /\ local.result = result
    BY <1>1 DEF Job, InProgress
  <2>2. job' = [job EXCEPT ![q] = local] /\ clock' \in Times
    BY <1>1, <1>5 DEF Generate
  <2> HIDE DEF local
  <2>3. QED
    BY <2>1, <2>2, JobChanges
<1>6. CASE Reserve(q)
  <2> DEFINE local == [job[q] EXCEPT !.at = "generate"]
  <2>1. local \in Job /\ local.at = "generate"
    BY <1>1 DEF Job, InProgress
  <2>2. job' = [job EXCEPT ![q] = local] /\ clock' \in Times
    BY <1>1, <1>6 DEF Reserve, Goes
  <2> HIDE DEF local
  <2>3. QED
    BY <2>1, <2>2, JobChanges
<1>7. CASE \E place \in {"profile", "count", "user_turn", "reply_turn", "decision", "finish"} :
             Goes(q, place)
  BY <1>7, GoesTo DEF InProgress
<1>8. CASE \E how \in Answered : Ends(q, how)
  BY <1>8, EndsTypes
<1>9. CASE AmbientAccepted(q) \/ RecordProfile(q) \/ RecordDecision(q)
             \/ Remember(q, "user_turn", "user", "reply_turn")
             \/ Remember(q, "reply_turn", "assistant", "finish")
  BY <1>7, <1>9 DEF AmbientAccepted, RecordProfile, RecordDecision, Remember
<1>10. CASE AmbientRefused(q) \/ CountRefused(q) \/ Refused(q) \/ NotCharged(q)
              \/ LeftOutstanding(q) \/ InvalidCharged(q) \/ RefusalReleased(q) \/ Finish(q)
  BY <1>8, <1>10 DEF AmbientRefused, CountRefused, Refused, NotCharged, LeftOutstanding,
       InvalidCharged, RefusalReleased, Finish, Answered
<1>11. CASE Charged(q)
  <2>1. Keeps(q) \in {"user_turn", "decision", "finish"}
    BY DEF Keeps
  <2>2. QED
    BY <1>7, <1>8, <1>11, <2>1 DEF Charged, Answered
<1>12. QED
  BY <1>2, <1>3, <1>4, <1>5, <1>6, <1>9, <1>10, <1>11 DEF Pipeline

\* What interrupts a pipeline, and what goes on beside it.
LEMMA StepTypes ==
  ASSUME JobTypes, [ServiceNext]_serviceVars
  PROVE  JobTypes'
<1>1. ASSUME NEW q \in Requests, Pipeline(q) PROVE JobTypes'
  BY <1>1, PipelineTypes
<1>2. ASSUME NEW q \in Requests, Cancel(q) \/ Fail(q) PROVE JobTypes'
  BY <1>2, EndsTypes DEF Cancel, Fail, Cut
<1>3. ASSUME NEW s \in Sidecars, Crash(s) PROVE JobTypes'
  <2>1. Over("crashed", NoResult) \in Job
        /\ Over("crashed", NoResult).at \notin {"reserve", "judge"}
    BY ServiceTypes DEF Over, Job, Cut
  <2> HIDE DEF Job
  <2>2. QED
    BY <1>3, <2>1 DEF Crash, JobTypes
<1>4. ASSUME NEW s \in Sidecars, Purge(s) PROVE JobTypes'
  BY <1>4, JobKept DEF Purge, PurgeBegins, PurgeBot, PurgeEnds, JobTypes
<1>5. ASSUME NEW b \in Bots, BotDeleted(b) PROVE JobTypes'
  BY <1>5, JobKept DEF BotDeleted, JobTypes
<1>6. CASE Time
  <2>1. clock' \in Times
    BY <1>6, ServiceTypes DEF Time, Times, JobTypes
  <2>2. QED
    BY <1>6, <2>1, JobKept DEF Time
<1>7. CASE UNCHANGED serviceVars
  BY <1>7, JobKept DEF serviceVars, JobTypes
<1>8. QED
  BY <1>1, <1>2, <1>3, <1>4, <1>5, <1>6, <1>7 DEF ServiceNext

\* Nothing has been asked at first.
LEMMA InitTypes == ServiceInit => JobTypes
<1>1. Over("new", NoResult) \in Job /\ Over("new", NoResult).at = "new"
  BY ServiceTypes DEF Over, Job
<1>2. QED
  BY <1>1, ServiceTypes DEF ServiceInit, JobTypes

-----------------------------------------------------------------------------
(* What the row of a request says at each of its places.                   *)

Unasked == {"new", "queued", "ambient", "profile", "count", "reserve"}
Spoken == {"user_turn", "reply_turn", "decision", "finish", "replied"}

ChargedAsReported(q) ==
  rowState[q] = "completed" /\ rowActual[q] = Storable(job[q].result.cost)

\* The books of request q.  Between two of its own steps only a sweep touches its row,
\* and only while it is reserved: that is what makes this inductive.
Books(q) ==
  /\ job[q].at \in Unasked => rowState[q] = "absent" /\ job[q].result = NoResult
  /\ job[q].at \in {"generate", "judge"} => rowState[q] \in {"reserved", "expired"}
  /\ job[q].at \in Spoken =>
       /\ Kind(q) = "answered" /\ ChargedAsReported(q)
       /\ KindOf[q] = "social" => job[q].result.cost <= rowMax[q]
  /\ job[q].at \in {"silent", "regenerated"} =>
       /\ Kind(q) = "none" => rowState[q] = "absent"
       /\ Kind(q) \in {"answered", "invalid"} => ChargedAsReported(q) \/ rowState[q] = "expired"
       /\ Kind(q) = "refused" => rowState[q] \in {"released", "expired"}
       /\ Kind(q) \in {"unpriceable", "garbled", "unknown"} =>
            rowState[q] \in {"reserved", "expired"}

\* What the steps of others do to row r: nothing, or a sweep reclaims it.
AtMostLapses(r) ==
  \/ rowState'[r] = rowState[r] /\ rowMax'[r] = rowMax[r] /\ rowActual'[r] = rowActual[r]
  \/ rowState[r] = "reserved" /\ rowState'[r] = "expired"

\* The books of a request that does not move stay right, whatever the others do.
LEMMA BooksStable ==
  ASSUME NEW q \in Requests, Books(q), job'[q] = job[q], AtMostLapses(q)
  PROVE  Books(q)'
BY DEF Books, AtMostLapses, ChargedAsReported, Kind, Unasked, Spoken

\* Going on and ending keep what the provider said, and touch no other request.
LEMMA Moves ==
  ASSUME JobTypes, NEW q \in Requests, NEW place
  PROVE  /\ Goes(q, place) \/ Ends(q, place) =>
              /\ job'[q].at = place /\ job'[q].result = job[q].result
              /\ \A p \in Requests : p # q => job'[p] = job[p]
         /\ CutShort(q, place) =>
              /\ job'[q].at = place
              /\ \A p \in Requests : p # q => job'[p] = job[p]
<1>1. job[q] \in Job /\ job \in [Requests -> Job]
  BY DEF JobTypes
<1>2. ASSUME Goes(q, place)
      PROVE  /\ job'[q].at = place /\ job'[q].result = job[q].result
             /\ \A p \in Requests : p # q => job'[p] = job[p]
  <2>1. job'[q] = [job[q] EXCEPT !.at = place]
    BY <1>1, <1>2 DEF Goes
  <2>2. [job[q] EXCEPT !.at = place].at = place
        /\ [job[q] EXCEPT !.at = place].result = job[q].result
    BY <1>1 DEF Job
  <2>3. QED
    BY <1>1, <1>2, <2>1, <2>2 DEF Goes
<1>3. ASSUME Ends(q, place)
      PROVE  /\ job'[q].at = place /\ job'[q].result = job[q].result
             /\ \A p \in Requests : p # q => job'[p] = job[p]
  BY <1>1, <1>3 DEF Ends, Over
<1>4. ASSUME CutShort(q, place)
      PROVE  job'[q].at = place /\ \A p \in Requests : p # q => job'[p] = job[p]
  BY <1>1, <1>4 DEF CutShort, Over
<1>5. QED
  BY <1>2, <1>3, <1>4

AllBooks == \A q \in Requests : Books(q)

\* A step that moves at most request q, and whose transaction is about its row.
LEMMA BooksOf ==
  ASSUME AllBooks, NEW q \in Requests, Books(q)',
         \A p \in Requests : p # q => job'[p] = job[p] /\ AtMostLapses(p)
  PROVE  AllBooks'
BY BooksStable DEF AllBooks

\* The steps that touch no row.
LEMMA QuietSteps ==
  ASSUME ColumnTypes, JobTypes, AllBooks, NEW q \in Requests, UNCHANGED vars,
         \/ Receive(q) \/ Lock(q) \/ AmbientAccepted(q) \/ AmbientRefused(q)
         \/ RecordProfile(q) \/ (\E max \in MaxCosts : Count(q, max)) \/ CountRefused(q)
         \/ (\E result \in Results : Generate(q, result)) \/ LeftOutstanding(q)
         \/ Remember(q, "user_turn", "user", "reply_turn")
         \/ Remember(q, "reply_turn", "assistant", "finish")
         \/ RecordDecision(q) \/ Finish(q)
  PROVE  AllBooks'
<1>1. /\ Books(q) /\ job[q] \in Job /\ job \in [Requests -> Job]
      /\ \A p \in Requests : AtMostLapses(p)
      /\ rowState' = rowState /\ rowActual' = rowActual /\ rowMax' = rowMax
  BY DEF AllBooks, JobTypes, AtMostLapses, vars
<1>2. ASSUME NEW from \in Unasked, NEW to \in Unasked, job[q].at = from,
             job'[q].at = to, job'[q].result = job[q].result,
             \A p \in Requests : p # q => job'[p] = job[p]
      PROVE  AllBooks'
  BY <1>1, <1>2, BooksOf DEF Books, Unasked, Spoken
<1>3. ASSUME NEW from \in Spoken, NEW to \in Spoken, job[q].at = from,
             job'[q].at = to, job'[q].result = job[q].result,
             \A p \in Requests : p # q => job'[p] = job[p]
      PROVE  AllBooks'
  BY <1>1, <1>3, BooksOf DEF Books, Unasked, Spoken, ChargedAsReported, Kind
<1>4. CASE Receive(q)
  <2>1. job'[q] = [job[q] EXCEPT !.at = "queued", !.deadline = clock + ResponseDeadline]
        /\ \A p \in Requests : p # q => job'[p] = job[p]
    BY <1>1, <1>4 DEF Receive
  <2>2. job'[q].at = "queued" /\ job'[q].result = job[q].result
    BY <1>1, <2>1 DEF Job
  <2>3. QED
    BY <1>2, <1>4, <2>1, <2>2 DEF Receive, Unasked
<1>5. CASE Lock(q)
  <2> DEFINE place == IF KindOf[q] = "ambient" THEN "ambient"
                      ELSE IF KindOf[q] \in ChatKinds THEN "profile" ELSE "count"
  <2>1. job'[q] = [job[q] EXCEPT !.now = clock, !.at = place]
        /\ \A p \in Requests : p # q => job'[p] = job[p]
    BY <1>1, <1>5 DEF Lock
  <2>2. place \in Unasked
    BY DEF Unasked
  <2> HIDE DEF place
  <2>3. job'[q].at = place /\ job'[q].result = job[q].result
    BY <1>1, <2>1 DEF Job
  <2>4. QED
    BY <1>2, <1>5, <2>1, <2>2, <2>3 DEF Lock, At, Unasked
<1>6. CASE \E max \in MaxCosts : Count(q, max)
  <2>1. PICK max \in MaxCosts : Count(q, max)
    BY <1>6
  <2>2. job'[q] = [job[q] EXCEPT !.at = "reserve", !.max = max]
        /\ \A p \in Requests : p # q => job'[p] = job[p]
    BY <1>1, <2>1 DEF Count
  <2>3. job'[q].at = "reserve" /\ job'[q].result = job[q].result
    BY <1>1, <2>2 DEF Job
  <2>4. QED
    BY <1>2, <2>1, <2>2, <2>3 DEF Count, At, Unasked
<1>7. CASE \E result \in Results : Generate(q, result)
  <2>1. PICK result \in Results : Generate(q, result)
    BY <1>7
  <2>2. job'[q] = [job[q] EXCEPT !.at = "judge", !.result = result]
        /\ \A p \in Requests : p # q => job'[p] = job[p]
    BY <1>1, <2>1 DEF Generate
  <2>3. job'[q].at = "judge"
    BY <1>1, <2>2 DEF Job
  <2>4. rowState[q] \in {"reserved", "expired"}
    BY <1>1, <2>1 DEF Generate, At, Books
  <2>5. Books(q)'
    BY <1>1, <2>3, <2>4 DEF Books, Unasked, Spoken
  <2>6. QED
    BY <1>1, <2>2, <2>5, BooksOf
<1>8. CASE AmbientAccepted(q) \/ RecordProfile(q)
  BY <1>2, <1>8, Moves DEF AmbientAccepted, RecordProfile, At, Unasked
<1>9. CASE \/ RecordDecision(q) \/ Finish(q)
           \/ Remember(q, "user_turn", "user", "reply_turn")
           \/ Remember(q, "reply_turn", "assistant", "finish")
  BY <1>3, <1>9, Moves DEF RecordDecision, Finish, Remember, At, Spoken
<1>10. CASE AmbientRefused(q) \/ CountRefused(q)
  <2>1. /\ job[q].at \in Unasked
        /\ job'[q].at = "silent" /\ job'[q].result = job[q].result
        /\ \A p \in Requests : p # q => job'[p] = job[p]
    BY <1>10, Moves DEF AmbientRefused, CountRefused, At, Unasked
  <2>2. Books(q)'
    BY <1>1, <2>1 DEF Books, Unasked, Spoken, Kind, NoResult
  <2>3. QED
    BY <1>1, <2>1, <2>2, BooksOf
<1>11. CASE LeftOutstanding(q)
  <2>1. /\ job[q].at = "judge" /\ Kind(q) \in {"unpriceable", "garbled", "unknown"}
        /\ job'[q].at \in {"silent", "regenerated"} /\ job'[q].result = job[q].result
        /\ \A p \in Requests : p # q => job'[p] = job[p]
    BY <1>11, Moves DEF LeftOutstanding, Judging, At
  <2>2. Books(q)'
    BY <1>1, <2>1 DEF Books, Unasked, Spoken, Kind
  <2>3. QED
    BY <1>1, <2>1, <2>2, BooksOf
<1>12. QED
  BY <1>4, <1>5, <1>6, <1>7, <1>8, <1>9, <1>10, <1>11

\* Admission finds no row, and leaves one reserved; a refusal leaves none.
LEMMA AdmissionSteps ==
  ASSUME ColumnTypes, JobTypes, AllBooks, NEW q \in Requests, Reserve(q) \/ Refused(q)
  PROVE  AllBooks'
<1>1. job[q].at = "reserve" /\ job[q].max \in MaxCosts /\ PriorityOf(q) \in Lanes /\ q \in Rows
  BY PrioritiesAreLanes DEF Reserve, Refused, At, JobTypes, Requests
<1>2. Books(q) /\ rowState[q] = "absent" /\ job[q].result = NoResult
  BY <1>1 DEF AllBooks, Books, Unasked
<1>3. CASE Reserve(q)
  <2>1. PICK now \in Times : ReserveAdmitted(now, job[q].max, PriorityOf(q), q)
    BY <1>3 DEF Reserve
  <2>2. rowState'[q] = "reserved" /\ \A p \in Requests : p # q => AtMostLapses(p)
    BY <1>1, <2>1 DEF ReserveAdmitted, AtMostLapses, Lapsed, Reserved, ColumnTypes, Requests
  <2>3. job'[q].at = "generate" /\ \A p \in Requests : p # q => job'[p] = job[p]
    BY <1>3, Moves DEF Reserve
  <2>4. Books(q)'
    BY <2>2, <2>3 DEF Books, Unasked, Spoken
  <2>5. QED
    BY <2>2, <2>3, <2>4, BooksOf
<1>4. CASE Refused(q)
  <2>1. PICK now \in Times : ReserveDenied(now, job[q].max, PriorityOf(q))
    BY <1>4 DEF Refused
  <2>2. \A p \in Requests : AtMostLapses(p)
    BY <1>1, <2>1 DEF ReserveDenied, AtMostLapses, Lapsed, Reserved, ColumnTypes, Requests
  <2>3. /\ job'[q].at = "silent" /\ job'[q].result = job[q].result
        /\ \A p \in Requests : p # q => job'[p] = job[p]
    BY <1>4, Moves DEF Refused
  <2>4. rowState'[q] = "absent"
    BY <1>2, <2>2 DEF AtMostLapses
  <2>5. Books(q)'
    BY <1>2, <2>3, <2>4 DEF Books, Unasked, Spoken, Kind, NoResult
  <2>6. QED
    BY <2>2, <2>3, <2>5, BooksOf
<1>5. QED
  BY <1>3, <1>4

\* What was billed is charged, released or left to the sweep, and only a charged
\* completion goes on to be spoken.
LEMMA BillingSteps ==
  ASSUME ColumnTypes, JobTypes, AllBooks, NEW q \in Requests,
         Charged(q) \/ NotCharged(q) \/ InvalidCharged(q) \/ RefusalReleased(q)
  PROVE  AllBooks'
<1>1. job[q].at = "judge" /\ job[q].result \in Results /\ q \in Rows
  BY DEF Charged, NotCharged, InvalidCharged, RefusalReleased, Judging, At, JobTypes, Requests
<1>2. Books(q) /\ rowState[q] \in {"reserved", "expired"}
  BY <1>1 DEF AllBooks, Books
<1> DEFINE cost == job[q].result.cost
           Spends == Kind(q) \in {"answered", "invalid"} /\ Charges(q)
<1>3. ASSUME Kind(q) \in {"answered", "invalid"} PROVE cost \in Reports /\ cost \in Nat
  BY <1>1, <1>3, ReportedCosts DEF Kind
<1>4. ASSUME Spends
      PROVE  /\ rowState'[q] = "completed" /\ rowActual'[q] = Storable(cost)
             /\ rowMax'[q] = rowMax[q]
             /\ \A p \in Requests : p # q => AtMostLapses(p)
  BY <1>1, <1>3, <1>4 DEF Charges, Settle, AtMostLapses, ColumnTypes, Requests
<1>5. ASSUME TooLate(q)
      PROVE  rowState'[q] = "expired" /\ \A p \in Requests : AtMostLapses(p)
  BY <1>2, <1>5 DEF TooLate, TurnedAway, StillReserved, vars, AtMostLapses
<1>6. ASSUME Release(q)
      PROVE  rowState'[q] = "released" /\ \A p \in Requests : p # q => AtMostLapses(p)
  BY <1>1, <1>6 DEF Release, AtMostLapses, ColumnTypes, Requests
<1>7. CASE Charged(q)
  <2>1. Kind(q) = "answered" /\ Spends
    BY <1>7 DEF Charged, Judging
  <2>2. \/ KindOf[q] = "social" /\ Ends(q, "silent")
        \/ ~(KindOf[q] = "social" /\ Unsafe(q)) /\ Goes(q, Keeps(q))
    BY <1>7 DEF Charged
  <2>3. CASE Ends(q, "silent")
    <3>1. /\ job'[q].at = "silent" /\ job'[q].result = job[q].result
          /\ \A p \in Requests : p # q => job'[p] = job[p]
      BY <2>3, Moves
    <3>2. Books(q)'
      BY <1>4, <2>1, <3>1 DEF Books, Unasked, Spoken, Kind, ChargedAsReported
    <3>3. QED
      BY <1>4, <2>1, <3>1, <3>2, BooksOf
  <2>4. CASE ~(KindOf[q] = "social" /\ Unsafe(q)) /\ Goes(q, Keeps(q))
    <3>1. Keeps(q) \in Spoken
      BY DEF Keeps, Spoken
    <3>2. /\ job'[q].at = Keeps(q) /\ job'[q].result = job[q].result
          /\ \A p \in Requests : p # q => job'[p] = job[p]
      BY <2>4, Moves
    <3>3. KindOf[q] = "social" => cost <= rowMax[q]
      <4>1. cost \in Nat /\ rowMax[q] \in Nat
        BY <1>1, <1>3, <2>1, ColumnsAreNat
      <4>2. KindOf[q] = "social" => ~Breach(rowMax[q], cost)
        BY <2>4 DEF Unsafe
      <4>3. QED
        BY <4>1, <4>2 DEF Breach
    <3>4. Books(q)'
      BY <1>4, <2>1, <3>1, <3>2, <3>3 DEF Books, Unasked, Spoken, Kind, ChargedAsReported
    <3>5. QED
      BY <1>4, <2>1, <3>2, <3>4, BooksOf
  <2>5. QED
    BY <2>2, <2>3, <2>4
<1>8. CASE NotCharged(q) \/ InvalidCharged(q) \/ RefusalReleased(q)
  <2>1. /\ job'[q].at \in {"silent", "regenerated"} /\ job'[q].result = job[q].result
        /\ \A p \in Requests : p # q => job'[p] = job[p]
    BY <1>8, Moves DEF NotCharged, InvalidCharged, RefusalReleased
  <2>2. \/ Spends
        \/ Kind(q) \in {"answered", "invalid", "refused"} /\ TooLate(q)
        \/ Kind(q) = "refused" /\ Release(q)
    BY <1>8 DEF NotCharged, InvalidCharged, RefusalReleased, Judging
  <2>3. CASE Spends
    <3>1. Books(q)'
      BY <1>4, <2>1, <2>3 DEF Books, Unasked, Spoken, Kind, ChargedAsReported
    <3>2. QED
      BY <1>4, <2>1, <2>3, <3>1, BooksOf
  <2>4. CASE Kind(q) \in {"answered", "invalid", "refused"} /\ TooLate(q)
    <3>1. Books(q)'
      BY <1>5, <2>1, <2>4 DEF Books, Unasked, Spoken, Kind
    <3>2. QED
      BY <1>5, <2>1, <2>4, <3>1, BooksOf
  <2>5. CASE Kind(q) = "refused" /\ Release(q)
    <3>1. Books(q)'
      BY <1>6, <2>1, <2>5 DEF Books, Unasked, Spoken, Kind
    <3>2. QED
      BY <1>6, <2>1, <2>5, <3>1, BooksOf
  <2>6. QED
    BY <2>2, <2>3, <2>4, <2>5
<1>9. QED
  BY <1>7, <1>8

\* Every step of the service keeps the books of every request.
LEMMA StepBooks ==
  ASSUME ColumnTypes, JobTypes, AllBooks, [ServiceNext]_serviceVars
  PROVE  AllBooks'
<1>1. ASSUME NEW q \in Requests, Pipeline(q) PROVE AllBooks'
  <2>1. CASE Reserve(q) \/ Refused(q)
    BY <2>1, AdmissionSteps
  <2>2. CASE Charged(q) \/ NotCharged(q) \/ InvalidCharged(q) \/ RefusalReleased(q)
    BY <2>2, BillingSteps
  <2>3. CASE \/ Receive(q) \/ Lock(q) \/ AmbientAccepted(q) \/ AmbientRefused(q)
             \/ RecordProfile(q) \/ (\E max \in MaxCosts : Count(q, max)) \/ CountRefused(q)
             \/ (\E result \in Results : Generate(q, result)) \/ LeftOutstanding(q)
             \/ Remember(q, "user_turn", "user", "reply_turn")
             \/ Remember(q, "reply_turn", "assistant", "finish")
             \/ RecordDecision(q) \/ Finish(q)
    <3>1. UNCHANGED vars
      BY <2>3 DEF Receive, Lock, AmbientAccepted, AmbientRefused, RecordProfile, Count,
           CountRefused, Generate, LeftOutstanding, Remember, RecordDecision, Finish, KeepLedger
    <3>2. QED
      BY <2>3, <3>1, QuietSteps
  <2>4. QED
    BY <1>1, <2>1, <2>2, <2>3 DEF Pipeline
<1>2. ASSUME UNCHANGED vars, job' = job PROVE AllBooks'
  BY <1>2, BooksStable DEF AllBooks, AtMostLapses, vars
<1>3. ASSUME NEW q \in Requests, NEW how \in Cut, CutShort(q, how), UNCHANGED vars
      PROVE  AllBooks'
  <2>1. job'[q].at = how /\ \A p \in Requests : p # q => job'[p] = job[p] /\ AtMostLapses(p)
    BY <1>3, Moves DEF AtMostLapses, vars
  <2>2. Books(q)'
    BY <2>1 DEF Books, Cut, Unasked, Spoken
  <2>3. QED
    BY <2>1, <2>2, BooksOf
<1>4. ASSUME NEW q \in Requests, Cancel(q) \/ Fail(q) PROVE AllBooks'
  BY <1>3, <1>4 DEF Cancel, Fail, KeepLedger, Cut
<1>5. ASSUME NEW s \in Sidecars, Crash(s) PROVE AllBooks'
  <2>1. SUFFICES ASSUME NEW q \in Requests PROVE Books(q)'
    BY DEF AllBooks
  <2>2. Books(q) /\ AtMostLapses(q)
    BY <1>5 DEF AllBooks, Crash, KeepLedger, AtMostLapses, vars
  <2>3. job'[q] = job[q] \/ job'[q].at = "crashed"
    BY <1>5 DEF Crash, Over
  <2>4. QED
    BY <2>2, <2>3, BooksStable DEF Books, Unasked, Spoken
<1>6. ASSUME NEW s \in Sidecars, Purge(s) PROVE AllBooks'
  BY <1>2, <1>6 DEF Purge, PurgeBegins, PurgeBot, PurgeEnds, KeepLedger
<1>7. ASSUME NEW b \in Bots, BotDeleted(b) PROVE AllBooks'
  BY <1>2, <1>7 DEF BotDeleted, KeepLedger
<1>8. CASE Time
  BY <1>2, <1>8 DEF Time, KeepLedger
<1>9. CASE UNCHANGED serviceVars
  BY <1>2, <1>9 DEF serviceVars
<1>10. QED
  BY <1>1, <1>4, <1>5, <1>6, <1>7, <1>8, <1>9 DEF ServiceNext

\* No request has a row at first.
LEMMA InitBooks == ServiceInit => AllBooks
BY DEF ServiceInit, Init, AllBooks, Books, Over, Unasked, Spoken, Requests

-----------------------------------------------------------------------------
(* Theorems of the service.                                                *)

ServiceInv == LedgerInv /\ JobTypes /\ AllBooks

\* The ledger's invariant, the types of the locals and the books of every request,
\* whatever is cancelled, fails or crashes.
THEOREM ServiceInvariant == ServiceSpec => []ServiceInv
<1>1. ServiceInit => ServiceInv
  BY InitInv, InitTypes, InitBooks DEF ServiceInit, ServiceInv
<1>2. ServiceInv /\ [ServiceNext]_serviceVars => ServiceInv'
  <2>1. SUFFICES ASSUME ServiceInv, [ServiceNext]_serviceVars PROVE ServiceInv'
    OBVIOUS
  <2>2. LedgerInv /\ ColumnTypes /\ JobTypes /\ AllBooks
    BY <2>1 DEF ServiceInv, LedgerInv
  <2>3. [Next]_vars
    BY <2>1, <2>2, StepIsLedgers
  <2>4. LedgerInv'
    BY <2>2, <2>3, InvStep
  <2>5. JobTypes' /\ AllBooks'
    BY <2>1, <2>2, StepTypes, StepBooks
  <2>6. QED
    BY <2>4, <2>5 DEF ServiceInv
<1>3. QED
  BY <1>1, <1>2, PTL DEF ServiceSpec

\* The service implements the ledger: its requests, on any number of sidecars, take
\* only the ledger's steps, with the arguments the ledger allows (app.py's calls of
\* reserve, settle and release).
THEOREM ServiceImplementsLedger == ServiceSpec => Spec
<1>1. ServiceInit => Init
  BY DEF ServiceInit
<1>2. ServiceInv /\ [ServiceNext]_serviceVars => [Next]_vars
  BY StepIsLedgers DEF ServiceInv
<1>3. QED
  BY <1>1, <1>2, ServiceInvariant, PTL DEF ServiceSpec, Spec

\* So the day's ceiling holds of the requests of the service.
THEOREM ServiceKeepsCeiling == ServiceSpec => []CeilingHolds
BY ServiceImplementsLedger, CeilingAlwaysHolds, PTL

\* Nothing is spoken that was not charged at its reported cost, and no social line
\* that cost more than it reserved (app.py:838-845, 950-963).
THEOREM NoReplyIsFree == ServiceSpec => []NoFreeReply
<1>1. ServiceInv => NoFreeReply
  BY DEF ServiceInv, AllBooks, Books, Spoken, ChargedAsReported, NoFreeReply
<1>2. QED
  BY <1>1, ServiceInvariant, PTL

\* A request that ends by itself leaves its row as its bill says (app.py:988-1035).
THEOREM AllEndAsBilled == ServiceSpec => []EndedAsBilled
<1>1. ServiceInv => EndedAsBilled
  <2>1. SUFFICES ASSUME ServiceInv, NEW q \in Requests, job[q].at \in Answered
                 PROVE  CASE Kind(q) = "none" -> rowState[q] = "absent"
                          [] Kind(q) \in {"answered", "invalid"} ->
                               ChargedAsReported(q) \/ rowState[q] = "expired"
                          [] Kind(q) = "refused" -> rowState[q] \in {"released", "expired"}
                          [] OTHER -> rowState[q] \in {"reserved", "expired"}
    BY DEF EndedAsBilled, ChargedAsReported
  <2>2. Books(q) /\ job[q] \in Job
    BY <2>1 DEF ServiceInv, AllBooks, JobTypes
  <2>3. Kind(q) \in {"none", "answered", "invalid", "unpriceable", "garbled", "refused",
                     "unknown"}
    BY <2>2 DEF Kind, Job, Results, NoResult
  <2>4. CASE job[q].at = "replied"
    BY <2>2, <2>4 DEF Books, Spoken
  <2>5. CASE job[q].at \in {"silent", "regenerated"}
    BY <2>2, <2>3, <2>5 DEF Books
  <2>6. QED
    BY <2>1, <2>4, <2>5 DEF Answered
<1>2. QED
  BY <1>1, ServiceInvariant, PTL

-----------------------------------------------------------------------------
(***************************************************************************)
(* A request that may still be charged has its reservation.  The expiry a  *)
(* row is given is counted from the request's own reading of the clock,    *)
(* which is no earlier than the arrival its deadline is counted from; and  *)
(* whoever sweeps has read the clock no later than now.  So with the       *)
(* deadline within the expiry, a row is swept only once its request is     *)
(* dead.                                                                   *)
(***************************************************************************)

Begun == InProgress \ {"queued"}

\* What the clock says of request q at each of its places: inductive where the property
\* is not, because it also dates the requests that have yet to reserve.
InTime(q) ==
  /\ job[q].at = "queued" => job[q].deadline <= clock + ResponseDeadline
  /\ job[q].at \in Begun => /\ job[q].now <= clock
                            /\ job[q].deadline <= job[q].now + ResponseDeadline
  /\ job[q].at \in {"generate", "judge"} =>
       \/ rowState[q] = "reserved" /\ rowExpires[q] = job[q].now + Expiry
       \/ clock > job[q].deadline

AllInTime == ResponseDeadline < Expiry => \A q \in Requests : InTime(q)

\* What the steps of others do to row r: a sweep takes it only when it has expired.
SweptWhenDue(r) ==
  /\ rowState'[r] = rowState[r] \/ rowExpires[r] <= clock
  /\ rowExpires'[r] = rowExpires[r]

\* The clock, the deadlines and the readings are numbers.
LEMMA ClockTypes ==
  ASSUME JobTypes, NEW q \in Requests
  PROVE  /\ clock \in Nat /\ ResponseDeadline \in Nat /\ Expiry \in Nat
         /\ job[q] \in Job /\ job[q].now \in Times /\ job[q].now \in Nat
         /\ job[q].deadline \in Nat
BY LedgerAssumption, ServiceAssumption DEF JobTypes, Job, Times

\* A request that does not move stays in time, whatever the others do.
LEMMA InTimeStable ==
  ASSUME JobTypes, ColumnTypes, NEW q \in Requests, ResponseDeadline < Expiry, InTime(q),
         job'[q] = job[q], clock' \in Nat, clock <= clock', SweptWhenDue(q)
  PROVE  InTime(q)'
<1>1. /\ clock \in Nat /\ ResponseDeadline \in Nat /\ Expiry \in Nat
      /\ job[q].now \in Nat /\ job[q].deadline \in Nat
  BY ClockTypes
<1>2. ASSUME job[q].at \in {"generate", "judge"}
      PROVE  \/ rowState'[q] = "reserved" /\ rowExpires'[q] = job[q].now + Expiry
             \/ clock' > job[q].deadline
  <2>1. job[q].at \in Begun
    BY <1>2 DEF Begun, InProgress
  <2>2. job[q].deadline <= job[q].now + ResponseDeadline
    BY <2>1 DEF InTime
  <2>3. CASE clock > job[q].deadline
    BY <1>1, <2>3
  <2>4. CASE rowState[q] = "reserved" /\ rowExpires[q] = job[q].now + Expiry
    BY <1>1, <2>2, <2>4 DEF SweptWhenDue
  <2>5. QED
    BY <1>2, <2>3, <2>4 DEF InTime
<1>3. QED
  BY <1>1, <1>2 DEF InTime

\* A step of request q that reads no clock: its place changes, or it is over.
LEMMA Steps ==
  ASSUME JobTypes, NEW q \in Requests, NEW place
  PROVE  /\ Goes(q, place) =>
              /\ job'[q].at = place /\ job'[q].now = job[q].now
              /\ job'[q].deadline = job[q].deadline /\ clock' = clock
         /\ Ends(q, place) \/ CutShort(q, place) => job'[q].at = place /\ clock' = clock
<1>1. job[q] \in Job /\ job \in [Requests -> Job]
  BY DEF JobTypes
<1>2. ASSUME Goes(q, place)
      PROVE  /\ job'[q].at = place /\ job'[q].now = job[q].now
             /\ job'[q].deadline = job[q].deadline /\ clock' = clock
  <2>1. job'[q] = [job[q] EXCEPT !.at = place] /\ clock' = clock
    BY <1>1, <1>2 DEF Goes
  <2>2. /\ [job[q] EXCEPT !.at = place].at = place
        /\ [job[q] EXCEPT !.at = place].now = job[q].now
        /\ [job[q] EXCEPT !.at = place].deadline = job[q].deadline
    BY <1>1 DEF Job
  <2>3. QED
    BY <2>1, <2>2
<1>3. ASSUME Ends(q, place) \/ CutShort(q, place)
      PROVE  job'[q].at = place /\ clock' = clock
  BY <1>1, <1>3 DEF Ends, CutShort, Over
<1>4. QED
  BY <1>2, <1>3

\* A pipeline's step stays in time itself: a reservation expires Expiry after the
\* reading its request was given, and no other step lengthens a deadline.
LEMMA OwnStepInTime ==
  ASSUME JobTypes, ColumnTypes, NEW q \in Requests, InTime(q), Pipeline(q)
  PROVE  InTime(q)'
<1>1. /\ clock \in Nat /\ ResponseDeadline \in Nat /\ Expiry \in Nat
      /\ job[q] \in Job /\ job \in [Requests -> Job]
      /\ job[q].now \in Nat /\ job[q].deadline \in Nat
  BY ClockTypes DEF JobTypes
<1>2. CASE Receive(q)
  <2>1. /\ job'[q] = [job[q] EXCEPT !.at = "queued", !.deadline = clock + ResponseDeadline]
        /\ clock' = clock
    BY <1>1, <1>2 DEF Receive
  <2>2. job'[q].at = "queued" /\ job'[q].deadline = clock + ResponseDeadline
    BY <1>1, <2>1 DEF Job
  <2>3. QED
    BY <1>1, <2>1, <2>2 DEF InTime, Begun
<1>3. CASE Lock(q)
  <2> DEFINE place == IF KindOf[q] = "ambient" THEN "ambient"
                      ELSE IF KindOf[q] \in ChatKinds THEN "profile" ELSE "count"
  <2>1. job'[q] = [job[q] EXCEPT !.now = clock, !.at = place] /\ clock' = clock
    BY <1>1, <1>3 DEF Lock
  <2>2. place \in {"ambient", "profile", "count"}
    OBVIOUS
  <2> HIDE DEF place
  <2>3. job'[q].at = place /\ job'[q].now = clock /\ job'[q].deadline = job[q].deadline
    BY <1>1, <2>1 DEF Job
  <2>4. job[q].deadline <= clock + ResponseDeadline
    BY <1>3 DEF Lock, At, InTime
  <2>5. QED
    BY <1>1, <2>1, <2>2, <2>3, <2>4 DEF InTime, Begun
<1>4. ASSUME job[q].at \in Begun, job'[q].at \notin {"queued", "generate", "judge"},
             job'[q].now = job[q].now, job'[q].deadline = job[q].deadline, clock' = clock
      PROVE  InTime(q)'
  BY <1>1, <1>4 DEF InTime
<1>5. CASE \E max \in MaxCosts : Count(q, max)
  <2>1. PICK max \in MaxCosts : Count(q, max)
    BY <1>5
  <2>2. job'[q] = [job[q] EXCEPT !.at = "reserve", !.max = max] /\ clock' = clock
    BY <1>1, <2>1 DEF Count
  <2>3. /\ job'[q].at = "reserve" /\ job'[q].now = job[q].now
        /\ job'[q].deadline = job[q].deadline
    BY <1>1, <2>2 DEF Job
  <2>4. job[q].at \in Begun
    BY <2>1 DEF Count, At, Begun, InProgress
  <2>5. QED
    BY <1>4, <2>2, <2>3, <2>4
<1>6. CASE Reserve(q)
  <2>1. rowState'[q] = "reserved" /\ rowExpires'[q] = job[q].now + Expiry
    BY <1>6 DEF Reserve, ReserveAdmitted, ColumnTypes, Requests
  <2>2. /\ job'[q].at = "generate" /\ job'[q].now = job[q].now
        /\ job'[q].deadline = job[q].deadline /\ clock' = clock
    BY <1>6, Steps DEF Reserve
  <2>3. job[q].at \in Begun
    BY <1>6 DEF Reserve, At, Begun, InProgress
  <2>4. QED
    BY <2>1, <2>2, <2>3 DEF InTime
<1>7. CASE \E result \in Results : Generate(q, result)
  <2>1. PICK result \in Results : Generate(q, result)
    BY <1>7
  <2>2. /\ job'[q] = [job[q] EXCEPT !.at = "judge", !.result = result]
        /\ clock' = clock /\ rowState' = rowState /\ rowExpires' = rowExpires
    BY <1>1, <2>1 DEF Generate, KeepLedger, vars
  <2>3. /\ job'[q].at = "judge" /\ job'[q].now = job[q].now
        /\ job'[q].deadline = job[q].deadline
    BY <1>1, <2>2 DEF Job
  <2>4. job[q].at = "generate" /\ job[q].at \in Begun
    BY <2>1 DEF Generate, At, Begun, InProgress
  <2>5. QED
    BY <2>2, <2>3, <2>4 DEF InTime
<1>8. ASSUME NEW place \in {"profile", "count", "user_turn", "reply_turn", "decision", "finish"},
             Goes(q, place), job[q].at \in Begun
      PROVE  InTime(q)'
  BY <1>4, <1>8, Steps
<1>9. CASE AmbientAccepted(q) \/ RecordProfile(q) \/ RecordDecision(q)
             \/ Remember(q, "user_turn", "user", "reply_turn")
             \/ Remember(q, "reply_turn", "assistant", "finish")
  BY <1>8, <1>9 DEF AmbientAccepted, RecordProfile, RecordDecision, Remember, At, Begun, InProgress
<1>10. ASSUME NEW how \in Answered, Ends(q, how) PROVE InTime(q)'
  BY <1>10, Steps DEF InTime, Answered, Begun, InProgress
<1>11. CASE AmbientRefused(q) \/ CountRefused(q) \/ Refused(q) \/ NotCharged(q)
              \/ LeftOutstanding(q) \/ InvalidCharged(q) \/ RefusalReleased(q) \/ Finish(q)
  BY <1>10, <1>11 DEF AmbientRefused, CountRefused, Refused, NotCharged, LeftOutstanding,
       InvalidCharged, RefusalReleased, Finish, Answered
<1>12. CASE Charged(q)
  <2>1. Keeps(q) \in {"user_turn", "decision", "finish"} /\ job[q].at \in Begun
    BY <1>12 DEF Charged, Judging, At, Keeps, Begun, InProgress
  <2>2. Ends(q, "silent") \/ Goes(q, Keeps(q))
    BY <1>12 DEF Charged
  <2>3. QED
    BY <1>8, <1>10, <2>1, <2>2 DEF Answered
<1>13. QED
  BY <1>2, <1>3, <1>5, <1>6, <1>7, <1>9, <1>11, <1>12 DEF Pipeline

\* A pipeline's step moves no other request, and sweeps another's row only when the
\* reading it sweeps by, which is none of the future, is past the row's expiry.
LEMMA OthersInTime ==
  ASSUME JobTypes, ColumnTypes, NEW p \in Requests, InTime(p), Pipeline(p),
         NEW q \in Requests, q # p
  PROVE  job'[q] = job[q] /\ clock' = clock /\ SweptWhenDue(q)
<1>1. /\ job \in [Requests -> Job] /\ p \in Rows /\ q \in Rows
      /\ clock \in Nat /\ job[p].now \in Nat /\ rowExpires[q] \in Nat
  <2>1. rowExpires[q] \in 0 .. LastTime + Expiry
    BY DEF ColumnTypes, Requests
  <2>2. QED
    BY <2>1, ClockTypes, LedgerAssumption DEF JobTypes, Requests
<1>2. ASSUME UNCHANGED vars PROVE SweptWhenDue(q)
  BY <1>2 DEF vars, SweptWhenDue
<1>3. ASSUME NEW place, Goes(p, place) \/ Ends(p, place) PROVE job'[q] = job[q] /\ clock' = clock
  BY <1>3, Moves, Steps
<1>4. CASE Reserve(p) \/ Refused(p)
  <2>1. job[p].now <= clock
    BY <1>4 DEF Reserve, Refused, At, InTime, Begun, InProgress
  <2>2. job'[q] = job[q] /\ clock' = clock
    BY <1>3, <1>4 DEF Reserve, Refused
  <2>3. CASE Reserve(p)
    <3>1. PICK now \in Times : now = job[p].now /\ ReserveAdmitted(now, job[p].max, PriorityOf(p), p)
      BY <2>3 DEF Reserve
    <3>2. rowState'[q] = rowState[q] \/ rowExpires[q] <= job[p].now
      BY <1>1, <3>1 DEF ReserveAdmitted, Lapsed, ColumnTypes
    <3>3. rowExpires'[q] = rowExpires[q]
      BY <1>1, <3>1 DEF ReserveAdmitted, ColumnTypes
    <3>4. QED
      BY <1>1, <2>1, <2>2, <3>2, <3>3 DEF SweptWhenDue
  <2>4. CASE Refused(p)
    <3>1. PICK now \in Times : now = job[p].now /\ ReserveDenied(now, job[p].max, PriorityOf(p))
      BY <2>4 DEF Refused
    <3>2. rowState'[q] = rowState[q] \/ rowExpires[q] <= job[p].now
      BY <1>1, <3>1 DEF ReserveDenied, Lapsed, ColumnTypes
    <3>3. rowExpires'[q] = rowExpires[q]
      BY <3>1 DEF ReserveDenied
    <3>4. QED
      BY <1>1, <2>1, <2>2, <3>2, <3>3 DEF SweptWhenDue
  <2>5. QED
    BY <1>4, <2>3, <2>4
<1>5. CASE Charged(p) \/ NotCharged(p) \/ InvalidCharged(p) \/ RefusalReleased(p)
  <2>1. job'[q] = job[q] /\ clock' = clock
    BY <1>3, <1>5 DEF Charged, NotCharged, InvalidCharged, RefusalReleased
  <2>2. Charges(p) \/ TooLate(p) \/ Release(p)
    BY <1>5 DEF Charged, NotCharged, InvalidCharged, RefusalReleased
  <2>3. ASSUME Charges(p) PROVE SweptWhenDue(q)
    BY <1>1, <2>3 DEF Charges, Settle, SweptWhenDue, ColumnTypes
  <2>4. ASSUME Release(p) PROVE SweptWhenDue(q)
    BY <1>1, <2>4 DEF Release, SweptWhenDue, ColumnTypes
  <2>5. QED
    BY <1>2, <2>1, <2>2, <2>3, <2>4 DEF TooLate, TurnedAway
<1>6. CASE Receive(p) \/ Lock(p) \/ (\E max \in MaxCosts : Count(p, max))
             \/ (\E result \in Results : Generate(p, result))
  BY <1>1, <1>2, <1>6 DEF Receive, Lock, Count, Generate, KeepLedger
<1>7. CASE AmbientAccepted(p) \/ AmbientRefused(p) \/ RecordProfile(p) \/ CountRefused(p)
             \/ LeftOutstanding(p) \/ RecordDecision(p) \/ Finish(p)
             \/ Remember(p, "user_turn", "user", "reply_turn")
             \/ Remember(p, "reply_turn", "assistant", "finish")
  BY <1>2, <1>3, <1>7 DEF AmbientAccepted, AmbientRefused, RecordProfile, CountRefused,
       LeftOutstanding, RecordDecision, Finish, Remember, KeepLedger
<1>8. QED
  BY <1>4, <1>5, <1>6, <1>7 DEF Pipeline

\* Every step of the service keeps every request in time.
LEMMA StepInTime ==
  ASSUME JobTypes, ColumnTypes, ResponseDeadline < Expiry, [ServiceNext]_serviceVars,
         \A q \in Requests : InTime(q)
  PROVE  \A q \in Requests : InTime(q)'
<1>1. clock \in Nat
  BY DEF JobTypes, Times
<1>2. ASSUME UNCHANGED vars, job' = job, clock' = clock \/ clock' = clock + 1
      PROVE  \A q \in Requests : InTime(q)'
  BY <1>1, <1>2, InTimeStable DEF SweptWhenDue, vars
<1>3. ASSUME NEW p \in Requests, Pipeline(p) PROVE \A q \in Requests : InTime(q)'
  <2>1. SUFFICES ASSUME NEW q \in Requests, q # p PROVE InTime(q)'
    BY <1>3, OwnStepInTime
  <2>2. job'[q] = job[q] /\ clock' = clock /\ SweptWhenDue(q)
    BY <1>3, <2>1, OthersInTime
  <2>3. QED
    BY <1>1, <2>2, InTimeStable
<1>4. ASSUME UNCHANGED vars, clock' = clock,
             \A q \in Requests : job'[q] = job[q] \/ job'[q].at \in Cut
      PROVE  \A q \in Requests : InTime(q)'
  <2>1. SUFFICES ASSUME NEW q \in Requests PROVE InTime(q)'
    OBVIOUS
  <2>2. CASE job'[q] = job[q]
    BY <1>1, <1>4, <2>2, InTimeStable DEF SweptWhenDue, vars
  <2>3. CASE job'[q].at \in Cut
    BY <2>3 DEF InTime, Cut, Begun, InProgress
  <2>4. QED
    BY <1>4, <2>2, <2>3
<1>5. ASSUME NEW p \in Requests, Cancel(p) \/ Fail(p) PROVE \A q \in Requests : InTime(q)'
  <2>1. UNCHANGED vars /\ \E how \in Cut : CutShort(p, how)
    BY <1>5 DEF Cancel, Fail, KeepLedger, Cut
  <2>2. clock' = clock /\ \A q \in Requests : job'[q] = job[q] \/ job'[q].at \in Cut
    BY <2>1, Moves, Steps
  <2>3. QED
    BY <1>4, <2>1, <2>2
<1>6. ASSUME NEW s \in Sidecars, Crash(s) PROVE \A q \in Requests : InTime(q)'
  BY <1>4, <1>6 DEF Crash, KeepLedger, Over, Cut
<1>7. ASSUME NEW s \in Sidecars, Purge(s) PROVE \A q \in Requests : InTime(q)'
  BY <1>2, <1>7 DEF Purge, PurgeBegins, PurgeBot, PurgeEnds, KeepLedger
<1>8. ASSUME NEW b \in Bots, BotDeleted(b) PROVE \A q \in Requests : InTime(q)'
  BY <1>2, <1>8 DEF BotDeleted, KeepLedger
<1>9. CASE Time
  BY <1>2, <1>9 DEF Time, KeepLedger
<1>10. CASE UNCHANGED serviceVars
  BY <1>2, <1>10 DEF serviceVars
<1>11. QED
  BY <1>3, <1>5, <1>6, <1>7, <1>8, <1>9, <1>10 DEF ServiceNext

\* With the deadline within the expiry no sweep takes the row of a request that may
\* still be charged on it, whoever sweeps and however old the reading it sweeps by
\* (ledger.py:36-42).
THEOREM NeverReclaimedUnderneath == ServiceSpec => []NotReclaimedUnderneath
<1>1. ServiceInit => AllInTime
  BY DEF ServiceInit, AllInTime, InTime, Over, Begun, InProgress
<1>2. ServiceInv /\ AllInTime /\ [ServiceNext]_serviceVars => AllInTime'
  BY StepInTime DEF ServiceInv, LedgerInv, AllInTime
<1>3. ServiceInv /\ AllInTime => NotReclaimedUnderneath
  <2>1. SUFFICES ASSUME ServiceInv, NEW q \in Requests, InTime(q),
                        At(q, "generate") \/ At(q, "judge")
                 PROVE  rowState[q] = "reserved"
    BY DEF AllInTime, NotReclaimedUnderneath
  <2>2. clock \in Nat /\ job[q].deadline \in Nat /\ clock <= job[q].deadline
    BY <2>1, ClockTypes DEF ServiceInv, At
  <2>3. QED
    BY <2>1, <2>2 DEF InTime, At
<1>4. QED
  BY <1>1, <1>2, <1>3, ServiceInvariant, PTL DEF ServiceSpec

-----------------------------------------------------------------------------
(***************************************************************************)
(* The tables beside the ledger.  A request past the wait has the lock of  *)
(* its sidecar, so nothing of the same sidecar comes between two of its    *)
(* transactions: a reply finds the line it answers last in the bot's       *)
(* history, and an ambient line finds every earlier one that its window    *)
(* still counts.                                                           *)
(***************************************************************************)

\* What the columns of these tables may hold.
TableTypes ==
  /\ holder \in [Sidecars -> Requests \cup {"purge", Nobody}]
  /\ turns \in [Bots -> Seq(Turn)]
  /\ \A b \in Bots : Len(turns[b]) <= TurnLimit
  /\ profiles \subseteq Bots /\ decisions \subseteq Bots
  /\ attempts \subseteq accepted
  /\ IsFiniteSet(accepted)
  /\ \A a \in accepted : a.at \in Times
  /\ intents \in [Bots -> {"none", "pending", "acknowledged"}]

\* A request past the wait has the generation lock of its sidecar.
LockHeld == \A q \in Requests : job[q].at \in Begun => holder[SidecarOf[q]] = q

\* The two constants the names of a request are taken from.
LEMMA RequestTypes ==
  /\ \A q \in Requests : SidecarOf[q] \in Sidecars /\ BotOf[q] \in Bots
  /\ \A q \in Requests : q # Nobody /\ q # "purge"
  /\ TurnLimit \in Nat \ {0} /\ AmbientLimit \in Nat \ {0} /\ AmbientWindow \in Nat
BY ServiceAssumption

\* The pipeline's step of a request that has the lock keeps it, and says where it goes.
LEMMA PipelineMoves ==
  ASSUME JobTypes, NEW q \in Requests, Pipeline(q)
  PROVE  \/ Receive(q) \/ Lock(q)
         \/ Remember(q, "user_turn", "user", "reply_turn")
         \/ /\ job[q].at \in Begun /\ job'[q].at \in Begun \ {"ambient", "reply_turn"}
            /\ \A p \in Requests : p # q => job'[p] = job[p]
            /\ UNCHANGED <<clock, holder>>
         \/ \E how \in Answered : Ends(q, how)
<1> DEFINE Passes == /\ job[q].at \in Begun /\ job'[q].at \in Begun \ {"ambient", "reply_turn"}
                     /\ \A p \in Requests : p # q => job'[p] = job[p]
                     /\ UNCHANGED <<clock, holder>>
<1>1. ASSUME NEW place \in {"profile", "count", "generate", "user_turn", "decision", "finish"},
             Goes(q, place), job[q].at \in Begun
      PROVE  Passes
  BY <1>1, Moves DEF Goes, Begun, InProgress
<1>2. CASE AmbientAccepted(q) \/ RecordProfile(q) \/ RecordDecision(q) \/ Reserve(q)
             \/ Remember(q, "reply_turn", "assistant", "finish")
  BY <1>1, <1>2 DEF AmbientAccepted, RecordProfile, RecordDecision, Reserve, Remember, At,
       Begun, InProgress
<1>3. CASE \E max \in MaxCosts : Count(q, max)
  <2>1. PICK max \in MaxCosts : Count(q, max)
    BY <1>3
  <2>2. job[q] \in Job /\ job \in [Requests -> Job]
    BY DEF JobTypes
  <2>3. job'[q] = [job[q] EXCEPT !.at = "reserve", !.max = max]
    BY <2>1, <2>2 DEF Count
  <2>4. job'[q].at = "reserve"
    BY <2>2, <2>3 DEF Job
  <2>5. Passes
    BY <2>1, <2>2, <2>4 DEF Count, At, Begun, InProgress
  <2>6. QED
    BY <2>5
<1>4. CASE \E result \in Results : Generate(q, result)
  <2>1. PICK result \in Results : Generate(q, result)
    BY <1>4
  <2>2. job[q] \in Job /\ job \in [Requests -> Job]
    BY DEF JobTypes
  <2>3. job'[q] = [job[q] EXCEPT !.at = "judge", !.result = result]
    BY <2>1, <2>2 DEF Generate
  <2>4. job'[q].at = "judge"
    BY <2>2, <2>3 DEF Job
  <2>5. Passes
    BY <2>1, <2>2, <2>4 DEF Generate, At, Begun, InProgress
  <2>6. QED
    BY <2>5
<1>5. CASE AmbientRefused(q) \/ CountRefused(q) \/ Refused(q) \/ NotCharged(q)
             \/ LeftOutstanding(q) \/ InvalidCharged(q) \/ RefusalReleased(q) \/ Finish(q)
  BY <1>5 DEF AmbientRefused, CountRefused, Refused, NotCharged, LeftOutstanding,
       InvalidCharged, RefusalReleased, Finish, Answered
<1>6. CASE Charged(q)
  <2>1. Keeps(q) \in {"user_turn", "decision", "finish"} /\ job[q].at \in Begun
    BY <1>6 DEF Charged, Judging, At, Keeps, Begun, InProgress
  <2>2. Ends(q, "silent") \/ Goes(q, Keeps(q))
    BY <1>6 DEF Charged
  <2>3. QED
    BY <1>1, <2>1, <2>2 DEF Answered
<1>7. QED
  BY <1>2, <1>3, <1>4, <1>5, <1>6 DEF Pipeline

\* A request that begins, and no other, holds the lock it found free.
LEMMA LockMoves ==
  ASSUME JobTypes, NEW q \in Requests, Lock(q)
  PROVE  /\ job'[q].at = IF KindOf[q] = "ambient" THEN "ambient"
                         ELSE IF KindOf[q] \in ChatKinds THEN "profile" ELSE "count"
         /\ job'[q].now = clock /\ clock' = clock
         /\ \A p \in Requests : p # q => job'[p] = job[p]
         /\ holder[SidecarOf[q]] = Nobody
         /\ holder' = [holder EXCEPT ![SidecarOf[q]] = q]
<1> DEFINE place == IF KindOf[q] = "ambient" THEN "ambient"
                    ELSE IF KindOf[q] \in ChatKinds THEN "profile" ELSE "count"
<1>1. job[q] \in Job /\ job \in [Requests -> Job]
  BY DEF JobTypes
<1>2. job'[q] = [job[q] EXCEPT !.now = clock, !.at = place]
  BY <1>1 DEF Lock
<1> HIDE DEF place
<1>3. job'[q].at = place /\ job'[q].now = clock
  BY <1>1, <1>2 DEF Job
<1>4. QED
  BY <1>1, <1>3 DEF Lock, place

\* A request arrives and waits.
LEMMA ReceiveMoves ==
  ASSUME JobTypes, NEW q \in Requests, Receive(q)
  PROVE  /\ job'[q].at = "queued"
         /\ \A p \in Requests : p # q => job'[p] = job[p]
         /\ UNCHANGED <<clock, holder>>
<1>1. job[q] \in Job /\ job \in [Requests -> Job]
  BY DEF JobTypes
<1>2. job'[q] = [job[q] EXCEPT !.at = "queued", !.deadline = clock + ResponseDeadline]
  BY <1>1 DEF Receive
<1>3. job'[q].at = "queued"
  BY <1>1, <1>2 DEF Job
<1>4. QED
  BY <1>1, <1>3 DEF Receive

\* Each request keeps its lock from the wait to its end, and no longer.
LEMMA StepLock ==
  ASSUME JobTypes, LockHeld, [ServiceNext]_serviceVars,
         holder \in [Sidecars -> Requests \cup {"purge", Nobody}]
  PROVE  LockHeld' /\ holder' \in [Sidecars -> Requests \cup {"purge", Nobody}]
<1> DEFINE HolderType == holder \in [Sidecars -> Requests \cup {"purge", Nobody}]
<1> USE RequestTypes
<1>1. ASSUME NEW q \in Requests, NEW how \in Answered \cup Cut, Ends(q, how) \/ CutShort(q, how)
      PROVE  LockHeld' /\ HolderType'
  <2>1. /\ job'[q].at \notin Begun
        /\ \A p \in Requests : p # q => job'[p] = job[p]
    BY <1>1, Moves DEF Answered, Cut, Begun, InProgress
  <2>2. holder' = Unlocked(q)
    BY <1>1 DEF Ends, CutShort
  <2>3. \A s \in Sidecars : holder[s] # q => holder'[s] = holder[s]
    BY <2>2 DEF Unlocked
  <2>4. HolderType'
    BY <2>2 DEF Unlocked
  <2>5. QED
    BY <2>1, <2>3, <2>4 DEF LockHeld
<1>2. ASSUME UNCHANGED holder,
             \A q \in Requests : job'[q] = job[q] \/ job'[q].at \notin Begun \/ job[q].at \in Begun
      PROVE  LockHeld' /\ HolderType'
  BY <1>2 DEF LockHeld
<1>3. ASSUME NEW q \in Requests, Pipeline(q) PROVE LockHeld' /\ HolderType'
  <2>1. CASE Receive(q)
    BY <1>2, <2>1, ReceiveMoves DEF Begun, InProgress
  <2>2. CASE Lock(q)
    BY <2>2, LockMoves DEF LockHeld
  <2>3. CASE Remember(q, "user_turn", "user", "reply_turn")
    <3>1. job[q].at \in Begun /\ Goes(q, "reply_turn")
      BY <2>3 DEF Remember, At, Begun, InProgress
    <3>2. UNCHANGED holder /\ \A p \in Requests : p # q => job'[p] = job[p]
      BY <3>1, Moves DEF Goes
    <3>3. QED
      BY <1>2, <3>1, <3>2
  <2>4. QED
    BY <1>1, <1>2, <1>3, <2>1, <2>2, <2>3, PipelineMoves
<1>4. ASSUME NEW q \in Requests, Cancel(q) \/ Fail(q) PROVE LockHeld' /\ HolderType'
  BY <1>1, <1>4 DEF Cancel, Fail, Cut
<1>5. ASSUME NEW s \in Sidecars, Crash(s) PROVE LockHeld' /\ HolderType'
  <2>1. \A q \in Requests : job'[q].at \in Begun =>
          SidecarOf[q] # s /\ job[q].at \in Begun
    BY <1>5 DEF Crash, Over, Begun, InProgress
  <2>2. QED
    BY <1>5, <2>1 DEF Crash, LockHeld
<1>6. ASSUME NEW s \in Sidecars, Purge(s) PROVE LockHeld' /\ HolderType'
  <2>1. \/ holder' = holder /\ job' = job
        \/ /\ holder[s] \in {"purge", Nobody} /\ job' = job
           /\ \/ holder' = [holder EXCEPT ![s] = "purge"]
              \/ holder' = [holder EXCEPT ![s] = Nobody]
    BY <1>6 DEF Purge, PurgeBegins, PurgeBot, PurgeEnds
  <2>2. QED
    BY <1>2, <2>1 DEF LockHeld
<1>7. ASSUME NEW b \in Bots, BotDeleted(b) PROVE LockHeld' /\ HolderType'
  BY <1>2, <1>7 DEF BotDeleted
<1>8. CASE Time \/ UNCHANGED serviceVars
  BY <1>2, <1>8 DEF Time, serviceVars
<1>9. QED
  BY <1>3, <1>4, <1>5, <1>6, <1>7, <1>8 DEF ServiceNext

\* A request comes to the ambient table by taking the lock, and to its second line by
\* writing the first.
LEMMA StepPlaces ==
  ASSUME JobTypes, [ServiceNext]_serviceVars, NEW p \in Requests,
         job'[p].at \in {"ambient", "reply_turn"}
  PROVE  job'[p] = job[p] \/ Lock(p) \/ Remember(p, "user_turn", "user", "reply_turn")
<1>1. ASSUME NEW q \in Requests, NEW how \in Answered \cup Cut, Ends(q, how) \/ CutShort(q, how)
      PROVE  job'[p] = job[p]
  BY <1>1, Moves DEF Answered, Cut
<1>2. ASSUME NEW q \in Requests, Pipeline(q)
      PROVE  job'[p] = job[p] \/ Lock(p) \/ Remember(p, "user_turn", "user", "reply_turn")
  <2>1. CASE Receive(q)
    BY <2>1, ReceiveMoves
  <2>2. CASE Lock(q)
    BY <2>2, LockMoves
  <2>3. CASE Remember(q, "user_turn", "user", "reply_turn")
    BY <2>3, Moves DEF Remember
  <2>4. QED
    BY <1>1, <1>2, <2>1, <2>2, <2>3, PipelineMoves
<1>3. ASSUME NEW q \in Requests, Cancel(q) \/ Fail(q) PROVE job'[p] = job[p]
  BY <1>1, <1>3 DEF Cancel, Fail, Cut
<1>4. ASSUME NEW s \in Sidecars, Crash(s) PROVE job'[p] = job[p]
  BY <1>4 DEF Crash, Over
<1>5. ASSUME NEW s \in Sidecars, Purge(s) PROVE job'[p] = job[p]
  BY <1>5 DEF Purge, PurgeBegins, PurgeBot, PurgeEnds
<1>6. CASE (\E b \in Bots : BotDeleted(b)) \/ Time \/ UNCHANGED serviceVars
  BY <1>6 DEF BotDeleted, Time, serviceVars
<1>7. QED
  BY <1>2, <1>3, <1>4, <1>5, <1>6 DEF ServiceNext

\* Which steps write which table.
LEMMA StepTables ==
  ASSUME [ServiceNext]_serviceVars
  PROVE  /\ \/ UNCHANGED turns
            \/ \E q \in Requests : \/ Remember(q, "user_turn", "user", "reply_turn")
                                   \/ Remember(q, "reply_turn", "assistant", "finish")
            \/ \E s \in Sidecars, b \in Bots : PurgeBot(s, b)
         /\ \/ UNCHANGED <<attempts, accepted>>
            \/ \E q \in Requests : AmbientAccepted(q) \/ AmbientRefused(q)
         /\ \/ profiles' \subseteq profiles
            \/ \E q \in Requests : profiles' = profiles \cup {BotOf[q]}
         /\ \/ decisions' \subseteq decisions
            \/ \E q \in Requests : decisions' = decisions \cup {BotOf[q]}
         /\ \/ UNCHANGED intents
            \/ \E b \in Bots : \E how \in {"pending", "acknowledged"} :
                 intents' = [intents EXCEPT ![b] = how]
<1> DEFINE Written ==
      /\ \/ UNCHANGED turns
         \/ \E q \in Requests : \/ Remember(q, "user_turn", "user", "reply_turn")
                                \/ Remember(q, "reply_turn", "assistant", "finish")
         \/ \E s \in Sidecars, b \in Bots : PurgeBot(s, b)
      /\ \/ UNCHANGED <<attempts, accepted>>
         \/ \E q \in Requests : AmbientAccepted(q) \/ AmbientRefused(q)
      /\ \/ profiles' \subseteq profiles
         \/ \E q \in Requests : profiles' = profiles \cup {BotOf[q]}
      /\ \/ decisions' \subseteq decisions
         \/ \E q \in Requests : decisions' = decisions \cup {BotOf[q]}
      /\ \/ UNCHANGED intents
         \/ \E b \in Bots : \E how \in {"pending", "acknowledged"} :
              intents' = [intents EXCEPT ![b] = how]
<1>1. ASSUME UNCHANGED store PROVE Written
  BY <1>1 DEF store
<1>2. ASSUME NEW q \in Requests, Pipeline(q) PROVE Written
  <2>1. CASE AmbientAccepted(q) \/ AmbientRefused(q)
    BY <2>1 DEF AmbientAccepted, AmbientRefused
  <2>2. CASE RecordProfile(q)
    BY <2>2 DEF RecordProfile
  <2>3. CASE RecordDecision(q)
    BY <2>3 DEF RecordDecision
  <2>4. CASE \/ Remember(q, "user_turn", "user", "reply_turn")
             \/ Remember(q, "reply_turn", "assistant", "finish")
    <3>1. UNCHANGED <<profiles, decisions, attempts, accepted, intents>>
      BY <2>4 DEF Remember
    <3>2. QED
      BY <2>4, <3>1
  <2>5. CASE \/ Receive(q) \/ Lock(q) \/ (\E max \in MaxCosts : Count(q, max))
             \/ CountRefused(q) \/ Reserve(q) \/ Refused(q)
             \/ (\E result \in Results : Generate(q, result))
             \/ Charged(q) \/ NotCharged(q) \/ LeftOutstanding(q)
             \/ InvalidCharged(q) \/ RefusalReleased(q) \/ Finish(q)
    <3>1. UNCHANGED store
      BY <2>5 DEF Receive, Lock, Count, CountRefused, Reserve, Refused, Generate, Charged,
           NotCharged, LeftOutstanding, InvalidCharged, RefusalReleased, Finish, KeepStore
    <3>2. QED
      BY <1>1, <3>1
  <2>6. QED
    BY <1>2, <2>1, <2>2, <2>3, <2>4, <2>5 DEF Pipeline
<1>3. ASSUME NEW q \in Requests, Cancel(q) \/ Fail(q) PROVE Written
  BY <1>1, <1>3 DEF Cancel, Fail, KeepStore
<1>4. ASSUME NEW s \in Sidecars, Crash(s) PROVE Written
  BY <1>1, <1>4 DEF Crash, KeepStore
<1>5. ASSUME NEW s \in Sidecars, Purge(s) PROVE Written
  <2>1. CASE UNCHANGED store
    BY <1>1, <2>1
  <2>2. ASSUME NEW b \in Bots, PurgeBot(s, b) PROVE Written
    <3>1. /\ UNCHANGED <<attempts, accepted>>
          /\ profiles' \subseteq profiles /\ decisions' \subseteq decisions
          /\ intents' = [intents EXCEPT ![b] = "acknowledged"]
      BY <2>2 DEF PurgeBot
    <3>2. QED
      BY <2>2, <3>1
  <2>3. QED
    BY <1>5, <2>1, <2>2 DEF Purge, PurgeBegins, PurgeEnds, KeepStore
<1>6. ASSUME NEW b \in Bots, BotDeleted(b) PROVE Written
  BY <1>6 DEF BotDeleted
<1>7. CASE Time \/ UNCHANGED serviceVars
  BY <1>1, <1>7 DEF Time, KeepStore, serviceVars
<1>8. QED
  BY <1>2, <1>3, <1>4, <1>5, <1>6, <1>7 DEF ServiceNext

-----------------------------------------------------------------------------
(* Conversation memory.                                                    *)

\* append_turn keeps the end of the history with the new turn at it: neighbours in
\* what is kept were neighbours before, or are the old end and the new turn. What is
\* kept is as much as may be, or the whole of it.
LEMMA AppendedKeepsTheEnd ==
  ASSUME NEW b \in Bots, turns[b] \in Seq(Turn), NEW turn \in Turn
  PROVE  /\ Appended(b, turn) \in Seq(Turn)
         /\ Len(Appended(b, turn)) \in 1 .. TurnLimit
         /\ Appended(b, turn)[Len(Appended(b, turn))] = turn
         /\ \A i \in 2 .. Len(Appended(b, turn)) :
              \/ /\ i = Len(Appended(b, turn)) /\ turns[b] # <<>>
                 /\ Appended(b, turn)[i - 1] = turns[b][Len(turns[b])]
              \/ \E j \in 2 .. Len(turns[b]) :
                   /\ Appended(b, turn)[i] = turns[b][j]
                   /\ Appended(b, turn)[i - 1] = turns[b][j - 1]
         /\ \/ Len(Appended(b, turn)) = TurnLimit
            \/ turns[b] = <<>> /\ Len(Appended(b, turn)) = 1
            \/ /\ turns[b] # <<>> /\ Len(Appended(b, turn)) = Len(turns[b]) + 1
               /\ Appended(b, turn)[1] = turns[b][1]
<1> DEFINE old == turns[b]
           all == Append(old, turn)
           n == Len(all)
<1>1. /\ old \in Seq(Turn) /\ all \in Seq(Turn) /\ n = Len(old) + 1
      /\ Len(old) \in Nat /\ n \in Nat \ {0}
      /\ \A i \in 1 .. Len(old) : all[i] = old[i]
      /\ all[n] = turn
      /\ \A i \in 1 .. n : all[i] \in Turn
  BY AppendProperties, LenProperties
<1>2. TurnLimit \in Nat \ {0}
  BY RequestTypes
<1>3. \A i \in 2 .. n : \/ i = n /\ old # <<>> /\ all[i - 1] = old[Len(old)]
                        \/ /\ i \in 2 .. Len(old)
                           /\ all[i] = old[i] /\ all[i - 1] = old[i - 1]
  <2>1. SUFFICES ASSUME NEW i \in 2 .. n
                 PROVE  \/ i = n /\ old # <<>> /\ all[i - 1] = old[Len(old)]
                        \/ i \in 2 .. Len(old) /\ all[i] = old[i] /\ all[i - 1] = old[i - 1]
    OBVIOUS
  <2>2. CASE i = n
    <3>1. Len(old) \in 1 .. Len(old) /\ i - 1 = Len(old) /\ Len(old) # 0
      BY <1>1, <2>2
    <3>2. old # <<>>
      BY <3>1, EmptySeq
    <3>3. QED
      BY <1>1, <2>2, <3>1, <3>2
  <2>3. CASE i # n
    <3>1. i \in 2 .. Len(old) /\ i \in 1 .. Len(old) /\ i - 1 \in 1 .. Len(old)
      BY <1>1, <2>3
    <3>2. QED
      BY <1>1, <3>1
  <2>4. QED
    BY <2>2, <2>3
<1> DEFINE k == IF n <= TurnLimit THEN 0 ELSE n - TurnLimit
           new == Appended(b, turn)
<1>4. /\ k \in 0 .. (n - 1) /\ n - k \in 1 .. TurnLimit /\ (k = 0 \/ n - k = TurnLimit)
      /\ new \in Seq(Turn) /\ Len(new) = n - k
      /\ \A i \in 1 .. (n - k) : new[i] = all[i + k]
  <2> HIDE DEF all, n
  <2>1. CASE n <= TurnLimit
    <3>1. new = all
      BY <2>1 DEF Appended, all, n
    <3>2. k = 0 /\ Len(new) = n
      BY <2>1, <3>1 DEF n
    <3>3. QED
      BY <1>1, <1>2, <2>1, <3>1, <3>2
  <2>2. CASE ~(n <= TurnLimit)
    <3> DEFINE m == n - TurnLimit + 1
    <3>1. new = SubSeq(all, m, n)
      BY <2>2 DEF Appended, all, n
    <3>2. /\ m \in Int /\ 1 <= m /\ m <= n /\ m = k + 1
          /\ n - m + 1 = n - k /\ n - k = TurnLimit
      BY <1>1, <1>2, <2>2
    <3>3. k \in 0 .. (n - 1) /\ \A i \in 1 .. (n - k) : m + i - 1 = i + k
      BY <1>1, <1>2, <2>2
    <3> HIDE DEF k, m, new
    <3>4. \A i \in m .. n : all[i] \in Turn
      BY <1>1, <3>2
    <3>5. /\ SubSeq(all, m, n) \in Seq(Turn) /\ Len(SubSeq(all, m, n)) = n - m + 1
          /\ \A i \in 1 .. n - m + 1 : SubSeq(all, m, n)[i] = all[m + i - 1]
      BY <1>1, <3>2, <3>4, SubSeqProperties
    <3>6. \A i \in 1 .. (n - k) : new[i] = all[i + k]
      BY <3>1, <3>2, <3>3, <3>5
    <3>7. QED
      BY <1>2, <3>1, <3>2, <3>3, <3>5, <3>6
  <2>3. QED
    BY <2>1, <2>2
<1> HIDE DEF all, n, k, new, old
<1>5. new[Len(new)] = turn
  <2>1. n - k \in 1 .. (n - k) /\ (n - k) + k = n
    BY <1>1, <1>4
  <2>2. QED
    BY <1>1, <1>4, <2>1
<1>6. ASSUME NEW i \in 2 .. Len(new)
      PROVE  \/ i = Len(new) /\ old # <<>> /\ new[i - 1] = old[Len(old)]
             \/ \E j \in 2 .. Len(old) : new[i] = old[j] /\ new[i - 1] = old[j - 1]
  <2>1. /\ i \in 1 .. (n - k) /\ i - 1 \in 1 .. (n - k) /\ i + k \in 2 .. n
        /\ (i - 1) + k = (i + k) - 1 /\ (i + k = n => i = Len(new))
    BY <1>1, <1>4
  <2>2. new[i] = all[i + k] /\ new[i - 1] = all[(i + k) - 1]
    BY <1>4, <2>1
  <2>3. QED
    BY <1>3, <2>1, <2>2
<1>7. new \in Seq(Turn) /\ Len(new) \in 1 .. TurnLimit
  BY <1>4
<1>8. \A i \in 2 .. Len(new) :
        \/ i = Len(new) /\ old # <<>> /\ new[i - 1] = old[Len(old)]
        \/ \E j \in 2 .. Len(old) : new[i] = old[j] /\ new[i - 1] = old[j - 1]
  BY <1>6
<1>9. \/ Len(new) = TurnLimit
      \/ old = <<>> /\ Len(new) = 1
      \/ old # <<>> /\ Len(new) = Len(old) + 1 /\ new[1] = old[1]
  <2>1. SUFFICES ASSUME k = 0
                 PROVE  \/ old = <<>> /\ Len(new) = 1
                        \/ old # <<>> /\ Len(new) = Len(old) + 1 /\ new[1] = old[1]
    BY <1>4
  <2>2. Len(new) = Len(old) + 1
    BY <1>1, <1>4, <2>1
  <2>3. CASE old = <<>>
    BY <2>2, <2>3, EmptySeq
  <2>4. CASE old # <<>>
    <3>1. 1 \in 1 .. Len(old) /\ 1 \in 1 .. (n - k) /\ 1 + k = 1
      BY <1>1, <1>4, <2>1, <2>4, EmptySeq
    <3>2. new[1] = all[1] /\ all[1] = old[1]
      BY <1>1, <1>4, <3>1
    <3>3. QED
      BY <2>2, <2>4, <3>2
  <2>5. QED
    BY <2>3, <2>4
<1>10. QED
  BY <1>5, <1>7, <1>8, <1>9, Zenon DEF new, old

\* The tables hold what their columns may hold.
LEMMA StepTableTypes ==
  ASSUME JobTypes, LockHeld, TableTypes, [ServiceNext]_serviceVars
  PROVE  TableTypes'
<1> USE RequestTypes
<1>1. holder' \in [Sidecars -> Requests \cup {"purge", Nobody}]
  BY StepLock DEF TableTypes
<1>2. turns' \in [Bots -> Seq(Turn)] /\ \A b \in Bots : Len(turns'[b]) <= TurnLimit
  <2>1. CASE UNCHANGED turns
    BY <2>1 DEF TableTypes
  <2>2. ASSUME NEW q \in Requests, NEW role \in {"user", "assistant"},
               turns' = [turns EXCEPT ![BotOf[q]] = Appended(BotOf[q], [of |-> q, role |-> role])]
        PROVE  turns' \in [Bots -> Seq(Turn)] /\ \A b \in Bots : Len(turns'[b]) <= TurnLimit
    <3> DEFINE new == Appended(BotOf[q], [of |-> q, role |-> role])
    <3>1. [of |-> q, role |-> role] \in Turn
      BY DEF Turn
    <3>2. new \in Seq(Turn) /\ Len(new) \in 1 .. TurnLimit
      BY <3>1, AppendedKeepsTheEnd DEF TableTypes
    <3> HIDE DEF new
    <3>3. turns' = [turns EXCEPT ![BotOf[q]] = new]
      BY <2>2 DEF new
    <3>4. QED
      BY <3>2, <3>3 DEF TableTypes
  <2>3. ASSUME NEW b \in Bots, turns' = [turns EXCEPT ![b] = <<>>]
        PROVE  turns' \in [Bots -> Seq(Turn)] /\ \A c \in Bots : Len(turns'[c]) <= TurnLimit
    <3>1. <<>> \in Seq(Turn) /\ Len(<<>>) = 0
      BY EmptySeq
    <3>2. QED
      BY <2>3, <3>1 DEF TableTypes
  <2>4. QED
    BY <2>1, <2>2, <2>3, StepTables DEF Remember, PurgeBot
<1>3. /\ attempts' \subseteq accepted' /\ IsFiniteSet(accepted')
      /\ \A a \in accepted' : a.at \in Times
  <2>1. CASE UNCHANGED <<attempts, accepted>>
    BY <2>1 DEF TableTypes
  <2>2. ASSUME NEW q \in Requests, AmbientAccepted(q)
        PROVE  /\ attempts' \subseteq accepted' /\ IsFiniteSet(accepted')
               /\ \A a \in accepted' : a.at \in Times
    <3>1. job[q].now \in Times
      BY ClockTypes
    <3>2. /\ attempts' \subseteq attempts \cup {[of |-> q, at |-> job[q].now]}
          /\ accepted' = accepted \cup {[of |-> q, at |-> job[q].now]}
      BY <2>2 DEF AmbientAccepted, Recent
    <3>3. IsFiniteSet(accepted')
      BY <3>2, FS_AddElement DEF TableTypes
    <3>4. QED
      BY <3>1, <3>2, <3>3 DEF TableTypes
  <2>3. ASSUME NEW q \in Requests, AmbientRefused(q)
        PROVE  attempts' \subseteq attempts /\ accepted' = accepted
    BY <2>3 DEF AmbientRefused, Recent
  <2>4. QED
    BY <2>1, <2>2, <2>3, StepTables DEF TableTypes
<1>4. profiles' \subseteq Bots /\ decisions' \subseteq Bots
  BY StepTables DEF TableTypes
<1>5. intents' \in [Bots -> {"none", "pending", "acknowledged"}]
  BY StepTables DEF TableTypes
<1>6. QED
  BY <1>1, <1>2, <1>3, <1>4, <1>5 DEF TableTypes

\* One process, whose lock every request and every purge waits for.
OneSidecar == \A s, t \in Sidecars : s = t

\* What a request finds when it writes its second line: its first one, last in its bot's
\* history.
LinesWait ==
  \A q \in Requests : job[q].at = "reply_turn" =>
    /\ turns[BotOf[q]] # <<>>
    /\ turns[BotOf[q]][Len(turns[BotOf[q]])] = [of |-> q, role |-> "user"]

\* The lock keeps other requests and the purge from the history between the two lines, so
\* the exchanges in it stay together and an unfinished one stays last.
LEMMA StepTogether ==
  ASSUME OneSidecar, JobTypes, LockHeld, TableTypes, LinesWait, ExchangesStayTogether,
         [ServiceNext]_serviceVars
  PROVE  LinesWait' /\ ExchangesStayTogether'
<1> USE RequestTypes
<1>1. ASSUME NEW p \in Requests, job'[p].at = "reply_turn"
      PROVE  job[p].at = "reply_turn" \/ Remember(p, "user_turn", "user", "reply_turn")
  <2>1. CASE Lock(p)
    BY <1>1, <2>1, LockMoves
  <2>2. QED
    BY <1>1, <2>1, StepPlaces
<1>2. ASSUME NEW q \in Requests, NEW p \in Requests,
             job[q].at \in {"user_turn", "reply_turn"}, job[p].at \in {"user_turn", "reply_turn"}
      PROVE  p = q
  BY <1>2 DEF LockHeld, OneSidecar, Begun, InProgress
<1>3. ASSUME NEW q \in Requests, NEW role \in {"user", "assistant"}, NEW place, NEW next,
             Remember(q, place, role, next)
      PROVE  LET b == BotOf[q]
                 old == turns[b]
                 new == turns'[b]
             IN  /\ b \in Bots /\ new \in Seq(Turn) /\ Len(new) \in Nat \ {0}
                 /\ new[Len(new)] = [of |-> q, role |-> role]
                 /\ \A i \in 2 .. Len(new) :
                      \/ i = Len(new) /\ old # <<>> /\ new[i - 1] = old[Len(old)]
                      \/ \E j \in 2 .. Len(old) : new[i] = old[j] /\ new[i - 1] = old[j - 1]
                 /\ \/ Len(new) = TurnLimit
                    \/ old = <<>> /\ Len(new) = 1
                    \/ old # <<>> /\ Len(new) = Len(old) + 1 /\ new[1] = old[1]
                 /\ Len(new) <= TurnLimit
                 /\ \A c \in Bots : c # b => turns'[c] = turns[c]
  <2> DEFINE b == BotOf[q]
             turn == [of |-> q, role |-> role]
             new == Appended(b, turn)
  <2>1. b \in Bots /\ turn \in Turn /\ turns[b] \in Seq(Turn)
    BY DEF TableTypes, Turn
  <2>2. /\ new \in Seq(Turn) /\ Len(new) \in 1 .. TurnLimit /\ new[Len(new)] = turn
        /\ \A i \in 2 .. Len(new) :
             \/ i = Len(new) /\ turns[b] # <<>> /\ new[i - 1] = turns[b][Len(turns[b])]
             \/ \E j \in 2 .. Len(turns[b]) :
                  new[i] = turns[b][j] /\ new[i - 1] = turns[b][j - 1]
        /\ \/ Len(new) = TurnLimit
           \/ turns[b] = <<>> /\ Len(new) = 1
           \/ turns[b] # <<>> /\ Len(new) = Len(turns[b]) + 1 /\ new[1] = turns[b][1]
    <3> HIDE DEF b, turn
    <3>1. QED
      BY <2>1, AppendedKeepsTheEnd
  <2>3. turns' = [turns EXCEPT ![b] = new]
    BY <1>3 DEF Remember
  <2> HIDE DEF new
  <2>4. turns'[b] = new /\ \A c \in Bots : c # b => turns'[c] = turns[c]
    BY <2>1, <2>3 DEF TableTypes
  <2>5. Len(new) \in Nat \ {0} /\ Len(new) <= TurnLimit
    BY <2>2
  <2>6. QED
    BY <2>1, <2>2, <2>4, <2>5
<1>4. CASE UNCHANGED turns
  <2>1. ExchangesStayTogether'
    BY <1>4 DEF ExchangesStayTogether
  <2>2. SUFFICES ASSUME NEW p \in Requests, job'[p].at = "reply_turn"
                 PROVE  /\ turns'[BotOf[p]] # <<>>
                        /\ turns'[BotOf[p]][Len(turns'[BotOf[p]])] = [of |-> p, role |-> "user"]
    BY <2>1 DEF LinesWait
  <2>3. CASE job[p].at = "reply_turn"
    BY <1>4, <2>2, <2>3 DEF LinesWait
  <2>4. CASE Remember(p, "user_turn", "user", "reply_turn")
    BY <1>3, <1>4, <2>4, EmptySeq
  <2>5. QED
    BY <1>1, <2>2, <2>3, <2>4
<1>5. ASSUME NEW q \in Requests, NEW role \in {"user", "assistant"},
             \/ /\ role = "user"
                /\ Remember(q, "user_turn", "user", "reply_turn")
             \/ /\ role = "assistant"
                /\ Remember(q, "reply_turn", "assistant", "finish")
      PROVE  LinesWait' /\ ExchangesStayTogether'
  <2> DEFINE b == BotOf[q]
             old == turns[b]
             new == turns'[b]
  <2>1. /\ b \in Bots /\ new \in Seq(Turn) /\ Len(new) \in Nat \ {0}
        /\ new[Len(new)] = [of |-> q, role |-> role]
        /\ \A i \in 2 .. Len(new) :
             \/ i = Len(new) /\ old # <<>> /\ new[i - 1] = old[Len(old)]
             \/ \E j \in 2 .. Len(old) : new[i] = old[j] /\ new[i - 1] = old[j - 1]
        /\ \/ Len(new) = TurnLimit
           \/ old = <<>> /\ Len(new) = 1
           \/ old # <<>> /\ Len(new) = Len(old) + 1 /\ new[1] = old[1]
        /\ Len(new) <= TurnLimit
        /\ \A c \in Bots : c # b => turns'[c] = turns[c]
    BY <1>3, <1>5
  <2>2. job[q].at \in {"user_turn", "reply_turn"}
    BY <1>5 DEF Remember, At
  <2>3. LinesWait'
    <3>1. SUFFICES ASSUME NEW p \in Requests, job'[p].at = "reply_turn"
                   PROVE  /\ turns'[BotOf[p]] # <<>>
                          /\ turns'[BotOf[p]][Len(turns'[BotOf[p]])] = [of |-> p, role |-> "user"]
      BY DEF LinesWait
    <3>2. job[p].at \in {"user_turn", "reply_turn"}
      BY <1>1, <3>1 DEF Remember, At
    <3>3. p = q
      BY <1>2, <2>2, <3>2
    <3>4. job'[q].at = "finish" \/ role = "user"
      BY <1>5, Moves DEF Remember
    <3>5. QED
      BY <2>1, <3>1, <3>3, <3>4, EmptySeq
  <2>4. role = "assistant" => old # <<>> /\ old[Len(old)] = [of |-> q, role |-> "user"]
    BY <1>5 DEF Remember, At, LinesWait
  <2>5. ExchangesStayTogether'
    <3>1. SUFFICES ASSUME NEW c \in Bots, NEW i \in 1 .. Len(turns'[c]),
                          turns'[c][i].role = "assistant"
                   PROVE  \/ i = 1 /\ Len(turns'[c]) = TurnLimit
                          \/ i > 1 /\ turns'[c][i - 1] = [of |-> turns'[c][i].of, role |-> "user"]
      BY DEF ExchangesStayTogether
    <3>2. CASE c # b
      BY <2>1, <3>1, <3>2 DEF ExchangesStayTogether
    <3>3. CASE c = b /\ i = 1
      <4>1. CASE old = <<>> /\ Len(new) = 1
        BY <2>1, <2>4, <3>1, <3>3, <4>1
      <4>2. CASE old # <<>> /\ Len(new) = Len(old) + 1 /\ new[1] = old[1]
        <5>1. 1 \in 1 .. Len(old) /\ Len(old) < TurnLimit
          BY <2>1, <4>2, EmptySeq DEF TableTypes
        <5>2. old[1].role = "assistant"
          BY <3>1, <3>3, <4>2
        <5>3. b \in Bots /\ Len(old) \in Nat /\ TurnLimit \in Nat
          BY DEF TableTypes
        <5>4. Len(old) = TurnLimit \/ 1 > 1
          BY <5>1, <5>2, <5>3, Zenon DEF ExchangesStayTogether
        <5>5. QED
          BY <5>1, <5>3, <5>4
      <4>3. QED
        BY <2>1, <3>3, <4>1, <4>2
    <3>4. CASE c = b /\ i > 1
      <4>1. i \in 2 .. Len(new) /\ new[i].role = "assistant"
        BY <3>1, <3>4
      <4>2. ASSUME NEW j \in 2 .. Len(old), new[i] = old[j], new[i - 1] = old[j - 1]
            PROVE  new[i - 1] = [of |-> new[i].of, role |-> "user"]
        <5>1. j \in 1 .. Len(old) /\ j # 1 /\ old[j].role = "assistant"
          BY <2>1, <4>1, <4>2 DEF TableTypes
        <5>2. old[j - 1] = [of |-> old[j].of, role |-> "user"]
          BY <2>1, <5>1 DEF ExchangesStayTogether
        <5>3. QED
          BY <4>2, <5>2
      <4>3. ASSUME i = Len(new), new[i - 1] = old[Len(old)]
            PROVE  new[i - 1] = [of |-> new[i].of, role |-> "user"]
        <5>1. new[i] = [of |-> q, role |-> role] /\ role = "assistant"
          BY <2>1, <4>1, <4>3
        <5>2. QED
          BY <2>4, <4>3, <5>1
      <4>4. QED
        BY <2>1, <3>4, <4>1, <4>2, <4>3
    <3>5. QED
      BY <3>1, <3>2, <3>3, <3>4
  <2>6. QED
    BY <2>3, <2>5
<1>6. ASSUME NEW s \in Sidecars, NEW b \in Bots, PurgeBot(s, b)
      PROVE  LinesWait' /\ ExchangesStayTogether'
  <2>1. /\ turns'[b] = <<>> /\ Len(<<>>) = 0
        /\ \A c \in Bots : c # b => turns'[c] = turns[c]
    BY <1>6, EmptySeq DEF TableTypes, PurgeBot
  <2>2. ExchangesStayTogether'
    <3>1. SUFFICES ASSUME NEW c \in Bots, NEW i \in 1 .. Len(turns'[c]),
                          turns'[c][i].role = "assistant"
                   PROVE  \/ i = 1 /\ Len(turns'[c]) = TurnLimit
                          \/ i > 1 /\ turns'[c][i - 1] = [of |-> turns'[c][i].of, role |-> "user"]
      BY DEF ExchangesStayTogether
    <3>2. c # b
      BY <2>1, <3>1
    <3>3. QED
      BY <2>1, <3>1, <3>2 DEF ExchangesStayTogether
  <2>3. ASSUME NEW p \in Requests PROVE job'[p].at # "reply_turn"
    <3>1. SUFFICES ASSUME job[p].at = "reply_turn" PROVE FALSE
      BY <1>6 DEF PurgeBot
    <3>2. holder[SidecarOf[p]] = p
      BY <3>1 DEF LockHeld, Begun, InProgress
    <3>3. holder[SidecarOf[p]] = "purge"
      BY <1>6 DEF OneSidecar, PurgeBot
    <3>4. QED
      BY <3>2, <3>3
  <2>4. QED
    BY <2>2, <2>3 DEF LinesWait
<1>7. QED
  BY <1>4, <1>5, <1>6, StepTables

-----------------------------------------------------------------------------
(* The ambient limit.                                                      *)

\* Requests nobody asked for reach one sidecar.
OneLaneOfAmbient ==
  \A p, q \in Requests : KindOf[p] = "ambient" /\ KindOf[q] = "ambient" =>
    SidecarOf[p] = SidecarOf[q]

\* The table keeps every attempt that a window open at this reading, or later, counts.
Remembered(reading) == \A a \in accepted : a.at > reading - AmbientWindow => a \in attempts

\* A request about to ask has a reading of the clock that no accepted one is later than.
AmbientDates ==
  /\ \A a \in accepted : a.at <= clock
  /\ Remembered(clock)
  /\ \A q \in Requests : job[q].at = "ambient" =>
       /\ KindOf[q] = "ambient"
       /\ job[q].now <= clock
       /\ \A a \in accepted : a.at <= job[q].now
       /\ Remembered(job[q].now)

Window(t) == {a \in accepted : a.at <= t /\ a.at > t - AmbientWindow}

\* Only one request asks the ambient table at a time, so a window that the new attempt
\* falls in is one the table still has the whole of.
LEMMA StepAmbient ==
  ASSUME OneLaneOfAmbient, JobTypes, LockHeld, TableTypes, AmbientDates, AmbientBounded,
         [ServiceNext]_serviceVars
  PROVE  AmbientDates' /\ AmbientBounded'
<1> USE RequestTypes
<1>1. /\ clock \in Nat /\ clock' \in Nat /\ clock <= clock' /\ AmbientWindow \in Nat
      /\ \A a \in accepted : a.at \in Nat
      /\ \A q \in Requests : job[q].now \in Nat
  <2>1. clock' = clock \/ clock' = clock + 1
    <3>1. ASSUME NEW q \in Requests, Pipeline(q) PROVE clock' = clock
      BY <3>1, PipelineMoves, ReceiveMoves, LockMoves DEF Remember, Goes, Ends
    <3>2. QED
      BY <3>1 DEF ServiceNext, Time, Cancel, Fail, CutShort, Crash, Purge, PurgeBegins,
           PurgeBot, PurgeEnds, BotDeleted, serviceVars
  <2>2. QED
    BY <2>1, ClockTypes, ServiceTypes DEF JobTypes, TableTypes, Times
<1>2. ASSUME NEW p \in Requests, job'[p].at = "ambient"
      PROVE  job'[p] = job[p] \/ Lock(p)
  <2>1. CASE Remember(p, "user_turn", "user", "reply_turn")
    <3>1. job'[p].at = "reply_turn"
      BY <2>1, Moves DEF Remember
    <3>2. QED
      BY <1>2, <3>1
  <2>2. QED
    BY <1>2, <2>1, StepPlaces
<1>3. CASE UNCHANGED <<attempts, accepted>>
  <2>1. AmbientBounded'
    BY <1>3 DEF AmbientBounded
  <2>2. (\A a \in accepted' : a.at <= clock') /\ Remembered(clock)'
    BY <1>1, <1>3 DEF AmbientDates, Remembered
  <2>3. SUFFICES ASSUME NEW p \in Requests, job'[p].at = "ambient"
                 PROVE  /\ KindOf[p] = "ambient"
                        /\ job'[p].now <= clock'
                        /\ \A a \in accepted' : a.at <= job'[p].now
                        /\ Remembered(job[p].now)'
    BY <2>1, <2>2 DEF AmbientDates
  <2>4. CASE job'[p] = job[p]
    BY <1>1, <1>3, <2>3, <2>4 DEF AmbientDates, Remembered
  <2>5. CASE Lock(p)
    <3>1. KindOf[p] = "ambient" /\ job'[p].now = clock /\ clock' = clock
      BY <2>3, <2>5, LockMoves
    <3>2. QED
      BY <1>1, <1>3, <3>1 DEF AmbientDates, Remembered
  <2>6. QED
    BY <1>2, <2>3, <2>4, <2>5
<1>4. ASSUME NEW q \in Requests, AmbientAccepted(q) \/ AmbientRefused(q)
      PROVE  AmbientDates' /\ AmbientBounded'
  <2> DEFINE now == job[q].now
             attempt == [of |-> q, at |-> now]
             recent == Recent(now)
  <2>1. /\ job[q].at = "ambient" /\ now \in Nat /\ now <= clock
        /\ \A a \in accepted : a.at <= now /\ (a.at > now - AmbientWindow => a \in recent)
    BY <1>1, <1>4 DEF AmbientAccepted, AmbientRefused, At, AmbientDates, Remembered, Recent
  <2>2. clock' = clock /\ job'[q].at # "ambient"
        /\ \A p \in Requests : p # q => job'[p] = job[p]
    <3>1. Goes(q, "profile") \/ Ends(q, "silent")
      BY <1>4 DEF AmbientAccepted, AmbientRefused
    <3>2. clock' = clock
      BY <3>1 DEF Goes, Ends
    <3>3. QED
      BY <3>1, <3>2, Moves
  <2>3. ASSUME NEW p \in Requests PROVE job'[p].at # "ambient"
    <3>1. SUFFICES ASSUME p # q, job[p].at = "ambient" PROVE FALSE
      BY <2>2
    <3>2. KindOf[p] = "ambient" /\ KindOf[q] = "ambient"
      BY <2>1, <3>1 DEF AmbientDates
    <3>3. holder[SidecarOf[p]] = p /\ holder[SidecarOf[q]] = q
      BY <2>1, <3>1 DEF LockHeld, Begun, InProgress
    <3>4. QED
      BY <3>1, <3>2, <3>3 DEF OneLaneOfAmbient
  <2>4. \/ AmbientRefused(q) /\ attempts' = recent /\ accepted' = accepted
        \/ /\ Cardinality(recent) < AmbientLimit
           /\ attempts' = recent \cup {attempt} /\ accepted' = accepted \cup {attempt}
    BY <1>4 DEF AmbientAccepted, AmbientRefused
  <2>5. attempt.at = now
    OBVIOUS
  <2>6. AmbientDates'
    <3> HIDE DEF now, attempt, recent
    <3>1. \A a \in accepted' : a.at <= clock
      BY <1>1, <2>1, <2>4, <2>5
    <3>2. ASSUME NEW a \in accepted', a.at > clock - AmbientWindow PROVE a \in attempts'
      BY <1>1, <2>1, <2>4, <2>5, <3>2
    <3>3. QED
      BY <2>2, <2>3, <3>1, <3>2 DEF AmbientDates, Remembered
  <2>7. IsFiniteSet(recent) /\ recent \subseteq accepted
    BY FS_Subset DEF TableTypes, Recent
  <2>8. ASSUME NEW t \in Times PROVE Cardinality(Window(t)') <= AmbientLimit
    <3>1. Cardinality(Window(t)) <= AmbientLimit /\ t \in Nat
      BY DEF AmbientBounded, Window, Times
    <3>2. CASE Window(t)' = Window(t)
      BY <3>1, <3>2
    <3>3. CASE Window(t)' # Window(t)
      <4>1. /\ Cardinality(recent) < AmbientLimit
            /\ accepted' = accepted \cup {attempt}
        BY <2>4, <3>3 DEF Window
      <4>2. now <= t /\ now > t - AmbientWindow
        BY <2>5, <3>3, <4>1 DEF Window
      <4>3. Window(t)' \subseteq recent \cup {attempt}
        <5>1. SUFFICES ASSUME NEW a \in accepted, a.at > t - AmbientWindow PROVE a \in recent
          BY <4>1 DEF Window
        <5>2. a.at > now - AmbientWindow
          BY <1>1, <2>1, <3>1, <4>2, <5>1
        <5>3. QED
          BY <2>1, <5>1, <5>2
      <4>4. /\ IsFiniteSet(recent \cup {attempt})
            /\ Cardinality(recent \cup {attempt}) <= Cardinality(recent) + 1
            /\ Cardinality(recent) \in Nat
            /\ Cardinality(recent \cup {attempt}) \in Nat
        <5> HIDE DEF recent, attempt
        <5>1. IsFiniteSet(recent \cup {attempt})
          BY <2>7, FS_AddElement
        <5>2. Cardinality(recent) \in Nat /\ Cardinality(recent \cup {attempt}) \in Nat
          BY <2>7, <5>1, FS_CardinalityType
        <5>3. QED
          BY <2>7, <5>1, <5>2, FS_AddElement
      <4>5. Cardinality(Window(t)') <= Cardinality(recent \cup {attempt})
            /\ Cardinality(Window(t)') \in Nat
        <5> HIDE DEF recent, attempt
        <5>1. QED
          BY <4>3, <4>4, FS_Subset, FS_CardinalityType
      <4>6. QED
        BY <4>1, <4>4, <4>5
    <3>4. QED
      BY <3>2, <3>3
  <2>9. AmbientBounded'
    BY <2>8 DEF AmbientBounded, Window
  <2>10. QED
    BY <2>6, <2>9
<1>5. QED
  BY <1>3, <1>4, StepTables

-----------------------------------------------------------------------------

TablesInv == ServiceInv /\ LockHeld /\ TableTypes

\* The lock is held from the wait to the end of a request, and the tables hold what
\* their columns may.
THEOREM TablesInvariant == ServiceSpec => []TablesInv
<1>1. ServiceInit => LockHeld /\ TableTypes
  <2>1. SUFFICES ASSUME ServiceInit PROVE LockHeld /\ TableTypes
    OBVIOUS
  <2>2. LockHeld
    BY <2>1 DEF ServiceInit, LockHeld, Over, Begun, InProgress
  <2>3. <<>> \in Seq(Turn) /\ Len(<<>>) = 0 /\ IsFiniteSet({})
    BY EmptySeq, FS_EmptySet
  <2>4. \A b \in Bots : Len(turns[b]) <= TurnLimit
    BY <2>1, <2>3, RequestTypes DEF ServiceInit
  <2>5. TableTypes
    BY <2>1, <2>3, <2>4 DEF ServiceInit, TableTypes
  <2>6. QED
    BY <2>2, <2>5
<1>2. ServiceInv /\ LockHeld /\ TableTypes /\ [ServiceNext]_serviceVars => (LockHeld /\ TableTypes)'
  BY StepLock, StepTableTypes DEF ServiceInv, TableTypes
<1>3. QED
  BY <1>1, <1>2, ServiceInvariant, PTL DEF ServiceSpec, TablesInv

\* Every variable of the service keeps its type, the history of a bot its limit and the
\* ambient table its history.
THEOREM ServiceTypesHold == ServiceSpec => []ServiceTypeOK
<1>1. TablesInv /\ TypeOK => ServiceTypeOK
  <2>1. SUFFICES ASSUME TablesInv, TypeOK PROVE ServiceTypeOK
    OBVIOUS
  <2>2. JobTypes /\ TableTypes
    BY <2>1 DEF TablesInv, ServiceInv
  <2>3. clock \in 0 .. LastTime
    BY <2>2 DEF JobTypes, Times
  <2>4. \A q \in Requests : job[q].at \in {"new"} \cup InProgress \cup Answered \cup Cut
    BY <2>2 DEF JobTypes, Job
  <2>5. QED
    BY <2>1, <2>2, <2>3, <2>4 DEF ServiceTypeOK, TableTypes
<1>2. ServiceSpec => []TypeOK
  BY ServiceImplementsLedger, TypeCorrect, PTL
<1>3. QED
  BY <1>1, <1>2, TablesInvariant, PTL

\* With one sidecar a bot's reply follows the line it answers in its history, whatever is
\* cancelled, fails, crashes or is purged; only the trimming of a full history may leave a
\* reply first, without its line (app.py:389-396, 974-983).
THEOREM ExchangesAlwaysTogether ==
  ASSUME OneSidecar PROVE ServiceSpec => []ExchangesStayTogether
<1>1. ServiceInit => LinesWait /\ ExchangesStayTogether
  BY EmptySeq DEF ServiceInit, LinesWait, ExchangesStayTogether, Over
<1>2. TablesInv /\ LinesWait /\ ExchangesStayTogether /\ [ServiceNext]_serviceVars =>
        (LinesWait /\ ExchangesStayTogether)'
  BY OneSidecar, StepTogether DEF TablesInv, ServiceInv
<1>3. QED
  BY <1>1, <1>2, TablesInvariant, PTL DEF ServiceSpec

\* Where the requests nobody asked for reach one sidecar, no window ever accepts more of
\* them than its limit, whatever becomes of those accepted (store.py:230-275).
THEOREM AmbientAlwaysBounded ==
  ASSUME OneLaneOfAmbient PROVE ServiceSpec => []AmbientBounded
<1>1. ServiceInit => AmbientDates /\ AmbientBounded
  <2>1. SUFFICES ASSUME ServiceInit PROVE AmbientDates /\ AmbientBounded
    OBVIOUS
  <2>2. AmbientDates
    BY <2>1 DEF ServiceInit, AmbientDates, Remembered, Over
  <2>3. \A t \in Times : {a \in accepted : a.at <= t /\ a.at > t - AmbientWindow} = {}
    BY <2>1 DEF ServiceInit
  <2>4. QED
    BY <2>2, <2>3, FS_EmptySet, RequestTypes DEF AmbientBounded
<1>2. TablesInv /\ AmbientDates /\ AmbientBounded /\ [ServiceNext]_serviceVars =>
        (AmbientDates /\ AmbientBounded)'
  BY OneLaneOfAmbient, StepAmbient DEF TablesInv, ServiceInv
<1>3. QED
  BY <1>1, <1>2, TablesInvariant, PTL DEF ServiceSpec
=============================================================================
