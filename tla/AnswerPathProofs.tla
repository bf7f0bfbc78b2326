-------------------------- MODULE AnswerPathProofs --------------------------
(***************************************************************************)
(* The path of an answer, for any facts, lines, contexts and limits: what  *)
(* the run `answers` checks on a small world holds in every one.           *)
(***************************************************************************)
EXTENDS AnswerPath, FiniteSetTheorems, TLAPS

-----------------------------------------------------------------------------
(* The invariant. *)

\* What the row and the last attempt are at each place, and what a verdict says of them.
Billed ==
  /\ at \in {"idle", "counting"} => row = "none" /\ attempt = "untried"
  /\ at \in {"sending", "judged"} => row = "held"
  /\ verdict.result = "accepted" \/ verdict.billing = "known" => attempt = "billed"
  /\ verdict.billing = "impossible" => attempt = "free"

\* What is known of a verdict's answer between the gate and the reader.
Judged ==
  /\ at \in {"idle", "counting", "sending"} => verdict = NoVerdict
  /\ verdict.result # "accepted" => verdict.answer = NoAnswer
  /\ at = "charged" => verdict.result = "accepted"
  /\ at \in {"judged", "charged", "sent"} /\ verdict.result = "accepted" =>
       verdict.answer \in Completions(request.lane) /\ Fits(verdict.answer)
  /\ at = "sent" /\ verdict.result = "accepted" => Encodes(verdict.answer)
  /\ at = "sent" /\ request.lane # "social" => verdict.result = "accepted"

\* A social request keeps the memories it was asked with, and its answer has passed
\* the gate, wherever it ends.
Asked ==
  at # "idle" /\ request.lane = "social" =>
    /\ request.memories = Offered
    /\ verdict.result = "accepted" =>
         verdict.answer \in SocialReplies /\ ValidateSocialReply(verdict.answer, request)

\* A memory is filed under the scope of the surface it was heard on.
FiledAsHeard == \A id \in Known : remembered[id].heard = remembered[id].scope

PathInv == AnswerTypeOK /\ Billed /\ Judged /\ Asked /\ FiledAsHeard

-----------------------------------------------------------------------------
(* What a request and a reply are. *)

\* The lane of a request tells its shape.
LEMMA LaneTellsShape ==
  \A r \in Requests :
    /\ r.lane = "social" => r \in SocialRequests(Offered)
    /\ r.lane = "memory" => r.scope \in Scopes
    /\ r.lane \in Lanes
BY DEF Requests, SocialRequests, Lanes

\* What the parts of a social request are.
LEMMA SocialRequestParts ==
  \A r \in Requests : r.lane = "social" =>
    /\ r.channel \in Channels
    /\ r.memories = Offered
    /\ DOMAIN r.evidence \subseteq EvidenceIds
    /\ \A id \in DOMAIN r.evidence : r.evidence[id] \in Fact
<1> SUFFICES ASSUME NEW r \in Requests, r.lane = "social"
             PROVE  /\ r.channel \in Channels
                    /\ r.memories = Offered
                    /\ DOMAIN r.evidence \subseteq EvidenceIds
                    /\ \A id \in DOMAIN r.evidence : r.evidence[id] \in Fact
    OBVIOUS
<1>1. r \in SocialRequests(Offered)
  BY LaneTellsShape
<1>2. r.channel \in Channels /\ r.memories = Offered
  BY <1>1 DEF SocialRequests
<1>3. r.evidence \in UNION {[ids -> Facts] : ids \in SUBSET EvidenceIds}
  BY <1>1 DEF SocialRequests
<1>4. PICK ids \in SUBSET EvidenceIds : r.evidence \in [ids -> Facts]
  BY <1>3
<1> QED
  BY <1>2, <1>4, GateAssumption

\* What a proposal is, by its kind.
LEMMA ReplyParts ==
  \A reply \in SocialReplies :
    \/ reply = Gesture
    \/ reply = Silence
    \/ /\ reply.kind = "message"
       /\ reply.line \in Line
       /\ reply.contribution \in {"answer", "specific_reaction", "fact_free_banter"}
       /\ reply.claim_subject \in ClaimSubjects
       /\ reply.cited \subseteq EvidenceIds /\ reply.memories \subseteq MemoryIds
       /\ Cardinality(reply.cited) <= MaxEvidence
BY GateAssumption DEF SocialReplies

\* An accepted proposal cites only what it was given and shown.
LEMMA AcceptedCites ==
  \A reply \in SocialReplies : \A r : ValidateSocialReply(reply, r) =>
    /\ reply.memories \subseteq MemoriesWithin(r)
    /\ reply.cited \subseteq DOMAIN r.evidence
<1> SUFFICES ASSUME NEW reply \in SocialReplies, NEW r, ValidateSocialReply(reply, r)
             PROVE  /\ reply.memories \subseteq MemoriesWithin(r)
                    /\ reply.cited \subseteq DOMAIN r.evidence
    OBVIOUS
<1>1. CASE reply.kind = "silence"
  <2>1. reply.memories = {} /\ reply.cited = {}
    BY <1>1, ReplyParts DEF Silence, Gesture
  <2> QED BY <2>1
<1>2. CASE reply.kind # "silence"
  BY <1>2 DEF ValidateSocialReply, CitesWhatWasGiven
<1> QED BY <1>1, <1>2

-----------------------------------------------------------------------------
(* The rules of the gate, the encoders and the readers agree. *)

\* The numbers a reader counts.
LEMMA CitationsCount ==
  \A reply \in SocialReplies :
    /\ Cardinality(reply.cited) \in Nat
    /\ Cardinality(reply.memories) \in Nat
    /\ Cardinality(reply.cited) <= MaxEvidence
<1> SUFFICES ASSUME NEW reply \in SocialReplies
             PROVE  /\ Cardinality(reply.cited) \in Nat
                    /\ Cardinality(reply.memories) \in Nat
                    /\ Cardinality(reply.cited) <= MaxEvidence
    OBVIOUS
<1>1. MaxEvidence \in Nat /\ IsFiniteSet(EvidenceIds) /\ IsFiniteSet(MemoryIds)
  BY GateAssumption
<1>2. reply.cited \subseteq EvidenceIds /\ reply.memories \subseteq MemoryIds
  BY ReplyParts DEF Gesture, Silence
<1>3. IsFiniteSet(reply.cited) /\ IsFiniteSet(reply.memories)
  BY <1>1, <1>2, FS_Subset
<1>4. Cardinality(reply.cited) \in Nat /\ Cardinality(reply.memories) \in Nat
  BY <1>3, FS_CardinalityType
<1>5. Cardinality(reply.cited) <= MaxEvidence
  <2>1. CASE reply \in {Gesture, Silence}
    BY <2>1, <1>1, FS_EmptySet DEF Gesture, Silence
  <2>2. CASE reply \notin {Gesture, Silence}
    BY <2>2, ReplyParts
  <2> QED BY <2>1, <2>2
<1> QED BY <1>4, <1>5

\* What the social gate accepts, its encoder frames.
LEMMA SocialFrames ==
  \A reply \in SocialReplies : \A r : ValidateSocialReply(reply, r) => EncodesSocial(reply, r)
<1> SUFFICES ASSUME NEW reply \in SocialReplies, NEW r, ValidateSocialReply(reply, r)
             PROVE  EncodesSocial(reply, r)
    OBVIOUS
<1>1. Cardinality(reply.cited) <= MaxEvidence
  BY CitationsCount
<1>2. CASE reply = Gesture
  <2>1. EmoteIsSeen(r)
    BY <1>2 DEF ValidateSocialReply, Gesture
  <2> QED BY <1>1, <1>2, <2>1 DEF EncodesSocial, EmoteIsSeen, Gesture, IsLine, Cites
<1>3. CASE reply = Silence
  BY <1>1, <1>3 DEF EncodesSocial, Silence, IsLine, Cites
<1>4. CASE reply \notin {Gesture, Silence}
  <2>1. /\ reply.kind = "message"
        /\ reply.contribution \in {"answer", "specific_reaction", "fact_free_banter"}
    BY <1>4, ReplyParts
  <2>2. reply.line.form = "plain"
    BY <2>1 DEF ValidateSocialReply, LineFits
  <2> QED BY <1>1, <2>1, <2>2 DEF EncodesSocial, IsLine
<1> QED BY <1>2, <1>3, <1>4

\* What the social gate accepts, the worldserver reads, unless it has too many fields.
LEMMA SocialReads ==
  \A reply \in SocialReplies : \A r :
    ValidateSocialReply(reply, r) => ReadsSocial(reply) \/ Citations(reply) >= MaxEvidence
<1> SUFFICES ASSUME NEW reply \in SocialReplies, NEW r, ValidateSocialReply(reply, r),
                    ~(Citations(reply) >= MaxEvidence)
             PROVE  ReadsSocial(reply)
    OBVIOUS
<1>1. Fields(reply) <= 19 + MaxEvidence
  BY CitationsCount, GateAssumption DEF Fields, Citations
<1>2. CASE reply \in {Gesture, Silence}
  BY <1>1, <1>2 DEF ReadsSocial, Gesture, Silence, IsLine, Cites
<1>3. CASE reply \notin {Gesture, Silence}
  <2>1. reply.kind = "message"
    BY <1>3, ReplyParts
  <2>2. /\ reply.line.form = "plain"
        /\ reply.claim_subject = "none" => ~Cites(reply)
        /\ reply.claim_subject # "none" => Cites(reply)
    BY <2>1 DEF ValidateSocialReply, LineFits, SubjectFits, ClaimsAreCited
  <2> QED BY <1>1, <2>1, <2>2 DEF ReadsSocial, IsLine
<1> QED BY <1>2, <1>3

\* A text that is fit for chat is one once it is stripped.
LEMMA StrippedFrames ==
  \A text \in Texts : Strip(text) \notin {"blank", "broken", "long"} => TextFrames(Strip(text))
BY DEF Texts, Strip, TextFrames

\* What the gate of a lane accepts, its encoder frames, but for the two stricter encoders.
LEMMA FitsIsFramed ==
  ASSUME request \in Requests, NEW answer \in Completions(request.lane), Fits(answer),
         request.lane \notin {"biography", "memory"}
  PROVE  Encodes(answer)
<1>1. request.lane \in {"chat", "career", "assessment", "social"}
  BY LaneTellsShape DEF Lanes
<1>2. CASE request.lane = "social"
  <2>1. answer \in SocialReplies /\ ValidateSocialReply(answer, request)
    BY <1>2 DEF Completions, Fits
  <2> QED BY <1>2, <2>1, SocialFrames DEF Encodes
<1>3. CASE request.lane = "assessment"
  BY <1>3 DEF Encodes
<1>4. CASE request.lane = "chat"
  <2>1. answer.text \in Texts /\ Strip(answer.text) \notin {"blank", "broken", "long"}
    BY <1>4 DEF Completions, Fits, ChatFits
  <2> QED BY <1>4, <2>1, StrippedFrames DEF Encodes
<1>5. CASE request.lane = "career"
  <2>1. answer.text \in Texts /\ Strip(answer.text) \notin {"blank", "broken", "long"}
    BY <1>5 DEF Completions, Fits, ChatFits, CareerFits, Texts
  <2> QED BY <1>5, <2>1, StrippedFrames DEF Encodes
<1> QED BY <1>1, <1>2, <1>3, <1>4, <1>5

\* What is framed is read, but for a social answer with too many citations.
LEMMA FramedIsRead ==
  ASSUME request \in Requests, NEW answer \in Completions(request.lane), Fits(answer),
         Encodes(answer), ~Reads(answer)
  PROVE  request.lane = "social" /\ Citations(answer) >= MaxEvidence
<1>1. request.lane \in {"chat", "career", "assessment", "biography", "memory", "social"}
  BY LaneTellsShape DEF Lanes
<1>2. CASE request.lane = "social"
  <2>1. answer \in SocialReplies /\ ValidateSocialReply(answer, request)
    BY <1>2 DEF Completions, Fits
  <2>2. ~ReadsSocial(answer)
    BY <1>2 DEF Reads
  <2> QED BY <1>2, <2>1, <2>2, SocialReads
<1>3. CASE request.lane = "assessment"
  <2>1. ShapeMatchesKind(answer)
    BY <1>3 DEF Completions, Assessments
  <2> QED BY <1>3, <2>1 DEF Reads
<1>4. CASE request.lane = "biography"
  BY <1>4 DEF Encodes, Reads
<1>5. CASE request.lane = "memory"
  BY <1>5 DEF Encodes, Reads
<1>6. CASE request.lane \in {"chat", "career"}
  BY <1>6 DEF Encodes, Reads
<1> QED BY <1>1, <1>2, <1>3, <1>4, <1>5, <1>6

-----------------------------------------------------------------------------
(* The invariant holds. *)

\* What a request and its answer are depends on the memories, and on nothing else that
\* changes.
LEMMA SameMemories ==
  ASSUME UNCHANGED remembered
  PROVE  /\ Known' = Known /\ Offered' = Offered /\ Requests' = Requests
         /\ \A lane : Completions(lane)' = Completions(lane)
<1>1. Known' = Known
  BY DEF Known
<1>2. Offered' = Offered
  BY <1>1 DEF Offered
<1>3. Requests' = Requests
  BY <1>2 DEF Requests
<1>4. Extractions' = Extractions
  BY <1>1 DEF Extractions
<1>5. \A lane : Completions(lane)' = Completions(lane)
  BY <1>4 DEF Completions
<1> QED BY <1>1, <1>2, <1>3, <1>5

\* The rules judge an answer by its request.
LEMMA SameRequest ==
  ASSUME UNCHANGED request
  PROVE  \A answer : /\ Fits(answer)' <=> Fits(answer)
                     /\ Encodes(answer)' <=> Encodes(answer)
                     /\ Reads(answer)' <=> Reads(answer)
<1> SUFFICES ASSUME NEW answer
             PROVE  /\ Fits(answer)' <=> Fits(answer)
                    /\ Encodes(answer)' <=> Encodes(answer)
                    /\ Reads(answer)' <=> Reads(answer)
    OBVIOUS
<1>1. Fits(answer)' <=> Fits(answer)
  BY DEF Fits, ExtractionFits
<1>2. Encodes(answer)' <=> Encodes(answer)
  BY DEF Encodes
<1>3. Reads(answer)' <=> Reads(answer)
  BY DEF Reads
<1> QED BY <1>1, <1>2, <1>3

\* At first nothing was asked.
LEMMA PathStarts == PathInit => PathInv
<1> SUFFICES ASSUME PathInit PROVE PathInv
    OBVIOUS
<1> USE DEF PathInit
<1>1. Known = {}
  BY DEF Known
<1>2. verdict.result = "none" /\ verdict.billing = "none" /\ verdict.answer = NoAnswer
  BY DEF NoVerdict, Verdict
<1>3. AnswerTypeOK
  BY <1>1, <1>2, PathAssumption DEF AnswerTypeOK, Ended, Billings
<1>4. Billed
  BY <1>2 DEF Billed
<1>5. Judged
  BY <1>2 DEF Judged
<1>6. Asked
  BY DEF Asked
<1>7. FiledAsHeard
  BY <1>1 DEF FiledAsHeard
<1> QED BY <1>3, <1>4, <1>5, <1>6, <1>7 DEF PathInv

\* Steps that move a request on and keep its answer.
LEMMA MovesOn ==
  ASSUME PathInv, KeepAnswer,
         at # "idle", at' \in {"counting", "sending", "judged", "charged", "sent"} \cup Ended,
         row' \in {"none", "held", "charged", "released"}
  PROVE  AnswerTypeOK' /\ Asked' /\ FiledAsHeard'
<1> USE DEF PathInv, KeepAnswer
<1>1. /\ Known' = Known /\ Offered' = Offered /\ Requests' = Requests
  BY SameMemories
<1>2. at' # "idle"
  BY DEF Ended
<1>3. AnswerTypeOK'
  BY <1>1, <1>2 DEF AnswerTypeOK
<1>4. Asked'
  BY <1>1, <1>2 DEF Asked
<1>5. FiledAsHeard'
  BY <1>1 DEF FiledAsHeard
<1> QED BY <1>3, <1>4, <1>5

\* A request that is asked has no reservation, attempt or verdict yet.
LEMMA AskKeeps == ASSUME PathInv, NEW r \in Requests, Ask(r) PROVE PathInv'
<1> USE DEF Ask, PathInv
<1>1. /\ Known' = Known /\ Offered' = Offered /\ Requests' = Requests
  BY SameMemories
<1>2. /\ verdict = NoVerdict /\ verdict' = NoVerdict
      /\ row' = "none" /\ attempt' = "untried"
      /\ at' \in {"refused", "counting"}
  BY DEF Judged, Billed
<1>3. verdict'.result = "none" /\ verdict'.billing = "none" /\ verdict'.answer = NoAnswer
  BY <1>2 DEF NoVerdict, Verdict
<1>4. AnswerTypeOK'
  BY <1>1, <1>2, <1>3 DEF AnswerTypeOK, Ended, Billings
<1>5. Billed'
  BY <1>2, <1>3 DEF Billed
<1>6. Judged'
  BY <1>2, <1>3 DEF Judged
<1>7. Asked'
  <2>1. r.lane = "social" => r.memories = Offered
    BY SocialRequestParts
  <2> QED BY <1>1, <1>3, <2>1 DEF Asked
<1>8. FiledAsHeard'
  BY <1>1 DEF FiledAsHeard
<1> QED BY <1>4, <1>5, <1>6, <1>7, <1>8

\* The ledger reserves or refuses.
LEMMA AdmissionKeeps == ASSUME PathInv, Admit \/ NotAdmitted PROVE PathInv'
<1> USE DEF Admit, NotAdmitted, PathInv
<1>1. AnswerTypeOK' /\ Asked' /\ FiledAsHeard'
  BY MovesOn DEF Ended, AnswerTypeOK
<1>2. verdict' = NoVerdict /\ verdict'.result = "none" /\ verdict'.billing = "none"
      /\ verdict'.answer = NoAnswer
  BY DEF Judged, NoVerdict, Verdict, KeepAnswer
<1>3. Billed'
  BY <1>2 DEF Billed, KeepAnswer
<1>4. Judged'
  BY <1>2 DEF Judged
<1> QED BY <1>1, <1>3, <1>4

\* An attempt that fails is repeated by the client, or its error says what is known of the
\* bill.
LEMMA AttemptFailsKeeps ==
  ASSUME PathInv, NEW error \in {"timeout", "auth", "rate_limit", "provider"},
         NEW billed \in BOOLEAN, AttemptFails(error, billed)
  PROVE  PathInv'
<1> USE DEF AttemptFails, PathInv
<1>1. /\ Known' = Known /\ Offered' = Offered /\ Requests' = Requests
  BY SameMemories
<1>2. /\ verdict = NoVerdict /\ verdict.result = "none" /\ verdict.billing = "none"
      /\ verdict.answer = NoAnswer
  BY DEF Judged, NoVerdict, Verdict
<1>3. CASE at' = at /\ verdict' = verdict /\ retries < MaxRetries /\ retries' = retries + 1
  <2>1. AnswerTypeOK'
    BY <1>1, <1>2, <1>3, PathAssumption DEF AnswerTypeOK, Billings
  <2>2. Billed'
    BY <1>2, <1>3 DEF Billed
  <2>3. Judged'
    BY <1>2, <1>3 DEF Judged
  <2>4. Asked' /\ FiledAsHeard'
    BY <1>1, <1>2, <1>3 DEF Asked, FiledAsHeard
  <2> QED BY <2>1, <2>2, <2>3, <2>4
<1>4. CASE /\ at' = "judged" /\ retries' = 0
           /\ verdict' = Verdict("failed", BillingOf(error), NoAnswer)
  <2>1. /\ verdict'.result = "failed" /\ verdict'.answer = NoAnswer
        /\ verdict'.billing = BillingOf(error)
    BY <1>4 DEF Verdict
  <2>2. /\ verdict'.billing \in {"impossible", "indeterminate"}
        /\ verdict'.billing = "impossible" => ~billed
    BY <2>1 DEF BillingOf
  <2>3. AnswerTypeOK'
    BY <1>1, <1>4, <2>1, <2>2, PathAssumption DEF AnswerTypeOK, Billings
  <2>4. Billed'
    BY <1>4, <2>1, <2>2 DEF Billed
  <2>5. Judged'
    BY <1>4, <2>1 DEF Judged
  <2>6. Asked' /\ FiledAsHeard'
    BY <1>1, <1>4, <2>1 DEF Asked, FiledAsHeard
  <2> QED BY <2>3, <2>4, <2>5, <2>6
<1> QED BY <1>3, <1>4

\* An answer is priced, if it can be, and judged by its lane's gate.
LEMMA AnsweredKeeps ==
  ASSUME PathInv, at = "sending", NEW v \in Verdicts, Answered(v)
  PROVE  PathInv'
<1> USE DEF Answered, PathInv
<1>1. /\ Known' = Known /\ Offered' = Offered /\ Requests' = Requests
      /\ Completions(request.lane)' = Completions(request.lane)
  BY SameMemories
<1>2. /\ v.billing \in {"known", "indeterminate"}
      /\ \/ v.result = "invalid" /\ v.answer = NoAnswer
         \/ v.result = "accepted" /\ v.answer \in Completions(request.lane) /\ Fits(v.answer)
  BY DEF Verdicts, Verdict
<1>3. Fits(v.answer)' <=> Fits(v.answer)
  BY SameRequest
<1>4. AnswerTypeOK'
  BY <1>1, <1>2, PathAssumption DEF AnswerTypeOK, Billings
<1>5. Billed'
  BY <1>2 DEF Billed
<1>6. Judged'
  <2>1. v.result = "accepted" =>
          v.answer \in Completions(request.lane)' /\ Fits(v.answer)'
    BY <1>1, <1>2, SameRequest
  <2>2. verdict' = v /\ at' = "judged"
    OBVIOUS
  <2> QED BY <1>2, <2>1, <2>2, SameRequest, SameMemories DEF Judged
<1>7. Asked'
  <2>1. request.lane = "social" /\ v.result = "accepted" =>
          v.answer \in SocialReplies /\ ValidateSocialReply(v.answer, request)
    BY <1>2 DEF Completions, Fits
  <2> QED BY <1>1, <2>1 DEF Asked
<1>8. FiledAsHeard'
  BY <1>1 DEF FiledAsHeard
<1> QED BY <1>4, <1>5, <1>6, <1>7, <1>8

\* A request ends with its reservation settled, released or left as its bill says.
LEMMA EndsKeep ==
  ASSUME PathInv, CutShort \/ Settle \/ NotSpoken \/ AccountForFailure
  PROVE  PathInv'
<1> USE DEF PathInv
<1>1. CASE CutShort
  <2>1. AnswerTypeOK' /\ Asked' /\ FiledAsHeard'
    <3>1. /\ Known' = Known /\ Offered' = Offered /\ Requests' = Requests
      BY <1>1, SameMemories DEF CutShort
    <3>2. AnswerTypeOK'
      BY <1>1, <3>1, PathAssumption DEF CutShort, AnswerTypeOK, Ended
    <3>3. Asked'
      BY <1>1, <3>1 DEF CutShort, Asked
    <3>4. FiledAsHeard'
      BY <1>1, <3>1 DEF CutShort, FiledAsHeard
    <3> QED BY <3>2, <3>3, <3>4
  <2>2. Billed' /\ Judged'
    BY <1>1 DEF CutShort, Billed, Judged
  <2> QED BY <2>1, <2>2
<1>2. CASE Settle
  <2>1. AnswerTypeOK' /\ Asked' /\ FiledAsHeard'
    BY <1>2, MovesOn DEF Settle
  <2>2. Billed'
    BY <1>2 DEF Settle, KeepAnswer, Billed
  <2>3. Judged'
    <3>1. verdict'.answer \in Completions(request.lane)' /\ Fits(verdict.answer)'
      BY <1>2, SameMemories, SameRequest DEF Settle, KeepAnswer, Judged
    <3> QED BY <1>2, <3>1, SameMemories DEF Settle, KeepAnswer, Judged
  <2> QED BY <2>1, <2>2, <2>3
<1>3. CASE NotSpoken
  <2>1. AnswerTypeOK' /\ Asked' /\ FiledAsHeard'
    BY <1>3, MovesOn DEF NotSpoken, Ended
  <2>2. Billed' /\ Judged'
    BY <1>3 DEF NotSpoken, KeepAnswer, Billed, Judged
  <2> QED BY <2>1, <2>2
<1>4. CASE AccountForFailure
  <2>1. row' \in {"released", "charged", "held"} /\ at' \in {"sent", "silent"}
    BY <1>4 DEF AccountForFailure
  <2>2. AnswerTypeOK' /\ Asked' /\ FiledAsHeard'
    BY <1>4, <2>1, MovesOn DEF AccountForFailure, Ended
  <2>3. Billed' /\ Judged'
    BY <1>4, <2>1 DEF AccountForFailure, KeepAnswer, Billed, Judged
  <2> QED BY <2>2, <2>3
<1> QED BY <1>1, <1>2, <1>3, <1>4

\* The encoder frames an accepted answer or refuses it.
LEMMA EncodeKeeps == ASSUME PathInv, Encode PROVE PathInv'
<1> USE DEF Encode, PathInv
<1>1. AnswerTypeOK' /\ Asked' /\ FiledAsHeard'
  <2>1. row' \in {"none", "held", "charged", "released"}
    BY DEF AnswerTypeOK
  <2> QED BY <2>1, MovesOn DEF Ended
<1>2. Billed'
  BY DEF KeepAnswer, Billed
<1>3. Judged'
  <2>1. verdict.answer \in Completions(request.lane) /\ Fits(verdict.answer)
    BY DEF Judged
  <2>2. verdict'.answer \in Completions(request.lane)' /\ Fits(verdict.answer)'
    BY <2>1, SameMemories, SameRequest DEF KeepAnswer
  <2>3. at' = "sent" => Encodes(verdict.answer)'
    BY SameRequest DEF KeepAnswer
  <2> QED BY <2>2, <2>3, SameMemories DEF KeepAnswer, Judged
<1> QED BY <1>1, <1>2, <1>3

\* What an accepted extraction files.
LEMMA ExtractionParts ==
  ASSUME request.lane = "memory", request \in Requests, NEW answer \in Completions("memory"), Fits(answer)
  PROVE  /\ DOMAIN answer \subseteq MemoryIds
         /\ \A id \in DOMAIN answer : answer[id].scope = request.scope /\ answer[id].scope \in Scopes
<1>1. answer \in Extractions
  BY DEF Completions
<1>2. PICK ids \in SUBSET (MemoryIds \ Known) : answer \in [ids -> Candidates]
  BY <1>1 DEF Extractions
<1>3. request.scope \in Scopes
  BY LaneTellsShape
<1>4. \A id \in DOMAIN answer : answer[id].scope = request.scope
  BY DEF Fits, ExtractionFits
<1> QED BY <1>2, <1>3, <1>4

\* The reader takes a frame or drops it, and the memories it brings are filed.
LEMMA ReadKeeps == ASSUME PathInv, Read PROVE PathInv'
<1> USE DEF Read, PathInv
<1>1. at' \in {"heard", "unread"} /\ at' # "idle"
  OBVIOUS
<1>2. Billed' /\ Judged'
  BY <1>1 DEF Billed, Judged
<1>3. CASE remembered' = remembered
  <2>1. /\ Known' = Known /\ Offered' = Offered /\ Requests' = Requests
    BY <1>3, SameMemories
  <2>2. AnswerTypeOK'
    BY <1>1, <1>3, <2>1 DEF AnswerTypeOK, Ended
  <2>3. Asked' /\ FiledAsHeard'
    BY <1>1, <1>3, <2>1 DEF Asked, FiledAsHeard
  <2> QED BY <1>2, <2>2, <2>3
<1>4. CASE request.lane = "memory" /\ at' = "heard"
  <2>1. request \in Requests /\ at # "idle"
    BY DEF AnswerTypeOK
  <2>2. request.scope \in Scopes
    BY <1>4, <2>1, LaneTellsShape
  <2>3. request \in Requests'
    <3>1. request \in [lane : {"memory"}, scope : Scopes]
      BY <1>4, <2>1 DEF Requests, SocialRequests
    <3> QED BY <3>1 DEF Requests
  <2>4. verdict.result = "accepted"
    BY <1>4 DEF Judged
  <2>5. verdict.answer \in Completions("memory") /\ Fits(verdict.answer)
    BY <1>4, <2>4 DEF Judged
  <2>6. /\ DOMAIN verdict.answer \subseteq MemoryIds
        /\ \A id \in DOMAIN verdict.answer :
             /\ verdict.answer[id].scope = request.scope
             /\ verdict.answer[id].scope \in Scopes
    BY <1>4, <2>1, <2>5, ExtractionParts
  <2>7. remembered' = [id \in Known \cup DOMAIN verdict.answer |->
                         IF id \in Known THEN remembered[id]
                         ELSE [scope |-> verdict.answer[id].scope, heard |-> request.scope]]
    BY <1>4
  <2>8. Known' = Known \cup DOMAIN verdict.answer
    BY <2>7 DEF Known
  <2>9. \A id \in Known' :
          remembered'[id] \in Memory /\ remembered'[id].heard = remembered'[id].scope
    <3>1. SUFFICES ASSUME NEW id \in Known'
                   PROVE  remembered'[id] \in Memory /\ remembered'[id].heard = remembered'[id].scope
      OBVIOUS
    <3>2. CASE id \in Known
      BY <2>7, <2>8, <3>2 DEF AnswerTypeOK, FiledAsHeard
    <3>3. CASE id \notin Known
      <4>1. remembered'[id] = [scope |-> verdict.answer[id].scope, heard |-> request.scope]
        BY <2>7, <2>8, <3>3
      <4> QED BY <2>2, <2>6, <2>8, <3>3, <4>1 DEF Memory
    <3> QED BY <3>2, <3>3
  <2>10. AnswerTypeOK'
    BY <1>1, <2>3, <2>6, <2>8, <2>9 DEF AnswerTypeOK, Ended
  <2>11. Asked'
    BY <1>4 DEF Asked
  <2>12. FiledAsHeard'
    BY <2>9 DEF FiledAsHeard
  <2> QED BY <1>2, <2>10, <2>11, <2>12
<1> QED BY <1>3, <1>4

\* What is over is forgotten, but for the memories.
LEMMA OverKeeps == ASSUME PathInv, Over PROVE PathInv'
<1> USE DEF Over, PathInv
<1>1. /\ Known' = Known /\ Offered' = Offered /\ Requests' = Requests
  BY SameMemories
<1>2. verdict'.result = "none" /\ verdict'.billing = "none" /\ verdict'.answer = NoAnswer
  BY DEF NoVerdict, Verdict
<1>3. AnswerTypeOK'
  BY <1>1, <1>2 DEF AnswerTypeOK, Billings
<1>4. Billed' /\ Judged'
  BY <1>2 DEF Billed, Judged
<1>5. Asked' /\ FiledAsHeard'
  BY <1>1 DEF Asked, FiledAsHeard
<1> QED BY <1>3, <1>4, <1>5

\* Every step keeps the invariant.
LEMMA PathSteps == PathInv /\ [PathNext]_pathVars => PathInv'
<1> SUFFICES ASSUME PathInv, [PathNext]_pathVars PROVE PathInv'
    OBVIOUS
<1>1. CASE PathNext
  BY <1>1, AskKeeps, AdmissionKeeps, AttemptFailsKeeps, AnsweredKeeps, EndsKeep, EncodeKeeps,
     ReadKeeps, OverKeeps DEF PathNext
<1>2. CASE UNCHANGED pathVars
  <2> USE <1>2 DEF pathVars
  <2>1. /\ Known' = Known /\ Offered' = Offered /\ Requests' = Requests
    BY SameMemories
  <2>2. AnswerTypeOK'
    BY <2>1 DEF PathInv, AnswerTypeOK
  <2>3. Billed' /\ Asked' /\ FiledAsHeard'
    BY <2>1 DEF PathInv, Billed, Asked, FiledAsHeard
  <2>4. Judged'
    <3>1. /\ Completions(request.lane)' = Completions(request.lane)
          /\ Fits(verdict.answer)' <=> Fits(verdict.answer)
          /\ Encodes(verdict.answer)' <=> Encodes(verdict.answer)
      BY SameMemories, SameRequest
    <3> QED BY <3>1 DEF PathInv, Judged
  <2> QED BY <2>2, <2>3, <2>4 DEF PathInv
<1> QED BY <1>1, <1>2

\* What the row, the attempt, the verdict and the memories may be at every place.
LEMMA PathInvariant == PathSpec => []PathInv
<1>1. PathInit => PathInv
  BY PathStarts
<1>2. PathInv /\ [PathNext]_pathVars => PathInv'
  BY PathSteps
<1> QED BY <1>1, <1>2, PTL DEF PathSpec

-----------------------------------------------------------------------------
(* Theorems. *)

\* Every variable has its type, whatever the client's errors and the model's answers:
\* the client gives up after its retries.
THEOREM AnswerTypeCorrect == PathSpec => []AnswerTypeOK
BY PathInvariant, PTL DEF PathInv

\* No memory comes into a prompt for a channel more public than the surface it was
\* heard on, and no accepted line cites one, or a fact given for a more private one.
THEOREM NothingPrivateIsRepeated == PathSpec => []PrivateStaysPrivate
<1>1. PathInv => PrivateStaysPrivate
  <2> SUFFICES ASSUME PathInv PROVE PrivateStaysPrivate
      OBVIOUS
  <2> USE DEF PathInv
  <2>1. ASSUME Prompted
        PROVE  /\ request \in Requests /\ request.lane = "social" /\ GroundingIsCoherent(request)
               /\ request.channel \in Channels /\ request.memories = Offered
    BY <2>1, SocialRequestParts DEF Prompted, AnswerTypeOK
  <2>2. \A id \in Known : remembered[id].heard = Offered[id] /\ Offered[id] \in Scopes
    BY DEF FiledAsHeard, Offered, AnswerTypeOK, Memory
  <2>3. ASSUME Prompted, NEW id \in MemoriesWithin(request)
        PROVE  id \in Known /\ remembered[id].heard <= AllowedScope[request.channel]
    BY <2>1, <2>2, <2>3 DEF MemoriesWithin, Offered
  <2>4. ASSUME Prompted, NEW id \in MemoriesShown(request)
        PROVE  remembered[id].heard <= AllowedScope[request.channel]
    <3>1. CASE ShowsOpaque(request)
      <4>1. request.channel = 3
        BY <3>1 DEF ShowsOpaque, Whisper
      <4>2. AllowedScope[request.channel] = 2
        BY <4>1 DEF AllowedScope, Channels
      <4>3. id \in Known
        BY <2>1, <2>4, <3>1 DEF MemoriesShown, Offered
      <4> QED BY <2>2, <4>2, <4>3 DEF Scopes
    <3>2. CASE ~ShowsOpaque(request)
      BY <2>3, <2>4, <3>2 DEF MemoriesShown
    <3> QED BY <3>1, <3>2
  <2>5. ASSUME Spoken
        PROVE  /\ verdict.answer.memories \subseteq MemoriesWithin(request)
               /\ verdict.answer.cited \subseteq DOMAIN request.evidence
    <3>1. verdict.answer \in SocialReplies /\ ValidateSocialReply(verdict.answer, request)
      BY <2>5 DEF Spoken, Prompted, Asked
    <3> QED BY <3>1, AcceptedCites
  <2>6. Spoken => Prompted
    BY DEF Spoken
  <2>7. ASSUME Spoken, NEW id \in verdict.answer.cited
        PROVE  request.evidence[id].scope <= AllowedScope[request.channel]
    BY <2>1, <2>5, <2>6, <2>7 DEF GroundingIsCoherent
  <2> QED BY <2>3, <2>4, <2>5, <2>6, <2>7 DEF PrivateStaysPrivate
<1> QED BY <1>1, PathInvariant, PTL

\* The player's identity comes into a prompt only by a context that was understood, and
\* never into that of a roleplay.
THEOREM IdentityIsKeptApart == PathSpec => []IdentityStaysApart
<1>1. PathInv => IdentityStaysApart
  BY DEF IdentityStaysApart, IdentityShown, ShowsOpaque, VoiceOf, ContextParses
<1> QED BY <1>1, PathInvariant, PTL

\* A claim rests on a cited fact of the request, and on the right one.
THEOREM ClaimsHaveGrounds == PathSpec => []ClaimsAreGrounded
<1>1. PathInv => ClaimsAreGrounded
  <2> SUFFICES ASSUME PathInv, Spoken, IsLine(verdict.answer),
                      verdict.answer.line.claims # "nothing"
               PROVE  LET reply == verdict.answer
                          facts == CitedFacts(reply, request)
                          levelOf == IF reply.line.claims # "level" THEN "nobody"
                                     ELSE reply.claim_subject
                      IN /\ reply.line.who = "i" \/ reply.memories # {} => facts # {}
                         /\ \/ levelOf = "candidate_bot" /\ reply.line.who = "i"
                            \/ levelOf = "participant" /\ reply.line.who = "you"
                            => \E f \in facts : /\ f.value = reply.line.value /\ f.fact = "level"
                                                /\ f.subject \in Owners(reply.claim_subject)
      BY DEF ClaimsAreGrounded
  <2> DEFINE reply == verdict.answer
             facts == CitedFacts(reply, request)
  <2>1. reply \in SocialReplies /\ ValidateSocialReply(reply, request)
    BY DEF PathInv, Asked, Spoken, Prompted
  <2>2. reply.kind = "message" /\ reply.line \in Line
    BY <2>1, ReplyParts DEF IsLine, Gesture, Silence
  <2>3. SubjectFits(reply, request) /\ LiteralClaimHolds(reply, request) /\ ClaimsAreCited(reply, request)
    BY <2>1, <2>2 DEF ValidateSocialReply
  <2>4. reply.line.who \in {"i", "you"}
    BY <2>2 DEF Line
  <2>5. reply.line.who = "i" \/ reply.memories # {} => reply.cited # {}
    BY <2>3, <2>4 DEF ClaimsAreCited
  <2>6. reply.cited # {} => facts # {}
    BY DEF CitedFacts
  <2>7. ASSUME reply.line.claims = "level",
               \/ reply.claim_subject = "candidate_bot" /\ reply.line.who = "i"
               \/ reply.claim_subject = "participant" /\ reply.line.who = "you"
        PROVE  \E f \in facts : /\ f.value = reply.line.value /\ f.fact = "level"
                                /\ f.subject \in Owners(reply.claim_subject)
    <3>1. PICK f \in facts : f.fact = "level" /\ f.value = reply.line.value
      BY <2>3, <2>7 DEF LiteralClaimHolds
    <3>2. f.subject \in Owners(reply.claim_subject)
      BY <2>3 DEF SubjectFits
    <3> QED BY <3>1, <3>2
  <2> QED BY <2>5, <2>6, <2>7
<1> QED BY <1>1, PathInvariant, PTL

\* An accepted answer is delivered in every lane whose rules agree.
THEOREM AcceptedAnswersArrive == PathSpec => []AcceptedIsDelivered
<1>1. PathInit => AcceptedIsDelivered
  BY DEF PathInit, AcceptedIsDelivered
<1>2. PathInv /\ AcceptedIsDelivered /\ [PathNext]_pathVars => AcceptedIsDelivered'
  <2> SUFFICES ASSUME PathInv, AcceptedIsDelivered, [PathNext]_pathVars PROVE AcceptedIsDelivered'
      OBVIOUS
  <2> USE DEF PathInv
  <2>1. ASSUME NEW r \in Requests, Ask(r) PROVE AcceptedIsDelivered'
    <3>1. verdict'.result = "none" /\ at' \in {"refused", "counting"}
      BY <2>1 DEF Ask, Judged, NoVerdict, Verdict
    <3> QED BY <3>1 DEF AcceptedIsDelivered
  <2>2. CASE Encode
    <3>1. request \in Requests
      BY <2>2 DEF Encode, AnswerTypeOK
    <3>2. verdict.answer \in Completions(request.lane) /\ Fits(verdict.answer)
      BY <2>2 DEF Encode, Judged
    <3>3. at' = "refused" => request.lane \in {"biography", "memory"}
      BY <2>2, <3>1, <3>2, FitsIsFramed DEF Encode
    <3> QED BY <2>2, <3>3 DEF Encode, KeepAnswer, AcceptedIsDelivered
  <2>3. CASE Read
    <3>1. request \in Requests
      BY <2>3 DEF Read, AnswerTypeOK
    <3>2. ASSUME at' = "unread"
          PROVE  request.lane = "social" /\ Citations(verdict.answer) >= MaxEvidence
      <4>1. ~Reads(verdict.answer)
        BY <2>3, <3>2 DEF Read
      <4>2. verdict.answer # NoAnswer
        BY <4>1 DEF Reads
      <4>3. verdict.result = "accepted"
        BY <4>2 DEF Judged
      <4>4. /\ verdict.answer \in Completions(request.lane) /\ Fits(verdict.answer)
            /\ Encodes(verdict.answer)
        BY <2>3, <4>3 DEF Read, Judged
      <4> QED BY <3>1, <4>1, <4>4, FramedIsRead
    <3> QED BY <2>3, <3>2 DEF Read, AcceptedIsDelivered, Citations
  <2>4. CASE \/ Admit \/ NotAdmitted \/ CutShort \/ Settle \/ NotSpoken \/ AccountForFailure \/ Over
    BY <2>4 DEF Admit, NotAdmitted, CutShort, Settle, NotSpoken, AccountForFailure, Over, AcceptedIsDelivered
  <2>5. ASSUME NEW error \in {"timeout", "auth", "rate_limit", "provider"}, NEW billed \in BOOLEAN,
               AttemptFails(error, billed)
        PROVE  AcceptedIsDelivered'
    BY <2>5 DEF AttemptFails, AcceptedIsDelivered
  <2>6. ASSUME NEW v \in Verdicts, Answered(v) PROVE AcceptedIsDelivered'
    BY <2>6 DEF Answered, AcceptedIsDelivered
  <2>7. CASE UNCHANGED pathVars
    BY <2>7 DEF pathVars, AcceptedIsDelivered, Citations
  <2> QED BY <2>1, <2>2, <2>3, <2>4, <2>5, <2>6, <2>7 DEF PathNext
<1> QED BY <1>1, <1>2, PathInvariant, PTL DEF PathSpec

\* The path refines the contract: a reservation is charged only for an attempt that was
\* billed, released only when the last was not, and otherwise left to its expiry.
THEOREM PathKeepsTheContract == PathSpec => KeepsTheContract
<1>1. PathInit => Provider!ContractInit
  BY DEF PathInit, Provider!ContractInit
<1>2. PathInv /\ [PathNext]_pathVars => [Provider!ContractNext]_(Provider!contractVars)
  <2> SUFFICES ASSUME PathInv, [PathNext]_pathVars
               PROVE  Provider!ContractNext \/ UNCHANGED <<row, attempt>>
      BY DEF Provider!contractVars
  <2> USE DEF PathInv, Provider!ContractNext
  <2>1. ASSUME NEW r \in Requests, Ask(r) PROVE UNCHANGED <<row, attempt>>
    BY <2>1 DEF Ask
  <2>2. CASE Admit
    BY <2>2 DEF Admit, KeepAnswer, Billed, Provider!Reserve
  <2>3. CASE NotAdmitted \/ CutShort \/ Encode \/ Read
    BY <2>3 DEF NotAdmitted, CutShort, Encode, Read, KeepAnswer
  <2>4. ASSUME NEW error \in {"timeout", "auth", "rate_limit", "provider"}, NEW billed \in BOOLEAN,
               AttemptFails(error, billed)
        PROVE  Provider!Try
    BY <2>4 DEF AttemptFails, Billed, Provider!Try
  <2>5. ASSUME NEW v \in Verdicts, Answered(v) PROVE Provider!Try
    BY <2>5 DEF Answered, Billed, Provider!Try
  <2>6. CASE Settle \/ NotSpoken
    BY <2>6 DEF Settle, NotSpoken, KeepAnswer, Billed, Provider!Charge
  <2>7. CASE AccountForFailure
    <3>1. row = "held" /\ UNCHANGED attempt
      BY <2>7 DEF AccountForFailure, KeepAnswer, Billed
    <3>2. CASE verdict.billing = "impossible"
      BY <2>7, <3>1, <3>2 DEF AccountForFailure, Billed, Provider!Release
    <3>3. CASE verdict.billing = "known"
      BY <2>7, <3>1, <3>3 DEF AccountForFailure, Billed, Provider!Charge
    <3>4. CASE verdict.billing \notin {"impossible", "known"}
      BY <2>7, <3>1, <3>4 DEF AccountForFailure
    <3> QED BY <3>2, <3>3, <3>4
  <2>8. CASE Over
    BY <2>8 DEF Over, Provider!Close
  <2>9. CASE UNCHANGED pathVars
    BY <2>9 DEF pathVars
  <2> QED BY <2>1, <2>2, <2>3, <2>4, <2>5, <2>6, <2>7, <2>8, <2>9 DEF PathNext
<1> QED BY <1>1, <1>2, PathInvariant, PTL DEF PathSpec, KeepsTheContract, Provider!Contract
=============================================================================
