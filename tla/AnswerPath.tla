----------------------------- MODULE AnswerPath -----------------------------
(***************************************************************************)
(* One request after another on its way through the sidecar: its prompt is *)
(* built, the provider's client tries it (providers/anthropic.py), the     *)
(* answer is judged (generation.py), the reservation is accounted for      *)
(* (app.py), the answer is framed (protocol.py) and the worldserver reads  *)
(* the frame (PlayerbotLLM.cpp).  The generation lock keeps the requests   *)
(* apart.  What an extraction brings back is remembered, and offered to    *)
(* later social requests.                                                  *)
(***************************************************************************)
EXTENDS SocialGate

CONSTANTS
  MaxRetries,   \* the SDK's max_retries
  MaxExtracted, \* MAX_EXTRACTED_MEMORIES
  NoRequest, NoAnswer

ASSUME PathAssumption ==
  /\ MaxRetries \in Nat
  /\ MaxExtracted \in Nat

VARIABLES
  remembered, \* by id, the scope a memory is filed under and, as history, the
              \* scope of the surface it was heard on
  request,    \* the request in progress
  at,         \* how far it has come
  row,        \* its reservation
  retries,    \* how often the client has tried again by itself
  attempt,    \* history: its last attempt, untried, billed or free
  verdict     \* what the adapter said of the answer

pathVars == <<remembered, request, at, row, retries, attempt, verdict>>

Lanes == {"chat", "career", "assessment", "biography", "memory", "social"}
Ended == {"silent", "refused", "unread", "heard"}
Known == DOMAIN remembered

-----------------------------------------------------------------------------
(* What the model may answer in each lane, as the lane's schema lets it through. *)

\* What the gates and the encoders tell apart in a text: it is empty, it has control
\* characters, it is too long, it is too long until it is stripped, or the lane's
\* rules forbid what it says.
Texts == {"plain", "blank", "broken", "long", "padded", "improper"}
Strip(text) == IF text = "padded" THEN "plain" ELSE text

Capabilities == {"classic_content", "later_content", "unknown"}

\* _shape_matches_kind, which the worldserver checks again.
ShapeMatchesKind(answer) ==
  CASE answer.kind = "ordinary" -> answer.capabilities = {}
    [] answer.kind = "uncertain" -> answer.capabilities = {"unknown"}
    [] OTHER -> /\ answer.capabilities # {}
                /\ "unknown" \notin answer.capabilities
                /\ "classic_content" \in answer.capabilities
                   => answer.capabilities = {"classic_content"}

Assessments == {answer \in [kind : {"ordinary", "uncertain", "roleplay"},
                            capabilities : SUBSET Capabilities] : ShapeMatchesKind(answer)}

\* MemoryReply: new memories, each about somebody, from a line of the thread.
\* Eligible: the subject was offered, and spoke the line.
Candidates == [eligible : BOOLEAN, scope : Scopes, text : Texts]
Extractions == UNION {[ids -> Candidates] : ids \in SUBSET (MemoryIds \ Known)}

Completions(lane) ==
  CASE lane = "social" -> SocialReplies
    [] lane = "memory" -> Extractions
    [] lane = "assessment" -> Assessments
    [] lane = "career" -> [offered : BOOLEAN, within : BOOLEAN, text : {"plain", "long"}]
    [] OTHER -> [text : Texts]

-----------------------------------------------------------------------------
(* The gates. *)

\* The tail of generate_reply: the line is stripped before it is checked.
ChatFits(answer) == Strip(answer.text) \notin {"blank", "broken", "long"}

\* _validate_career_reply: an offered candidate, within its spending.
CareerFits(answer) == answer.offered /\ answer.within /\ ChatFits(answer)

\* build_biography does not look for control characters.
BiographyFits(answer) == answer.text \notin {"blank", "long", "padded", "improper"}

\* A mutant: the scope is the model's to choose.
ExtractionFitsAnyScope(answer) ==
  \A id \in DOMAIN answer :
    answer[id].eligible /\ Strip(answer[id].text) \notin {"blank", "long", "improper"}

\* validate_memory_reply: the length is checked stripped, and the number not at all.
ExtractionFits(answer) ==
  \A id \in DOMAIN answer :
    /\ answer[id].eligible
    /\ answer[id].scope = request.scope
    /\ Strip(answer[id].text) \notin {"blank", "long", "improper"}

Fits(answer) ==
  CASE request.lane = "social" -> ValidateSocialReply(answer, request)
    [] request.lane = "memory" -> ExtractionFits(answer)
    [] request.lane = "biography" -> BiographyFits(answer)
    [] request.lane = "career" -> CareerFits(answer)
    [] request.lane = "chat" -> ChatFits(answer)
    [] request.lane = "assessment" -> TRUE

-----------------------------------------------------------------------------
(* The encoders, and the worldserver's readers. *)

\* encode_memory_response and ParseMemoryResponsePayload: as it was written, and no
\* more than the limit.
ExtractionFrames(answer) ==
  /\ Cardinality(DOMAIN answer) <= MaxExtracted
  /\ \A id \in DOMAIN answer : answer[id].text \notin {"blank", "long", "padded"}

\* _validate_response_message, and the checks of encode_biography_response.
TextFrames(text) == text \notin {"blank", "broken", "long", "padded"}

Encodes(answer) ==
  CASE request.lane = "social" -> EncodesSocial(answer, request)
    [] request.lane = "memory" -> ExtractionFrames(answer)
    [] request.lane = "biography" -> TextFrames(answer.text)
    [] request.lane = "assessment" -> TRUE
    [] OTHER -> TextFrames(Strip(answer.text))

\* ParseResponsePayload and its siblings.  A regeneration has nine fields and is
\* always read.
Reads(answer) ==
  \/ answer = NoAnswer
  \/ CASE request.lane = "social" -> ReadsSocial(answer)
       [] request.lane = "memory" -> ExtractionFrames(answer)
       [] request.lane = "biography" -> TextFrames(answer.text)
       [] request.lane = "assessment" -> ShapeMatchesKind(answer)
       [] OTHER -> TextFrames(Strip(answer.text))

-----------------------------------------------------------------------------
(* The path. *)

Verdict(result, billing, answer) == [result |-> result, billing |-> billing, answer |-> answer]
NoVerdict == Verdict("none", "none", NoAnswer)

PathInit ==
  /\ remembered = <<>>
  /\ request = NoRequest /\ at = "idle"
  /\ row = "none" /\ retries = 0 /\ attempt = "untried"
  /\ verdict = NoVerdict

KeepAnswer == UNCHANGED <<remembered, request, retries, attempt, verdict>>

\* The memories the coordinator offers.  It should have left out what the channel may
\* not hear; what it failed to leave out is here.
Offered == [id \in Known |-> remembered[id].scope]

\* A thread is handed over with the scope of the surface it was held on.
Requests ==
  SocialRequests(Offered)
    \cup [lane : {"memory"}, scope : Scopes]
    \cup [lane : Lanes \ {"social", "memory"}]

\* The worldserver sends a request, and process_payload reads its kind and its fields.
Ask(r) ==
  /\ at = "idle"
  /\ request' = r
  /\ at' = IF r.lane = "social" /\ ~GroundingIsCoherent(r) THEN "refused" ELSE "counting"
  /\ UNCHANGED <<remembered, row, retries, attempt, verdict>>

\* The prompt is counted by the provider and its reservation admitted.
Admit ==
  /\ at = "counting"
  /\ at' = "sending" /\ row' = "held"
  /\ KeepAnswer

\* The count failed, the prompt is too long, or the budget does not admit it.
NotAdmitted ==
  /\ at = "counting"
  /\ at' = "silent"
  /\ UNCHANGED row /\ KeepAnswer

\* A mutant: a call that timed out is taken for one that generated nothing.
TimeoutsAreFree(error) ==
  IF error \in {"auth", "rate_limit", "timeout"} THEN "impossible" ELSE "indeterminate"

\* _map_api_error, with the billing status provider.py gives each error.
BillingOf(error) ==
  IF error \in {"auth", "rate_limit"} THEN "impossible" ELSE "indeterminate"

\* A mutant: the client never gives up.
AttemptFailsAgain(error, billed) ==
  /\ at = "sending" /\ error # "auth" /\ ~billed
  /\ retries' = retries + 1 /\ attempt' = "free"
  /\ UNCHANGED <<remembered, request, at, row, verdict>>

\* A refusal for its key or its rate generates nothing; of a timeout or a failure of
\* the provider nobody can tell.  The client tries again by itself, unless the key
\* is at fault or the provider tells it not to.
AttemptFails(error, billed) ==
  /\ at = "sending"
  /\ billed => error \in {"timeout", "provider"}
  /\ attempt' = IF billed THEN "billed" ELSE "free"
  /\ \/ /\ retries < MaxRetries /\ error # "auth"
        /\ retries' = retries + 1
        /\ UNCHANGED <<at, verdict>>
     \/ /\ at' = "judged" /\ retries' = 0
        /\ verdict' = Verdict("failed", BillingOf(error), NoAnswer)
  /\ UNCHANGED <<remembered, request, row>>

\* An answer that does not parse, or whose token counts are impossible, has no usage:
\* nobody can tell what it cost.  One the gate refuses carries the usage it was
\* billed for.
Verdicts ==
  {Verdict("invalid", billing, NoAnswer) : billing \in {"indeterminate", "known"}}
    \cup {Verdict("accepted", "known", answer) :
             answer \in {a \in Completions(request.lane) : Fits(a)}}

Answered(v) ==
  /\ at = "sending"
  /\ attempt' = "billed" /\ retries' = 0
  /\ at' = "judged" /\ verdict' = v
  /\ UNCHANGED <<remembered, request, row>>

\* The response deadline cuts the pipeline short; what was reserved stays reserved.
CutShort ==
  /\ at \in {"counting", "sending", "judged"}
  /\ at' = "silent" /\ retries' = 0
  /\ UNCHANGED <<remembered, request, row, attempt, verdict>>

\* settle charges an accepted answer, unless the reservation has expired meanwhile.
Settle ==
  /\ at = "judged" /\ verdict.result = "accepted"
  /\ row' = "charged" /\ at' = "charged"
  /\ KeepAnswer

\* Expired, or charged but unsafe or without usable metadata: nothing is said.
NotSpoken ==
  /\ at = "judged" /\ verdict.result = "accepted"
  /\ row' = "held" \/ (request.lane = "social" /\ row' = "charged")
  /\ at' = "silent"
  /\ KeepAnswer

\* _account_for_failure; the social lane asks for another attempt when the answer
\* was invalid, every other one stays silent.
AccountForFailure ==
  /\ at = "judged" /\ verdict.result # "accepted"
  /\ row' \in CASE verdict.billing = "impossible" -> {"released"}
               [] verdict.billing = "known" -> {"charged", "held"}
               [] OTHER -> {"held"}
  /\ at' = IF request.lane = "social" /\ verdict.result = "invalid" THEN "sent" ELSE "silent"
  /\ KeepAnswer

\* The frame is built, or its encoder refuses and the connection is closed.
Encode ==
  /\ at = "charged"
  /\ at' = IF Encodes(verdict.answer) THEN "sent" ELSE "refused"
  /\ UNCHANGED row /\ KeepAnswer

\* The worldserver reads the frame, and keeps what was extracted.
Read ==
  /\ at = "sent"
  /\ at' = IF Reads(verdict.answer) THEN "heard" ELSE "unread"
  /\ remembered' =
       IF request.lane = "memory" /\ at' = "heard"
       THEN [id \in Known \cup DOMAIN verdict.answer |->
               IF id \in Known THEN remembered[id]
               ELSE [scope |-> verdict.answer[id].scope, heard |-> request.scope]]
       ELSE remembered
  /\ UNCHANGED <<request, row, retries, attempt, verdict>>

\* The next request finds nothing of this one.
Over ==
  /\ at \in Ended
  /\ request' = NoRequest /\ at' = "idle" /\ row' = "none" /\ attempt' = "untried"
  /\ verdict' = NoVerdict
  /\ UNCHANGED <<remembered, retries>>

PathNext ==
  \/ \E r \in Requests : Ask(r)
  \/ Admit \/ NotAdmitted
  \/ \E error \in {"timeout", "auth", "rate_limit", "provider"}, billed \in BOOLEAN :
       AttemptFails(error, billed)
  \/ at = "sending" /\ \E v \in Verdicts : Answered(v)
  \/ CutShort \/ Settle \/ NotSpoken \/ AccountForFailure
  \/ Encode \/ Read \/ Over

PathSpec == PathInit /\ [][PathNext]_pathVars

-----------------------------------------------------------------------------
(* Properties. *)

Memory == [scope : Scopes, heard : Scopes]
Billings == {"none", "known", "impossible", "indeterminate"}

\* Every variable has its type, and the client never tries more often than its
\* retries allow (max_retries of anthropic.py).
AnswerTypeOK ==
  /\ Known \subseteq MemoryIds /\ \A id \in Known : remembered[id] \in Memory
  /\ at \in {"idle", "counting", "sending", "judged", "charged", "sent"} \cup Ended
  /\ row \in {"none", "held", "charged", "released"}
  /\ IF at = "idle" THEN request = NoRequest ELSE request \in Requests
  /\ retries \in 0 .. MaxRetries /\ attempt \in {"untried", "billed", "free"}
  /\ verdict.result \in {"none", "failed", "invalid", "accepted"}
  /\ verdict.billing \in Billings

\* The prompt of a social request was built, or is about to be.
Prompted == at # "idle" /\ request.lane = "social" /\ GroundingIsCoherent(request)
Spoken == Prompted /\ verdict.result = "accepted"

\* What was heard on a surface never comes into a prompt for a more public channel,
\* and no accepted line there rests on it; nor on a fact the worldserver gave for a
\* more private one.  It takes the gate of the extraction that filed a memory, the
\* parser of the context that offers it, and the filter of memories_within.
PrivateStaysPrivate ==
  /\ Prompted => \A id \in MemoriesShown(request) :
                   remembered[id].heard <= AllowedScope[request.channel]
  /\ Spoken =>
       /\ \A id \in verdict.answer.memories :
            remembered[id].heard <= AllowedScope[request.channel]
       /\ \A id \in verdict.answer.cited :
            request.evidence[id].scope <= AllowedScope[request.channel]

\* The fictional age and country of a player reach the model only from a context that
\* was understood, and never together with the voice of a roleplay: the refusal of
\* such a context falls back to the ordinary voice without them
\* (authorized_roleplay_carries_no_fictional_identity).
IdentityStaysApart ==
  Prompted /\ IdentityShown(request) =>
    /\ ContextParses(request)
    /\ VoiceOf(request) # "authorized_roleplay"

\* An accepted line that says what the bot does, did or is, or on the ground of a
\* memory what the other does now, cites a fact of the request, however the proposal
\* labels itself; and the level it gives of the one it is about is that of a cited
\* fact of theirs ("a memory ... cannot vouch for a current level").
ClaimsAreGrounded ==
  Spoken /\ IsLine(verdict.answer) /\ verdict.answer.line.claims # "nothing" =>
    LET reply == verdict.answer
        facts == CitedFacts(reply, request)
        levelOf == IF reply.line.claims # "level" THEN "nobody" ELSE reply.claim_subject
    IN /\ reply.line.who = "i" \/ reply.memories # {} => facts # {}
       /\ \/ levelOf = "candidate_bot" /\ reply.line.who = "i"
          \/ levelOf = "participant" /\ reply.line.who = "you"
          => \E f \in facts : /\ f.value = reply.line.value /\ f.fact = "level"
                             /\ f.subject \in Owners(reply.claim_subject)

\* An answer the gate accepted, and that was paid for, is never lost to its own
\* encoder, nor is its frame refused by the worldserver: the rules of three files
\* agree.  They do not on a biography or an extraction, which have an encoder stricter
\* than their gate, nor on a proposal with as many citations as a request may have
\* facts, whose frame the worldserver refuses for its number of fields.
AcceptedIsDelivered ==
  /\ at = "refused" /\ verdict.result = "accepted" => request.lane \in {"biography", "memory"}
  /\ at = "unread" => request.lane = "social" /\ Citations(verdict.answer) >= MaxEvidence

\* The path keeps the service's contract with its provider: a reservation is charged
\* only when the attempt heard of was billed, and released only when it was not.
Provider == INSTANCE ProviderContract WITH row <- row, attempt <- attempt

KeepsTheContract == Provider!Contract
=============================================================================
