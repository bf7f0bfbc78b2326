----------------------------- MODULE SocialGate -----------------------------
(***************************************************************************)
(* The deterministic rules on both sides of one social generation: which   *)
(* request is accepted (protocol.py), what of it the prompt shows, and     *)
(* which of the model's proposals may be spoken (generation.py).           *)
(*                                                                         *)
(* A line is abstracted to what the patterns of the gate tell apart: is it *)
(* fit for a chat line at all, what it asks, and what it claims of whom.   *)
(* A fact is the level of somebody or another fact; the level stands for   *)
(* the facts whose value is compared with the words of a line.             *)
(***************************************************************************)
EXTENDS Naturals, FiniteSets

CONSTANTS
  EvidenceIds, \* the ids of a request's facts: g1, g2, ...
  MemoryIds,   \* what may be remembered, by its id
  Facts,       \* the evidence entries a request may carry
  Lines,       \* the lines the model may write
  Contexts,    \* the contexts a request may carry, apart from their memories
  MaxEvidence  \* MAX_SOCIAL_EVIDENCE_ENTRIES

Scopes == 0 .. 2   \* SOCIAL_MEMORY_SCOPES: public, party, whisper
Channels == 0 .. 3 \* General, say, party, whisper
Whisper == 3
EmoteChannels == {1, 2}                              \* SOCIAL_EMOTE_CHANNELS
AllowedScope == [c \in Channels |-> IF c < 2 THEN 0 ELSE c - 1]

ClaimSubjects == {"candidate_bot", "participant", "none"}
Modes == {"ordinary", "decline_roleplay", "acknowledge_roleplay", "authorized_roleplay"}

Fact == [subject : {"candidate_bot", "participant", "source"},
         fact : {"level", "other"}, value : Nat, scope : Scopes]
Line == {line \in [form : {"plain", "unprintable", "unsuitable"}, asks : {"nothing", "level"},
                   who : {"nobody", "i", "you"},
                   claims : {"nothing", "now", "done", "level"}, value : Nat] :
           line.who = "nobody" => line.claims = "nothing"}
Context == [form : {"absent", "opaque", "typed"}, prompt_mode : Modes,
            identity : {"none", "withheld", "stated", "unmarked"}]

ASSUME GateAssumption ==
  /\ IsFiniteSet(EvidenceIds) /\ IsFiniteSet(MemoryIds)
  /\ Facts \subseteq Fact
  /\ Lines \subseteq Line
  /\ Contexts \subseteq Context
  /\ MaxEvidence \in Nat

-----------------------------------------------------------------------------
(* The request. *)

\* What the coordinator asks, the memories it offers named with their scope.
SocialRequests(offered) ==
  [lane : {"social"}, channel : Channels, context : Contexts, memories : {offered},
   evidence : UNION {[ids -> Facts] : ids \in SUBSET EvidenceIds},
   expects_answer : BOOLEAN]

\* _grounding_is_coherent, and the bounds of the list.
GroundingIsCoherent(request) ==
  /\ Cardinality(DOMAIN request.evidence) \in 1 .. MaxEvidence
  /\ \A id \in DOMAIN request.evidence :
       request.evidence[id].scope <= AllowedScope[request.channel]

\* A mutant: a roleplay context may carry the player's identity.
ParsesMixed(request) ==
  request.context.form = "typed" /\ request.context.identity # "unmarked"

\* parse_social_context: the context has the agreed shape.  Identity facts need their
\* marker, and an authorized roleplay carries none.
ContextParses(request) ==
  /\ request.context.form = "typed"
  /\ request.context.identity # "unmarked"
  /\ request.context.prompt_mode = "authorized_roleplay" => request.context.identity = "none"

\* memories_within: what this channel may draw on; nothing of a context that did not parse.
MemoriesWithin(request) ==
  {id \in DOMAIN request.memories :
     ContextParses(request) /\ request.memories[id] <= AllowedScope[request.channel]}

-----------------------------------------------------------------------------
(* The prompt. *)

\* A text that is not the agreed shape is shown whole, but only on a whisper, and
\* never when it names a reserved identity key.
ShowsOpaque(request) ==
  /\ ~ContextParses(request)
  /\ request.context.form # "absent"
  /\ request.channel = Whisper
  /\ request.context.identity = "none"

MemoriesShown(request) ==
  IF ShowsOpaque(request) THEN DOMAIN request.memories ELSE MemoriesWithin(request)

\* The fictional age or country is in the prompt, as a rule or in a text.
IdentityShown(request) ==
  /\ request.context.identity \in {"stated", "unmarked"}
  /\ ContextParses(request) \/ ShowsOpaque(request)

\* The voice of build_social_system_prompt.
VoiceOf(request) ==
  IF ContextParses(request) THEN request.context.prompt_mode ELSE "ordinary"

-----------------------------------------------------------------------------
(* The model's proposal. *)

Gesture == [kind |-> "emote", contribution |-> "gesture", claim_subject |-> "none",
            cited |-> {}, memories |-> {}]
Silence == [kind |-> "silence", contribution |-> "none", claim_subject |-> "none",
            cited |-> {}, memories |-> {}]

\* SocialReply: what its schema lets through.  A proposal may name ids that the
\* request never gave.
SocialReplies ==
  {Gesture, Silence} \cup
  {reply \in [kind : {"message"}, line : Lines,
              contribution : {"answer", "specific_reaction", "fact_free_banter"},
              claim_subject : ClaimSubjects,
              cited : SUBSET EvidenceIds, memories : SUBSET MemoryIds] :
     Cardinality(reply.cited) <= MaxEvidence}

-----------------------------------------------------------------------------
(* The gate: validate_social_reply, part by part. *)

Cites(reply) == reply.cited # {} \/ reply.memories # {}
CitedFacts(reply, request) == {request.evidence[id] : id \in reply.cited}

\* Only what this request gave, and this channel was shown.
CitesWhatWasGiven(reply, request) ==
  /\ reply.memories \subseteq MemoriesWithin(request)
  /\ reply.cited \subseteq DOMAIN request.evidence

\* An answer needs a question and a ground; banter claims nothing.
ContributionFits(reply, request) ==
  /\ reply.contribution = "answer" => request.expects_answer /\ Cites(reply)
  /\ reply.contribution = "fact_free_banter" => reply.claim_subject = "none" /\ ~Cites(reply)

\* compatible_subjects
Owners(subject) ==
  CASE subject = "candidate_bot" -> {"candidate_bot", "source"}
    [] subject = "participant" -> {"participant"}
    [] OTHER -> {}

SubjectFits(reply, request) ==
  /\ \A entry \in CitedFacts(reply, request) : entry.subject \in Owners(reply.claim_subject)
  /\ reply.memories # {} => reply.claim_subject = "participant"
  /\ reply.claim_subject = "none" => ~Cites(reply)

\* A mutant: only the worldserver checks the channel of a gesture.
EmoteAnywhere(request) == request.channel \in Channels

\* validate_social_emote: a gesture only where it can be seen.
EmoteIsSeen(request) == request.channel \in EmoteChannels

\* validate_social_message, the supplied facts, the filler and the content the
\* expansion lacks: what the words alone decide.
LineFits(line, request) ==
  /\ line.form = "plain"
  /\ \A id \in DOMAIN request.evidence : line.asks # request.evidence[id].fact

\* _literal_claim_refusal: a level said of the one the reply is about is that of a
\* cited fact.
LiteralClaimHolds(reply, request) ==
  /\ reply.line.claims = "level"
  /\ reply.line.who = (IF reply.claim_subject = "candidate_bot" THEN "i" ELSE "you")
  => \E entry \in CitedFacts(reply, request) :
       entry.fact = "level" /\ entry.value = reply.line.value

\* A mutant: a claim about now needs a citation only when it names its subject.
NamedClaimsAreCited(reply, request) ==
  reply.claim_subject # "none" => Cites(reply)

\* The bot's own deeds are its own or its source's; what is so now is cited, and a
\* memory never vouches for it.
ClaimsAreCited(reply, request) ==
  /\ reply.line.who = "i" /\ reply.line.claims = "done"
     => \E entry \in CitedFacts(reply, request) : entry.subject \in {"candidate_bot", "source"}
  /\ reply.line.who = "i" /\ reply.line.claims # "nothing" => reply.cited # {}
  /\ reply.claim_subject # "none" => Cites(reply)
  /\ reply.memories # {} /\ reply.line.who = "you" /\ reply.line.claims # "nothing"
     => reply.cited # {}

ValidateSocialReply(reply, request) ==
  \/ reply.kind = "silence"
  \/ /\ CitesWhatWasGiven(reply, request)
     /\ ContributionFits(reply, request)
     /\ SubjectFits(reply, request)
     /\ IF reply.kind = "emote"
        THEN EmoteIsSeen(request)
        ELSE /\ LineFits(reply.line, request)
             /\ LiteralClaimHolds(reply, request)
             /\ ClaimsAreCited(reply, request)

-----------------------------------------------------------------------------
(* The frame of an accepted proposal. *)

Citations(reply) == Cardinality(reply.cited) + Cardinality(reply.memories)
IsLine(reply) == reply.kind = "message"

\* encode_social_response refuses what it can see is incoherent.
EncodesSocial(reply, request) ==
  /\ reply.kind = "emote" => request.channel \in EmoteChannels
  /\ Cardinality(reply.cited) <= MaxEvidence
  /\ IF IsLine(reply)
     THEN /\ reply.line.form # "unprintable"
          /\ reply.contribution \in {"answer", "specific_reaction", "fact_free_banter"}
     ELSE /\ reply.contribution = (IF reply.kind = "emote" THEN "gesture" ELSE "none")
          /\ reply.claim_subject = "none" /\ ~Cites(reply)

\* ParseSocialResponsePayload: a deliverable answer has 20 fields and one for each
\* citation, and the first check of their number admits 19 to 19 + MaxEvidence.
Fields(reply) == 20 + Citations(reply)

ReadsSocial(reply) ==
  /\ Fields(reply) <= 19 + MaxEvidence
  /\ IF IsLine(reply)
     THEN /\ reply.line.form # "unprintable"
          /\ (reply.claim_subject = "none") # Cites(reply)
     ELSE reply.claim_subject = "none" /\ ~Cites(reply)
=============================================================================
