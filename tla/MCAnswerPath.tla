---------------------------- MODULE MCAnswerPath ----------------------------
(***************************************************************************)
(* A small world for TLC: two facts and two memories at most, and one line *)
(* for each thing the patterns of the gate look for.                       *)
(***************************************************************************)
EXTENDS AnswerPath, TLC

CONSTANTS g1, g2, m1, m2

TwoIds == {g1, g2}
TwoMemories == {m1, m2}

\* Ids are only names, to the gates as to the path.
Names == {p @@ q : p \in Permutations(TwoIds), q \in Permutations(TwoMemories)}

MCFacts ==
  {[subject |-> "candidate_bot", fact |-> "level", value |-> 1, scope |-> 0],
   [subject |-> "participant", fact |-> "level", value |-> 2, scope |-> 1],
   [subject |-> "source", fact |-> "other", value |-> 0, scope |-> 0]}

Said(who, claims, value) ==
  [form |-> "plain", asks |-> "nothing", who |-> who, claims |-> claims, value |-> value]

MCLines ==
  {[Said("nobody", "nothing", 0) EXCEPT !.form = form] : form \in {"plain", "unprintable", "unsuitable"}}
    \cup {[Said("nobody", "nothing", 0) EXCEPT !.asks = "level"]}
    \cup {Said("i", "level", 1), Said("i", "done", 0), Said("you", "level", 1), Said("you", "now", 0)}

Given(form, prompt_mode, identity) ==
  [form |-> form, prompt_mode |-> prompt_mode, identity |-> identity]

MCContexts ==
  {Given("absent", "ordinary", "none"), Given("opaque", "ordinary", "none"),
   Given("opaque", "ordinary", "stated"), Given("typed", "ordinary", "stated"),
   Given("typed", "authorized_roleplay", "none"), Given("typed", "authorized_roleplay", "stated")}
=============================================================================
