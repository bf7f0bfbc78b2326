-------------------------- MODULE MCSocialTransport --------------------------
(***************************************************************************)
(* Two social requests through queues of one: the second may be refused,   *)
(* either may be asked for again once, and an answer may be a line, a      *)
(* request for another attempt, or nothing that parses.                    *)
(***************************************************************************)
EXTENDS SocialTransport

MCIds == 1 .. 2
MCOneId == 1 .. 1
MCLaneOf == [id \in MCIds |-> "social"]
MCOneLane == [id \in MCOneId |-> "social"]
MCNone == {}
MCAnswers == {"line", "junk", "again"}
MCGarbled == {"junk"}
=============================================================================
