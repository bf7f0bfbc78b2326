------------------------------ MODULE MCBridge ------------------------------
(***************************************************************************)
(* Four requests on three lanes, one of them not serializable, through     *)
(* queues of one: a full request queue refuses, a full lane drops an       *)
(* answer, and a request expires while another is served.                  *)
(***************************************************************************)
EXTENDS Bridge

MCIds == 1 .. 4
MCLaneOf == <<"chat", "chat", "social", "biography">>
MCRefused == {4}
MCAnswers == {"line", "junk"}
MCGarbled == {"junk"}
=============================================================================
