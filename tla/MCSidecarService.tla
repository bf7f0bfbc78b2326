-------------------------- MODULE MCSidecarService --------------------------
(***************************************************************************)
(* Small services for TLC: one sidecar or two, two requests or three, and  *)
(* one bot.  Each cfg says which request asks for what, and where.         *)
(***************************************************************************)
EXTENDS SidecarService, TLC

CONSTANTS q1, q2, q3, s1, s2, b1

TwoRequests == {q1, q2}
ThreeRequests == {q1, q2, q3}
MCReserveRatio == <<1, 4>>
MCMaxCosts == {4}
MCReports == {2, 6}
OneReport == {2}
None == {}
Hurried == {q2}

OneBot == {b1}

\* Two requests, one on each sidecar.
TwoSidecars == {s1, s2}
Apart == (q1 :> s1) @@ (q2 :> s2)
ApartKinds == (q1 :> "dialogue") @@ (q2 :> "social")

\* Two on one sidecar.
OneSidecar == {s1}
Together == [q \in Rows |-> s1]
Talk == (q1 :> "dialogue") @@ (q2 :> "dialogue")
TalkAndWork == (q1 :> "dialogue") @@ (q2 :> "career")

\* Two that nobody asked for on one sidecar, and a choice of career on the other.
OnTwo == (q1 :> s1) @@ (q2 :> s1) @@ (q3 :> s2)
Unasked == (q1 :> "ambient") @@ (q2 :> "ambient") @@ (q3 :> "career")

ForOneBot == [q \in Rows |-> b1]
=============================================================================
