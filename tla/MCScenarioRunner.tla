--------------------------- MODULE MCScenarioRunner ---------------------------
(***************************************************************************)
(* ScenarioRunner for TLC: a hosted projector and a runner that write the   *)
(* same vehicle and the same aircraft.                                      *)
(***************************************************************************)
EXTENDS MCFeedProjector, ScenarioRunner

MCFeedOf == [m \in Messages |-> Native[m].feed]

\* What the runner plays, and what reaches the hosted projector.
Drone == <<"position", "alert">>
HADR == <<"heartbeat", "position", "unknown", "operator", "chat", "alert">>
MCHosts == [w \in Writers |-> IF w = hosted THEN Messages \ {"alert"} ELSE Messages]

\* All sinks, or none for CAP.
AllFeeds == {"mavlink", "cot", "cap", "adsb"}
MCSinks == {AllFeeds, AllFeeds \ {"cap"}}
=============================================================================
