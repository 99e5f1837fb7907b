--------------------------- MODULE MCFeedProjector ---------------------------
(***************************************************************************)
(* Instances of FeedProjector over observations of the four feeds, planned *)
(* by FeedSteps.                                                           *)
(***************************************************************************)
EXTENDS FeedProjector

\* "OPS.1" and "ops-1" are two CoT uids that entityToken maps to one token.
Tokens == [u \in {"OPS.1", "ops-1", "mk", "a1", "a2", "a3", "a4", "flood"} |->
             IF u = "OPS.1" THEN "ops-1" ELSE u]

Planned == INSTANCE FeedSteps WITH entityToken <- Tokens

Native ==
  [ heartbeat |-> [feed |-> "mavlink", system |-> 42, kind |-> "heartbeat",
                   fields |-> {"system_status", "base_mode"}],
    position  |-> [feed |-> "mavlink", system |-> 42, kind |-> "position",
                   fields |-> {"lat", "lon"}],
    unknown   |-> [feed |-> "mavlink", system |-> 42, kind |-> "command_ack",
                   fields |-> {"result"}],
    operator  |-> [feed |-> "cot", uid |-> "OPS.1", type |-> "operator", point |-> TRUE,
                   track |-> FALSE, text |-> FALSE, label |-> TRUE],
    chat      |-> [feed |-> "cot", uid |-> "ops-1", type |-> "geochat", point |-> FALSE,
                   track |-> FALSE, text |-> TRUE, label |-> FALSE],
    anonymous |-> [feed |-> "cot", uid |-> "", type |-> "marker", point |-> TRUE,
                   track |-> FALSE, text |-> FALSE, label |-> FALSE],
    alert     |-> [feed |-> "cap", identifier |-> "flood", valid |-> TRUE],
    pair      |-> [feed |-> "adsb", states |-> << [icao24 |-> "a1", contact |-> TRUE],
                                                  [icao24 |-> "a2", contact |-> TRUE],
                                                  [icao24 |-> "a1", contact |-> TRUE] >>],
    four      |-> [feed |-> "adsb", states |-> << [icao24 |-> "a1", contact |-> TRUE],
                                                  [icao24 |-> "a2", contact |-> TRUE],
                                                  [icao24 |-> "a3", contact |-> TRUE],
                                                  [icao24 |-> "a4", contact |-> TRUE] >>] ]

MCSteps == [m \in Messages |-> Planned!StepsOf(Native[m])]
MCMalformed == {m \in Messages : Planned!Refused(Native[m])}
MCEntities == UNION {{MCSteps[m][i].id : i \in DOMAIN MCSteps[m]} : m \in Messages}

\* The hosted projector, and the scenario runner, which applies CAP plans directly.
CONSTANTS hosted, scenario
MCAccepts == [w \in Writers |-> Messages]
MCDirect == [w \in Writers |-> {m \in Messages : w = scenario /\ Native[m].feed = "cap"}]
=============================================================================
