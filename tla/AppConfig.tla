------------------------------ MODULE AppConfig ------------------------------
(***************************************************************************)
(* The configuration of the hosted process (internal/app/config.go): read  *)
(* from the environment over defaults, validated as a whole, and handed to *)
(* the constructors of the components, which have defaults and checks of   *)
(* their own.                                                              *)
(*                                                                         *)
(* A setting is <<part, name>>.  A value is a class of values: "unset" (an *)
(* environment variable that is empty once trimmed), "malformed" (what its *)
(* parser refuses), "negative" and "zero" numbers, the "true" and "false"  *)
(* switches, a list of nothing but "commas", "outside" (a number or name   *)
(* beyond the ones known) and "given", any other.                          *)
(***************************************************************************)
EXTENDS Naturals, Sequences, FiniteSets

Flows == {"mavlink", "cot", "cap", "adsb", "sapient"}
Roles == {"udp", "tcp", "poller", "decoder", "projector"}
Components == Flows \X Roles
Listeners == {<<"mavlink", "udp">>, <<"cot", "udp">>, <<"cot", "tcp">>}
Pollers == {"cap", "adsb", "sapient"}
Bounded == {"adsb", "sapient"}   \* their raw lanes are bounded by settings

Of(parts, names) == parts \X names

Switches == Of(Flows, {"enabled"}) \cup {<<"cop", "discovery">>}

\* The address and the largest message of a listener.
Addr(c) == <<c[1], IF c[2] = "udp" THEN "udpAddr" ELSE "tcpAddr">>
Largest(c) == <<c[1], IF c[2] = "udp" THEN "udpMax" ELSE "tcpMax">>

Numbers ==
  Of(Flows \ {"sapient"}, {"writeTimeout"}) \cup {Largest(c) : c \in Listeners}
    \cup Of(Pollers, {"pollInterval", "staleAfter", "maxResponse"})
    \cup Of(Bounded, {"rawRecords", "rawBytes"})
    \cup Of({"core"}, {"connectTimeout", "heartbeat"})
    \cup Of({"cop"}, {"queryTimeout", "discoveryLimit"})

Texts ==
  Of({"core"}, {"natsURL", "natsName", "apiAddr", "org", "platform"})
    \cup Of(Flows, {"source"}) \cup {Addr(c) : c \in Listeners}
    \cup Of(Pollers, {"url", "method", "replay"}) \cup {<<"sapient", "encoding">>}

Lists == Of({"cop"}, {"systemIDs", "cotUIDs", "alertIDs"})

Settings == Switches \cup Numbers \cup Texts \cup Lists

Values(s) ==
  CASE s \in Switches -> {"unset", "malformed", "true", "false"}
    [] s \in Numbers -> {"unset", "malformed", "negative", "zero", "given"}
    [] s = <<"sapient", "encoding">> -> {"unset", "outside", "given"}
    [] s \in Texts \ {<<"sapient", "encoding">>} -> {"unset", "given"}
    [] s = <<"cop", "systemIDs">> -> {"unset", "malformed", "commas", "outside", "given"}
    [] OTHER -> {"unset", "commas", "given"}

-----------------------------------------------------------------------------
\* What is on unless the environment says otherwise.
OnByDefault == {<<"mavlink", "enabled">>, <<"cop", "discovery">>}

\* MAVLink is on, without a listener; SAPIENT has no endpoint to fall back on.
DefaultConfig ==
  [s \in Settings |->
     CASE s \in OnByDefault -> "true"
       [] s \in Switches \ OnByDefault -> "false"
       [] s \in {Addr(c) : c \in Listeners} \cup Of(Pollers, {"replay"})
                \cup {<<"sapient", "url">>, <<"sapient", "encoding">>,
                      <<"cop", "cotUIDs">>, <<"cop", "alertIDs">>} -> "unset"
       [] OTHER -> "given"]

\* A list of identifiers with no identifier in it is refused; a list of system ids is
\* taken for empty.
Unparsable(env, s) ==
  \/ env[s] = "malformed"
  \/ s \in Lists \ {<<"cop", "systemIDs">>} /\ env[s] = "commas"

\* Every variable that is set must parse, those of disabled flows included.
Parses(env) == \A s \in Settings : ~Unparsable(env, s)

ConfigFromEnv(env) ==
  [s \in Settings |-> IF env[s] = "unset" THEN DefaultConfig[s] ELSE env[s]]

Enabled(cfg) == {flow \in Flows : cfg[<<flow, "enabled">>] = "true"}
Listens(cfg) == {c \in Listeners : cfg[Addr(c)] # "unset"}

-----------------------------------------------------------------------------
(* Validate                                                                *)

Present(cfg, s) == cfg[s] # "unset"
Positive(cfg, s) == cfg[s] = "given"

ListenersValid(cfg, flow) ==
  \A c \in Listeners : c[1] = flow /\ Present(cfg, Addr(c)) => Positive(cfg, Largest(c))

OrgValid(cfg) == Present(cfg, <<"core", "org">>) /\ Present(cfg, <<"core", "platform">>)

PollerValid(cfg, flow) ==
  /\ \A name \in {"url", "method"} : Present(cfg, <<flow, name>>)
  /\ \A name \in {"pollInterval", "staleAfter", "maxResponse"} : Positive(cfg, <<flow, name>>)

RawLaneValid(cfg, flow) == \A name \in {"rawRecords", "rawBytes"} : Positive(cfg, <<flow, name>>)

MAVLinkValid(cfg) ==
  /\ Present(cfg, <<"mavlink", "source">>)
  /\ OrgValid(cfg)
  /\ Positive(cfg, <<"mavlink", "writeTimeout">>)
  /\ ListenersValid(cfg, "mavlink")

CoTValid(cfg) ==
  /\ Present(cfg, <<"cot", "source">>)
  /\ OrgValid(cfg)
  /\ Positive(cfg, <<"cot", "writeTimeout">>)
  /\ ListenersValid(cfg, "cot")

CAPValid(cfg) ==
  /\ Present(cfg, <<"cap", "source">>)
  /\ OrgValid(cfg)
  /\ Positive(cfg, <<"cap", "writeTimeout">>)
  /\ PollerValid(cfg, "cap")

\* Fault: the bounds of the raw lane are not looked at.
ADSBValidUnbounded(cfg) ==
  /\ Present(cfg, <<"adsb", "source">>)
  /\ OrgValid(cfg)
  /\ Positive(cfg, <<"adsb", "writeTimeout">>)
  /\ PollerValid(cfg, "adsb")

ADSBValid(cfg) ==
  /\ Present(cfg, <<"adsb", "source">>)
  /\ OrgValid(cfg)
  /\ RawLaneValid(cfg, "adsb")
  /\ Positive(cfg, <<"adsb", "writeTimeout">>)
  /\ PollerValid(cfg, "adsb")

SAPIENTValid(cfg) ==
  /\ Present(cfg, <<"sapient", "source">>)
  /\ RawLaneValid(cfg, "sapient")
  /\ PollerValid(cfg, "sapient")
  /\ cfg[<<"sapient", "encoding">>] # "outside"

FlowValid(cfg, flow) ==
  CASE flow = "mavlink" -> MAVLinkValid(cfg)
    [] flow = "cot" -> CoTValid(cfg)
    [] flow = "cap" -> CAPValid(cfg)
    [] flow = "adsb" -> ADSBValid(cfg)
    [] flow = "sapient" -> SAPIENTValid(cfg)

\* Without discovery the snapshot shows the configured entities only, so that some of
\* CoT and of CAP must be, the flows enabled or not.
SomethingToAsk(cfg) ==
  /\ cfg[<<"cop", "systemIDs">>] = "given"
  /\ cfg[<<"cop", "discovery">>] = "false" =>
       \A name \in {"cotUIDs", "alertIDs"} : Present(cfg, <<"cop", name>>)

Validate(cfg) ==
  /\ \A name \in {"natsURL", "natsName", "apiAddr"} : Present(cfg, <<"core", name>>)
  /\ \A s \in Numbers : s[1] \in {"core", "cop"} => Positive(cfg, s)
  /\ SomethingToAsk(cfg)
  /\ \A flow \in Enabled(cfg) : FlowValid(cfg, flow)

-----------------------------------------------------------------------------
(* The constructors                                                        *)

\* The settings a component is composed with, its graph writer's included.
SettingsOf(c) ==
  {s \in Settings : s[1] = c[1] /\
     CASE c \in Listeners -> s \in {<<c[1], "source">>, Addr(c), Largest(c)}
       [] c[2] = "poller" -> s[2] \in {"source", "url", "method", "pollInterval", "staleAfter",
                                       "maxResponse", "encoding"}
       [] c[2] = "decoder" -> s[2] \in {"source", "rawRecords", "rawBytes", "replay"}
       [] c[2] = "projector" -> s[2] \in {"source", "writeTimeout"}
       [] OTHER -> FALSE}

\* Listeners and pollers refuse negative numbers, the SAPIENT input also to have no
\* endpoint and an encoding it does not know.
Refuses(cfg, c) ==
  \/ /\ c \in Listeners \cup Of(Pollers, {"poller"})
     /\ \E s \in SettingsOf(c) \cap Numbers : cfg[s] = "negative"
  \/ /\ c = <<"sapient", "poller">>
     /\ ~Present(cfg, <<"sapient", "url">>) \/ cfg[<<"sapient", "encoding">>] = "outside"

\* What a component works with: no constructor keeps a zero, and neither the raw
\* lanes nor the writers keep a negative number; what they fall back on, like the
\* method or the address nobody set, is a default of the component, not of the configuration.
Effective(cfg, c, s) ==
  IF \/ s \in Numbers /\ ~Positive(cfg, s)
     \/ s \in {<<c[1], "source">>, <<c[1], "method">>, Addr(c)} /\ ~Present(cfg, s)
  THEN "component default" ELSE cfg[s]
=============================================================================
