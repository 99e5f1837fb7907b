---------------------------- MODULE MCAppLifecycle ----------------------------
(***************************************************************************)
(* Flows of every kind with all their listeners, the CoT flow with one     *)
(* listener, MAVLink with none, and the environments that spoil one of     *)
(* the settings with every flow enabled or with the default ones.          *)
(***************************************************************************)
EXTENDS AppLifecycle

Unset == [s \in Settings |-> "unset"]
Setting(env, ss, value) == [s \in Settings |-> IF s \in ss THEN value ELSE env[s]]

\* Exactly these flows, with these listeners and an endpoint for SAPIENT.
Running(flows, listeners) ==
  LET off == Setting(Unset, Of(Flows, {"enabled"}), "false")
      on == Setting(off, Of(flows, {"enabled"}), "true")
  IN  Setting(on, {Addr(c) : c \in listeners} \cup {<<"sapient", "url">>}, "given")

\* The defaults but for one setting, and everything enabled but for one that is spoilt.
Unusual(env, values) ==
  {[env EXCEPT ![p[1]] = p[2]] : p \in {q \in Settings \X values : q[2] \in Values(q[1])}}

MCEnvironments ==
  {Running(fs, Listeners) : fs \in {{"mavlink", "cot"}, {"cap", "adsb"},
                                    {"mavlink", "sapient", "adsb"}}}
    \cup {Running({"cot", "cap"}, {l}) : l \in Listeners}
    \cup {Running({"mavlink", "adsb"}, {}), Running({}, {}),
          Setting(Unset, {<<"sapient", "enabled">>}, "true")}
    \cup Unusual(Running(Flows, Listeners), {"malformed", "negative", "zero", "commas", "outside"})
    \cup Unusual(Running({"sapient"}, {}), {"malformed", "negative", "zero", "commas", "outside"})
    \cup Unusual(Setting(Unset, {<<"cop", "discovery">>}, "false"), {"given"})
=============================================================================
