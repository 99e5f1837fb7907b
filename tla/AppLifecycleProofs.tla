-------------------------- MODULE AppLifecycleProofs --------------------------
(***************************************************************************)
(* The hosted process, for every set of environments: first what a valid   *)
(* configuration means for the components it starts, then the order in     *)
(* which they start, then the invariant of starting and closing.           *)
(***************************************************************************)
EXTENDS AppLifecycle, SequenceTheorems, TLAPS

\* The components that ever start, which Close therefore must know.
Stoppables == Listeners \cup Of(Pollers, {"poller"}) \cup Of(Flows, {"decoder"})
                \cup Of(Flows \ {"sapient"}, {"projector"})

\* What a configuration asks for.
Planned(cfg) ==
  {c \in Stoppables : c[1] \in Enabled(cfg) /\ (c \in Listeners => c \in Listens(cfg))}

Sequence == Seq([do : {"compose", "start"}, of : SUBSET Components])

\* The k-th step of the startup starts c, or composes it.
Starts(seq, k, c) == k \in DOMAIN seq /\ seq[k].do = "start" /\ seq[k].of = {c}
Composes(seq, k, c) == k \in DOMAIN seq /\ seq[k].do = "compose" /\ c \in seq[k].of

\* What an input publishes to, directly or through the decoder.
Hears(c) == IF c[1] = "sapient" THEN {<<c[1], "decoder">>}
            ELSE {<<c[1], "decoder">>, <<c[1], "projector">>}

-----------------------------------------------------------------------------
(* The inductive invariant.                                                *)

Early == {"load", "connect", "buckets", "owners"}

Configured == pc \notin {"load", "fatal"} \/ client # "none" => Validate(config)

NothingYet ==
  /\ pc \in Early => alive = {} /\ recorded = {} /\ failedStops = {} /\ state = [c \in Components |-> "created"]
  /\ pc \in {"load", "connect", "buckets"} => ~heartbeat /\ at = 1
  /\ pc \in {"load", "connect"} => client = "none"

Owned ==
  /\ pc \in {"owners", "flows", "serving"} => heartbeat
  /\ pc = "owners" =>
       /\ at \in DOMAIN RuntimeOwners(config)
       /\ \A k \in DOMAIN RuntimeOwners(config) : k < at => RuntimeOwners(config)[k] \in tokens
  /\ pc = "flows" => \A k \in DOMAIN RuntimeOwners(config) : RuntimeOwners(config)[k] \in tokens

\* Behind the step at hand components are recorded and subscribed, ahead of it new.
Flowing ==
  pc = "flows" =>
    \A c \in Components :
      /\ \A k \in DOMAIN Startup(config) : k < at /\ Composes(Startup(config), k, c) => c \in recorded
      /\ \A k \in DOMAIN Startup(config) :
           k < at /\ Starts(Startup(config), k, c) => c \in alive \cup Inputs
      /\ \A k \in DOMAIN Startup(config) :
           k >= at /\ Starts(Startup(config), k, c) => state[c] = "created"

\* What runs has started, and is stopped only if Stop gave up or waits for it.
RunningIsKnown ==
  \A c \in Components :
    /\ state[c] = "started" => c \in recorded /\ c \in Stoppables
    /\ c \in alive =>
         \/ state[c] = "started"
         \/ state[c] = "stopped" /\ c \in failedStops
         \/ state[c] = "stopped" /\ waiting /\ c = StopOrder[at]

StoppedBehind ==
  /\ pc \in {"cleanup", "closing"} =>
       /\ cancelled
       /\ at \in 1 .. Len(StopOrder) + 2
       /\ \A k \in DOMAIN StopOrder : k < at => state[StopOrder[k]] # "started"
       /\ at = Len(StopOrder) + 2 => ~heartbeat
  /\ waiting => StopOrder[at] \in recorded /\ state[StopOrder[at]] = "stopped"

IInv ==
  /\ TypeOK /\ Configured /\ NothingYet /\ Owned /\ Flowing /\ RunningIsKnown /\ StoppedBehind
  /\ InputsAreHeard /\ WritersAreOwned /\ ClosedIsQuiet

-----------------------------------------------------------------------------
(* What a valid configuration is.                                          *)

LEMMA Disjoint ==
  /\ OnByDefault \subseteq Switches
  /\ \A s \in Switches : s \notin Numbers /\ s \notin Texts /\ s # <<"cop", "systemIDs">>
  /\ \A s \in Switches : s # <<"sapient", "encoding">>
  /\ \A s \in Switches : /\ s \notin {Addr(c) : c \in Listeners} \cup Of(Pollers, {"replay"})
                         /\ s # <<"sapient", "url">>
                         /\ s # <<"cop", "cotUIDs">> /\ s # <<"cop", "alertIDs">>
<1>1. OnByDefault \subseteq Switches
  BY DEF OnByDefault, Switches, Of, Flows
<1>2. ASSUME NEW s \in Switches
      PROVE  s = <<s[1], s[2]>> /\ s[2] \in {"enabled", "discovery"}
  BY DEF Switches, Of
<1>3. ASSUME NEW s \in Numbers \cup Texts PROVE s[2] \notin {"enabled", "discovery"}
  BY DEF Numbers, Texts, Of, Addr, Largest
<1>4. ASSUME NEW s \in {Addr(c) : c \in Listeners} \cup Of(Pollers, {"replay"})
      PROVE  s[2] \notin {"enabled", "discovery"}
  BY DEF Of, Addr
<1> QED
  BY <1>1, <1>2, <1>3, <1>4

LEMMA DefaultTyped == \A s \in Settings : DefaultConfig[s] \in Values(s)
<1> SUFFICES ASSUME NEW s \in Settings PROVE DefaultConfig[s] \in Values(s)
  OBVIOUS
<1>1. "unset" \in Values(s)
  BY DEF Values
<1>2. s \in Switches => Values(s) = {"unset", "malformed", "true", "false"}
  BY Disjoint DEF Values
<1>3. s \notin Switches => "given" \in Values(s)
  BY DEF Values
<1>4. CASE s \in OnByDefault
  <2>1. DefaultConfig[s] = "true"
    BY <1>4, Disjoint DEF DefaultConfig
  <2> QED
    BY <1>2, <1>4, <2>1, Disjoint
<1>5. CASE s \in Switches \ OnByDefault
  <2>1. DefaultConfig[s] = "false"
    BY <1>5, Disjoint DEF DefaultConfig
  <2> QED
    BY <1>2, <1>5, <2>1
<1>6. CASE s \notin Switches
  <2>1. DefaultConfig[s] \in {"unset", "given"}
    BY <1>6, Disjoint DEF DefaultConfig
  <2> QED
    BY <1>1, <1>3, <1>6, <2>1
<1> QED
  BY <1>4, <1>5, <1>6

LEMMA ConfigTyped ==
  ASSUME NEW env, \A s \in Settings : env[s] \in Values(s)
  PROVE  /\ DOMAIN ConfigFromEnv(env) = Settings
         /\ \A s \in Settings : ConfigFromEnv(env)[s] \in Values(s)
  BY DefaultTyped DEF ConfigFromEnv

\* What the constructor of a component looks at.
LEMMA WhatIsChecked ==
  ASSUME NEW cfg, NEW c,
         \A s \in SettingsOf(c) : s \in Numbers => cfg[s] = "given",
         \A s \in SettingsOf(c) :
           s \in {<<c[1], "source">>, <<c[1], "method">>, Addr(c)} => cfg[s] # "unset",
         c = <<"sapient", "poller">> =>
           cfg[<<"sapient", "url">>] # "unset" /\ cfg[<<"sapient", "encoding">>] # "outside"
  PROVE  ~Refuses(cfg, c) /\ \A s \in SettingsOf(c) : Effective(cfg, c, s) = cfg[s]
<1>1. ~Refuses(cfg, c)
  BY DEF Refuses, Present
<1>2. ASSUME NEW s \in SettingsOf(c) PROVE Effective(cfg, c, s) = cfg[s]
  BY <1>2 DEF Effective, Positive, Present
<1> QED
  BY <1>1, <1>2

\* Validate looks at all of it, for the components of the flows that are enabled.
LEMMA PlannedRuns ==
  ASSUME NEW cfg, Validate(cfg), NEW c \in Planned(cfg)
  PROVE  ~Refuses(cfg, c) /\ \A s \in SettingsOf(c) : Effective(cfg, c, s) = cfg[s]
<1>1. /\ c[1] \in Enabled(cfg) /\ c[1] \in Flows /\ c = <<c[1], c[2]>>
      /\ c \in Stoppables /\ (c \in Listeners => cfg[Addr(c)] # "unset")
  BY DEF Planned, Enabled, Stoppables, Of, Listeners, Pollers, Flows, Listens
<1>2. FlowValid(cfg, c[1])
  BY <1>1 DEF Validate
<1>3. /\ cfg[<<c[1], "source">>] # "unset"
      /\ c[1] # "sapient" => cfg[<<c[1], "writeTimeout">>] = "given"
      /\ c[1] \in Pollers => PollerValid(cfg, c[1])
      /\ c[1] \in Bounded => RawLaneValid(cfg, c[1])
      /\ c[1] \notin Pollers => ListenersValid(cfg, c[1])
      /\ c[1] = "sapient" => cfg[<<"sapient", "encoding">>] # "outside"
  BY <1>1, <1>2 DEF FlowValid, MAVLinkValid, CoTValid, CAPValid, ADSBValid, SAPIENTValid,
    Flows, Pollers, Bounded, Present, Positive
<1>4. ASSUME NEW s \in SettingsOf(c)
      PROVE  /\ s \in Settings /\ s[1] = c[1] /\ s = <<s[1], s[2]>>
             /\ CASE c \in Listeners -> s \in {<<c[1], "source">>, Addr(c), Largest(c)}
                  [] c[2] = "poller" -> s[2] \in {"source", "url", "method", "pollInterval",
                                                  "staleAfter", "maxResponse", "encoding"}
                  [] c[2] = "decoder" -> s[2] \in {"source", "rawRecords", "rawBytes", "replay"}
                  [] c[2] = "projector" -> s[2] \in {"source", "writeTimeout"}
                  [] OTHER -> FALSE
  <2>1. s \in Settings /\ s[1] = c[1]
    BY DEF SettingsOf
  <2>2. s = <<s[1], s[2]>>
    BY <2>1 DEF Settings, Switches, Numbers, Texts, Lists, Of, Addr, Largest, Listeners
  <2> QED
    BY <2>1, <2>2 DEF SettingsOf
<1>5. CASE c \in Listeners
  <2>1. c[1] \notin Pollers /\ c # <<"sapient", "poller">>
    BY <1>5 DEF Listeners, Pollers
  <2>2. cfg[Largest(c)] = "given"
    BY <1>1, <1>3, <1>5, <2>1 DEF ListenersValid, Present, Positive
  <2>3. ASSUME NEW s \in SettingsOf(c) PROVE s \in {<<c[1], "source">>, Addr(c), Largest(c)}
    BY <1>4, <1>5 DEF Listeners
  <2>4. <<c[1], "source">> \notin Numbers /\ Addr(c) \notin Numbers
    BY <1>5 DEF Listeners, Numbers, Of, Addr, Largest, Pollers, Bounded, Flows
  <2>5. /\ Largest(c) # <<c[1], "source">> /\ Largest(c) # <<c[1], "method">>
        /\ Largest(c) # Addr(c)
    BY <1>5 DEF Listeners, Addr, Largest
  <2>6. \A s \in SettingsOf(c) : s \in Numbers => cfg[s] = "given"
    BY <2>2, <2>3, <2>4
  <2>7. \A s \in SettingsOf(c) :
          s \in {<<c[1], "source">>, <<c[1], "method">>, Addr(c)} => cfg[s] # "unset"
    BY <1>1, <1>3, <1>5, <2>2, <2>3
  <2> QED
    BY <2>1, <2>6, <2>7, WhatIsChecked
<1>6. CASE c \notin Listeners /\ c[2] = "poller"
  <2>1. c[1] \in Pollers
    BY <1>1, <1>6 DEF Stoppables, Of, Flows
  <2>2. ASSUME NEW s \in SettingsOf(c), s \in Numbers PROVE cfg[s] = "given"
    <3>1. s[2] \in {"pollInterval", "staleAfter", "maxResponse"}
      BY <1>4, <1>6, <2>2 DEF Numbers, Of, Largest, Listeners, Pollers, Bounded
    <3> QED
      BY <1>3, <1>4, <2>1, <3>1 DEF PollerValid, Positive
  <2>3. cfg[<<c[1], "method">>] # "unset" /\ cfg[<<c[1], "url">>] # "unset"
    BY <1>3, <2>1 DEF PollerValid, Present
  <2>4. ASSUME NEW s \in SettingsOf(c) PROVE s # Addr(c)
    BY <1>4, <1>6 DEF Addr
  <2>5. ASSUME NEW s \in SettingsOf(c),
               s \in {<<c[1], "source">>, <<c[1], "method">>, Addr(c)}
        PROVE  cfg[s] # "unset"
    BY <1>3, <2>3, <2>4, <2>5
  <2>6. c = <<"sapient", "poller">> =>
          cfg[<<"sapient", "url">>] # "unset" /\ cfg[<<"sapient", "encoding">>] # "outside"
    <3>1. c = <<"sapient", "poller">> => c[1] = "sapient"
      OBVIOUS
    <3> QED
      BY <1>3, <2>3, <3>1
  <2>7. \A s \in SettingsOf(c) : s \in Numbers => cfg[s] = "given"
    BY <2>2
  <2>8. \A s \in SettingsOf(c) :
          s \in {<<c[1], "source">>, <<c[1], "method">>, Addr(c)} => cfg[s] # "unset"
    BY <2>5
  <2> QED
    BY <2>6, <2>7, <2>8, WhatIsChecked
<1>7. CASE c \notin Listeners /\ c[2] = "decoder"
  <2>1. ASSUME NEW s \in SettingsOf(c), s \in Numbers PROVE cfg[s] = "given"
    <3>1. s[2] \in {"rawRecords", "rawBytes"} /\ s[1] \in Bounded
      BY <1>4, <1>7, <2>1 DEF Numbers, Of, Largest, Listeners, Pollers, Bounded
    <3> QED
      BY <1>3, <1>4, <3>1 DEF RawLaneValid, Positive
  <2>2. ASSUME NEW s \in SettingsOf(c) PROVE s # Addr(c) /\ s # <<c[1], "method">>
    BY <1>4, <1>7 DEF Addr
  <2>4. c # <<"sapient", "poller">>
    BY <1>7
  <2>5. \A s \in SettingsOf(c) : s \in Numbers => cfg[s] = "given"
    BY <2>1
  <2>6. \A s \in SettingsOf(c) :
          s \in {<<c[1], "source">>, <<c[1], "method">>, Addr(c)} => cfg[s] # "unset"
    BY <1>3, <2>2
  <2> QED
    BY <2>4, <2>5, <2>6, WhatIsChecked
<1>8. CASE c \notin Listeners /\ c[2] = "projector"
  <2>1. c[1] # "sapient"
    BY <1>1, <1>8 DEF Stoppables, Of, Pollers
  <2>2. ASSUME NEW s \in SettingsOf(c), s \in Numbers PROVE cfg[s] = "given"
    <3>1. s[2] = "writeTimeout"
      BY <1>4, <1>8, <2>2 DEF Numbers, Of, Largest, Listeners, Pollers, Bounded
    <3> QED
      BY <1>3, <1>4, <2>1, <3>1
  <2>3. ASSUME NEW s \in SettingsOf(c) PROVE s # Addr(c) /\ s # <<c[1], "method">>
    BY <1>4, <1>8 DEF Addr
  <2>4. c # <<"sapient", "poller">>
    BY <1>8
  <2>5. \A s \in SettingsOf(c) : s \in Numbers => cfg[s] = "given"
    BY <2>2
  <2>6. \A s \in SettingsOf(c) :
          s \in {<<c[1], "source">>, <<c[1], "method">>, Addr(c)} => cfg[s] # "unset"
    BY <1>3, <2>3
  <2> QED
    BY <2>4, <2>5, <2>6, WhatIsChecked
<1> QED
  BY <1>1, <1>5, <1>6, <1>7, <1>8 DEF Stoppables, Of

-----------------------------------------------------------------------------
(* The order of the startup.  Ordered says of a list of steps for some of  *)
(* the flows that it composes and starts only what the configuration asks  *)
(* for, one component at a time and each once, after composing it, and an  *)
(* input after those that hear it.                                         *)

StartsIn(seq, c) == \E k \in DOMAIN seq : Starts(seq, k, c)

Ordered(cfg, seq, flows) ==
  /\ seq \in Sequence
  /\ \A k \in DOMAIN seq : \A c \in seq[k].of : c \in Planned(cfg) /\ c[1] \in flows
  /\ \A k \in DOMAIN seq : seq[k].do = "start" => \E c \in Components : seq[k].of = {c}
  /\ \A k \in DOMAIN seq : \A c \in Components : Starts(seq, k, c) =>
       /\ \E j \in DOMAIN seq : j < k /\ Composes(seq, j, c)
       /\ c \in Inputs => \A d \in Hears(c) : \E j \in DOMAIN seq : j < k /\ Starts(seq, j, d)
  /\ \A j, k \in DOMAIN seq : \A c \in Components : Starts(seq, j, c) /\ Starts(seq, k, c) => j = k

LEMMA StoppablesAreComponents == Stoppables \subseteq Components
  BY DEF Stoppables, Components, Of, Listeners, Pollers, Flows, Roles

\* Where the steps of two lists put together come from.
LEMMA Parts ==
  ASSUME NEW s \in Sequence, NEW t \in Sequence
  PROVE  /\ s \o t \in Sequence /\ Len(s) \in Nat /\ Len(t) \in Nat
         /\ DOMAIN s = 1 .. Len(s) /\ DOMAIN t = 1 .. Len(t)
         /\ DOMAIN (s \o t) = 1 .. Len(s) + Len(t)
         /\ \A k \in DOMAIN s : (s \o t)[k] = s[k] /\ k \in DOMAIN (s \o t)
         /\ \A k \in DOMAIN t : (s \o t)[Len(s) + k] = t[k] /\ Len(s) + k \in DOMAIN (s \o t)
         /\ \A k \in DOMAIN (s \o t) :
              \/ k \in DOMAIN s
              \/ \E j \in DOMAIN t : k = Len(s) + j
<1>1. /\ s \o t \in Sequence /\ Len(s) \in Nat /\ Len(t) \in Nat
      /\ DOMAIN s = 1 .. Len(s) /\ DOMAIN t = 1 .. Len(t) /\ Len(s \o t) = Len(s) + Len(t)
      /\ DOMAIN (s \o t) = 1 .. Len(s) + Len(t)
  BY ConcatProperties DEF Sequence
<1>2. \A k \in 1 .. Len(s) + Len(t) : (s \o t)[k] = IF k <= Len(s) THEN s[k] ELSE t[k - Len(s)]
  BY ConcatProperties DEF Sequence
<1>3. \A k \in DOMAIN s : (s \o t)[k] = s[k] /\ k \in DOMAIN (s \o t)
  BY <1>1, <1>2
<1>4. ASSUME NEW k \in DOMAIN t
      PROVE  (s \o t)[Len(s) + k] = t[k] /\ Len(s) + k \in DOMAIN (s \o t)
  <2>1. Len(s) + k \in 1 .. Len(s) + Len(t) /\ ~(Len(s) + k <= Len(s)) /\ (Len(s) + k) - Len(s) = k
    BY <1>1
  <2> QED
    BY <1>1, <1>2, <2>1
<1>5. ASSUME NEW k \in DOMAIN (s \o t), k \notin DOMAIN s PROVE \E j \in DOMAIN t : k = Len(s) + j
  <2>1. k - Len(s) \in DOMAIN t /\ k = Len(s) + (k - Len(s))
    BY <1>1, <1>5
  <2> QED
    BY <2>1
<1> QED
  BY <1>1, <1>3, <1>4, <1>5

LEMMA StartsOfParts ==
  ASSUME NEW s \in Sequence, NEW t \in Sequence, NEW c
  PROVE  /\ \A k \in DOMAIN s : /\ Starts(s \o t, k, c) <=> Starts(s, k, c)
                                /\ Composes(s \o t, k, c) <=> Composes(s, k, c)
         /\ \A k \in DOMAIN t : /\ Starts(s \o t, Len(s) + k, c) <=> Starts(t, k, c)
                                /\ Composes(s \o t, Len(s) + k, c) <=> Composes(t, k, c)
         /\ StartsIn(s \o t, c) <=> StartsIn(s, c) \/ StartsIn(t, c)
<1>1. \A k \in DOMAIN s : /\ Starts(s \o t, k, c) <=> Starts(s, k, c)
                          /\ Composes(s \o t, k, c) <=> Composes(s, k, c)
  <2>1. \A k \in DOMAIN s : (s \o t)[k] = s[k] /\ k \in DOMAIN (s \o t)
    BY Parts
  <2> QED
    BY <2>1 DEF Starts, Composes
<1>2. \A k \in DOMAIN t : /\ Starts(s \o t, Len(s) + k, c) <=> Starts(t, k, c)
                          /\ Composes(s \o t, Len(s) + k, c) <=> Composes(t, k, c)
  <2>1. \A k \in DOMAIN t : (s \o t)[Len(s) + k] = t[k] /\ Len(s) + k \in DOMAIN (s \o t)
    BY Parts
  <2> QED
    BY <2>1 DEF Starts, Composes
<1>3. ASSUME StartsIn(s, c) \/ StartsIn(t, c) PROVE StartsIn(s \o t, c)
  <2>1. /\ \A k \in DOMAIN s : k \in DOMAIN (s \o t)
        /\ \A k \in DOMAIN t : Len(s) + k \in DOMAIN (s \o t)
    BY Parts
  <2>2. CASE StartsIn(s, c)
    BY <1>1, <2>1, <2>2 DEF StartsIn
  <2>3. CASE StartsIn(t, c)
    <3>1. PICK k \in DOMAIN t : Starts(t, k, c)
      BY <2>3 DEF StartsIn
    <3> QED
      BY <1>2, <2>1, <3>1 DEF StartsIn
  <2> QED
    BY <1>3, <2>2, <2>3
<1>4. ASSUME StartsIn(s \o t, c) PROVE StartsIn(s, c) \/ StartsIn(t, c)
  <2>1. PICK k \in DOMAIN (s \o t) : Starts(s \o t, k, c)
    BY <1>4 DEF StartsIn
  <2>2. k \in DOMAIN s \/ \E j \in DOMAIN t : k = Len(s) + j
    BY Parts
  <2> QED
    BY <1>1, <1>2, <2>1, <2>2 DEF StartsIn
<1> QED
  BY <1>1, <1>2, <1>3, <1>4

\* A list may rely on the lists before it for those that hear its inputs.
OrderedAfter(cfg, s, seq, flows) ==
  /\ seq \in Sequence
  /\ \A k \in DOMAIN seq : \A c \in seq[k].of : c \in Planned(cfg) /\ c[1] \in flows
  /\ \A k \in DOMAIN seq : seq[k].do = "start" => \E c \in Components : seq[k].of = {c}
  /\ \A k \in DOMAIN seq : \A c \in Components : Starts(seq, k, c) =>
       /\ \E j \in DOMAIN seq : j < k /\ Composes(seq, j, c)
       /\ c \in Inputs => \A d \in Hears(c) :
            StartsIn(s, d) \/ \E j \in DOMAIN seq : j < k /\ Starts(seq, j, d)
  /\ \A j, k \in DOMAIN seq : \A c \in Components : Starts(seq, j, c) /\ Starts(seq, k, c) => j = k
  /\ \A c \in Components : ~(StartsIn(s, c) /\ StartsIn(seq, c))

LEMMA OrderedConcat ==
  ASSUME NEW cfg, NEW F, NEW G, NEW s, NEW t, Ordered(cfg, s, F), OrderedAfter(cfg, s, t, G)
  PROVE  Ordered(cfg, s \o t, F \cup G)
<1> DEFINE u == s \o t
<1>1. s \in Sequence /\ t \in Sequence
  BY DEF Ordered, OrderedAfter
<1>2. /\ u \in Sequence /\ Len(s) \in Nat
      /\ \A k \in DOMAIN s : k \in Nat /\ k <= Len(s) /\ u[k] = s[k] /\ k \in DOMAIN u
      /\ \A k \in DOMAIN t : k \in Nat \ {0} /\ u[Len(s) + k] = t[k] /\ Len(s) + k \in DOMAIN u
      /\ \A k \in DOMAIN u : k \in DOMAIN s \/ \E j \in DOMAIN t : k = Len(s) + j
  <2>1. /\ u \in Sequence /\ Len(s) \in Nat /\ Len(t) \in Nat
        /\ DOMAIN s = 1 .. Len(s) /\ DOMAIN t = 1 .. Len(t)
    BY <1>1, Parts
  <2>2. \A k \in DOMAIN s : u[k] = s[k] /\ k \in DOMAIN u
    BY <1>1, Parts
  <2>3. \A k \in DOMAIN t : u[Len(s) + k] = t[k] /\ Len(s) + k \in DOMAIN u
    BY <1>1, Parts
  <2>4. \A k \in DOMAIN u : k \in DOMAIN s \/ \E j \in DOMAIN t : k = Len(s) + j
    BY <1>1, Parts
  <2> HIDE DEF u
  <2> QED
    BY <2>1, <2>2, <2>3, <2>4
<1>3. \A c : /\ \A k \in DOMAIN s : /\ Starts(u, k, c) <=> Starts(s, k, c)
                                    /\ Composes(u, k, c) <=> Composes(s, k, c)
             /\ \A k \in DOMAIN t : /\ Starts(u, Len(s) + k, c) <=> Starts(t, k, c)
                                    /\ Composes(u, Len(s) + k, c) <=> Composes(t, k, c)
  BY <1>1, StartsOfParts
<1> HIDE DEF u
<1>4. \A k \in DOMAIN u : \A c \in u[k].of : c \in Planned(cfg) /\ c[1] \in F \cup G
  BY <1>2 DEF Ordered, OrderedAfter
<1>5. \A k \in DOMAIN u : u[k].do = "start" => \E c \in Components : u[k].of = {c}
  BY <1>2 DEF Ordered, OrderedAfter
<1>6. ASSUME NEW k \in DOMAIN u, NEW c \in Components, Starts(u, k, c)
      PROVE  /\ \E j \in DOMAIN u : j < k /\ Composes(u, j, c)
             /\ c \in Inputs => \A d \in Hears(c) : \E j \in DOMAIN u : j < k /\ Starts(u, j, d)
  <2>1. CASE k \in DOMAIN s
    <3>1. Starts(s, k, c)
      BY <1>3, <1>6, <2>1
    <3>2. /\ \E j \in DOMAIN s : j < k /\ Composes(s, j, c)
          /\ c \in Inputs => \A d \in Hears(c) : \E j \in DOMAIN s : j < k /\ Starts(s, j, d)
      BY <2>1, <3>1 DEF Ordered
    <3> QED
      BY <1>2, <1>3, <3>2
  <2>2. ASSUME NEW i \in DOMAIN t, k = Len(s) + i
        PROVE  /\ \E j \in DOMAIN u : j < k /\ Composes(u, j, c)
               /\ c \in Inputs => \A d \in Hears(c) : \E j \in DOMAIN u : j < k /\ Starts(u, j, d)
    <3>1. Starts(t, i, c)
      BY <1>3, <1>6, <2>2
    <3>2. /\ \E j \in DOMAIN t : j < i /\ Composes(t, j, c)
          /\ c \in Inputs => \A d \in Hears(c) :
               StartsIn(s, d) \/ \E j \in DOMAIN t : j < i /\ Starts(t, j, d)
      BY <3>1 DEF OrderedAfter
    <3>3. \E j \in DOMAIN u : j < k /\ Composes(u, j, c)
      <4>1. PICK j \in DOMAIN t : j < i /\ Composes(t, j, c)
        BY <3>2
      <4>2. Len(s) + j \in DOMAIN u /\ Len(s) + j < k /\ Composes(u, Len(s) + j, c)
        BY <1>2, <1>3, <2>2, <4>1
      <4> QED
        BY <4>2
    <3>4. ASSUME c \in Inputs, NEW d \in Hears(c) PROVE \E j \in DOMAIN u : j < k /\ Starts(u, j, d)
      <4>1. CASE StartsIn(s, d)
        <5>1. PICK j \in DOMAIN s : Starts(s, j, d)
          BY <4>1 DEF StartsIn
        <5>2. j < k /\ j \in DOMAIN u
          BY <1>2, <2>2, <5>1
        <5>3. Starts(u, j, d)
          BY <1>3, <5>1
        <5> QED
          BY <5>2, <5>3
      <4>2. CASE \E j \in DOMAIN t : j < i /\ Starts(t, j, d)
        <5>1. PICK j \in DOMAIN t : j < i /\ Starts(t, j, d)
          BY <4>2
        <5>2. Len(s) + j \in DOMAIN u /\ Len(s) + j < k /\ Starts(u, Len(s) + j, d)
          BY <1>2, <1>3, <2>2, <5>1
        <5> QED
          BY <5>2
      <4> QED
        BY <3>2, <3>4, <4>1, <4>2
    <3> QED
      BY <3>3, <3>4
  <2> QED
    BY <1>2, <2>1, <2>2
<1>7. ASSUME NEW j \in DOMAIN u, NEW k \in DOMAIN u, NEW c \in Components,
             Starts(u, j, c), Starts(u, k, c)
      PROVE  j = k
  <2>1. /\ j \in DOMAIN s => Starts(s, j, c)
        /\ k \in DOMAIN s => Starts(s, k, c)
        /\ j \notin DOMAIN s => \E i \in DOMAIN t : j = Len(s) + i /\ Starts(t, i, c)
        /\ k \notin DOMAIN s => \E i \in DOMAIN t : k = Len(s) + i /\ Starts(t, i, c)
    BY <1>2, <1>3, <1>7
  <2>2. ~(StartsIn(s, c) /\ StartsIn(t, c))
    BY DEF OrderedAfter
  <2>3. (j \in DOMAIN s <=> k \in DOMAIN s)
    BY <2>1, <2>2 DEF StartsIn
  <2>4. CASE j \in DOMAIN s
    BY <2>1, <2>3, <2>4 DEF Ordered
  <2>5. CASE j \notin DOMAIN s
    <3>1. PICK i \in DOMAIN t : j = Len(s) + i /\ Starts(t, i, c)
      BY <2>1, <2>5
    <3>2. PICK l \in DOMAIN t : k = Len(s) + l /\ Starts(t, l, c)
      BY <2>1, <2>3, <2>5
    <3>3. i = l
      BY <3>1, <3>2 DEF OrderedAfter
    <3> QED
      BY <3>1, <3>2, <3>3
  <2> QED
    BY <2>4, <2>5
<1> QED
  BY <1>2, <1>4, <1>5, <1>6, <1>7 DEF Ordered, u

LEMMA ComposedSteps ==
  ASSUME NEW flow \in Flows, NEW roles \in Seq(Roles)
  PROVE  LET seq == Composed(flow, roles)
         IN  /\ seq \in Sequence /\ DOMAIN seq = 1 .. Len(roles) + 1 /\ Len(roles) \in Nat
             /\ DOMAIN roles = 1 .. Len(roles)
             /\ seq[1] = Compose({<<flow, roles[i]>> : i \in DOMAIN roles})
             /\ \A i \in DOMAIN roles : seq[i + 1] = StartOf(<<flow, roles[i]>>)
<1> DEFINE head == << Compose({<<flow, roles[i]>> : i \in DOMAIN roles}) >>
           tail == [i \in DOMAIN roles |-> StartOf(<<flow, roles[i]>>)]
<1>1. /\ Len(roles) \in Nat /\ DOMAIN roles = 1 .. Len(roles)
      /\ \A i \in DOMAIN roles : <<flow, roles[i]>> \in Components
  BY DEF Components
<1>2. Compose({<<flow, roles[i]>> : i \in DOMAIN roles})
        \in [do : {"compose", "start"}, of : SUBSET Components]
  BY <1>1 DEF Compose
<1>3. head \in Sequence /\ Len(head) = 1
  BY <1>2 DEF Sequence
<1>4. \A i \in DOMAIN roles : tail[i] \in [do : {"compose", "start"}, of : SUBSET Components]
  BY <1>1 DEF StartOf
<1>5. tail \in Sequence /\ Len(tail) = Len(roles) /\ DOMAIN tail = DOMAIN roles
  <2>1. tail \in [1 .. Len(roles) -> [do : {"compose", "start"}, of : SUBSET Components]]
    BY <1>1, <1>4
  <2> HIDE DEF tail
  <2>2. tail \in Sequence
    <3> DEFINE S == [do : {"compose", "start"}, of : SUBSET Components]
    <3> HIDE DEF S
    <3>1. \E n \in Nat : tail \in [1 .. n -> S]
      BY <1>1, <2>1 DEF S
    <3>2. tail \in Seq(S)
      BY <3>1, SeqDef
    <3> QED
      BY <3>2, SMTT(30) DEF Sequence, S
  <2>3. DOMAIN tail = 1 .. Len(tail) /\ Len(tail) \in Nat
    BY <2>2, LenProperties DEF Sequence
  <2>4. DOMAIN tail = 1 .. Len(roles)
    BY <2>1
  <2>5. Len(tail) = Len(roles)
    <3> DEFINE m == Len(tail)
               n == Len(roles)
    <3>1. m \in Nat /\ n \in Nat /\ 1 .. m = 1 .. n
      BY <1>1, <2>3, <2>4
    <3> HIDE DEF m, n
    <3>2. m <= n
      <4>1. m \in 1 .. m \/ m = 0
        BY <3>1
      <4> QED
        BY <3>1, <4>1
    <3>3. n <= m
      <4>1. n \in 1 .. n \/ n = 0
        BY <3>1
      <4> QED
        BY <3>1, <4>1
    <3> QED
      BY <3>1, <3>2, <3>3, SMTT(30) DEF m, n
  <2> QED
    BY <1>1, <2>2, <2>4, <2>5
<1>6. Composed(flow, roles) = head \o tail
  BY DEF Composed
<1>7. head[1] = Compose({<<flow, roles[i]>> : i \in DOMAIN roles}) /\ DOMAIN head = {1}
  OBVIOUS
<1>8. \A i \in DOMAIN roles : tail[i] = StartOf(<<flow, roles[i]>>)
  OBVIOUS
<1> HIDE DEF head, tail
<1>9. /\ head \o tail \in Sequence /\ DOMAIN (head \o tail) = 1 .. Len(head) + Len(tail)
      /\ \A k \in DOMAIN head : (head \o tail)[k] = head[k]
      /\ \A k \in DOMAIN tail : (head \o tail)[Len(head) + k] = tail[k]
  BY <1>3, <1>5, Parts
<1>10. DOMAIN (head \o tail) = 1 .. Len(roles) + 1
  <2>1. Len(head) + Len(tail) = Len(roles) + 1
    BY <1>1, <1>3, <1>5
  <2> QED
    BY <1>9, <2>1
<1>11. (head \o tail)[1] = Compose({<<flow, roles[i]>> : i \in DOMAIN roles})
  BY <1>7, <1>9
<1>12. ASSUME NEW i \in DOMAIN roles PROVE (head \o tail)[i + 1] = StartOf(<<flow, roles[i]>>)
  <2>1. Len(head) + i = i + 1
    BY <1>1, <1>3
  <2>2. (head \o tail)[Len(head) + i] = tail[i]
    BY <1>5, <1>9
  <2> QED
    BY <1>8, <2>1, <2>2
<1> QED
  BY <1>1, <1>6, <1>9, <1>10, <1>11, <1>12

LEMMA ComposedStarts ==
  ASSUME NEW flow \in Flows, NEW roles \in Seq(Roles), NEW c
  PROVE  /\ \A k \in DOMAIN Composed(flow, roles) : Starts(Composed(flow, roles), k, c) =>
              \E i \in DOMAIN roles : k = i + 1 /\ c = <<flow, roles[i]>>
         /\ StartsIn(Composed(flow, roles), c) => \E i \in DOMAIN roles : c = <<flow, roles[i]>>
<1> DEFINE seq == Composed(flow, roles)
<1>1. /\ seq \in Sequence /\ DOMAIN seq = 1 .. Len(roles) + 1 /\ Len(roles) \in Nat
      /\ DOMAIN roles = 1 .. Len(roles)
      /\ seq[1] = Compose({<<flow, roles[i]>> : i \in DOMAIN roles})
      /\ \A i \in DOMAIN roles : seq[i + 1] = StartOf(<<flow, roles[i]>>)
  BY ComposedSteps
<1> HIDE DEF seq
<1>2. seq[1].do = "compose"
  BY <1>1 DEF Compose
<1>3. ASSUME NEW k \in DOMAIN seq, Starts(seq, k, c)
      PROVE  \E i \in DOMAIN roles : k = i + 1 /\ c = <<flow, roles[i]>>
  <2>1. k # 1 /\ seq[k].of = {c}
    BY <1>2, <1>3 DEF Starts
  <2>2. k - 1 \in DOMAIN roles /\ k = (k - 1) + 1
    BY <1>1, <2>1
  <2>3. PICK i \in DOMAIN roles : k = i + 1
    BY <2>2
  <2>4. seq[k] = StartOf(<<flow, roles[i]>>)
    BY <1>1, <2>3
  <2>5. StartOf(<<flow, roles[i]>>).of = {<<flow, roles[i]>>}
    BY DEF StartOf
  <2> QED
    BY <2>1, <2>3, <2>4, <2>5
<1> QED
  BY <1>3 DEF seq, StartsIn

\* A flow composed whole: its inputs must come after their processors.
LEMMA ComposedOrdered ==
  ASSUME NEW cfg, NEW flow \in Enabled(cfg), NEW roles \in Seq(Roles),
         \A i \in DOMAIN roles : <<flow, roles[i]>> \in Stoppables \ Listeners,
         \A i, j \in DOMAIN roles : roles[i] = roles[j] => i = j,
         \A i \in DOMAIN roles : <<flow, roles[i]>> \in Inputs =>
           \A d \in Hears(<<flow, roles[i]>>) : \E j \in DOMAIN roles : j < i /\ d = <<flow, roles[j]>>
  PROVE  /\ Ordered(cfg, Composed(flow, roles), {flow})
         /\ \A i \in DOMAIN roles : StartsIn(Composed(flow, roles), <<flow, roles[i]>>)
<1> DEFINE seq == Composed(flow, roles)
<1>1. flow \in Flows
  BY DEF Enabled
<1>2. /\ seq \in Sequence /\ DOMAIN seq = 1 .. Len(roles) + 1 /\ Len(roles) \in Nat
      /\ DOMAIN roles = 1 .. Len(roles)
      /\ seq[1] = Compose({<<flow, roles[i]>> : i \in DOMAIN roles})
      /\ \A i \in DOMAIN roles : seq[i + 1] = StartOf(<<flow, roles[i]>>)
  BY <1>1, ComposedSteps
<1> HIDE DEF seq
<1>3. \A k \in DOMAIN seq : k = 1 \/ \E i \in DOMAIN roles : k = i + 1
  <2>1. ASSUME NEW k \in DOMAIN seq, k # 1 PROVE k - 1 \in DOMAIN roles /\ k = (k - 1) + 1
    BY <1>2, <2>1
  <2> QED
    BY <2>1
<1>4. seq[1].do = "compose" /\ seq[1].of = {<<flow, roles[i]>> : i \in DOMAIN roles} /\ 1 \in DOMAIN seq
  BY <1>2 DEF Compose
<1>5. \A i \in DOMAIN roles : /\ seq[i + 1].do = "start" /\ seq[i + 1].of = {<<flow, roles[i]>>}
                              /\ i + 1 \in DOMAIN seq
  <2> SUFFICES ASSUME NEW i \in DOMAIN roles
               PROVE  /\ seq[i + 1].do = "start" /\ seq[i + 1].of = {<<flow, roles[i]>>}
                      /\ i + 1 \in DOMAIN seq
    OBVIOUS
  <2>1. i + 1 \in DOMAIN seq
    BY <1>2
  <2>2. seq[i + 1] = [do |-> "start", of |-> {<<flow, roles[i]>>}]
    BY <1>2 DEF StartOf
  <2> QED
    BY <2>1, <2>2
<1>6. ASSUME NEW i \in DOMAIN roles
      PROVE  <<flow, roles[i]>> \in Planned(cfg) /\ <<flow, roles[i]>> \in Components
  BY StoppablesAreComponents DEF Planned
<1>7. \A k \in DOMAIN seq : \A c \in seq[k].of : c \in Planned(cfg) /\ c[1] \in {flow}
  BY <1>3, <1>4, <1>5, <1>6
<1>8. ASSUME NEW k \in DOMAIN seq, seq[k].do = "start"
      PROVE  \E c \in Components : seq[k].of = {c}
  <2>1. PICK i \in DOMAIN roles : k = i + 1
    BY <1>3, <1>4, <1>8
  <2> QED
    BY <1>5, <1>6, <2>1
<1>9. ASSUME NEW k \in DOMAIN seq, NEW c, Starts(seq, k, c)
      PROVE  \E i \in DOMAIN roles : k = i + 1 /\ c = <<flow, roles[i]>>
  BY <1>1, <1>9, ComposedStarts DEF seq
<1>10. \A i \in DOMAIN roles : Starts(seq, i + 1, <<flow, roles[i]>>) /\ i \in Nat /\ i + 1 \in DOMAIN seq
  BY <1>2, <1>5 DEF Starts
<1>11. ASSUME NEW k \in DOMAIN seq, NEW c \in Components, Starts(seq, k, c)
       PROVE  /\ \E j \in DOMAIN seq : j < k /\ Composes(seq, j, c)
              /\ c \in Inputs => \A d \in Hears(c) : \E j \in DOMAIN seq : j < k /\ Starts(seq, j, d)
  <2>1. PICK i \in DOMAIN roles : k = i + 1 /\ c = <<flow, roles[i]>>
    BY <1>9, <1>11
  <2>2. 1 < k /\ Composes(seq, 1, c)
    BY <1>2, <1>4, <2>1, SMTT(30) DEF Composes
  <2>3. ASSUME c \in Inputs, NEW d \in Hears(c) PROVE \E j \in DOMAIN seq : j < k /\ Starts(seq, j, d)
    <3>1. PICK j \in DOMAIN roles : j < i /\ d = <<flow, roles[j]>>
      BY <2>1, <2>3
    <3>2. j + 1 < k
      BY <1>10, <2>1, <3>1
    <3> QED
      BY <1>10, <3>1, <3>2
  <2> QED
    BY <1>4, <2>2, <2>3
<1>12. ASSUME NEW j \in DOMAIN seq, NEW k \in DOMAIN seq, NEW c \in Components,
              Starts(seq, j, c), Starts(seq, k, c)
       PROVE  j = k
  <2>1. PICK i \in DOMAIN roles : j = i + 1 /\ c = <<flow, roles[i]>>
    BY <1>9, <1>12
  <2>2. PICK l \in DOMAIN roles : k = l + 1 /\ c = <<flow, roles[l]>>
    BY <1>9, <1>12
  <2>3. roles[i] = roles[l]
    BY <2>1, <2>2
  <2> QED
    BY <2>1, <2>2, <2>3
<1>13. Ordered(cfg, seq, {flow})
  BY <1>2, <1>7, <1>8, <1>11, <1>12 DEF Ordered
<1>14. \A i \in DOMAIN roles : StartsIn(seq, <<flow, roles[i]>>)
  BY <1>10 DEF StartsIn
<1> QED
  BY <1>13, <1>14 DEF seq

\* A listener comes after the processors of its flow.
LEMMA ListeningOrdered ==
  ASSUME NEW cfg, NEW c \in Listeners, c[1] \in Enabled(cfg), NEW s \in Sequence,
         Ordered(cfg, s, {c[1]}), ~StartsIn(s, c), \A d \in Hears(c) : StartsIn(s, d)
  PROVE  /\ Ordered(cfg, s \o Listening(cfg, c), {c[1]})
         /\ Listening(cfg, c) \in Sequence
         /\ \A d : StartsIn(s \o Listening(cfg, c), d) => StartsIn(s, d) \/ d = c
         /\ \A d : StartsIn(s, d) => StartsIn(s \o Listening(cfg, c), d)
<1> DEFINE t == Listening(cfg, c)
<1>1. c \in Components /\ c \in Stoppables
  BY DEF Listeners, Components, Flows, Roles, Stoppables
<1>2. /\ t \in Sequence
      /\ c \in Listens(cfg) => /\ DOMAIN t = {1, 2}
                               /\ t[1] = [do |-> "compose", of |-> {c}]
                               /\ t[2] = [do |-> "start", of |-> {c}]
      /\ c \notin Listens(cfg) => DOMAIN t = {}
  <2>1. [do |-> "compose", of |-> {c}] \in [do : {"compose", "start"}, of : SUBSET Components]
    BY <1>1
  <2>2. [do |-> "start", of |-> {c}] \in [do : {"compose", "start"}, of : SUBSET Components]
    BY <1>1
  <2>3. CASE c \in Listens(cfg)
    <3>1. t = << [do |-> "compose", of |-> {c}], [do |-> "start", of |-> {c}] >>
      BY <2>3 DEF Listening, Compose, StartOf
    <3> QED
      BY <2>1, <2>2, <2>3, <3>1 DEF Sequence
  <2>4. CASE c \notin Listens(cfg)
    <3>1. t = << >>
      BY <2>4 DEF Listening
    <3> QED
      BY <2>4, <3>1 DEF Sequence
  <2> QED
    BY <2>3, <2>4
<1> HIDE DEF t
<1>3. \A k \in DOMAIN t : c \in Listens(cfg) /\ t[k].of = {c} /\ (k = 1 \/ k = 2)
  BY <1>2
<1>4. \A k \in DOMAIN t : t[k].do = "start" => k = 2
  BY <1>2
<1>5. c \in Listens(cfg) => c \in Planned(cfg)
  BY <1>1 DEF Planned
<1>6. \A k, d : Starts(t, k, d) => k = 2 /\ d = c
  BY <1>3, <1>4 DEF Starts
<1>7. ASSUME NEW k \in DOMAIN t, NEW d \in Components, Starts(t, k, d)
      PROVE  \E j \in DOMAIN t : j < k /\ Composes(t, j, d)
  <2>1. k = 2 /\ d = c /\ c \in Listens(cfg)
    BY <1>3, <1>6, <1>7
  <2>2. 1 \in DOMAIN t /\ Composes(t, 1, c) /\ 1 < 2
    BY <1>2, <2>1 DEF Composes
  <2> QED
    BY <2>1, <2>2
<1>8. OrderedAfter(cfg, s, t, {c[1]})
  <2>1. \A k \in DOMAIN t : \A d \in t[k].of : d \in Planned(cfg) /\ d[1] \in {c[1]}
    BY <1>3, <1>5
  <2>2. \A k \in DOMAIN t : t[k].do = "start" => \E d \in Components : t[k].of = {d}
    BY <1>1, <1>3
  <2>3. \A k \in DOMAIN t : \A d \in Components : Starts(t, k, d) =>
          /\ \E j \in DOMAIN t : j < k /\ Composes(t, j, d)
          /\ d \in Inputs => \A h \in Hears(d) :
               StartsIn(s, h) \/ \E j \in DOMAIN t : j < k /\ Starts(t, j, h)
    BY <1>6, <1>7
  <2>4. \A j, k \in DOMAIN t : \A d \in Components : Starts(t, j, d) /\ Starts(t, k, d) => j = k
    BY <1>6
  <2>5. \A d \in Components : ~(StartsIn(s, d) /\ StartsIn(t, d))
    BY <1>6 DEF StartsIn
  <2> QED
    BY <1>2, <2>1, <2>2, <2>3, <2>4, <2>5 DEF OrderedAfter
<1>9. Ordered(cfg, s \o t, {c[1]})
  <2>1. {c[1]} \cup {c[1]} = {c[1]}
    OBVIOUS
  <2>2. Ordered(cfg, s \o t, {c[1]} \cup {c[1]})
    BY <1>8, OrderedConcat
  <2> QED
    BY <2>1, <2>2
<1>10. \A d : StartsIn(t, d) => d = c
  BY <1>6 DEF StartsIn
<1>11. \A d : StartsIn(s \o t, d) <=> StartsIn(s, d) \/ StartsIn(t, d)
  BY <1>2, StartsOfParts
<1> QED
  BY <1>2, <1>9, <1>10, <1>11 DEF t

\* Lists of flows of their own.
LEMMA OrderedApart ==
  ASSUME NEW cfg, NEW F, NEW G, NEW s, NEW t, Ordered(cfg, s, F), Ordered(cfg, t, G),
         F \cap G = {}
  PROVE  Ordered(cfg, s \o t, F \cup G)
<1>1. ASSUME NEW c \in Components, StartsIn(s, c) PROVE c[1] \in F
  BY <1>1 DEF StartsIn, Starts, Ordered
<1>2. ASSUME NEW c \in Components, StartsIn(t, c) PROVE c[1] \in G
  BY <1>2 DEF StartsIn, Starts, Ordered
<1>3. OrderedAfter(cfg, s, t, G)
  BY <1>1, <1>2 DEF Ordered, OrderedAfter
<1> QED
  BY <1>3, OrderedConcat

LEMMA CAPOrdered == ASSUME NEW cfg, "cap" \in Enabled(cfg) PROVE Ordered(cfg, CAPFlow, {"cap"})
<1> DEFINE roles == <<"projector", "decoder", "poller">>
<1>1. /\ roles \in Seq(Roles) /\ DOMAIN roles = 1 .. 3
      /\ roles[1] = "projector" /\ roles[2] = "decoder" /\ roles[3] = "poller"
  BY DEF Roles
<1>2. CAPFlow = Composed("cap", roles)
  BY DEF CAPFlow
<1> HIDE DEF roles
<1>3. \A i, j \in DOMAIN roles : roles[i] = roles[j] => i = j
  BY <1>1
<1>4. \A i \in DOMAIN roles : <<"cap", roles[i]>> \in Stoppables \ Listeners
  BY <1>1 DEF Stoppables, Listeners, Of, Flows, Pollers
<1>5. \A i \in DOMAIN roles : <<"cap", roles[i]>> \in Inputs =>
        \A d \in Hears(<<"cap", roles[i]>>) : \E j \in DOMAIN roles : j < i /\ d = <<"cap", roles[j]>>
  BY <1>1 DEF Inputs, Hears
<1> QED
  BY <1>1, <1>2, <1>3, <1>4, <1>5, ComposedOrdered

LEMMA ADSBOrdered == ASSUME NEW cfg, "adsb" \in Enabled(cfg) PROVE Ordered(cfg, ADSBFlow, {"adsb"})
<1> DEFINE roles == <<"projector", "decoder", "poller">>
<1>1. /\ roles \in Seq(Roles) /\ DOMAIN roles = 1 .. 3
      /\ roles[1] = "projector" /\ roles[2] = "decoder" /\ roles[3] = "poller"
  BY DEF Roles
<1>2. ADSBFlow = Composed("adsb", roles)
  BY DEF ADSBFlow
<1> HIDE DEF roles
<1>3. \A i, j \in DOMAIN roles : roles[i] = roles[j] => i = j
  BY <1>1
<1>4. \A i \in DOMAIN roles : <<"adsb", roles[i]>> \in Stoppables \ Listeners
  BY <1>1 DEF Stoppables, Listeners, Of, Flows, Pollers
<1>5. \A i \in DOMAIN roles : <<"adsb", roles[i]>> \in Inputs =>
        \A d \in Hears(<<"adsb", roles[i]>>) : \E j \in DOMAIN roles : j < i /\ d = <<"adsb", roles[j]>>
  BY <1>1 DEF Inputs, Hears
<1> QED
  BY <1>1, <1>2, <1>3, <1>4, <1>5, ComposedOrdered

LEMMA SAPIENTOrdered == ASSUME NEW cfg, "sapient" \in Enabled(cfg) PROVE Ordered(cfg, SAPIENTFlow, {"sapient"})
<1> DEFINE roles == <<"decoder", "poller">>
<1>1. /\ roles \in Seq(Roles) /\ DOMAIN roles = 1 .. 2
      /\ roles[1] = "decoder" /\ roles[2] = "poller"
  BY DEF Roles
<1>2. SAPIENTFlow = Composed("sapient", roles)
  BY DEF SAPIENTFlow
<1> HIDE DEF roles
<1>3. \A i, j \in DOMAIN roles : roles[i] = roles[j] => i = j
  BY <1>1
<1>4. \A i \in DOMAIN roles : <<"sapient", roles[i]>> \in Stoppables \ Listeners
  BY <1>1 DEF Stoppables, Listeners, Of, Flows, Pollers
<1>5. \A i \in DOMAIN roles : <<"sapient", roles[i]>> \in Inputs =>
        \A d \in Hears(<<"sapient", roles[i]>>) : \E j \in DOMAIN roles : j < i /\ d = <<"sapient", roles[j]>>
  BY <1>1 DEF Inputs, Hears
<1> QED
  BY <1>1, <1>2, <1>3, <1>4, <1>5, ComposedOrdered

\* The flows with listeners have the same two processors.
LEMMA ProcessorsOrdered ==
  ASSUME NEW cfg, NEW flow \in {"mavlink", "cot"}, flow \in Enabled(cfg)
  PROVE  LET s == Composed(flow, <<"projector", "decoder">>)
         IN  /\ s \in Sequence /\ Ordered(cfg, s, {flow})
             /\ StartsIn(s, <<flow, "decoder">>) /\ StartsIn(s, <<flow, "projector">>)
             /\ \A c : StartsIn(s, c) => c \notin Listeners
<1> DEFINE roles == <<"projector", "decoder">>
<1>1. /\ roles \in Seq(Roles) /\ DOMAIN roles = 1 .. 2
      /\ roles[1] = "projector" /\ roles[2] = "decoder"
  BY DEF Roles
<1> HIDE DEF roles
<1>2. \A i, j \in DOMAIN roles : roles[i] = roles[j] => i = j
  BY <1>1
<1>3. \A i \in DOMAIN roles : <<flow, roles[i]>> \in Stoppables \ Listeners
  BY <1>1 DEF Stoppables, Listeners, Of, Flows
<1>4. \A i \in DOMAIN roles : <<flow, roles[i]>> \in Inputs =>
        \A d \in Hears(<<flow, roles[i]>>) : \E j \in DOMAIN roles : j < i /\ d = <<flow, roles[j]>>
  BY <1>1 DEF Inputs
<1>5. /\ Ordered(cfg, Composed(flow, roles), {flow})
      /\ \A i \in DOMAIN roles : StartsIn(Composed(flow, roles), <<flow, roles[i]>>)
      /\ \A c : StartsIn(Composed(flow, roles), c) => \E i \in DOMAIN roles : c = <<flow, roles[i]>>
  <2>1. PICK f \in Enabled(cfg) : f = flow
    OBVIOUS
  <2>2. /\ \A i \in DOMAIN roles : <<f, roles[i]>> \in Stoppables \ Listeners
        /\ \A i \in DOMAIN roles : <<f, roles[i]>> \in Inputs =>
             \A d \in Hears(<<f, roles[i]>>) : \E j \in DOMAIN roles : j < i /\ d = <<f, roles[j]>>
    BY <1>3, <1>4, <2>1
  <2>3. /\ Ordered(cfg, Composed(f, roles), {f})
        /\ \A i \in DOMAIN roles : StartsIn(Composed(f, roles), <<f, roles[i]>>)
        /\ \A c : StartsIn(Composed(f, roles), c) => \E i \in DOMAIN roles : c = <<f, roles[i]>>
    <3>1. Ordered(cfg, Composed(f, roles), {f})
      BY <1>1, <1>2, <2>2, ComposedOrdered
    <3>2. \A i \in DOMAIN roles : StartsIn(Composed(f, roles), <<f, roles[i]>>)
      BY <1>1, <1>2, <2>2, ComposedOrdered
    <3>3. ASSUME NEW c, StartsIn(Composed(f, roles), c)
          PROVE  \E i \in DOMAIN roles : c = <<f, roles[i]>>
      BY <1>1, <3>3, ComposedStarts DEF Enabled
    <3> QED
      BY <3>1, <3>2, <3>3
  <2> QED
    BY <2>1, <2>3
<1>6. Composed(flow, roles) \in Sequence
  BY <1>5 DEF Ordered
<1> QED
  BY <1>1, <1>3, <1>5, <1>6 DEF roles

LEMMA MAVLinkOrdered ==
  ASSUME NEW cfg, "mavlink" \in Enabled(cfg) PROVE Ordered(cfg, MAVLinkFlow(cfg), {"mavlink"})
<1> DEFINE s == Composed("mavlink", <<"projector", "decoder">>)
           c == <<"mavlink", "udp">>
<1>1. /\ s \in Sequence /\ Ordered(cfg, s, {"mavlink"})
      /\ StartsIn(s, <<"mavlink", "decoder">>) /\ StartsIn(s, <<"mavlink", "projector">>)
      /\ \A d : StartsIn(s, d) => d \notin Listeners
  BY ProcessorsOrdered
<1>2. MAVLinkFlow(cfg) = s \o Listening(cfg, c)
  BY DEF MAVLinkFlow
<1>3. c \in Listeners /\ c[1] = "mavlink" /\ Hears(c) = {<<"mavlink", "decoder">>, <<"mavlink", "projector">>}
  BY DEF Listeners, Hears
<1> HIDE DEF s, c
<1>4. ~StartsIn(s, c) /\ \A d \in Hears(c) : StartsIn(s, d)
  BY <1>1, <1>3
<1>5. c[1] \in Enabled(cfg) /\ Ordered(cfg, s, {c[1]})
  BY <1>1, <1>3
<1>6. Ordered(cfg, s \o Listening(cfg, c), {c[1]})
  BY <1>1, <1>3, <1>4, <1>5, ListeningOrdered
<1> QED
  BY <1>2, <1>3, <1>6

LEMMA CoTOrdered ==
  ASSUME NEW cfg, "cot" \in Enabled(cfg) PROVE Ordered(cfg, CoTFlow(cfg), {"cot"})
<1> DEFINE s == Composed("cot", <<"projector", "decoder">>)
           udp == <<"cot", "udp">>
           tcp == <<"cot", "tcp">>
           t == s \o Listening(cfg, udp)
<1>1. /\ s \in Sequence /\ Ordered(cfg, s, {"cot"})
      /\ StartsIn(s, <<"cot", "decoder">>) /\ StartsIn(s, <<"cot", "projector">>)
      /\ \A d : StartsIn(s, d) => d \notin Listeners
  BY ProcessorsOrdered
<1>2. CoTFlow(cfg) = t \o Listening(cfg, tcp)
  BY DEF CoTFlow
<1>3. /\ udp \in Listeners /\ udp[1] = "cot" /\ tcp \in Listeners /\ tcp[1] = "cot" /\ udp # tcp
      /\ Hears(udp) = {<<"cot", "decoder">>, <<"cot", "projector">>}
      /\ Hears(tcp) = {<<"cot", "decoder">>, <<"cot", "projector">>}
  BY DEF Listeners, Hears
<1> HIDE DEF s, udp, tcp
<1>4. ~StartsIn(s, udp) /\ \A d \in Hears(udp) : StartsIn(s, d)
  BY <1>1, <1>3
<1>5. /\ Ordered(cfg, t, {"cot"}) /\ \A d : StartsIn(t, d) => StartsIn(s, d) \/ d = udp
      /\ \A d : StartsIn(s, d) => StartsIn(t, d)
  BY <1>1, <1>3, <1>4, ListeningOrdered
<1> HIDE DEF t
<1>6. t \in Sequence
  BY <1>5 DEF Ordered
<1>7. ~StartsIn(t, tcp) /\ \A d \in Hears(tcp) : StartsIn(t, d)
  BY <1>1, <1>3, <1>5
<1>8. tcp[1] \in Enabled(cfg) /\ Ordered(cfg, t, {tcp[1]})
  BY <1>3, <1>5
<1>9. Ordered(cfg, t \o Listening(cfg, tcp), {tcp[1]})
  BY <1>3, <1>6, <1>7, <1>8, ListeningOrdered
<1> QED
  BY <1>2, <1>3, <1>9

LEMMA EmptyOrdered == ASSUME NEW cfg, NEW F PROVE Ordered(cfg, << >>, F)
  BY DEF Ordered, Sequence

\* The whole startup, whatever flows are enabled.
LEMMA StartupOrdered == ASSUME NEW cfg PROVE Ordered(cfg, Startup(cfg), Flows)
<1> DEFINE a == If(cfg, "mavlink", MAVLinkFlow(cfg))
           b == If(cfg, "cot", CoTFlow(cfg))
           c == If(cfg, "cap", CAPFlow)
           d == If(cfg, "adsb", ADSBFlow)
           e == If(cfg, "sapient", SAPIENTFlow)
<1>1. Ordered(cfg, a, {"mavlink"})
  BY MAVLinkOrdered, EmptyOrdered DEF If
<1>2. Ordered(cfg, b, {"cot"})
  BY CoTOrdered, EmptyOrdered DEF If
<1>3. Ordered(cfg, c, {"cap"})
  BY CAPOrdered, EmptyOrdered DEF If
<1>4. Ordered(cfg, d, {"adsb"})
  BY ADSBOrdered, EmptyOrdered DEF If
<1>5. Ordered(cfg, e, {"sapient"})
  BY SAPIENTOrdered, EmptyOrdered DEF If
<1>6. Startup(cfg) = a \o b \o c \o d \o e
  BY DEF Startup
<1> HIDE DEF a, b, c, d, e
<1>7. Ordered(cfg, a \o b, {"mavlink"} \cup {"cot"})
  BY <1>1, <1>2, OrderedApart
<1>8. Ordered(cfg, a \o b \o c, {"mavlink"} \cup {"cot"} \cup {"cap"})
  BY <1>3, <1>7, OrderedApart
<1>9. Ordered(cfg, a \o b \o c \o d, {"mavlink"} \cup {"cot"} \cup {"cap"} \cup {"adsb"})
  BY <1>4, <1>8, OrderedApart
<1>10. Ordered(cfg, a \o b \o c \o d \o e,
               {"mavlink"} \cup {"cot"} \cup {"cap"} \cup {"adsb"} \cup {"sapient"})
  BY <1>5, <1>9, OrderedApart
<1>11. {"mavlink"} \cup {"cot"} \cup {"cap"} \cup {"adsb"} \cup {"sapient"} = Flows
  BY DEF Flows
<1> QED
  BY <1>6, <1>10, <1>11

-----------------------------------------------------------------------------
(* The invariant holds at first, and every step keeps it.                  *)

\* TypeOK in parts.
ConfigOK == DOMAIN config = Settings /\ \A s \in Settings : config[s] \in Values(s)

ControlOK ==
  /\ pc \in Returned \cup {"load", "connect", "buckets", "owners", "flows", "serving", "fatal",
                           "cleanup", "closing"}
  /\ at \in Nat \ {0}
  /\ heartbeat \in BOOLEAN /\ cancelled \in BOOLEAN /\ signal \in BOOLEAN
  /\ client \in {"none", "connected", "closed", "lost"}

HoldingsOK ==
  /\ tokens \subseteq {"asset", "mavlink", "tak", "cap", "fusion", "adsb"}
  /\ recorded \subseteq Components
  /\ state \in [Components -> {"created", "started", "stopped", "failed"}]
  /\ alive \subseteq recorded \cup {Conn}
  /\ failedStops \subseteq recorded

WaitingOK == waiting \in BOOLEAN /\ (waiting => Closing /\ StopOrder[at] \in Inputs)

LEMMA TypeParts == TypeOK <=> ConfigOK /\ ControlOK /\ HoldingsOK /\ WaitingOK
  BY DEF TypeOK, ConfigOK, ControlOK, HoldingsOK, WaitingOK

LEMMA StopFacts ==
  /\ Len(StopOrder) = 15 /\ DOMAIN StopOrder = 1 .. 15
  /\ \A k \in DOMAIN StopOrder : StopOrder[k] \in Components
  /\ \A c \in Stoppables : \E k \in DOMAIN StopOrder : StopOrder[k] = c
<1>1. Len(StopOrder) = 15 /\ DOMAIN StopOrder = 1 .. 15
  BY DEF StopOrder
<1>2. \A k \in DOMAIN StopOrder : StopOrder[k] \in Components
  BY <1>1 DEF StopOrder, Components, Flows, Roles
<1>3. ASSUME NEW c \in Stoppables PROVE \E k \in DOMAIN StopOrder : StopOrder[k] = c
  <2>1. c \in {StopOrder[k] : k \in 1 .. 15}
    BY DEF Stoppables, Of, Listeners, Pollers, Flows, StopOrder
  <2> QED
    BY <1>1, <2>1
<1> QED
  BY <1>1, <1>2, <1>3

\* What a step of the startup is, in terms of the component it is about.
LEMMA StartupFacts ==
  ASSUME NEW cfg
  PROVE  /\ Len(Startup(cfg)) \in Nat /\ DOMAIN Startup(cfg) = 1 .. Len(Startup(cfg))
         /\ \A k \in DOMAIN Startup(cfg) : Startup(cfg)[k].of \subseteq Planned(cfg)
         /\ \A k \in DOMAIN Startup(cfg) : Startup(cfg)[k].do = "start" =>
              \E c \in Planned(cfg) : c \in Components /\ Startup(cfg)[k].of = {c}
         /\ \A k \in DOMAIN Startup(cfg) : \A c \in Components : Starts(Startup(cfg), k, c) =>
              /\ \E j \in DOMAIN Startup(cfg) : j < k /\ Composes(Startup(cfg), j, c)
              /\ c \in Inputs => \A d \in Hears(c) :
                   \E j \in DOMAIN Startup(cfg) : j < k /\ Starts(Startup(cfg), j, d)
         /\ \A j, k \in DOMAIN Startup(cfg) : \A c \in Components :
              Starts(Startup(cfg), j, c) /\ Starts(Startup(cfg), k, c) => j = k
<1> DEFINE seq == Startup(cfg)
<1>1. Ordered(cfg, seq, Flows)
  BY StartupOrdered
<1> HIDE DEF seq
<1>2. Len(seq) \in Nat /\ DOMAIN seq = 1 .. Len(seq)
  BY <1>1 DEF Ordered, Sequence
<1>3. \A k \in DOMAIN seq : seq[k].of \subseteq Planned(cfg)
  BY <1>1 DEF Ordered
<1>4. \A k \in DOMAIN seq : seq[k].do = "start" =>
        \E c \in Planned(cfg) : c \in Components /\ seq[k].of = {c}
  BY <1>1, <1>3 DEF Ordered
<1> QED
  BY <1>1, <1>2, <1>3, <1>4 DEF Ordered, seq

LEMMA AdsbOwners ==
  ASSUME NEW cfg, "adsb" \in Enabled(cfg)
  PROVE  RuntimeOwners(cfg) = <<"asset", "mavlink", "tak", "cap", "fusion", "adsb">>
<1> DEFINE u == FirstPhaseOwners \o <<"adsb">>
           S == {"asset", "mavlink", "tak", "cap", "fusion", "adsb"}
<1>1. /\ FirstPhaseOwners \in Seq(S) /\ Len(FirstPhaseOwners) = 5
      /\ <<"adsb">> \in Seq(S) /\ Len(<<"adsb">>) = 1
  <2>1. FirstPhaseOwners \in Seq(S) /\ Len(FirstPhaseOwners) = 5
    BY DEF FirstPhaseOwners
  <2>2. <<"adsb">> \in Seq(S) /\ Len(<<"adsb">>) = 1
    OBVIOUS
  <2> QED
    BY <2>1, <2>2
<1>2. /\ FirstPhaseOwners[1] = "asset" /\ FirstPhaseOwners[2] = "mavlink"
      /\ FirstPhaseOwners[3] = "tak" /\ FirstPhaseOwners[4] = "cap" /\ FirstPhaseOwners[5] = "fusion"
  BY DEF FirstPhaseOwners
<1>3. PICK f \in Seq(S) : f = FirstPhaseOwners
  BY <1>1
<1>4. PICK g \in Seq(S) : g = <<"adsb">>
  BY <1>1
<1>5. /\ f \o g \in Seq(S) /\ Len(f \o g) = Len(f) + Len(g)
      /\ \A i \in 1 .. Len(f) + Len(g) : (f \o g)[i] = IF i <= Len(f) THEN f[i] ELSE g[i - Len(f)]
  BY ConcatProperties
<1>6. Len(f) = 5 /\ Len(g) = 1 /\ u = f \o g
  BY <1>1, <1>3, <1>4
<1> HIDE DEF u
<1>7. u \in Seq(S) /\ Len(u) = 6
  BY <1>5, <1>6
<1>8. ASSUME NEW i \in 1 .. 6 PROVE u[i] = IF i <= 5 THEN f[i] ELSE g[i - 5]
  <2>1. i \in 1 .. Len(f) + Len(g)
    BY <1>6
  <2>2. (f \o g)[i] = IF i <= Len(f) THEN f[i] ELSE g[i - Len(f)]
    BY <1>5, <2>1
  <2> QED
    BY <1>6, <2>2
<1>9. u[1] = "asset" /\ u[2] = "mavlink" /\ u[3] = "tak" /\ u[4] = "cap" /\ u[5] = "fusion" /\ u[6] = "adsb"
  BY <1>2, <1>3, <1>4, <1>8
<1>10. u = <<"asset", "mavlink", "tak", "cap", "fusion", "adsb">>
  BY <1>7, <1>9
<1> QED
  BY <1>10 DEF u, RuntimeOwners

LEMMA OwnersFacts ==
  ASSUME NEW cfg
  PROVE  LET owners == RuntimeOwners(cfg)
         IN  /\ Len(owners) \in Nat \ {0} /\ DOMAIN owners = 1 .. Len(owners)
             /\ \A k \in DOMAIN owners : owners[k] \in {"asset", "mavlink", "tak", "cap", "fusion", "adsb"}
             /\ \A flow \in Enabled(cfg) : \A o \in WritesAs(flow) : \E k \in DOMAIN owners : owners[k] = o
<1>1. ASSUME NEW flow \in Enabled(cfg), NEW o \in WritesAs(flow)
      PROVE  /\ o \in {"asset", "mavlink", "tak", "cap", "adsb"}
             /\ o = "adsb" => "adsb" \in Enabled(cfg)
  BY DEF WritesAs
<1>2. CASE "adsb" \in Enabled(cfg)
  BY <1>1, <1>2, AdsbOwners
<1>3. CASE "adsb" \notin Enabled(cfg)
  <2>1. FirstPhaseOwners \o << >> = FirstPhaseOwners
    BY DEF FirstPhaseOwners
  <2>2. RuntimeOwners(cfg) = <<"asset", "mavlink", "tak", "cap", "fusion">>
    BY <1>3, <2>1 DEF RuntimeOwners, FirstPhaseOwners
  <2> QED
    BY <1>1, <1>3, <2>2
<1> QED
  BY <1>2, <1>3

\* A start that is at hand is of a component that is recorded by then, and new.
LEMMA AtStart ==
  ASSUME IInv, AtStep("start")
  PROVE  \E c \in Planned(config) \cap Components :
           /\ Startup(config)[at].of = {c} /\ Starts(Startup(config), at, c) /\ at \in DOMAIN Startup(config)
           /\ c \in recorded /\ state[c] = "created"
<1>1. /\ at \in DOMAIN Startup(config) /\ Startup(config)[at].do = "start" /\ pc = "flows" /\ at \in Nat
  BY StartupFacts DEF AtStep, IInv, TypeOK
<1>2. PICK c \in Planned(config) : c \in Components /\ Startup(config)[at].of = {c}
  BY <1>1, StartupFacts
<1>3. Starts(Startup(config), at, c)
  BY <1>1, <1>2 DEF Starts
<1>4. PICK j \in DOMAIN Startup(config) : j < at /\ Composes(Startup(config), j, c)
  BY <1>1, <1>2, <1>3, StartupFacts
<1>5. c \in recorded
  BY <1>1, <1>2, <1>4 DEF IInv, Flowing
<1>6. at >= at
  BY <1>1
<1>7. state[c] = "created"
  BY <1>1, <1>2, <1>3, <1>6 DEF IInv, Flowing
<1> QED
  BY <1>1, <1>2, <1>3, <1>5, <1>7

LEMMA PlannedIsStoppable ==
  ASSUME NEW cfg, NEW c \in Planned(cfg)
  PROVE  c \in Stoppables /\ c \in Components /\ c # Conn /\ c[1] \in Enabled(cfg)
  BY StoppablesAreComponents DEF Planned, Components, Conn, Roles

\* Once Close is past the projectors, nothing is left started.
LEMMA AllStopped ==
  ASSUME IInv, pc \in {"cleanup", "closing"}, at \in {16, 17}
  PROVE  /\ \A c \in Components : state[c] # "started"
         /\ \A c \in alive : c # Conn => c \in failedStops
<1>1. ASSUME NEW c \in Components PROVE state[c] # "started"
  <2>1. SUFFICES ASSUME state[c] = "started" PROVE FALSE
    OBVIOUS
  <2>2. PICK k \in DOMAIN StopOrder : StopOrder[k] = c
    BY <2>1, StopFacts DEF IInv, RunningIsKnown
  <2>3. k < at
    BY StopFacts
  <2> QED
    BY <2>1, <2>2, <2>3 DEF IInv, StoppedBehind
<1>2. ~waiting
  BY StopFacts DEF IInv, TypeOK, Closing
<1>3. ASSUME NEW c \in alive, c # Conn PROVE c \in failedStops
  BY <1>1, <1>2, <1>3 DEF IInv, TypeOK, RunningIsKnown
<1> QED
  BY <1>1, <1>3

LEMMA InitInv == Init => IInv
<1> SUFFICES ASSUME Init PROVE IInv
  OBVIOUS
<1>1. TypeOK
  <2>1. ConfigOK /\ ControlOK
    <3>1. heartbeat \in BOOLEAN /\ cancelled \in BOOLEAN /\ signal \in BOOLEAN
      BY DEF Init
    <3>2. ControlOK
      BY <3>1 DEF Init, ControlOK
    <3>3. ConfigOK
      BY EnvironmentAssumption DEF Init, ConfigOK
    <3> QED
      BY <3>2, <3>3
  <2>2. HoldingsOK
    BY DEF Init, HoldingsOK
  <2>3. WaitingOK
    BY DEF Init, WaitingOK
  <2> QED
    BY <2>1, <2>2, <2>3, TypeParts
<1>2. Configured /\ NothingYet /\ Owned /\ Flowing
  BY DEF Init, Configured, NothingYet, Owned, Flowing, Early
<1>3. RunningIsKnown /\ StoppedBehind
  BY DEF Init, RunningIsKnown, StoppedBehind
<1>4. InputsAreHeard /\ WritersAreOwned /\ ClosedIsQuiet
  BY DEF Init, InputsAreHeard, WritersAreOwned, ClosedIsQuiet, Returned
<1> QED
  BY <1>1, <1>2, <1>3, <1>4 DEF IInv

\* The configuration keeps its type.
LEMMA ConfigStep == ASSUME IInv, [Next]_vars PROVE ConfigOK'
<1>1. CASE Load
  BY <1>1, TypeParts, ConfigTyped DEF IInv, ConfigOK, Load
<1>2. CASE Connect
  BY <1>2, TypeParts DEF IInv, ConfigOK, Connect
<1>3. CASE EnsureBuckets
  BY <1>3, TypeParts DEF IInv, ConfigOK, Closes, EnsureBuckets
<1>4. CASE BindOwner
  BY <1>4, TypeParts DEF IInv, ConfigOK, BindOwner
<1>5. CASE BindFails
  BY <1>5, TypeParts DEF IInv, ConfigOK, Closes, BindFails
<1>6. CASE ComposeStep
  BY <1>6, TypeParts DEF IInv, ConfigOK, AtStep, ComposeStep
<1>7. CASE ComposeFails
  BY <1>7, TypeParts DEF IInv, ConfigOK, AtStep, Closes, ComposeFails
<1>8. CASE StartStep
  BY <1>8, TypeParts DEF IInv, ConfigOK, AtStep, StartStep
<1>9. CASE StartFails
  BY <1>9, TypeParts DEF IInv, ConfigOK, AtStep, Closes, StartFails
<1>10. CASE Serve
  BY <1>10, TypeParts DEF IInv, ConfigOK, Serve
<1>11. CASE ServeFails
  BY <1>11, TypeParts DEF IInv, ConfigOK, ServeFails
<1>12. CASE Terminate
  BY <1>12, TypeParts DEF IInv, ConfigOK, Closes, Terminate
<1>13. CASE StopOwnership
  BY <1>13, TypeParts DEF IInv, ConfigOK, StopOwnership
<1>14. CASE CloseClient
  BY <1>14, TypeParts DEF IInv, ConfigOK, CloseClient
<1>15. CASE Signal
  BY <1>15, TypeParts DEF IInv, ConfigOK, Signal
<1>16. CASE Accept
  BY <1>16, TypeParts DEF IInv, ConfigOK, Accept
<1>17. ASSUME NEW c \in Components, SkipStop(c) PROVE ConfigOK'
  BY <1>17, TypeParts DEF IInv, ConfigOK, Stopping, Closing, SkipStop
<1>18. ASSUME NEW c \in Components, Unsubscribe(c) PROVE ConfigOK'
  BY <1>18, TypeParts DEF IInv, ConfigOK, Stopping, Closing, Unsubscribe
<1>19. ASSUME NEW c \in Components, StopInput(c) PROVE ConfigOK'
  BY <1>19, TypeParts DEF IInv, ConfigOK, Stopping, Closing, StopInput
<1>20. ASSUME NEW c \in Components, InputStopped(c) PROVE ConfigOK'
  BY <1>20, TypeParts DEF IInv, ConfigOK, Stopping, Closing, InputStopped
<1>21. ASSUME NEW c \in Components, StopTimesOut(c) PROVE ConfigOK'
  BY <1>21, TypeParts DEF IInv, ConfigOK, Stopping, Closing, StopTimesOut
<1>22. ASSUME NEW c \in Publishers, LoopEnds(c) PROVE ConfigOK'
  BY <1>22, TypeParts DEF IInv, ConfigOK, LoopEnds
<1>23. CASE UNCHANGED vars
  BY <1>23, TypeParts DEF IInv, ConfigOK, vars
<1> QED
  BY <1>1, <1>2, <1>3, <1>4, <1>5, <1>6, <1>7, <1>8, <1>9, <1>10, <1>11, <1>12,
    <1>13, <1>14, <1>15, <1>16, <1>17, <1>18, <1>19, <1>20, <1>21, <1>22, <1>23
    DEF Next, Main, Starting, StopStep

\* So does where main is.
LEMMA ControlStep == ASSUME IInv, [Next]_vars PROVE ControlOK'
<1>1. CASE Load
  BY <1>1, TypeParts, StopFacts DEF IInv, ControlOK, Load
<1>2. CASE Connect
  BY <1>2, TypeParts, StopFacts DEF IInv, ControlOK, Returned, Connect
<1>3. CASE EnsureBuckets
  <2>1. heartbeat' \in BOOLEAN /\ cancelled' \in BOOLEAN
    BY <1>3, TypeParts DEF IInv, ControlOK, Closes, EnsureBuckets
  <2> QED
    BY <1>3, <2>1, TypeParts DEF IInv, ControlOK, Returned, Closes, EnsureBuckets
<1>4. CASE BindOwner
  BY <1>4, TypeParts, StopFacts, SMTT(30) DEF IInv, ControlOK, BindOwner
<1>5. CASE BindFails
  <2>1. heartbeat' \in BOOLEAN /\ cancelled' \in BOOLEAN
    BY <1>5, TypeParts DEF IInv, ControlOK, Closes, BindFails
  <2> QED
    BY <1>5, <2>1, TypeParts DEF IInv, ControlOK, Returned, Closes, BindFails
<1>6. CASE ComposeStep
  BY <1>6, TypeParts, StopFacts, SMTT(30) DEF IInv, ControlOK, AtStep, ComposeStep
<1>7. CASE ComposeFails
  BY <1>7, TypeParts, StopFacts DEF IInv, ControlOK, AtStep, Closes, ComposeFails
<1>8. CASE StartStep
  BY <1>8, TypeParts, StopFacts, SMTT(30) DEF IInv, ControlOK, AtStep, StartStep
<1>9. CASE StartFails
  BY <1>9, TypeParts, StopFacts DEF IInv, ControlOK, AtStep, Closes, StartFails
<1>10. CASE Serve
  BY <1>10, TypeParts, StopFacts DEF IInv, ControlOK, Serve
<1>11. CASE ServeFails
  BY <1>11, TypeParts, StopFacts DEF IInv, ControlOK, ServeFails
<1>12. CASE Terminate
  BY <1>12, TypeParts, StopFacts DEF IInv, ControlOK, Closes, Terminate
<1>13. CASE StopOwnership
  <2>1. heartbeat' \in BOOLEAN /\ cancelled' \in BOOLEAN
    BY <1>13, TypeParts DEF IInv, ControlOK, Closes, StopOwnership
  <2> QED
    BY <1>13, <2>1, TypeParts, StopFacts DEF IInv, ControlOK, Returned, Closes, StopOwnership
<1>14. CASE CloseClient
  BY <1>14, TypeParts, StopFacts DEF IInv, ControlOK, Returned, CloseClient
<1>15. CASE Signal
  BY <1>15, TypeParts, StopFacts DEF IInv, ControlOK, Signal
<1>16. CASE Accept
  BY <1>16, TypeParts, StopFacts DEF IInv, ControlOK, Accept
<1>17. ASSUME NEW c \in Components, SkipStop(c) PROVE ControlOK'
  BY <1>17, TypeParts, StopFacts DEF IInv, ControlOK, Stopping, Closing, SkipStop
<1>18. ASSUME NEW c \in Components, Unsubscribe(c) PROVE ControlOK'
  BY <1>18, TypeParts, StopFacts DEF IInv, ControlOK, Stopping, Closing, Unsubscribe
<1>19. ASSUME NEW c \in Components, StopInput(c) PROVE ControlOK'
  BY <1>19, TypeParts, StopFacts DEF IInv, ControlOK, Stopping, Closing, StopInput
<1>20. ASSUME NEW c \in Components, InputStopped(c) PROVE ControlOK'
  BY <1>20, TypeParts, StopFacts DEF IInv, ControlOK, Stopping, Closing, InputStopped
<1>21. ASSUME NEW c \in Components, StopTimesOut(c) PROVE ControlOK'
  BY <1>21, TypeParts, StopFacts DEF IInv, ControlOK, Stopping, Closing, StopTimesOut
<1>22. ASSUME NEW c \in Publishers, LoopEnds(c) PROVE ControlOK'
  BY <1>22, TypeParts, StopFacts DEF IInv, ControlOK, LoopEnds
<1>23. CASE UNCHANGED vars
  BY <1>23, TypeParts, StopFacts DEF IInv, ControlOK, vars
<1> QED
  BY <1>1, <1>2, <1>3, <1>4, <1>5, <1>6, <1>7, <1>8, <1>9, <1>10, <1>11, <1>12,
    <1>13, <1>14, <1>15, <1>16, <1>17, <1>18, <1>19, <1>20, <1>21, <1>22, <1>23
    DEF Next, Main, Starting, StopStep

\* What the App holds.
LEMMA HoldingsStep == ASSUME IInv, [Next]_vars PROVE HoldingsOK'
<1>1. CASE Load
  BY <1>1, TypeParts DEF IInv, HoldingsOK, Load
<1>2. CASE Connect
  BY <1>2, TypeParts DEF IInv, HoldingsOK, Connect
<1>3. CASE EnsureBuckets
  BY <1>3, TypeParts DEF IInv, HoldingsOK, Closes, EnsureBuckets
<1>4. CASE BindOwner
  <2>1. RuntimeOwners(config)[at] \in {"asset", "mavlink", "tak", "cap", "fusion", "adsb"}
    BY <1>4, OwnersFacts DEF IInv, Owned, BindOwner
  <2> QED
    BY <1>4, <2>1, TypeParts DEF IInv, HoldingsOK, BindOwner
<1>5. CASE BindFails
  BY <1>5, TypeParts DEF IInv, HoldingsOK, Closes, BindFails
<1>6. CASE ComposeStep
  <2>1. Startup(config)[at].of \subseteq Components
    <3>1. at \in DOMAIN Startup(config)
      BY <1>6, StartupFacts DEF ComposeStep, AtStep, IInv, TypeOK
    <3>2. Startup(config)[at].of \subseteq Planned(config)
      BY <3>1, StartupFacts
    <3> QED
      BY <3>2, StoppablesAreComponents DEF Planned
  <2> QED
    BY <1>6, <2>1, TypeParts DEF IInv, HoldingsOK, ComposeStep
<1>7. CASE ComposeFails
  BY <1>7, TypeParts DEF IInv, HoldingsOK, AtStep, Closes, ComposeFails
<1>8. CASE StartStep
  <2>1. PICK c \in Components : Startup(config)[at].of = {c} /\ c \in recorded
    BY <1>8, AtStart DEF StartStep
  <2>2. /\ state' = [state EXCEPT ![c] = "started"] /\ alive' = alive \cup {c}
    BY <1>8, <2>1 DEF StartStep
  <2> QED
    BY <1>8, <2>1, <2>2, TypeParts DEF IInv, HoldingsOK, StartStep
<1>9. CASE StartFails
  BY <1>9, TypeParts DEF IInv, HoldingsOK, AtStep, Closes, StartFails
<1>10. CASE Serve
  BY <1>10, TypeParts DEF IInv, HoldingsOK, Serve
<1>11. CASE ServeFails
  BY <1>11, TypeParts DEF IInv, HoldingsOK, ServeFails
<1>12. CASE Terminate
  BY <1>12, TypeParts DEF IInv, HoldingsOK, Closes, Terminate
<1>13. CASE StopOwnership
  BY <1>13, TypeParts DEF IInv, HoldingsOK, StopOwnership
<1>14. CASE CloseClient
  BY <1>14, TypeParts DEF IInv, HoldingsOK, CloseClient
<1>15. CASE Signal
  BY <1>15, TypeParts DEF IInv, HoldingsOK, Signal
<1>16. CASE Accept
  BY <1>16, TypeParts DEF IInv, HoldingsOK, Accept
<1>17. ASSUME NEW c \in Components, SkipStop(c) PROVE HoldingsOK'
  BY <1>17, TypeParts DEF IInv, HoldingsOK, Stopping, Closing, SkipStop
<1>18. ASSUME NEW c \in Components, Unsubscribe(c) PROVE HoldingsOK'
  <2>1. c \in recorded /\ state' = [state EXCEPT ![c] = "stopped"]
    BY <1>18 DEF Unsubscribe, Stoppable
  <2> QED
    BY <1>18, <2>1, TypeParts DEF IInv, HoldingsOK, Unsubscribe
<1>19. ASSUME NEW c \in Components, StopInput(c) PROVE HoldingsOK'
  BY <1>19, TypeParts DEF IInv, HoldingsOK, Stopping, Closing, StopInput
<1>20. ASSUME NEW c \in Components, InputStopped(c) PROVE HoldingsOK'
  BY <1>20, TypeParts DEF IInv, HoldingsOK, Stopping, Closing, InputStopped
<1>21. ASSUME NEW c \in Components, StopTimesOut(c) PROVE HoldingsOK'
  <2>1. c \in recorded
    BY <1>21 DEF StopTimesOut, Stopping, IInv, StoppedBehind
  <2> QED
    BY <1>21, <2>1, TypeParts DEF IInv, HoldingsOK, StopTimesOut
<1>22. ASSUME NEW c \in Publishers, LoopEnds(c) PROVE HoldingsOK'
  BY <1>22, TypeParts DEF IInv, HoldingsOK, LoopEnds
<1>23. CASE UNCHANGED vars
  BY <1>23, TypeParts DEF IInv, HoldingsOK, vars
<1> QED
  BY <1>1, <1>2, <1>3, <1>4, <1>5, <1>6, <1>7, <1>8, <1>9, <1>10, <1>11, <1>12,
    <1>13, <1>14, <1>15, <1>16, <1>17, <1>18, <1>19, <1>20, <1>21, <1>22, <1>23
    DEF Next, Main, Starting, StopStep

\* Close waits only for inputs.
LEMMA WaitingStep == ASSUME IInv, [Next]_vars PROVE WaitingOK'
<1>1. CASE Load
  BY <1>1, TypeParts DEF IInv, WaitingOK, Closing, Closes, AtStep, Load
<1>2. CASE Connect
  BY <1>2, TypeParts DEF IInv, WaitingOK, Closing, Closes, AtStep, Connect
<1>3. CASE EnsureBuckets
  BY <1>3, TypeParts DEF IInv, WaitingOK, Closing, Closes, AtStep, EnsureBuckets
<1>4. CASE BindOwner
  BY <1>4, TypeParts DEF IInv, WaitingOK, Closing, Closes, AtStep, BindOwner
<1>5. CASE BindFails
  BY <1>5, TypeParts DEF IInv, WaitingOK, Closing, Closes, AtStep, BindFails
<1>6. CASE ComposeStep
  BY <1>6, TypeParts DEF IInv, WaitingOK, Closing, Closes, AtStep, ComposeStep
<1>7. CASE ComposeFails
  BY <1>7, TypeParts DEF IInv, WaitingOK, Closing, Closes, AtStep, ComposeFails
<1>8. CASE StartStep
  BY <1>8, TypeParts DEF IInv, WaitingOK, Closing, Closes, AtStep, StartStep
<1>9. CASE StartFails
  BY <1>9, TypeParts DEF IInv, WaitingOK, Closing, Closes, AtStep, StartFails
<1>10. CASE Serve
  BY <1>10, TypeParts DEF IInv, WaitingOK, Closing, Closes, AtStep, Serve
<1>11. CASE ServeFails
  BY <1>11, TypeParts DEF IInv, WaitingOK, Closing, Closes, AtStep, ServeFails
<1>12. CASE Terminate
  BY <1>12, TypeParts DEF IInv, WaitingOK, Closing, Closes, AtStep, Terminate
<1>13. CASE StopOwnership
  BY <1>13, TypeParts DEF IInv, WaitingOK, Closing, Closes, AtStep, StopOwnership
<1>14. CASE CloseClient
  BY <1>14, TypeParts DEF IInv, WaitingOK, Closing, Closes, AtStep, CloseClient
<1>15. CASE Signal
  BY <1>15, TypeParts DEF IInv, WaitingOK, Closing, Closes, AtStep, Signal
<1>16. CASE Accept
  BY <1>16, TypeParts DEF IInv, WaitingOK, Closing, Closes, AtStep, Accept
<1>17. ASSUME NEW c \in Components, SkipStop(c) PROVE WaitingOK'
  BY <1>17, TypeParts DEF IInv, WaitingOK, Stopping, Closing, SkipStop
<1>18. ASSUME NEW c \in Components, Unsubscribe(c) PROVE WaitingOK'
  BY <1>18, TypeParts DEF IInv, WaitingOK, Stopping, Closing, Unsubscribe
<1>19. ASSUME NEW c \in Components, StopInput(c) PROVE WaitingOK'
  BY <1>19 DEF WaitingOK, Stopping, Closing, StopInput
<1>20. ASSUME NEW c \in Components, InputStopped(c) PROVE WaitingOK'
  BY <1>20 DEF WaitingOK, InputStopped
<1>21. ASSUME NEW c \in Components, StopTimesOut(c) PROVE WaitingOK'
  BY <1>21 DEF WaitingOK, StopTimesOut
<1>22. ASSUME NEW c \in Publishers, LoopEnds(c) PROVE WaitingOK'
  BY <1>22, TypeParts DEF IInv, WaitingOK, Closing, Closes, AtStep, LoopEnds
<1>23. CASE UNCHANGED vars
  BY <1>23, TypeParts DEF IInv, WaitingOK, Closing, Closes, AtStep, vars
<1> QED
  BY <1>1, <1>2, <1>3, <1>4, <1>5, <1>6, <1>7, <1>8, <1>9, <1>10, <1>11, <1>12,
    <1>13, <1>14, <1>15, <1>16, <1>17, <1>18, <1>19, <1>20, <1>21, <1>22, <1>23
    DEF Next, Main, Starting, StopStep

\* The configuration is the validated one.
LEMMA ConfiguredStep == ASSUME IInv, [Next]_vars PROVE Configured'
<1>1. CASE Load
  BY <1>1 DEF Configured, IInv, Load
<1>2. CASE Connect
  BY <1>2 DEF Configured, IInv, Connect
<1>3. CASE EnsureBuckets
  BY <1>3 DEF Configured, IInv, EnsureBuckets
<1>4. CASE BindOwner
  BY <1>4 DEF Configured, IInv, BindOwner
<1>5. CASE BindFails
  BY <1>5 DEF Configured, IInv, BindFails
<1>6. CASE ComposeStep
  BY <1>6 DEF Configured, IInv, ComposeStep
<1>7. CASE ComposeFails
  BY <1>7 DEF Configured, IInv, AtStep, Closes, ComposeFails
<1>8. CASE StartStep
  BY <1>8 DEF Configured, IInv, StartStep
<1>9. CASE StartFails
  BY <1>9 DEF Configured, IInv, AtStep, Closes, StartFails
<1>10. CASE Serve
  BY <1>10 DEF Configured, IInv, Serve
<1>11. CASE ServeFails
  BY <1>11 DEF Configured, IInv, ServeFails
<1>12. CASE Terminate
  BY <1>12 DEF Configured, IInv, Terminate
<1>13. CASE StopOwnership
  BY <1>13 DEF Configured, IInv, StopOwnership
<1>14. CASE CloseClient
  BY <1>14 DEF Configured, IInv, CloseClient
<1>15. CASE Signal
  BY <1>15 DEF Configured, IInv, Signal
<1>16. CASE Accept
  BY <1>16 DEF Configured, IInv, Accept
<1>17. ASSUME NEW c \in Components, SkipStop(c) PROVE Configured'
  BY <1>17 DEF Configured, IInv, SkipStop
<1>18. ASSUME NEW c \in Components, Unsubscribe(c) PROVE Configured'
  BY <1>18 DEF Configured, IInv, Unsubscribe
<1>19. ASSUME NEW c \in Components, StopInput(c) PROVE Configured'
  BY <1>19 DEF Configured, IInv, StopInput
<1>20. ASSUME NEW c \in Components, InputStopped(c) PROVE Configured'
  BY <1>20 DEF Configured, IInv, InputStopped
<1>21. ASSUME NEW c \in Components, StopTimesOut(c) PROVE Configured'
  BY <1>21 DEF Configured, IInv, StopTimesOut
<1>22. ASSUME NEW c \in Publishers, LoopEnds(c) PROVE Configured'
  BY <1>22 DEF Configured, IInv, LoopEnds
<1>23. CASE UNCHANGED vars
  BY <1>23 DEF Configured, IInv, vars
<1> QED
  BY <1>1, <1>2, <1>3, <1>4, <1>5, <1>6, <1>7, <1>8, <1>9, <1>10, <1>11, <1>12,
    <1>13, <1>14, <1>15, <1>16, <1>17, <1>18, <1>19, <1>20, <1>21, <1>22, <1>23
    DEF Next, Main, Starting, StopStep

\* Nothing runs before the flows.
LEMMA NothingYetStep == ASSUME IInv, [Next]_vars PROVE NothingYet'
<1>1. CASE Load
  BY <1>1 DEF IInv, NothingYet, TypeOK, Early, Returned, Load
<1>2. CASE Connect
  BY <1>2 DEF IInv, NothingYet, TypeOK, Early, Returned, Connect
<1>3. CASE EnsureBuckets
  BY <1>3 DEF IInv, NothingYet, TypeOK, Early, Returned, Closes, EnsureBuckets
<1>4. CASE BindOwner
  BY <1>4 DEF IInv, NothingYet, TypeOK, Early, Returned, BindOwner
<1>5. CASE BindFails
  BY <1>5 DEF IInv, NothingYet, TypeOK, Early, Returned, Closes, BindFails
<1>6. CASE ComposeStep
  BY <1>6 DEF IInv, NothingYet, TypeOK, Early, Returned, AtStep, ComposeStep
<1>7. CASE ComposeFails
  BY <1>7 DEF IInv, NothingYet, TypeOK, Early, Returned, Closes, ComposeFails
<1>8. CASE StartStep
  BY <1>8 DEF IInv, NothingYet, TypeOK, Early, Returned, AtStep, StartStep
<1>9. CASE StartFails
  BY <1>9 DEF IInv, NothingYet, TypeOK, Early, Returned, Closes, StartFails
<1>10. CASE Serve
  BY <1>10 DEF IInv, NothingYet, TypeOK, Early, Returned, Serve
<1>11. CASE ServeFails
  BY <1>11 DEF IInv, NothingYet, TypeOK, Early, Returned, ServeFails
<1>12. CASE Terminate
  BY <1>12 DEF IInv, NothingYet, TypeOK, Early, Returned, Closes, Terminate
<1>13. CASE StopOwnership
  BY <1>13 DEF NothingYet, IInv, StopOwnership
<1>14. CASE CloseClient
  BY <1>14 DEF IInv, NothingYet, TypeOK, Early, Returned, CloseClient
<1>15. CASE Signal
  BY <1>15 DEF NothingYet, IInv, Signal
<1>16. CASE Accept
  BY <1>16 DEF NothingYet, IInv, Accept
<1>17. ASSUME NEW c \in Components, SkipStop(c) PROVE NothingYet'
  BY <1>17 DEF NothingYet, IInv, Stopping, Closing, SkipStop
<1>18. ASSUME NEW c \in Components, Unsubscribe(c) PROVE NothingYet'
  BY <1>18 DEF IInv, NothingYet, TypeOK, Early, Returned, Stopping, Closing, Unsubscribe
<1>19. ASSUME NEW c \in Components, StopInput(c) PROVE NothingYet'
  BY <1>19 DEF IInv, NothingYet, TypeOK, Early, Returned, Stopping, Closing, StopInput
<1>20. ASSUME NEW c \in Components, InputStopped(c) PROVE NothingYet'
  BY <1>20 DEF NothingYet, IInv, Stopping, Closing, InputStopped
<1>21. ASSUME NEW c \in Components, StopTimesOut(c) PROVE NothingYet'
  BY <1>21 DEF IInv, NothingYet, TypeOK, Early, Returned, Stopping, Closing, StopTimesOut
<1>22. ASSUME NEW c \in Publishers, LoopEnds(c) PROVE NothingYet'
  BY <1>22 DEF NothingYet, IInv, LoopEnds
<1>23. CASE UNCHANGED vars
  BY <1>23 DEF NothingYet, IInv, vars
<1> QED
  BY <1>1, <1>2, <1>3, <1>4, <1>5, <1>6, <1>7, <1>8, <1>9, <1>10, <1>11, <1>12,
    <1>13, <1>14, <1>15, <1>16, <1>17, <1>18, <1>19, <1>20, <1>21, <1>22, <1>23
    DEF Next, Main, Starting, StopStep

\* The owners are bound one after another.
LEMMA OwnedStep == ASSUME IInv, [Next]_vars PROVE Owned'
<1>1. CASE Load
  BY <1>1 DEF Owned, Load
<1>2. CASE Connect
  BY <1>2 DEF Owned, Connect
<1>3. CASE EnsureBuckets
  <2>1. at = 1 /\ config' = config
    BY <1>3 DEF EnsureBuckets, IInv, NothingYet
  <2>2. 1 \in DOMAIN RuntimeOwners(config) /\ \A k \in DOMAIN RuntimeOwners(config) : ~(k < 1)
    BY OwnersFacts
  <2> QED
    BY <1>3, <2>1, <2>2 DEF Owned, EnsureBuckets, Closes
<1>4. CASE BindOwner
  <2> DEFINE owners == RuntimeOwners(config)
  <2>1. /\ Len(owners) \in Nat \ {0} /\ DOMAIN owners = 1 .. Len(owners) /\ at \in DOMAIN owners
        /\ \A k \in DOMAIN owners : k < at => owners[k] \in tokens
        /\ heartbeat
    BY <1>4, OwnersFacts DEF BindOwner, IInv, Owned
  <2>2. config' = config /\ heartbeat' = heartbeat /\ tokens' = tokens \cup {owners[at]}
    BY <1>4 DEF BindOwner
  <2>3. IF at = Len(owners) THEN pc' = "flows" /\ at' = 1 ELSE pc' = "owners" /\ at' = at + 1
    BY <1>4 DEF BindOwner
  <2> HIDE DEF owners
  <2>4. \A k \in DOMAIN owners : k <= at => owners[k] \in tokens'
    BY <2>1, <2>2
  <2>5. CASE at = Len(owners)
    <3>1. \A k \in DOMAIN owners : owners[k] \in tokens'
      BY <2>1, <2>4, <2>5
    <3> QED
      BY <2>1, <2>2, <2>3, <2>5, <3>1 DEF Owned, owners
  <2>6. CASE at # Len(owners)
    <3>1. at + 1 \in DOMAIN owners /\ \A k \in DOMAIN owners : k < at + 1 => owners[k] \in tokens'
      BY <2>1, <2>4, <2>6
    <3> QED
      BY <2>1, <2>2, <2>3, <2>6, <3>1 DEF Owned, owners
  <2> QED
    BY <2>5, <2>6
<1>5. CASE BindFails
  BY <1>5 DEF Owned, Closes, BindFails
<1>6. CASE ComposeStep
  BY <1>6 DEF Owned, IInv, AtStep, ComposeStep
<1>7. CASE ComposeFails
  BY <1>7 DEF Owned, Closes, ComposeFails
<1>8. CASE StartStep
  BY <1>8 DEF Owned, IInv, AtStep, StartStep
<1>9. CASE StartFails
  BY <1>9 DEF Owned, Closes, StartFails
<1>10. CASE Serve
  BY <1>10 DEF Owned, IInv, Serve
<1>11. CASE ServeFails
  BY <1>11 DEF Owned, ServeFails
<1>12. CASE Terminate
  BY <1>12 DEF Owned, Closes, Terminate
<1>13. CASE StopOwnership
  BY <1>13 DEF Owned, StopOwnership
<1>14. CASE CloseClient
  BY <1>14 DEF Owned, CloseClient
<1>15. CASE Signal
  BY <1>15 DEF Owned, IInv, Signal
<1>16. CASE Accept
  BY <1>16 DEF Owned, IInv, Accept
<1>17. ASSUME NEW c \in Components, SkipStop(c) PROVE Owned'
  BY <1>17 DEF Owned, Stopping, Closing, SkipStop
<1>18. ASSUME NEW c \in Components, Unsubscribe(c) PROVE Owned'
  BY <1>18 DEF Owned, Stopping, Closing, Unsubscribe
<1>19. ASSUME NEW c \in Components, StopInput(c) PROVE Owned'
  BY <1>19 DEF Owned, Stopping, Closing, StopInput
<1>20. ASSUME NEW c \in Components, InputStopped(c) PROVE Owned'
  BY <1>20 DEF Owned, Stopping, Closing, InputStopped
<1>21. ASSUME NEW c \in Components, StopTimesOut(c) PROVE Owned'
  BY <1>21 DEF Owned, Stopping, Closing, StopTimesOut
<1>22. ASSUME NEW c \in Publishers, LoopEnds(c) PROVE Owned'
  BY <1>22 DEF Owned, IInv, LoopEnds
<1>23. CASE UNCHANGED vars
  BY <1>23 DEF Owned, IInv, vars
<1> QED
  BY <1>1, <1>2, <1>3, <1>4, <1>5, <1>6, <1>7, <1>8, <1>9, <1>10, <1>11, <1>12,
    <1>13, <1>14, <1>15, <1>16, <1>17, <1>18, <1>19, <1>20, <1>21, <1>22, <1>23
    DEF Next, Main, Starting, StopStep

\* Behind the step at hand all is recorded and subscribed, ahead of it all is new.
LEMMA FlowingStep == ASSUME IInv, [Next]_vars PROVE Flowing'
<1>1. CASE Load
  BY <1>1 DEF Flowing, Load
<1>2. CASE Connect
  BY <1>2 DEF Flowing, Connect
<1>3. CASE EnsureBuckets
  BY <1>3 DEF Flowing, Closes, EnsureBuckets
<1>4. CASE BindOwner
  <2>1. /\ pc = "owners" /\ config' = config /\ state' = state /\ (pc' = "flows" => at' = 1)
    BY <1>4 DEF BindOwner
  <2>2. \A c \in Components : state[c] = "created"
    BY <2>1 DEF IInv, NothingYet, Early
  <2>3. \A k \in DOMAIN Startup(config) : ~(k < 1)
    BY StartupFacts
  <2> QED
    BY <2>1, <2>2, <2>3 DEF Flowing
<1>5. CASE BindFails
  BY <1>5 DEF Flowing, Closes, BindFails
<1>6. CASE ComposeStep
  <2> DEFINE seq == Startup(config)
  <2>1. /\ pc = "flows" /\ config' = config /\ state' = state /\ alive' = alive /\ at' = at + 1
        /\ recorded' = recorded \cup seq[at].of /\ seq[at].do = "compose" /\ at \in Nat
    BY <1>6 DEF ComposeStep, AtStep, IInv, TypeOK
  <2>2. \A k \in DOMAIN seq : k \in Nat
    BY StartupFacts
  <2>3. Flowing
    BY DEF IInv
  <2> HIDE DEF seq
  <2> SUFFICES ASSUME pc' = "flows", NEW c \in Components
               PROVE  /\ \A k \in DOMAIN seq : k < at + 1 /\ Composes(seq, k, c) => c \in recorded'
                      /\ \A k \in DOMAIN seq : k < at + 1 /\ Starts(seq, k, c) => c \in alive \cup Inputs
                      /\ \A k \in DOMAIN seq : k >= at + 1 /\ Starts(seq, k, c) => state[c] = "created"
    BY <2>1 DEF Flowing, seq
  <2>4. /\ \A k \in DOMAIN seq : k < at /\ Composes(seq, k, c) => c \in recorded
        /\ \A k \in DOMAIN seq : k < at /\ Starts(seq, k, c) => c \in alive \cup Inputs
        /\ \A k \in DOMAIN seq : k >= at /\ Starts(seq, k, c) => state[c] = "created"
    BY <2>1, <2>3 DEF Flowing, seq
  <2>5. Composes(seq, at, c) => c \in recorded'
    BY <2>1 DEF Composes
  <2>6. ~Starts(seq, at, c)
    BY <2>1 DEF Starts
  <2>7. \A k \in DOMAIN seq : (k < at + 1 => k < at \/ k = at) /\ (k >= at + 1 => k >= at)
    BY <2>1, <2>2
  <2> QED
    BY <2>1, <2>4, <2>5, <2>6, <2>7
<1>7. CASE ComposeFails
  BY <1>7 DEF Flowing, Closes, ComposeFails
<1>8. CASE StartStep
  <2> DEFINE seq == Startup(config)
  <2>1. PICK d \in Components : seq[at].of = {d} /\ Starts(seq, at, d) /\ at \in DOMAIN seq
    BY <1>8, AtStart DEF StartStep
  <2>2. /\ pc = "flows" /\ config' = config /\ state' = [state EXCEPT ![d] = "started"]
        /\ alive' = alive \cup {d} /\ at' = at + 1 /\ recorded' = recorded /\ at \in Nat
        /\ seq[at].do = "start" /\ state \in [Components -> {"created", "started", "stopped", "failed"}]
    BY <1>8, <2>1 DEF StartStep, AtStep, IInv, TypeOK
  <2>3. \A k \in DOMAIN seq : k \in Nat
    BY StartupFacts
  <2>4. Flowing
    BY DEF IInv
  <2>5. \A k \in DOMAIN seq : Starts(seq, k, d) => k = at
    BY <2>1, StartupFacts
  <2> HIDE DEF seq
  <2> SUFFICES ASSUME pc' = "flows", NEW c \in Components
               PROVE  /\ \A k \in DOMAIN seq : k < at + 1 /\ Composes(seq, k, c) => c \in recorded
                      /\ \A k \in DOMAIN seq : k < at + 1 /\ Starts(seq, k, c) => c \in alive' \cup Inputs
                      /\ \A k \in DOMAIN seq : k >= at + 1 /\ Starts(seq, k, c) => state'[c] = "created"
    BY <2>2 DEF Flowing, seq
  <2>6. /\ \A k \in DOMAIN seq : k < at /\ Composes(seq, k, c) => c \in recorded
        /\ \A k \in DOMAIN seq : k < at /\ Starts(seq, k, c) => c \in alive \cup Inputs
        /\ \A k \in DOMAIN seq : k >= at /\ Starts(seq, k, c) => state[c] = "created"
    BY <2>2, <2>4 DEF Flowing, seq
  <2>7. \A k \in DOMAIN seq : (k < at + 1 => k < at \/ k = at) /\ (k >= at + 1 => k >= at /\ k # at)
    BY <2>2, <2>3
  <2>8. ~Composes(seq, at, c)
    BY <2>2 DEF Composes
  <2>9. Starts(seq, at, c) => c = d
    BY <2>1 DEF Starts
  <2>10. ASSUME NEW k \in DOMAIN seq, k >= at + 1, Starts(seq, k, c) PROVE state'[c] = "created"
    <3>1. c # d /\ state[c] = "created"
      BY <2>5, <2>6, <2>7, <2>10
    <3> QED
      BY <2>2, <3>1
  <2> QED
    BY <2>2, <2>6, <2>7, <2>8, <2>9, <2>10
<1>9. CASE StartFails
  BY <1>9 DEF Flowing, Closes, StartFails
<1>10. CASE Serve
  BY <1>10 DEF Flowing, Serve
<1>11. CASE ServeFails
  BY <1>11 DEF Flowing, ServeFails
<1>12. CASE Terminate
  BY <1>12 DEF Flowing, Closes, Terminate
<1>13. CASE StopOwnership
  BY <1>13 DEF Flowing, StopOwnership
<1>14. CASE CloseClient
  BY <1>14 DEF Flowing, CloseClient
<1>15. CASE Signal
  BY <1>15 DEF Flowing, IInv, Signal
<1>16. CASE Accept
  BY <1>16 DEF Flowing, IInv, Accept
<1>17. ASSUME NEW c \in Components, SkipStop(c) PROVE Flowing'
  BY <1>17 DEF Flowing, Stopping, Closing, SkipStop
<1>18. ASSUME NEW c \in Components, Unsubscribe(c) PROVE Flowing'
  BY <1>18 DEF Flowing, Stopping, Closing, Unsubscribe
<1>19. ASSUME NEW c \in Components, StopInput(c) PROVE Flowing'
  BY <1>19 DEF Flowing, Stopping, Closing, StopInput
<1>20. ASSUME NEW c \in Components, InputStopped(c) PROVE Flowing'
  BY <1>20 DEF Flowing, Stopping, Closing, InputStopped
<1>21. ASSUME NEW c \in Components, StopTimesOut(c) PROVE Flowing'
  BY <1>21 DEF Flowing, Stopping, Closing, StopTimesOut
<1>22. ASSUME NEW c \in Publishers, LoopEnds(c) PROVE Flowing'
  <2>1. config' = config /\ state' = state /\ alive' = alive \ {c} /\ UNCHANGED <<pc, at, recorded>>
    BY <1>22 DEF LoopEnds
  <2>2. \A d \in Components : d = c => d \in Inputs
    BY DEF Publishers, Conn, Components, Roles
  <2> QED
    BY <2>1, <2>2 DEF IInv, Flowing
<1>23. CASE UNCHANGED vars
  BY <1>23 DEF Flowing, IInv, vars
<1> QED
  BY <1>1, <1>2, <1>3, <1>4, <1>5, <1>6, <1>7, <1>8, <1>9, <1>10, <1>11, <1>12,
    <1>13, <1>14, <1>15, <1>16, <1>17, <1>18, <1>19, <1>20, <1>21, <1>22, <1>23
    DEF Next, Main, Starting, StopStep

\* What runs is known.
LEMMA RunningStep == ASSUME IInv, [Next]_vars PROVE RunningIsKnown'
<1>1. CASE Load
  BY <1>1 DEF RunningIsKnown, IInv, Load
<1>2. CASE Connect
  BY <1>2 DEF RunningIsKnown, IInv, Connect
<1>3. CASE EnsureBuckets
  BY <1>3
    DEF IInv, RunningIsKnown, TypeOK, Returned, Closes, Closing, AtStep, StoppedBehind,
      EnsureBuckets
<1>4. CASE BindOwner
  BY <1>4
    DEF IInv, RunningIsKnown, TypeOK, Returned, Closes, Closing, AtStep, StoppedBehind, BindOwner
<1>5. CASE BindFails
  BY <1>5
    DEF IInv, RunningIsKnown, TypeOK, Returned, Closes, Closing, AtStep, StoppedBehind, BindFails
<1>6. CASE ComposeStep
  BY <1>6
    DEF IInv, RunningIsKnown, TypeOK, Returned, Closes, Closing, AtStep, StoppedBehind,
      ComposeStep
<1>7. CASE ComposeFails
  BY <1>7
    DEF IInv, RunningIsKnown, TypeOK, Returned, Closes, Closing, AtStep, StoppedBehind,
      ComposeFails
<1>8. CASE StartStep
  <2>1. PICK c \in Planned(config) \cap Components : Startup(config)[at].of = {c} /\ c \in recorded
    BY <1>8, AtStart DEF StartStep
  <2>2. /\ state' = [state EXCEPT ![c] = "started"] /\ alive' = alive \cup {c} /\ c \in Stoppables
        /\ recorded' = recorded /\ failedStops' = failedStops
    BY <1>8, <2>1, PlannedIsStoppable DEF StartStep
  <2>3. ~waiting
    BY <1>8 DEF StartStep, AtStep, IInv, TypeOK, Closing
  <2> QED
    BY <2>1, <2>2, <2>3 DEF IInv, TypeOK, RunningIsKnown
<1>9. CASE StartFails
  <2>1. PICK c \in Planned(config) \cap Components :
          Startup(config)[at].of = {c} /\ c \in recorded /\ state[c] = "created"
    BY <1>9, AtStart DEF StartFails
  <2>2. /\ state' = [state EXCEPT ![c] = "failed"] /\ alive' = alive
        /\ recorded' = recorded /\ failedStops' = failedStops
    BY <1>9, <2>1 DEF StartFails
  <2>3. ~waiting
    BY <1>9 DEF StartFails, AtStep, IInv, TypeOK, Closing
  <2> QED
    BY <2>1, <2>2, <2>3 DEF IInv, TypeOK, RunningIsKnown
<1>10. CASE Serve
  BY <1>10 DEF RunningIsKnown, IInv, Serve
<1>11. CASE ServeFails
  BY <1>11 DEF RunningIsKnown, IInv, ServeFails
<1>12. CASE Terminate
  BY <1>12
    DEF IInv, RunningIsKnown, TypeOK, Returned, Closes, Closing, AtStep, StoppedBehind, Terminate
<1>13. CASE StopOwnership
  BY <1>13
    DEF IInv, RunningIsKnown, TypeOK, Returned, Closes, Closing, AtStep, StoppedBehind,
      StopOwnership
<1>14. CASE CloseClient
  BY <1>14 DEF RunningIsKnown, IInv, CloseClient
<1>15. CASE Signal
  BY <1>15 DEF RunningIsKnown, IInv, Signal
<1>16. CASE Accept
  <2>1. /\ alive' = alive \cup {Conn}
        /\ UNCHANGED <<state, recorded, failedStops, waiting, at>>
    BY <1>16 DEF Accept
  <2>2. Conn \notin Components
    BY DEF Conn, Components, Roles
  <2> QED
    BY <2>1, <2>2 DEF IInv, RunningIsKnown
<1>17. ASSUME NEW c \in Components, SkipStop(c) PROVE RunningIsKnown'
  BY <1>17 DEF RunningIsKnown, IInv, SkipStop
<1>18. ASSUME NEW c \in Components, Unsubscribe(c) PROVE RunningIsKnown'
  BY <1>18 DEF RunningIsKnown, IInv, Stopping, Closing, Unsubscribe
<1>19. ASSUME NEW c \in Components, StopInput(c) PROVE RunningIsKnown'
  BY <1>19 DEF RunningIsKnown, IInv, Stopping, Closing, StopInput
<1>20. ASSUME NEW c \in Components, InputStopped(c) PROVE RunningIsKnown'
  BY <1>20 DEF RunningIsKnown, IInv, Stopping, Closing, InputStopped
<1>21. ASSUME NEW c \in Components, StopTimesOut(c) PROVE RunningIsKnown'
  BY <1>21 DEF RunningIsKnown, IInv, Stopping, Closing, StopTimesOut
<1>22. ASSUME NEW c \in Publishers, LoopEnds(c) PROVE RunningIsKnown'
  BY <1>22 DEF RunningIsKnown, IInv, LoopEnds
<1>23. CASE UNCHANGED vars
  BY <1>23 DEF RunningIsKnown, IInv, vars
<1> QED
  BY <1>1, <1>2, <1>3, <1>4, <1>5, <1>6, <1>7, <1>8, <1>9, <1>10, <1>11, <1>12,
    <1>13, <1>14, <1>15, <1>16, <1>17, <1>18, <1>19, <1>20, <1>21, <1>22, <1>23
    DEF Next, Main, Starting, StopStep

\* Behind the stop at hand nothing is started.
LEMMA StoppedStep == ASSUME IInv, [Next]_vars PROVE StoppedBehind'
<1>1. CASE Load
  BY <1>1 DEF StoppedBehind, IInv, Load
<1>2. CASE Connect
  BY <1>2 DEF StoppedBehind, IInv, Connect
<1>3. CASE EnsureBuckets
  BY <1>3 DEF IInv, StoppedBehind, TypeOK, Returned, Closes, Closing, AtStep, EnsureBuckets
<1>4. CASE BindOwner
  BY <1>4 DEF IInv, StoppedBehind, TypeOK, Returned, Closes, Closing, AtStep, BindOwner
<1>5. CASE BindFails
  BY <1>5, StopFacts DEF IInv, StoppedBehind, TypeOK, Returned, Closes, Closing, AtStep, BindFails
<1>6. CASE ComposeStep
  BY <1>6 DEF IInv, StoppedBehind, TypeOK, Returned, Closes, Closing, AtStep, ComposeStep
<1>7. CASE ComposeFails
  BY <1>7 DEF IInv, StoppedBehind, TypeOK, Returned, Closes, Closing, AtStep, ComposeFails
<1>8. CASE StartStep
  BY <1>8 DEF IInv, StoppedBehind, TypeOK, Returned, Closes, Closing, AtStep, StartStep
<1>9. CASE StartFails
  BY <1>9 DEF IInv, StoppedBehind, TypeOK, Returned, Closes, Closing, AtStep, StartFails
<1>10. CASE Serve
  BY <1>10 DEF StoppedBehind, IInv, Serve
<1>11. CASE ServeFails
  BY <1>11 DEF StoppedBehind, IInv, ServeFails
<1>12. CASE Terminate
  BY <1>12, SMTT(30) DEF IInv, StoppedBehind, TypeOK, Returned, Closes, Closing, AtStep, Terminate
<1>13. CASE StopOwnership
  BY <1>13, SMTT(30) DEF IInv, StoppedBehind, TypeOK, Returned, Closes, Closing, AtStep, StopOwnership
<1>14. CASE CloseClient
  BY <1>14 DEF StoppedBehind, IInv, CloseClient
<1>15. CASE Signal
  BY <1>15 DEF StoppedBehind, IInv, Signal
<1>16. CASE Accept
  BY <1>16 DEF StoppedBehind, IInv, Accept
<1>17. ASSUME NEW c \in Components, SkipStop(c) PROVE StoppedBehind'
  <2>1. /\ pc \in {"cleanup", "closing"} /\ at \in 1 .. 15 /\ StopOrder[at] = c /\ ~waiting
        /\ at' = at + 1 /\ UNCHANGED <<pc, cancelled, state, recorded, waiting, heartbeat>>
    BY <1>17, StopFacts DEF SkipStop, Stopping, Closing, IInv, TypeOK
  <2>2. state[c] # "started"
    BY <1>17 DEF SkipStop, Stoppable, IInv, RunningIsKnown
  <2>3. /\ cancelled /\ \A k \in DOMAIN StopOrder : k < at => state[StopOrder[k]] # "started"
    BY <2>1 DEF IInv, StoppedBehind
  <2>4. \A k \in DOMAIN StopOrder : k < at + 1 => state[StopOrder[k]] # "started"
    BY <2>1, <2>2, <2>3, StopFacts
  <2>5. at + 1 \in 1 .. Len(StopOrder) + 2 /\ at + 1 # Len(StopOrder) + 2
    BY <2>1, StopFacts
  <2> QED
    BY <2>1, <2>3, <2>4, <2>5 DEF StoppedBehind
<1>18. ASSUME NEW c \in Components, Unsubscribe(c) PROVE StoppedBehind'
  BY <1>18 DEF StoppedBehind, IInv, TypeOK, Stopping, Closing, Unsubscribe
<1>19. ASSUME NEW c \in Components, StopInput(c) PROVE StoppedBehind'
  <2>1. /\ pc \in {"cleanup", "closing"} /\ StopOrder[at] = c /\ c \in recorded
        /\ state' = [state EXCEPT ![c] = "stopped"]
        /\ UNCHANGED <<pc, at, cancelled, recorded, heartbeat>>
    BY <1>19 DEF StopInput, Stopping, Closing, Stoppable
  <2>2. state' \in [Components -> {"created", "started", "stopped", "failed"}] /\ state'[c] = "stopped"
        /\ \A d \in Components : state[d] # "started" => state'[d] # "started"
    BY <2>1 DEF IInv, TypeOK
  <2> QED
    BY <2>1, <2>2, StopFacts DEF IInv, StoppedBehind
<1>20. ASSUME NEW c \in Components, InputStopped(c) PROVE StoppedBehind'
  BY <1>20 DEF StoppedBehind, IInv, Stopping, Closing, InputStopped
<1>21. ASSUME NEW c \in Components, StopTimesOut(c) PROVE StoppedBehind'
  BY <1>21 DEF StoppedBehind, IInv, Stopping, Closing, StopTimesOut
<1>22. ASSUME NEW c \in Publishers, LoopEnds(c) PROVE StoppedBehind'
  BY <1>22 DEF StoppedBehind, IInv, LoopEnds
<1>23. CASE UNCHANGED vars
  BY <1>23 DEF StoppedBehind, IInv, vars
<1> QED
  BY <1>1, <1>2, <1>3, <1>4, <1>5, <1>6, <1>7, <1>8, <1>9, <1>10, <1>11, <1>12,
    <1>13, <1>14, <1>15, <1>16, <1>17, <1>18, <1>19, <1>20, <1>21, <1>22, <1>23
    DEF Next, Main, Starting, StopStep

\* An input that runs is heard until Close.
LEMMA HeardStep == ASSUME IInv, [Next]_vars PROVE InputsAreHeard'
<1>1. CASE Load
  BY <1>1 DEF InputsAreHeard, IInv, Load
<1>2. CASE Connect
  BY <1>2 DEF InputsAreHeard, IInv, Connect
<1>3. CASE EnsureBuckets
  BY <1>3 DEF InputsAreHeard, IInv, Closes, EnsureBuckets
<1>4. CASE BindOwner
  BY <1>4 DEF InputsAreHeard, IInv, BindOwner
<1>5. CASE BindFails
  BY <1>5 DEF InputsAreHeard, Closes, BindFails
<1>6. CASE ComposeStep
  BY <1>6 DEF InputsAreHeard, IInv, ComposeStep
<1>7. CASE ComposeFails
  BY <1>7 DEF InputsAreHeard, Closes, ComposeFails
<1>8. CASE StartStep
  <2> DEFINE seq == Startup(config)
  <2>1. PICK d \in Components : seq[at].of = {d} /\ Starts(seq, at, d) /\ at \in DOMAIN seq
    BY <1>8, AtStart DEF StartStep
  <2>2. alive' = alive \cup {d} /\ cancelled' = cancelled /\ pc = "flows"
    BY <1>8, <2>1 DEF StartStep, AtStep
  <2>3. ASSUME d \in Inputs, NEW h \in Hears(d) PROVE h \in alive
    <3>1. PICK j \in DOMAIN seq : j < at /\ Starts(seq, j, h)
      BY <2>1, <2>3, StartupFacts
    <3>2. h \in Components /\ h \notin Inputs
      BY <2>3 DEF Hears, Inputs, Components, Roles
    <3> HIDE DEF seq
    <3>3. h \in alive \cup Inputs
      BY <2>2, <3>1, <3>2 DEF IInv, Flowing, seq
    <3> QED
      BY <3>2, <3>3
  <2> HIDE DEF seq
  <2>4. d \in Publishers => d \in Inputs
    BY DEF Publishers, Conn, Components, Roles
  <2>5. ASSUME d \in Inputs
        PROVE  <<d[1], "decoder">> \in alive /\ (d[1] = "sapient" \/ <<d[1], "projector">> \in alive)
    <3>1. <<d[1], "decoder">> \in Hears(d)
      BY DEF Hears
    <3>2. d[1] = "sapient" \/ <<d[1], "projector">> \in Hears(d)
      BY DEF Hears
    <3> QED
      BY <2>3, <2>5, <3>1, <3>2
  <2>6. \A c \in alive' \cap Publishers : c \in alive \cap Publishers \/ c = d
    BY <2>2
  <2>7. ASSUME ~cancelled', NEW c \in alive' \cap Publishers
        PROVE  /\ <<c[1], "decoder">> \in alive
               /\ c[1] = "sapient" \/ <<c[1], "projector">> \in alive
    <3>1. CASE c = d
      <4>1. d \in Inputs
        BY <2>4, <2>7, <3>1
      <4>2. <<d[1], "decoder">> \in alive /\ (d[1] = "sapient" \/ <<d[1], "projector">> \in alive)
        BY <2>5, <4>1
      <4> QED
        BY <3>1, <4>2
    <3>2. CASE c \in alive \cap Publishers
      BY <2>2, <2>7, <3>2 DEF IInv, InputsAreHeard
    <3> QED
      BY <2>6, <2>7, <3>1, <3>2
  <2> QED
    BY <2>2, <2>7 DEF InputsAreHeard
<1>9. CASE StartFails
  BY <1>9 DEF InputsAreHeard, Closes, StartFails
<1>10. CASE Serve
  BY <1>10 DEF InputsAreHeard, IInv, Serve
<1>11. CASE ServeFails
  BY <1>11 DEF InputsAreHeard, ServeFails
<1>12. CASE Terminate
  BY <1>12 DEF InputsAreHeard, Closes, Terminate
<1>13. CASE StopOwnership
  BY <1>13 DEF InputsAreHeard, IInv, StopOwnership
<1>14. CASE CloseClient
  BY <1>14 DEF IInv, InputsAreHeard, NothingYet, StoppedBehind, TypeOK, CloseClient
<1>15. CASE Signal
  BY <1>15 DEF InputsAreHeard, IInv, Signal
<1>16. CASE Accept
  <2>1. /\ alive' = alive \cup {Conn} /\ cancelled' = cancelled
        /\ <<"cot", "tcp">> \in alive \cap Publishers
    BY <1>16 DEF Accept, Publishers, Inputs, Flows
  <2>2. ~cancelled => <<"cot", "decoder">> \in alive /\ <<"cot", "projector">> \in alive
    BY <2>1 DEF IInv, InputsAreHeard
  <2>3. Conn[1] = "cot"
    BY DEF Conn
  <2>4. \A c \in alive' \cap Publishers : c \in alive \cap Publishers \/ c = Conn
    BY <2>1
  <2> QED
    BY <2>1, <2>2, <2>3, <2>4 DEF IInv, InputsAreHeard
<1>17. ASSUME NEW c \in Components, SkipStop(c) PROVE InputsAreHeard'
  BY <1>17 DEF InputsAreHeard, IInv, SkipStop
<1>18. ASSUME NEW c \in Components, Unsubscribe(c) PROVE InputsAreHeard'
  BY <1>18 DEF IInv, InputsAreHeard, NothingYet, StoppedBehind, TypeOK, Stopping, Closing, Unsubscribe
<1>19. ASSUME NEW c \in Components, StopInput(c) PROVE InputsAreHeard'
  BY <1>19 DEF InputsAreHeard, IInv, StopInput
<1>20. ASSUME NEW c \in Components, InputStopped(c) PROVE InputsAreHeard'
  BY <1>20 DEF InputsAreHeard, IInv, InputStopped
<1>21. ASSUME NEW c \in Components, StopTimesOut(c) PROVE InputsAreHeard'
  BY <1>21 DEF InputsAreHeard, IInv, StopTimesOut
<1>22. ASSUME NEW c \in Publishers, LoopEnds(c) PROVE InputsAreHeard'
  <2>1. alive' = alive \ {c} /\ cancelled' = cancelled
    BY <1>22 DEF LoopEnds
  <2>2. \A flow : <<flow, "decoder">> # c /\ <<flow, "projector">> # c
    BY DEF Publishers, Inputs, Conn
  <2>3. ASSUME ~cancelled', NEW d \in alive' \cap Publishers
        PROVE  /\ <<d[1], "decoder">> \in alive'
               /\ d[1] = "sapient" \/ <<d[1], "projector">> \in alive'
    <3>1. /\ <<d[1], "decoder">> \in alive
          /\ d[1] = "sapient" \/ <<d[1], "projector">> \in alive
      BY <2>1, <2>3 DEF IInv, InputsAreHeard
    <3> QED
      BY <2>1, <2>2, <3>1
  <2> QED
    BY <2>3 DEF InputsAreHeard
<1>23. CASE UNCHANGED vars
  BY <1>23 DEF InputsAreHeard, IInv, vars
<1> QED
  BY <1>1, <1>2, <1>3, <1>4, <1>5, <1>6, <1>7, <1>8, <1>9, <1>10, <1>11, <1>12,
    <1>13, <1>14, <1>15, <1>16, <1>17, <1>18, <1>19, <1>20, <1>21, <1>22, <1>23
    DEF Next, Main, Starting, StopStep

\* A projector that runs has its tokens.
LEMMA WritersStep == ASSUME IInv, [Next]_vars PROVE WritersAreOwned'
<1>1. CASE Load
  BY <1>1 DEF WritersAreOwned, IInv, Load
<1>2. CASE Connect
  BY <1>2 DEF WritersAreOwned, IInv, Connect
<1>3. CASE EnsureBuckets
  BY <1>3 DEF IInv, WritersAreOwned, NothingYet, StoppedBehind, TypeOK, EnsureBuckets
<1>4. CASE BindOwner
  BY <1>4 DEF WritersAreOwned, IInv, BindOwner
<1>5. CASE BindFails
  BY <1>5 DEF IInv, WritersAreOwned, NothingYet, StoppedBehind, TypeOK, Early, Returned, BindFails
<1>6. CASE ComposeStep
  BY <1>6 DEF WritersAreOwned, IInv, ComposeStep
<1>7. CASE ComposeFails
  BY <1>7 DEF WritersAreOwned, IInv, ComposeFails
<1>8. CASE StartStep
  <2>1. PICK d \in Planned(config) \cap Components : Startup(config)[at].of = {d}
    BY <1>8, AtStart DEF StartStep
  <2>2. /\ alive' = alive \cup {d} /\ pc = "flows"
        /\ UNCHANGED <<tokens, heartbeat, failedStops>>
    BY <1>8, <2>1 DEF StartStep, AtStep
  <2>3. d[1] \in Enabled(config) /\ heartbeat
    BY <2>2, PlannedIsStoppable DEF IInv, Owned
  <2>4. ASSUME NEW o \in WritesAs(d[1]) PROVE o \in tokens
    <3>1. PICK k \in DOMAIN RuntimeOwners(config) : RuntimeOwners(config)[k] = o
      BY <2>3, OwnersFacts
    <3> QED
      BY <2>2, <3>1 DEF IInv, Owned
  <2> QED
    BY <2>2, <2>3, <2>4 DEF IInv, WritersAreOwned
<1>9. CASE StartFails
  BY <1>9 DEF WritersAreOwned, IInv, StartFails
<1>10. CASE Serve
  BY <1>10 DEF WritersAreOwned, IInv, Serve
<1>11. CASE ServeFails
  BY <1>11 DEF WritersAreOwned, ServeFails
<1>12. CASE Terminate
  BY <1>12 DEF WritersAreOwned, IInv, Terminate
<1>13. CASE StopOwnership
  <2>1. UNCHANGED <<alive, tokens, failedStops>>
    BY <1>13 DEF StopOwnership
  <2>2. at = 16 /\ pc \in {"cleanup", "closing"}
    BY <1>13, StopFacts DEF StopOwnership
  <2>3. \A c \in alive : c[2] = "projector" => c \in failedStops
    BY <2>2, AllStopped DEF Conn
  <2> QED
    BY <2>1, <2>3 DEF IInv, WritersAreOwned
<1>14. CASE CloseClient
  BY <1>14 DEF WritersAreOwned, IInv, CloseClient
<1>15. CASE Signal
  BY <1>15 DEF WritersAreOwned, IInv, Signal
<1>16. CASE Accept
  <2>1. alive' = alive \cup {Conn} /\ UNCHANGED <<tokens, heartbeat, failedStops>> /\ Conn[2] # "projector"
    BY <1>16 DEF Accept, Conn
  <2> QED
    BY <2>1 DEF IInv, WritersAreOwned
<1>17. ASSUME NEW c \in Components, SkipStop(c) PROVE WritersAreOwned'
  BY <1>17 DEF WritersAreOwned, IInv, SkipStop
<1>18. ASSUME NEW c \in Components, Unsubscribe(c) PROVE WritersAreOwned'
  BY <1>18 DEF WritersAreOwned, IInv, Unsubscribe
<1>19. ASSUME NEW c \in Components, StopInput(c) PROVE WritersAreOwned'
  BY <1>19 DEF WritersAreOwned, IInv, StopInput
<1>20. ASSUME NEW c \in Components, InputStopped(c) PROVE WritersAreOwned'
  BY <1>20 DEF WritersAreOwned, IInv, InputStopped
<1>21. ASSUME NEW c \in Components, StopTimesOut(c) PROVE WritersAreOwned'
  BY <1>21 DEF WritersAreOwned, IInv, StopTimesOut
<1>22. ASSUME NEW c \in Publishers, LoopEnds(c) PROVE WritersAreOwned'
  BY <1>22 DEF WritersAreOwned, IInv, LoopEnds
<1>23. CASE UNCHANGED vars
  BY <1>23 DEF WritersAreOwned, IInv, vars
<1> QED
  BY <1>1, <1>2, <1>3, <1>4, <1>5, <1>6, <1>7, <1>8, <1>9, <1>10, <1>11, <1>12,
    <1>13, <1>14, <1>15, <1>16, <1>17, <1>18, <1>19, <1>20, <1>21, <1>22, <1>23
    DEF Next, Main, Starting, StopStep

\* At the end nothing runs.
LEMMA QuietStep == ASSUME IInv, [Next]_vars PROVE ClosedIsQuiet'
<1>1. CASE Load
  BY <1>1 DEF IInv, ClosedIsQuiet, NothingYet, StoppedBehind, TypeOK, Early, Returned, Load
<1>2. CASE Connect
  BY <1>2 DEF IInv, ClosedIsQuiet, NothingYet, StoppedBehind, TypeOK, Early, Returned, Connect
<1>3. CASE EnsureBuckets
  BY <1>3
    DEF IInv, ClosedIsQuiet, NothingYet, StoppedBehind, TypeOK, Early, Returned, Closes,
      EnsureBuckets
<1>4. CASE BindOwner
  BY <1>4 DEF IInv, ClosedIsQuiet, NothingYet, StoppedBehind, TypeOK, Early, Returned, BindOwner
<1>5. CASE BindFails
  BY <1>5
    DEF IInv, ClosedIsQuiet, NothingYet, StoppedBehind, TypeOK, Early, Returned, Closes, BindFails
<1>6. CASE ComposeStep
  BY <1>6 DEF ClosedIsQuiet, IInv, ComposeStep
<1>7. CASE ComposeFails
  BY <1>7
    DEF IInv, ClosedIsQuiet, NothingYet, StoppedBehind, TypeOK, Early, Returned, Closes,
      ComposeFails
<1>8. CASE StartStep
  BY <1>8
    DEF IInv, ClosedIsQuiet, NothingYet, StoppedBehind, TypeOK, Early, Returned, AtStep, StartStep
<1>9. CASE StartFails
  BY <1>9
    DEF IInv, ClosedIsQuiet, NothingYet, StoppedBehind, TypeOK, Early, Returned, Closes,
      StartFails
<1>10. CASE Serve
  BY <1>10 DEF IInv, ClosedIsQuiet, NothingYet, StoppedBehind, TypeOK, Early, Returned, Serve
<1>11. CASE ServeFails
  BY <1>11 DEF IInv, ClosedIsQuiet, NothingYet, StoppedBehind, TypeOK, Early, Returned, ServeFails
<1>12. CASE Terminate
  BY <1>12
    DEF IInv, ClosedIsQuiet, NothingYet, StoppedBehind, TypeOK, Early, Returned, Closes, Terminate
<1>13. CASE StopOwnership
  BY <1>13 DEF ClosedIsQuiet, IInv, StopOwnership
<1>14. CASE CloseClient
  <2>1. at = 17 /\ pc \in {"cleanup", "closing"} /\ ~heartbeat
    BY <1>14, StopFacts DEF CloseClient, IInv, StoppedBehind
  <2>2. /\ client' = "closed" /\ alive' = alive \cap Publishers
        /\ UNCHANGED <<heartbeat, state, failedStops>>
    BY <1>14 DEF CloseClient
  <2>3. /\ \A c \in Components : state[c] # "started"
        /\ \A c \in alive : c # Conn => c \in failedStops
    BY <2>1, AllStopped
  <2> QED
    BY <2>1, <2>2, <2>3 DEF ClosedIsQuiet
<1>15. CASE Signal
  BY <1>15 DEF ClosedIsQuiet, IInv, Signal
<1>16. CASE Accept
  BY <1>16 DEF ClosedIsQuiet, IInv, Accept
<1>17. ASSUME NEW c \in Components, SkipStop(c) PROVE ClosedIsQuiet'
  BY <1>17 DEF ClosedIsQuiet, IInv, SkipStop
<1>18. ASSUME NEW c \in Components, Unsubscribe(c) PROVE ClosedIsQuiet'
  BY <1>18 DEF ClosedIsQuiet, IInv, Unsubscribe
<1>19. ASSUME NEW c \in Components, StopInput(c) PROVE ClosedIsQuiet'
  BY <1>19 DEF ClosedIsQuiet, IInv, StopInput
<1>20. ASSUME NEW c \in Components, InputStopped(c) PROVE ClosedIsQuiet'
  BY <1>20 DEF ClosedIsQuiet, IInv, InputStopped
<1>21. ASSUME NEW c \in Components, StopTimesOut(c) PROVE ClosedIsQuiet'
  BY <1>21 DEF ClosedIsQuiet, IInv, StopTimesOut
<1>22. ASSUME NEW c \in Publishers, LoopEnds(c) PROVE ClosedIsQuiet'
  BY <1>22 DEF ClosedIsQuiet, IInv, LoopEnds
<1>23. CASE UNCHANGED vars
  BY <1>23 DEF ClosedIsQuiet, IInv, vars
<1> QED
  BY <1>1, <1>2, <1>3, <1>4, <1>5, <1>6, <1>7, <1>8, <1>9, <1>10, <1>11, <1>12,
    <1>13, <1>14, <1>15, <1>16, <1>17, <1>18, <1>19, <1>20, <1>21, <1>22, <1>23
    DEF Next, Main, Starting, StopStep

LEMMA StepInv == IInv /\ [Next]_vars => IInv'
<1> SUFFICES ASSUME IInv, [Next]_vars PROVE IInv'
  OBVIOUS
<1>1. TypeOK'
  BY ConfigStep, ControlStep, HoldingsStep, WaitingStep
    DEF TypeOK, ConfigOK, ControlOK, HoldingsOK, WaitingOK
<1> QED
  BY <1>1, ConfiguredStep, NothingYetStep, OwnedStep, FlowingStep, RunningStep, StoppedStep,
    HeardStep, WritersStep, QuietStep DEF IInv

\* The inductive invariant, for every set of environments.
THEOREM LifecycleInvariant == Spec => []IInv
<1> QED
  BY InitInv, StepInv, PTL DEF Spec

\* In every reachable state the process's variables have their types, and Close waits
\* only for an input.
THEOREM TypeCorrect == Spec => []TypeOK
<1>1. IInv => TypeOK
  BY DEF IInv
<1> QED
  BY <1>1, LifecycleInvariant, PTL

\* Config.Validate refuses, before the bus is connected, whatever a constructor of an
\* enabled flow would refuse or silently replace, whatever the environment sets.
THEOREM RunsWhatWasConfigured == Spec => []RunsAsConfigured
<1>1. IInv => RunsAsConfigured
  <2> SUFFICES ASSUME IInv, client # "none", NEW i \in DOMAIN Startup(config),
                      NEW c \in Startup(config)[i].of
               PROVE  /\ ~Refuses(config, c)
                      /\ \A s \in SettingsOf(c) : Effective(config, c, s) = config[s]
    BY DEF RunsAsConfigured
  <2>1. Validate(config)
    BY DEF IInv, Configured
  <2>2. c \in Planned(config)
    BY StartupFacts
  <2> QED
    BY <2>1, <2>2, PlannedRuns
<1> QED
  BY <1>1, LifecycleInvariant, PTL

\* Until Close an input that runs has the decoder and the projector of its flow
\* subscribed, whatever flows are enabled and whichever start fails.
THEOREM PublishedIsHeard == Spec => []InputsAreHeard
<1>1. IInv => InputsAreHeard
  BY DEF IInv
<1> QED
  BY <1>1, LifecycleInvariant, PTL

\* While a projector is subscribed the tokens of all owners it writes for are bound and
\* their heartbeat goes on, but for a projector that could not be unsubscribed.
THEOREM OwnersOutliveWriters == Spec => []WritersAreOwned
<1>1. IInv => WritersAreOwned
  BY DEF IInv
<1> QED
  BY <1>1, LifecycleInvariant, PTL

\* A start that failed and a Close that returned leave nothing running but inputs whose
\* Stop reported it and connections, whatever failed or hung on the way.
THEOREM NothingLeftBehind == Spec => []ClosedIsQuiet
<1>1. IInv => ClosedIsQuiet
  BY DEF IInv
<1> QED
  BY <1>1, LifecycleInvariant, PTL
=============================================================================
