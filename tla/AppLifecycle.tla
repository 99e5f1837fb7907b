----------------------------- MODULE AppLifecycle -----------------------------
(***************************************************************************)
(* The hosted process (cmd/semops, internal/app): it connects to the bus,  *)
(* registers the owners of the graph's contracts, starts the components of *)
(* every enabled feed flow one after another, serves the COP API, and      *)
(* takes all of it down again at a signal.  A start that fails half-way    *)
(* cleans up what it has started.                                          *)
(*                                                                         *)
(* A component is <<flow, role>>.  An input runs a goroutine, a decoder    *)
(* and a projector hold a subscription; alive is the set of those that     *)
(* run.  The connections of the CoT TCP input run too, as <<"cot",         *)
(* "conn">>, but they are no component: nobody starts or stops them.       *)
(***************************************************************************)
EXTENDS AppConfig

Inputs == Flows \X {"udp", "tcp", "poller"}
Conn == <<"cot", "conn">>
Publishers == Inputs \cup {Conn}

CONSTANT
  Environments   \* what the environment may set of the configuration

ASSUME EnvironmentAssumption ==
  \A env \in Environments : DOMAIN env = Settings /\ \A s \in Settings : env[s] \in Values(s)

VARIABLES
  config,      \* what the environment sets, then the configuration
  pc,          \* where main is
  at,          \* index into the owners, the startup or the stop order
  tokens,      \* the owners a token was bound for
  heartbeat,   \* the owners' heartbeater runs
  client,      \* the bus connection
  recorded,    \* the components the App knows
  state,       \* lifecycle state of the components
  alive,       \* goroutines and subscriptions that run
  cancelled,   \* the runtime context has ended
  waiting,     \* Close waits for the goroutine of the component at hand
  failedStops, \* components whose Stop gave up on them, with an error
  signal       \* the process was asked to terminate

vars == <<config, pc, at, tokens, heartbeat, client, recorded, state, alive, cancelled,
          waiting, failedStops, signal>>

-----------------------------------------------------------------------------
(* What start does for a configuration, in order.                          *)

Compose(cs) == [do |-> "compose", of |-> cs]
StartOf(c) == [do |-> "start", of |-> {c}]

\* A flow without a listener of its own kind is composed and started whole.
Composed(flow, roles) ==
  << Compose({<<flow, roles[i]>> : i \in DOMAIN roles}) >>
    \o [i \in DOMAIN roles |-> StartOf(<<flow, roles[i]>>)]

\* A listener is composed only after the processors behind it have started.
Listening(cfg, c) == IF c \in Listens(cfg) THEN << Compose({c}), StartOf(c) >> ELSE << >>

MAVLinkFlow(cfg) ==
  Composed("mavlink", <<"projector", "decoder">>) \o Listening(cfg, <<"mavlink", "udp">>)

CoTFlow(cfg) ==
  Composed("cot", <<"projector", "decoder">>)
    \o Listening(cfg, <<"cot", "udp">>) \o Listening(cfg, <<"cot", "tcp">>)

\* Fault: the poller starts before what it feeds.
CAPFlowPollerFirst == Composed("cap", <<"poller", "projector", "decoder">>)

CAPFlow == Composed("cap", <<"projector", "decoder", "poller">>)

ADSBFlow == Composed("adsb", <<"projector", "decoder", "poller">>)

\* SAPIENT is a preflight without a projector.
SAPIENTFlow == Composed("sapient", <<"decoder", "poller">>)

If(cfg, flow, steps) == IF flow \in Enabled(cfg) THEN steps ELSE << >>

Startup(cfg) ==
  If(cfg, "mavlink", MAVLinkFlow(cfg)) \o If(cfg, "cot", CoTFlow(cfg))
    \o If(cfg, "cap", CAPFlow) \o If(cfg, "adsb", ADSBFlow) \o If(cfg, "sapient", SAPIENTFlow)

FirstPhaseOwners == <<"asset", "mavlink", "tak", "cap", "fusion">>

\* Fault: the contracts of ADS-B are not registered.
FirstPhaseOnly(cfg) == FirstPhaseOwners

RuntimeOwners(cfg) ==
  FirstPhaseOwners \o IF "adsb" \in Enabled(cfg) THEN <<"adsb">> ELSE << >>

\* The owners whose tokens the projector of a flow writes with.
WritesAs(flow) ==
  CASE flow = "mavlink" -> {"asset", "mavlink"}
    [] flow = "cot" -> {"asset", "tak"}
    [] flow = "cap" -> {"cap"}
    [] flow = "adsb" -> {"adsb"}
    [] OTHER -> {}

\* Close: the inputs, then the decoders, then the projectors.
StopOrder ==
  << <<"mavlink", "udp">>, <<"cot", "udp">>, <<"cot", "tcp">>, <<"cap", "poller">>,
     <<"adsb", "poller">>, <<"sapient", "poller">>,
     <<"mavlink", "decoder">>, <<"cot", "decoder">>, <<"cap", "decoder">>,
     <<"adsb", "decoder">>, <<"sapient", "decoder">>,
     <<"mavlink", "projector">>, <<"cot", "projector">>, <<"cap", "projector">>,
     <<"adsb", "projector">> >>

-----------------------------------------------------------------------------
Init ==
  /\ config \in Environments
  /\ pc = "load"
  /\ at = 1
  /\ tokens = {}
  /\ heartbeat = FALSE
  /\ client = "none"
  /\ recorded = {}
  /\ state = [c \in Components |-> "created"]
  /\ alive = {}
  /\ cancelled = FALSE
  /\ waiting = FALSE
  /\ failedStops = {}
  /\ signal = FALSE

Signal ==
  /\ ~signal
  /\ signal' = TRUE
  /\ UNCHANGED <<config, pc, at, tokens, heartbeat, client, recorded, state, alive,
                 cancelled, waiting, failedStops>>

\* main, and start once more, validate what was read before anything else is done.
Load ==
  /\ pc = "load"
  /\ IF Parses(config) /\ Validate(ConfigFromEnv(config))
     THEN pc' = "connect" /\ config' = ConfigFromEnv(config)
     ELSE pc' = "fatal" /\ config' = config
  /\ UNCHANGED <<at, tokens, heartbeat, client, recorded, state, alive, cancelled, waiting,
                 failedStops, signal>>

Connect ==
  /\ pc = "connect"
  /\ \/ client' = "connected" /\ pc' = "buckets"
     \/ client' = client /\ pc' = "failed"
  /\ UNCHANGED <<config, at, tokens, heartbeat, recorded, state, alive, cancelled,
                 waiting, failedStops, signal>>

\* Close begins: every component context ends at once.
Closes(how) ==
  /\ pc' = how
  /\ at' = 1
  /\ cancelled' = TRUE

\* The heartbeater runs before the first owner is bound.
EnsureBuckets ==
  /\ pc = "buckets"
  /\ \/ heartbeat' = TRUE /\ pc' = "owners" /\ UNCHANGED <<at, cancelled>>
     \/ heartbeat' = FALSE /\ Closes("cleanup")
  /\ UNCHANGED <<config, tokens, client, recorded, state, alive, waiting, failedStops, signal>>

BindOwner ==
  /\ pc = "owners"
  /\ tokens' = tokens \cup {RuntimeOwners(config)[at]}
  /\ IF at = Len(RuntimeOwners(config)) THEN pc' = "flows" /\ at' = 1
     ELSE pc' = pc /\ at' = at + 1
  /\ UNCHANGED <<config, heartbeat, client, recorded, state, alive, cancelled, waiting,
                 failedStops, signal>>

\* One owner is refused: registration fails as a whole.
BindFails ==
  /\ pc = "owners"
  /\ heartbeat' = FALSE
  /\ tokens' = {}
  /\ Closes("cleanup")
  /\ UNCHANGED <<config, client, recorded, state, alive, waiting, failedStops, signal>>

-----------------------------------------------------------------------------
AtStep(do) == pc = "flows" /\ at <= Len(Startup(config)) /\ Startup(config)[at].do = do

\* Fault: the App does not keep what it composed.
ComposeUnrecorded ==
  /\ AtStep("compose")
  /\ at' = at + 1
  /\ UNCHANGED <<config, pc, tokens, heartbeat, client, recorded, state, alive, cancelled,
                 waiting, failedStops, signal>>

ComposeStep ==
  /\ AtStep("compose")
  /\ recorded' = recorded \cup Startup(config)[at].of
  /\ at' = at + 1
  /\ UNCHANGED <<config, pc, tokens, heartbeat, client, state, alive, cancelled, waiting,
                 failedStops, signal>>

ComposeFails ==
  /\ AtStep("compose")
  /\ Closes("cleanup")
  /\ UNCHANGED <<config, tokens, heartbeat, client, recorded, state, alive, waiting,
                 failedStops, signal>>

StartStep ==
  /\ AtStep("start")
  /\ \E c \in Startup(config)[at].of :
       state' = [state EXCEPT ![c] = "started"] /\ alive' = alive \cup {c}
  /\ at' = at + 1
  /\ UNCHANGED <<config, pc, tokens, heartbeat, client, recorded, cancelled, waiting,
                 failedStops, signal>>

\* Listening or subscribing fails: the component holds nothing.
StartFails ==
  /\ AtStep("start")
  /\ \E c \in Startup(config)[at].of : state' = [state EXCEPT ![c] = "failed"]
  /\ Closes("cleanup")
  /\ UNCHANGED <<config, tokens, heartbeat, client, recorded, alive, waiting, failedStops, signal>>

\* start returns the App and main serves the API.
Serve ==
  /\ pc = "flows"
  /\ at > Len(Startup(config))
  /\ pc' = "serving"
  /\ UNCHANGED <<config, at, tokens, heartbeat, client, recorded, state, alive, cancelled,
                 waiting, failedStops, signal>>

\* The API cannot listen: log.Fatalf ends the process and skips the deferred calls.
ServeFails ==
  /\ pc = "flows"
  /\ at > Len(Startup(config))
  /\ pc' = "fatal"
  /\ alive' = {}
  /\ heartbeat' = FALSE
  /\ client' = "lost"
  /\ UNCHANGED <<config, at, tokens, recorded, state, cancelled, waiting, failedStops, signal>>

Terminate ==
  /\ pc = "serving"
  /\ signal
  /\ Closes("closing")
  /\ UNCHANGED <<config, tokens, heartbeat, client, recorded, state, alive, waiting,
                 failedStops, signal>>

-----------------------------------------------------------------------------
(* Close, component by component; each Stop gets what is left of the time.  *)

Closing == pc \in {"cleanup", "closing"} /\ at <= Len(StopOrder)
Stopping(c) == Closing /\ StopOrder[at] = c

Stoppable(c) == c \in recorded /\ state[c] = "started"

\* A component that is unknown or not started has nothing to stop.
SkipStop(c) ==
  /\ Stopping(c)
  /\ ~waiting
  /\ ~Stoppable(c)
  /\ at' = at + 1
  /\ UNCHANGED <<config, pc, tokens, heartbeat, client, recorded, state, alive, cancelled,
                 waiting, failedStops, signal>>

\* The decoders and projectors unsubscribe, which may fail.
Unsubscribe(c) ==
  /\ Stopping(c)
  /\ c \notin Inputs
  /\ Stoppable(c)
  /\ state' = [state EXCEPT ![c] = "stopped"]
  /\ \/ alive' = alive \ {c} /\ UNCHANGED failedStops
     \/ failedStops' = failedStops \cup {c} /\ UNCHANGED alive
  /\ at' = at + 1
  /\ UNCHANGED <<config, pc, tokens, heartbeat, client, recorded, cancelled, waiting, signal>>

\* An input is told to end and is then waited for.
StopInput(c) ==
  /\ Stopping(c)
  /\ c \in Inputs
  /\ Stoppable(c)
  /\ state' = [state EXCEPT ![c] = "stopped"]
  /\ waiting' = TRUE
  /\ UNCHANGED <<config, pc, at, tokens, heartbeat, client, recorded, alive, cancelled,
                 failedStops, signal>>

InputStopped(c) ==
  /\ Stopping(c)
  /\ waiting
  /\ c \notin alive
  /\ waiting' = FALSE
  /\ at' = at + 1
  /\ UNCHANGED <<config, pc, tokens, heartbeat, client, recorded, state, alive, cancelled,
                 failedStops, signal>>

\* Fault: a Stop that times out ends Close.
StopEndsClose(c) ==
  /\ Stopping(c)
  /\ waiting
  /\ waiting' = FALSE
  /\ failedStops' = failedStops \cup {c}
  /\ pc' = IF pc = "cleanup" THEN "failed" ELSE "exited"
  /\ UNCHANGED <<config, at, tokens, heartbeat, client, recorded, state, alive, cancelled, signal>>

\* Fault: Stop waits without a timeout.
StopWaits(c) == InputStopped(c)

\* Its goroutine takes longer than the time that is left.
StopTimesOut(c) ==
  /\ Stopping(c)
  /\ waiting
  /\ waiting' = FALSE
  /\ failedStops' = failedStops \cup {c}
  /\ at' = at + 1
  /\ UNCHANGED <<config, pc, tokens, heartbeat, client, recorded, state, alive, cancelled, signal>>

\* Then the heartbeater ends.
StopOwnership ==
  /\ pc \in {"cleanup", "closing"}
  /\ at = Len(StopOrder) + 1
  /\ heartbeat' = FALSE
  /\ at' = at + 1
  /\ UNCHANGED <<config, pc, tokens, client, recorded, state, alive, cancelled, waiting,
                 failedStops, signal>>

\* At last the client is closed, and every subscription with it.
CloseClient ==
  /\ pc \in {"cleanup", "closing"}
  /\ at = Len(StopOrder) + 2
  /\ client' = "closed"
  /\ alive' = alive \cap Publishers
  /\ pc' = IF pc = "cleanup" THEN "failed" ELSE "exited"
  /\ UNCHANGED <<config, at, tokens, heartbeat, recorded, state, cancelled, waiting,
                 failedStops, signal>>

\* Every accepted connection gets a goroutine of its own.
Accept ==
  /\ <<"cot", "tcp">> \in alive
  /\ alive' = alive \cup {Conn}
  /\ UNCHANGED <<config, pc, at, tokens, heartbeat, client, recorded, state, cancelled,
                 waiting, failedStops, signal>>

\* The goroutine of an input ends with its context; a listener's also at an error
\* of its socket, and nothing starts it again; a connection's with its peer.
LoopEnds(c) ==
  /\ c \in alive \cap Publishers
  /\ cancelled \/ c \in Listeners \cup {Conn}
  /\ alive' = alive \ {c}
  /\ UNCHANGED <<config, pc, at, tokens, heartbeat, client, recorded, state, cancelled,
                 waiting, failedStops, signal>>

-----------------------------------------------------------------------------
Starting ==
  \/ Load \/ Connect \/ EnsureBuckets \/ BindOwner \/ BindFails
  \/ ComposeStep \/ ComposeFails \/ StartStep \/ StartFails \/ Serve \/ ServeFails

StopStep(c) ==
  SkipStop(c) \/ Unsubscribe(c) \/ StopInput(c) \/ InputStopped(c) \/ StopTimesOut(c)

Main ==
  \/ Starting \/ Terminate \/ StopOwnership \/ CloseClient
  \/ \E c \in Components : StopStep(c)

Next == Main \/ Signal \/ Accept \/ \E c \in Publishers : LoopEnds(c)

\* Every call main makes returns, at the latest by a timeout of the bus client or of
\* Stop.  Nothing is assumed of the components' goroutines.
Spec == Init /\ [][Next]_vars /\ WF_vars(Main)

-----------------------------------------------------------------------------
Returned == {"failed", "exited"}

TypeOK ==
  /\ DOMAIN config = Settings
  /\ \A s \in Settings : config[s] \in Values(s)
  /\ pc \in Returned \cup {"load", "connect", "buckets", "owners", "flows", "serving", "fatal",
                           "cleanup", "closing"}
  /\ at \in Nat \ {0}
  /\ tokens \subseteq {"asset", "mavlink", "tak", "cap", "fusion", "adsb"}
  /\ heartbeat \in BOOLEAN
  /\ client \in {"none", "connected", "closed", "lost"}
  /\ recorded \subseteq Components
  /\ state \in [Components -> {"created", "started", "stopped", "failed"}]
  /\ alive \subseteq recorded \cup {Conn}
  /\ cancelled \in BOOLEAN
  /\ waiting \in BOOLEAN
  /\ waiting => Closing /\ StopOrder[at] \in Inputs
  /\ failedStops \subseteq recorded
  /\ signal \in BOOLEAN

\* What runs, runs as it was configured: an operator's number that no component can
\* work with is refused before the bus is connected, never replaced by a component's
\* own default nor found out when half of the flows have started.
RunsAsConfigured ==
  client # "none" =>
    \A i \in DOMAIN Startup(config) : \A c \in Startup(config)[i].of :
      /\ ~Refuses(config, c)
      /\ \A s \in SettingsOf(c) : Effective(config, c, s) = config[s]

\* Until Close an input or connection that runs finds the processors of its flow
\* subscribed: what it publishes on the bus is never published into the void.
InputsAreHeard ==
  ~cancelled =>
    \A c \in alive \cap Publishers :
      /\ <<c[1], "decoder">> \in alive
      /\ c[1] = "sapient" \/ <<c[1], "projector">> \in alive

\* A projector is subscribed only while its owners' tokens are bound and their
\* heartbeat goes on, through all of Close unless it could not be unsubscribed.
WritersAreOwned ==
  \A c \in alive : c[2] = "projector" =>
    /\ WritesAs(c[1]) \subseteq tokens
    /\ heartbeat \/ c \in failedStops

\* When start has failed, or Close has returned, then whatever failed or timed out on
\* the way nothing of the App goes on but inputs whose Stop said so, and connections
\* of the CoT TCP input, for which its Stop does not wait.
ClosedIsQuiet ==
  pc \in Returned =>
    /\ \A c \in Components : state[c] # "started"
    /\ alive \ {Conn} \subseteq failedStops
    /\ ~heartbeat
    /\ client # "connected"

\* A process that was asked to terminate does, however it is started and whatever
\* its components' goroutines do.
SignalEnds == signal ~> pc \in Returned \cup {"fatal"}
=============================================================================
