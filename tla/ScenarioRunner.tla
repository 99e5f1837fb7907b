---------------------------- MODULE ScenarioRunner ----------------------------
(***************************************************************************)
(* The scenario runner (internal/scenario, cmd/semops-scenario-runner): a   *)
(* process that plays a fixture of observations of all feeds into the graph *)
(* once, on startup, beside the hosted projectors.                          *)
(*                                                                         *)
(* It is one more writer of FeedProjector.  Its MAVLink, CoT and ADS-B steps *)
(* go through adapters that reconcile births as the hosted projectors do;   *)
(* its CAP steps apply their plan directly, without reconciliation.  The    *)
(* first step that fails ends the run.  A status that HTTP clients poll     *)
(* (/healthz, /scenario/status) follows the run.                            *)
(***************************************************************************)
EXTENDS FeedProjector

CONSTANTS
  Runner,      \* the writer that plays the fixture
  Fixture,     \* its observations, in the order they are played
  FeedOf,      \* FeedOf[m]: the feed of an observation
  SinkChoices  \* sets of feeds a runner may have been given sinks for

ASSUME ScenarioAssumption ==
  /\ Runner \in Writers
  /\ Fixture \in Seq(Messages)
  /\ \A i \in DOMAIN Fixture : Fixture[i] \in Accepts[Runner]

\* The fixture is built into the program: each of its observations is one that its projector
\* takes, and no other feed and no hosted projector is given anything about the hazards of
\* its alerts.
ASSUME FixtureAssumption ==
  \A i \in DOMAIN Fixture :
    /\ Fixture[i] \notin Malformed
    /\ Fixture[i] \in Direct[Runner] =>
         \A w \in Writers : \A m \in Accepts[w] :
           Ids(m) \cap Ids(Fixture[i]) # {} => w = Runner /\ m \in Direct[Runner]

VARIABLES
  sinks,    \* the feeds this runner has a sink for
  status,   \* what the runner tells of its run
  inStep,   \* a step of the run is with its adapter
  past      \* history: "none", "replayed" after a run that succeeded, or "fault" after
            \* a request not answered as it should, or a run broken off

runVars == <<sinks, status, inStep, past>>
scenarioVars == <<vars, runVars>>

Status == [state : {"idle", "running", "succeeded", "failed"},
           completed : 0 .. Len(Fixture), failed : 0 .. 1]

NotRun == [state |-> "idle", completed |-> 0, failed |-> 0]

ScenarioInit ==
  /\ Init
  /\ sinks \in SinkChoices
  /\ status = NotRun
  /\ inStep = FALSE
  /\ past = "none"

-----------------------------------------------------------------------------
(* The run.                                                                *)

\* requireSinks: without a sink for each of its feeds the run does not start.
HasSinks == \A i \in DOMAIN Fixture : FeedOf[Fixture[i]] \in sinks

BeginRun ==
  /\ status.state = "idle"
  /\ HasSinks
  /\ status' = [NotRun EXCEPT !.state = "running"]
  /\ UNCHANGED <<vars, sinks, inStep, past>>

BetweenSteps == status.state = "running" /\ ~inStep /\ status.failed = 0

Feeds == {"mavlink", "cot", "cap", "adsb"}

\* The next step hands its observation to the adapter of its feed, which keeps the raw
\* bytes, parses and projects them as the hosted decoder and projector do, or, parsed, to
\* the CAP projector.
Play(feed) ==
  /\ BetweenSteps
  /\ status.completed < Len(Fixture)
  /\ FeedOf[Fixture[status.completed + 1]] = feed
  /\ Receive(Runner, Fixture[status.completed + 1])
  /\ inStep' = TRUE
  /\ UNCHANGED <<sinks, status, past>>

StartStep == \E feed \in Feeds : Play(feed)

\* The run's context ended before the step, or the adapter could not keep the raw bytes.
StepBreaks ==
  /\ BetweenSteps
  /\ status.completed < Len(Fixture)
  /\ status' = [status EXCEPT !.failed = 1]
  /\ past' = "fault"
  /\ UNCHANGED <<vars, sinks, inStep>>

\* Fault: a step counts as completed however it ended.
FinishAnyStep ==
  /\ inStep
  /\ pc[Runner] \in Ended
  /\ status' = [status EXCEPT !.completed = @ + 1]
  /\ inStep' = FALSE
  /\ UNCHANGED <<vars, sinks, past>>

\* The step returns, with or without an error; an observation of which nothing is to be
\* written is no error.
FinishStep ==
  /\ inStep
  /\ pc[Runner] \in Ended
  /\ status' = IF pc[Runner] \in {"written", "empty"} THEN [status EXCEPT !.completed = @ + 1]
               ELSE [status EXCEPT !.failed = 1]
  /\ inStep' = FALSE
  /\ UNCHANGED <<vars, sinks, past>>

\* failReport: until then a failed run is seen as running.
FailRun ==
  /\ status.state = "running"
  /\ status.failed = 1
  /\ status' = [status EXCEPT !.state = "failed"]
  /\ UNCHANGED <<vars, sinks, inStep, past>>

SucceedRun ==
  /\ BetweenSteps
  /\ status.completed = Len(Fixture)
  /\ status' = [status EXCEPT !.state = "succeeded"]
  /\ UNCHANGED <<vars, sinks, inStep, past>>

-----------------------------------------------------------------------------
(* The runner as a writer.                                                 *)

RunnerProceeds ==
  Send(Runner) \/ OnSuccess(Runner) \/ OnExists(Runner) \/ OnExistsDirect(Runner)

\* A request that was not answered in time, was refused, or was called off.
RunnerFaults == Resend(Runner) \/ GiveUp(Runner) \/ OnRefusal(Runner)

\* The process ends and is started again: it plays its fixture from the start.
RestartRunner ==
  /\ status # NotRun
  /\ Restart(Runner)
  /\ status' = NotRun
  /\ inStep' = FALSE
  /\ past' = IF status.state = "succeeded" /\ past = "none" THEN "replayed" ELSE "fault"
  /\ UNCHANGED sinks

ScenarioNext ==
  \/ BeginRun
  \/ StartStep
  \/ StepBreaks
  \/ FinishStep
  \/ FailRun
  \/ SucceedRun
  \/ RunnerProceeds /\ UNCHANGED runVars
  \/ (RunnerFaults \/ Cancel(Runner)) /\ past' = "fault" /\ UNCHANGED <<sinks, status, inStep>>
  \/ RestartRunner
  \/ \E w \in Writers \ {Runner} :
       /\ \/ \E m \in Messages : Receive(w, m)
          \/ Proceed(w) \/ Cancel(w) \/ Restart(w)
       /\ UNCHANGED runVars
  \/ \E r \in wire :
       /\ Reject(r) \/ \E delivered \in BOOLEAN : Serve(r, delivered)
       /\ UNCHANGED runVars

ScenarioSpec == ScenarioInit /\ [][ScenarioNext]_scenarioVars

\* The run's goroutine is scheduled and its requester's timeouts fire; nothing is asked of the
\* graph, of the transport or of the other handlers.
RunStep ==
  \/ BeginRun \/ StartStep \/ FinishStep \/ FailRun \/ SucceedRun
  \/ RunnerProceeds /\ UNCHANGED runVars
  \/ RunnerFaults /\ past' = "fault" /\ UNCHANGED <<sinks, status, inStep>>

ScenarioFairSpec == ScenarioSpec /\ WF_scenarioVars(RunStep)

-----------------------------------------------------------------------------
\* The run and the status agree: a step is with its adapter only while the run goes on, and
\* a handler of the runner is at work only within a step.
RunTypeOK ==
  /\ TypeOK
  /\ status \in Status
  /\ inStep => status.state = "running" /\ status.failed = 0 /\ status.completed < Len(Fixture)
  /\ pc[Runner] \in Running => inStep /\ msg[Runner] = Fixture[status.completed + 1]

InGraph(m) ==
  \A i \in DOMAIN Steps[m] :
    LET s == Steps[m][i] IN s.id \in exists /\ (s.once \/ m \in applied[s.id])

\* The polled status tells the truth about the graph: every completed step is in it, and a
\* runner reports success (/healthz) only when its whole fixture is.
ReportedIsInGraph ==
  /\ \A i \in 1 .. status.completed : InGraph(Fixture[i])
  /\ status.state = "succeeded" => \A i \in DOMAIN Fixture : InGraph(Fixture[i])

\* A runner whose requests are all answered plays its fixture to the end, whatever the
\* hosted projectors write and lose beside it: a snapshot of at least as many aircraft as
\* there are attempts excepted, and a CAP alert when the fixture was played before.
FaultlessRunSucceeds ==
  status.failed = 1 =>
    \/ past = "fault"
    \/ past = "replayed" /\ Fixture[status.completed + 1] \in Direct[Runner]
    \/ \E i \in DOMAIN Fixture : Cardinality(Ids(Fixture[i])) >= Attempts

\* A run that has started ends, whatever the graph and the transport do.
RunEnds == (status.state = "running") ~> (status.state # "running")

\* What the deployment's requirements say of the service: it replays the scenario on
\* startup, also when it is started again on the graph it wrote.
ReplaysOnStartup == status.state = "failed" => past = "fault"
=============================================================================
