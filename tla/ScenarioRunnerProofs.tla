-------------------------- MODULE ScenarioRunnerProofs --------------------------
(***************************************************************************)
(* The scenario runner is a writer like any other, so what is proved of the *)
(* projectors holds beside it; and the status it reports is true.           *)
(***************************************************************************)
EXTENDS ScenarioRunner, FeedProjectorProofs

\* The step the run is at is handled by its adapter.
AtStep == inStep => msg[Runner] = Fixture[status.completed + 1]

\* Nothing is to be written only of what is written already.
EmptyIsInGraph == inStep /\ pc[Runner] = "empty" => InGraph(Fixture[status.completed + 1])

CompletedInGraph == \A i \in 1 .. status.completed : InGraph(Fixture[i])

\* The inductive invariant: that of the projectors, and the state of the run.
RunInv ==
  /\ IInv
  /\ RunTypeOK
  /\ AtStep
  /\ EmptyIsInGraph
  /\ CompletedInGraph
  /\ status.state = "succeeded" => status.completed = Len(Fixture)

-----------------------------------------------------------------------------
(* A step of the scenario is a step of the projectors.                     *)

OfWriter(w) ==
  \/ \E m \in Messages : Receive(w, m)
  \/ Proceed(w) \/ Cancel(w) \/ Restart(w)

\* What the runner does as a writer is what any writer does.
LEMMA RunnerIsWriter ==
  ASSUME StartStep \/ RunnerProceeds \/ RunnerFaults \/ Cancel(Runner) \/ RestartRunner
  PROVE  OfWriter(Runner)
<1>1. CASE StartStep
  <2>1. Fixture[status.completed + 1] \in Messages
    BY <1>1, StepsAssumption, ScenarioAssumption DEF StartStep, Play, Receive
  <2>2. QED
    BY <1>1, <2>1 DEF StartStep, Play, OfWriter
<1>2. CASE RunnerProceeds \/ RunnerFaults
  BY <1>2 DEF RunnerProceeds, RunnerFaults, OfWriter, Proceed
<1>3. CASE Cancel(Runner) \/ RestartRunner
  BY <1>3 DEF RestartRunner, OfWriter
<1>4. QED
  BY <1>1, <1>2, <1>3

LEMMA StepImplements == [ScenarioNext]_scenarioVars => [Next]_vars
<1> SUFFICES ASSUME [ScenarioNext]_scenarioVars PROVE [Next]_vars
  OBVIOUS
<1>1. CASE UNCHANGED scenarioVars
  BY <1>1 DEF scenarioVars
<1>2. CASE BeginRun \/ StepBreaks \/ FinishStep \/ FailRun \/ SucceedRun
  BY <1>2 DEF BeginRun, StepBreaks, FinishStep, FailRun, SucceedRun
<1>3. CASE StartStep \/ RunnerProceeds \/ RunnerFaults \/ Cancel(Runner) \/ RestartRunner
  BY <1>3, RunnerIsWriter, ScenarioAssumption DEF OfWriter, Next
<1>4. CASE \E w \in Writers \ {Runner} : OfWriter(w)
  BY <1>4 DEF OfWriter, Next
<1>5. CASE \E r \in wire : Reject(r) \/ \E delivered \in BOOLEAN : Serve(r, delivered)
  BY <1>5 DEF Next
<1>6. QED
  BY <1>1, <1>2, <1>3, <1>4, <1>5 DEF ScenarioNext, OfWriter

\* The scenario runner beside the hosted projectors implements the projectors of
\* FeedProjector: with it, all that is proved of them holds in its presence.
THEOREM RunnerIsProjector == ScenarioSpec => Spec
<1>1. ScenarioInit => Init
  BY DEF ScenarioInit
<1>2. QED
  BY <1>1, StepImplements, PTL DEF ScenarioSpec, Spec

\* The born-first graph is implemented in the presence of the scenario runner.
THEOREM RunnerKeepsBornFirst == ScenarioSpec => ImplementsBornFirst
BY RunnerIsProjector, Refinement, PTL

-----------------------------------------------------------------------------
(* The status.                                                             *)

\* What is in the graph stays there.
LEMMA InGraphStays ==
  ASSUME TypeOK, [Next]_vars, NEW m \in Messages, InGraph(m)
  PROVE  InGraph(m)'
<1>1. exists \subseteq exists' /\ \A e \in Entities : applied[e] \subseteq applied'[e]
  BY GraphGrows
<1>2. \A i \in DOMAIN Steps[m] : Steps[m][i].id \in Entities
  BY StepFacts
<1>3. QED
  BY <1>1, <1>2 DEF InGraph

LEMMA FixtureFacts ==
  ASSUME NEW i \in 1 .. Len(Fixture)
  PROVE  Fixture[i] \in Messages
BY ScenarioAssumption

\* A plan without mutations is one for an observation that is in the graph.
LEMMA NothingToDo ==
  ASSUME TypeOK, NEW m \in Messages, born[Runner] \subseteq exists, Plan(m, born[Runner]) = {}
  PROVE  InGraph(m)
BY AllDone DEF InGraph

\* While only others act, the runner's handler keeps its place.
LEMMA RunUntouched ==
  ASSUME RunInv, [Next]_vars, IInv',
         pc'[Runner] = pc[Runner], msg'[Runner] = msg[Runner], UNCHANGED runVars
  PROVE  RunInv'
<1>1. \A i \in 1 .. Len(Fixture) : InGraph(Fixture[i]) => InGraph(Fixture[i])'
  BY InGraphStays, FixtureFacts DEF RunInv, RunTypeOK
<1>2. status' = status /\ inStep' = inStep
  BY DEF runVars
<1>3. RunTypeOK'
  BY <1>2 DEF RunInv, RunTypeOK, IInv
<1>4. AtStep'
  BY <1>2 DEF RunInv, AtStep
<1>5. Len(Fixture) \in Nat /\ status.completed \in 0 .. Len(Fixture)
  BY ScenarioAssumption DEF RunInv, RunTypeOK, Status
<1>6. inStep => status.completed + 1 \in 1 .. Len(Fixture)
  BY <1>5 DEF RunInv, RunTypeOK
<1>7. EmptyIsInGraph'
  BY <1>1, <1>2, <1>6 DEF RunInv, EmptyIsInGraph
<1>8. CompletedInGraph'
  BY <1>1, <1>2, <1>5 DEF RunInv, CompletedInGraph
<1>9. QED
  BY <1>2, <1>3, <1>4, <1>7, <1>8 DEF RunInv

\* A step that starts: its handler is at work, or has nothing to do, or refuses.
LEMMA StartStepInv == RunInv /\ StartStep /\ IInv' => RunInv'
<1> SUFFICES ASSUME RunInv, StartStep, IInv' PROVE RunInv'
  OBVIOUS
<1> DEFINE k == status.completed + 1
<1>1. /\ Len(Fixture) \in Nat /\ k \in 1 .. Len(Fixture)
      /\ status' = status /\ inStep' = TRUE /\ Receive(Runner, Fixture[k])
      /\ status.state = "running" /\ status.failed = 0
  BY ScenarioAssumption DEF RunInv, RunTypeOK, Status, StartStep, Play, BetweenSteps
<1>2. Fixture[k] \in Messages /\ Runner \in Writers
  BY <1>1, FixtureFacts, ScenarioAssumption
<1>3. TypeOK /\ TypeOK' /\ born[Runner] \subseteq exists
  BY <1>2 DEF RunInv, IInv, BornInGraph
<1>4. msg'[Runner] = Fixture[k] /\ exists' = exists /\ applied' = applied /\ born' = born
  BY <1>1, <1>2, <1>3 DEF Receive, TypeOK, graph
<1>5. pc'[Runner] = "empty" => Plan(Fixture[k], born[Runner]) = {}
  BY <1>1, <1>2, <1>3 DEF Receive, Ends, Begins, TypeOK
<1>6. pc'[Runner] = "empty" => InGraph(Fixture[k])
  BY <1>2, <1>3, <1>5, NothingToDo
<1>7. InGraph(Fixture[k]) => InGraph(Fixture[k])'
  BY <1>1, <1>4 DEF InGraph
<1>8. EmptyIsInGraph' /\ AtStep'
  BY <1>1, <1>4, <1>6, <1>7 DEF EmptyIsInGraph, AtStep
<1>9. CompletedInGraph'
  BY <1>1, <1>4 DEF RunInv, CompletedInGraph, InGraph
<1>10. RunTypeOK'
  BY <1>1, <1>3, <1>4 DEF RunInv, RunTypeOK, Status
<1>11. QED
  BY <1>1, <1>8, <1>9, <1>10 DEF RunInv

\* The runner at its mutations: it stays at its step.
LEMMA RunnerStepInv ==
  RunInv /\ (RunnerProceeds \/ RunnerFaults \/ Cancel(Runner)) /\ UNCHANGED <<status, inStep>> /\ IInv'
    => RunInv'
<1> SUFFICES ASSUME RunInv, RunnerProceeds \/ RunnerFaults \/ Cancel(Runner),
                    status' = status, inStep' = inStep, IInv'
             PROVE  RunInv'
  OBVIOUS
<1>1. OfWriter(Runner) /\ Runner \in Writers
  BY RunnerIsWriter, ScenarioAssumption
<1>2. TypeOK /\ TypeOK' /\ [Next]_vars
  BY <1>1 DEF RunInv, IInv, OfWriter, Next
<1>3. pc[Runner] \in Running
  BY DEF RunnerProceeds, RunnerFaults, Send, Resend, OnSuccess, OnExists, OnExistsDirect,
         GiveUp, OnRefusal, Cancel, Running
<1>4. msg' = msg
  BY DEF RunnerProceeds, RunnerFaults, Send, Resend, OnSuccess, OnExists, OnExistsDirect,
         GiveUp, OnRefusal, Cancel, Abandon
<1>5. pc'[Runner] \notin {"empty", "ready"}
  BY <1>1, <1>2 DEF TypeOK, RunnerProceeds, RunnerFaults, Send, Resend, OnSuccess, OnExists, OnExistsDirect,
         GiveUp, OnRefusal, Cancel, Abandon, Ends, Begins, Running
<1>6. inStep /\ msg[Runner] = Fixture[status.completed + 1]
  BY <1>3 DEF RunInv, RunTypeOK
<1>7. RunTypeOK'
  BY <1>2, <1>4, <1>6 DEF RunInv, RunTypeOK
<1>8. AtStep' /\ EmptyIsInGraph'
  BY <1>4, <1>5, <1>6 DEF AtStep, EmptyIsInGraph
<1>9. \A i \in 1 .. Len(Fixture) : InGraph(Fixture[i]) => InGraph(Fixture[i])'
  BY <1>2, InGraphStays, FixtureFacts
<1>10. CompletedInGraph'
  BY <1>9, ScenarioAssumption DEF RunInv, RunTypeOK, Status, CompletedInGraph
<1>11. QED
  BY <1>7, <1>8, <1>10 DEF RunInv

\* A step that finishes without an error has put its observation into the graph.
LEMMA FinishStepInv == RunInv /\ FinishStep => RunInv'
<1> SUFFICES ASSUME RunInv, FinishStep PROVE RunInv'
  OBVIOUS
<1> DEFINE k == status.completed + 1
<1>1. /\ Len(Fixture) \in Nat /\ k \in 1 .. Len(Fixture) /\ Runner \in Writers
      /\ status \in Status /\ status.state = "running" /\ status.failed = 0
      /\ UNCHANGED vars /\ inStep' = FALSE /\ msg[Runner] = Fixture[k] /\ pc[Runner] \notin Running
      /\ inStep
  BY ScenarioAssumption DEF RunInv, RunTypeOK, AtStep, Status, FinishStep, Running, Ended
<1>2. pc[Runner] \in {"written", "empty"} => InGraph(Fixture[k])
  BY <1>1 DEF RunInv, IInv, WrittenIsApplied, InGraph, EmptyIsInGraph
<1>3. \A i \in 1 .. Len(Fixture) : InGraph(Fixture[i]) <=> InGraph(Fixture[i])'
  BY <1>1 DEF vars, InGraph
<1>4. /\ status' \in Status
      /\ status'.state = "running"
      /\ status'.completed \in 0 .. Len(Fixture)
      /\ \A i \in 1 .. status'.completed : InGraph(Fixture[i])
  <2>1. CASE pc[Runner] \in {"written", "empty"}
    <3>1. status' = [status EXCEPT !.completed = @ + 1]
      BY <2>1 DEF FinishStep
    <3>2. QED
      BY <1>1, <1>2, <2>1, <3>1 DEF RunInv, CompletedInGraph, Status
  <2>2. CASE pc[Runner] \notin {"written", "empty"}
    <3>1. status' = [status EXCEPT !.failed = 1]
      BY <2>2 DEF FinishStep
    <3>2. QED
      BY <1>1, <3>1 DEF RunInv, CompletedInGraph, Status
  <2>3. QED
    BY <2>1, <2>2
<1>5. CompletedInGraph'
  BY <1>1, <1>3, <1>4 DEF CompletedInGraph
<1>6. IInv'
  BY <1>1 DEF RunInv, IInv, vars, TypeOK, Unborn, BornInGraph, UpdatesLand, StrictEdges, PlanDone,
              ReplySound, WrittenIsApplied, Mutation, Kind
<1>7. RunTypeOK'
  BY <1>1, <1>4, <1>6 DEF RunInv, RunTypeOK, IInv, vars
<1>8. QED
  BY <1>1, <1>4, <1>5, <1>6, <1>7 DEF RunInv, AtStep, EmptyIsInGraph

\* The other steps of the run.
LEMMA RunStepInv ==
  RunInv /\ (BeginRun \/ StepBreaks \/ FailRun \/ SucceedRun) /\ IInv' => RunInv'
<1> SUFFICES ASSUME RunInv, BeginRun \/ StepBreaks \/ FailRun \/ SucceedRun, IInv' PROVE RunInv'
  OBVIOUS
<1>1. Len(Fixture) \in Nat /\ status \in Status
  BY ScenarioAssumption DEF RunInv, RunTypeOK
<1>2. UNCHANGED vars /\ inStep' = inStep
  BY DEF BeginRun, StepBreaks, FailRun, SucceedRun
<1>3. /\ status' \in Status
      /\ status'.completed \in {0, status.completed}
      /\ status'.state = "succeeded" => status'.completed = Len(Fixture)
  BY <1>1 DEF RunInv, Status, BeginRun, StepBreaks, FailRun, SucceedRun, BetweenSteps, NotRun
<1>4. ~inStep
  BY <1>1 DEF RunInv, RunTypeOK, Status, BeginRun, StepBreaks, FailRun, SucceedRun, BetweenSteps
<1>5. CompletedInGraph'
  BY <1>1, <1>2, <1>3 DEF RunInv, CompletedInGraph, InGraph, vars, Status
<1>6. RunTypeOK'
  BY <1>2, <1>3, <1>4 DEF RunInv, RunTypeOK, IInv, vars
<1>7. QED
  BY <1>2, <1>3, <1>4, <1>5, <1>6 DEF RunInv, AtStep, EmptyIsInGraph

LEMMA RestartInv == RunInv /\ RestartRunner /\ IInv' => RunInv'
<1> SUFFICES ASSUME RunInv, RestartRunner, IInv' PROVE RunInv'
  OBVIOUS
<1>1. /\ Len(Fixture) \in Nat /\ Runner \in Writers /\ TypeOK
      /\ status' = NotRun /\ inStep' = FALSE /\ Restart(Runner)
  BY ScenarioAssumption DEF RunInv, RunTypeOK, RestartRunner
<1>2. pc'[Runner] = "ready"
  BY <1>1 DEF Restart, Ends, TypeOK
<1>3. QED
  BY <1>1, <1>2 DEF RunInv, RunTypeOK, IInv, Status, NotRun, AtStep, EmptyIsInGraph, CompletedInGraph, Running

LEMMA RunInvStep == RunInv /\ [ScenarioNext]_scenarioVars => RunInv'
<1> SUFFICES ASSUME RunInv, [ScenarioNext]_scenarioVars PROVE RunInv'
  OBVIOUS
<1>1. [Next]_vars /\ TypeOK /\ Runner \in Writers
  BY StepImplements, ScenarioAssumption DEF RunInv, IInv
<1>2. IInv'
  BY <1>1, IInvStep DEF RunInv
<1>3. CASE UNCHANGED scenarioVars
  BY <1>1, <1>2, <1>3, RunUntouched DEF scenarioVars, vars
<1>4. CASE BeginRun \/ StepBreaks \/ FailRun \/ SucceedRun
  BY <1>2, <1>4, RunStepInv
<1>5. CASE StartStep \/ FinishStep \/ RestartRunner
  BY <1>2, <1>5, StartStepInv, FinishStepInv, RestartInv
<1>6. CASE RunnerProceeds /\ UNCHANGED runVars
  BY <1>2, <1>6, RunnerStepInv DEF runVars
<1>7. CASE (RunnerFaults \/ Cancel(Runner)) /\ past' = "fault" /\ UNCHANGED <<sinks, status, inStep>>
  BY <1>2, <1>7, RunnerStepInv
<1>8. CASE \E w \in Writers \ {Runner} : OfWriter(w) /\ UNCHANGED runVars
  <2>1. PICK w \in Writers \ {Runner} : OfWriter(w) /\ UNCHANGED runVars
    BY <1>8
  <2>2. pc'[Runner] = pc[Runner] /\ msg'[Runner] = msg[Runner]
    BY <1>1, <2>1, OthersUntouched DEF OfWriter
  <2>3. QED
    BY <1>1, <1>2, <2>1, <2>2, RunUntouched
<1>9. CASE \E r \in wire : /\ Reject(r) \/ \E delivered \in BOOLEAN : Serve(r, delivered)
                         /\ UNCHANGED runVars
  <2>1. pc'[Runner] = pc[Runner] /\ msg'[Runner] = msg[Runner]
    BY <1>9 DEF Reject, Serve, handler
  <2>2. QED
    BY <1>1, <1>2, <1>9, <2>1, RunUntouched
<1>10. QED
  BY <1>3, <1>4, <1>5, <1>6, <1>7, <1>8, <1>9 DEF ScenarioNext, OfWriter

LEMMA RunInvInit == ScenarioInit => RunInv
<1> SUFFICES ASSUME ScenarioInit PROVE RunInv
  OBVIOUS
<1>1. IInv /\ Init
  BY IInvInit DEF ScenarioInit
<1>2. pc[Runner] = "ready"
  BY <1>1, ScenarioAssumption DEF Init
<1>3. Len(Fixture) \in Nat
  BY ScenarioAssumption
<1>4. QED
  BY <1>1, <1>2, <1>3 DEF ScenarioInit, RunInv, RunTypeOK, IInv, Status, NotRun, AtStep, EmptyIsInGraph,
     CompletedInGraph, Running

\* The status, the step the run is at and the runner's handler agree in every state.
THEOREM RunTypeCorrect == ScenarioSpec => []RunTypeOK
<1>1. RunInv => RunTypeOK
  BY DEF RunInv
<1>2. QED
  BY <1>1, RunInvInit, RunInvStep, PTL DEF ScenarioSpec

\* Every step that the status counts as completed is in the graph, and the whole fixture is
\* when it reports success, whatever the requests, the hosted projectors and restarts do.
THEOREM StatusIsTrue == ScenarioSpec => []ReportedIsInGraph
<1>1. RunInv => ReportedIsInGraph
  <2>1. DOMAIN Fixture = 1 .. Len(Fixture)
    BY ScenarioAssumption
  <2>2. QED
    BY <2>1 DEF RunInv, CompletedInGraph, ReportedIsInGraph
<1>2. QED
  BY <1>1, RunInvInit, RunInvStep, PTL DEF ScenarioSpec

-----------------------------------------------------------------------------
(* A run without faults.  The only births that a runner does not reconcile  *)
(* are those of the hazards of its alerts.  As long as no request of it was  *)
(* repeated or given up and it was not restarted, it knows of each of these  *)
(* hazards whether the graph has it.                                        *)

\* The hazards of the fixture's alerts.
OwnHazards == UNION {Ids(Fixture[i]) : i \in {j \in DOMAIN Fixture : Fixture[j] \in Direct[Runner]}}

\* The runner's plan has written e, or has asked for it, with success or without an answer.
WrittenUnderWay(e) ==
  \/ /\ pc[Runner] \in Running
     /\ \E i \in Plan(msg[Runner], born[Runner]) \ todo[Runner] : Steps[msg[Runner]][i].id = e
  \/ /\ pc[Runner] = "wait" /\ reply[Runner] \in {"none", "ok"}
     /\ Mutation(Runner).id = e /\ Mutation(Runner) \notin wire

\* A request about an own hazard is the one the runner waits for.
OwnRequests ==
  \A r \in wire : r.id \in OwnHazards =>
    pc[Runner] = "wait" /\ reply[Runner] = "none" /\ r = Mutation(Runner)

\* An own hazard in the graph is in the born set, or about to be.
OwnBirths == \A e \in OwnHazards \cap exists : e \in born[Runner] \/ WrittenUnderWay(e)

OwnReply ==
  pc[Runner] = "wait" /\ reply[Runner] = "entity_exists" => Mutation(Runner).id \notin OwnHazards

FirstRun == OwnRequests /\ OwnBirths /\ OwnReply

\* A projector works on what it was handed.
HandedOver == \A w \in Writers : msg[w] \in Accepts[w] \cup {NoMessage}

\* A plan is applied from its first step to its last.
InOrder ==
  \A w \in Writers : pc[w] \in Running =>
    \A i \in Plan(msg[w], born[w]) \ todo[w] : \A j \in todo[w] : i < j

\* A step of the run fails by a fault, or by an alert that was played before.
StepEnds ==
  inStep =>
    /\ pc[Runner] \notin {"ready", "refused"}
    /\ pc[Runner] = "failed" =>
         past = "fault" \/ (past = "replayed" /\ Fixture[status.completed + 1] \in Direct[Runner])

FaultlessInv ==
  /\ RunInv /\ CountInv /\ HandedOver /\ InOrder /\ StepEnds
  /\ past \in {"none", "replayed", "fault"}
  /\ past = "none" => FirstRun
  /\ FaultlessRunSucceeds

\* Nobody else writes the hazards of the fixture's alerts.
LEMMA OwnFacts ==
  ASSUME NEW e \in OwnHazards, NEW w \in Writers, NEW m \in Accepts[w], e \in Ids(m)
  PROVE  w = Runner /\ m \in Direct[Runner]
<1>1. PICK i \in DOMAIN Fixture : Fixture[i] \in Direct[Runner] /\ e \in Ids(Fixture[i])
  BY DEF OwnHazards
<1>2. Ids(m) \cap Ids(Fixture[i]) # {}
  BY <1>1
<1>3. QED
  BY <1>1, <1>2, FixtureAssumption

\* The births of a plan are all the entities of its observation that are not born.
LEMMA BirthsCover ==
  ASSUME NEW m \in Messages, NEW b, NEW e \in Ids(m), e \notin b
  PROVE  e \in Births(m, b)
<1> DEFINE T == {i \in DOMAIN Steps[m] : Steps[m][i].id = e}
<1>1. T \subseteq Nat /\ T # {}
  BY StepFacts DEF Ids
<1>2. PICK i \in T : \A j \in T : i <= j
  BY <1>1, LeastExists
<1>3. \A j \in 1 .. (i - 1) : Steps[m][j].id # e
  <2>1. ASSUME NEW j \in 1 .. (i - 1) PROVE j \in DOMAIN Steps[m] /\ ~(i <= j)
    <3>1. i \in 1 .. Len(Steps[m]) /\ Len(Steps[m]) \in Nat /\ DOMAIN Steps[m] = 1 .. Len(Steps[m])
      BY StepsAssumption
    <3>2. QED
      BY <3>1
  <2>2. QED
    BY <1>2, <2>1
<1>4. e \notin WorkingCopy(m, b, i)
  BY <1>3 DEF WorkingCopy
<1>5. MutationKind(m, b, i) = "create" /\ i \in DOMAIN Steps[m] /\ Steps[m][i].id = e
  BY <1>4 DEF MutationKind
<1>6. QED
  BY <1>5 DEF Births

\* What a projector works on changes by a delivery or a restart only.
LEMMA HandedOverStep == ASSUME TypeOK, HandedOver, [Next]_vars PROVE HandedOver'
<1>1. ASSUME NEW w \in Writers, NEW m \in Messages, Receive(w, m) PROVE HandedOver'
  BY <1>1 DEF HandedOver, TypeOK, Receive
<1>2. ASSUME NEW w \in Writers, Restart(w) PROVE HandedOver'
  BY <1>2 DEF HandedOver, TypeOK, Restart
<1>3. ASSUME NEW w \in Writers, Proceed(w) \/ Cancel(w) PROVE HandedOver'
  <2>1. msg' = msg
    BY <1>3 DEF Proceed, Send, Resend, GiveUp, OnSuccess, OnExists, OnExistsDirect, OnRefusal,
                Cancel, Abandon
  <2>2. QED
    BY <2>1 DEF HandedOver
<1>4. CASE UNCHANGED handler \/ UNCHANGED vars
  BY <1>4 DEF HandedOver, handler, vars
<1>5. QED
  BY <1>1, <1>2, <1>3, <1>4 DEF Next, Serve, Reject

\* One handler's part of InOrder.
LEMMA InOrderActor ==
  ASSUME TypeOK, TypeOK', InOrder, NEW w \in Writers,
         \/ \E m \in Messages : Receive(w, m)
         \/ Proceed(w) \/ Cancel(w) \/ Restart(w),
         pc'[w] \in Running
  PROVE  \A i \in Plan(msg'[w], born'[w]) \ todo'[w] : \A j \in todo'[w] : i < j
<1>1. ASSUME NEW m \in Messages, Receive(w, m) PROVE Plan(msg'[w], born'[w]) \subseteq todo'[w]
  <2>1. msg'[w] = m /\ born'[w] = born[w]
    BY <1>1 DEF TypeOK, Receive
  <2>2. Begins(w, Plan(m, born[w]), 1)
    BY <1>1 DEF TypeOK, Receive, Ends, Running
  <2>3. todo'[w] = Plan(m, born[w])
    BY <2>2 DEF TypeOK, Begins
  <2>4. QED
    BY <2>1, <2>3
<1>2. ASSUME OnExists(w) PROVE Plan(msg'[w], born'[w]) \subseteq todo'[w]
  <2> DEFINE b == born[w] \cup {Mutation(w).id}
  <2>1. msg' = msg /\ born'[w] = b
    BY <1>2 DEF TypeOK, OnExists
  <2>2. Begins(w, Plan(msg[w], b), attempt[w] + 1)
    BY <1>2 DEF TypeOK, OnExists, Ends, Running
  <2>3. todo'[w] = Plan(msg[w], b)
    BY <2>2 DEF TypeOK, Begins
  <2>4. QED
    BY <2>1, <2>3
<1>3. ASSUME OnSuccess(w) PROVE \A i \in Plan(msg'[w], born'[w]) \ todo'[w] : \A j \in todo'[w] : i < j
  <2> DEFINE f == First(todo[w])
             P == Plan(msg[w], born[w])
  <2>1. UNCHANGED born /\ Begins(w, todo[w] \ {f}, attempt[w])
    BY <1>3 DEF TypeOK, OnSuccess, Ends, Running
  <2>2. msg' = msg /\ born' = born /\ todo'[w] = todo[w] \ {f} /\ pc[w] \in Running
    BY <1>3, <2>1 DEF TypeOK, OnSuccess, Begins, Running
  <2>3. f \in todo[w] /\ f \in Nat /\ \A j \in todo[w] : j \in Nat /\ f <= j
    BY <2>2, MutationFacts
  <2>4. \A i \in P \ todo[w] : \A j \in todo[w] : i < j
    BY <2>2 DEF InOrder
  <2> HIDE DEF f, P
  <2>5. ASSUME NEW i \in P \ todo'[w], NEW j \in todo'[w] PROVE i < j
    BY <2>2, <2>3, <2>4
  <2>6. QED
    BY <2>2, <2>5 DEF P
<1>4. ASSUME Send(w) \/ Resend(w)
      PROVE  \A i \in Plan(msg'[w], born'[w]) \ todo'[w] : \A j \in todo'[w] : i < j
  <2>1. msg' = msg /\ born' = born /\ todo' = todo /\ pc[w] \in Running
    BY <1>4 DEF Send, Resend, Running
  <2>2. QED
    BY <2>1 DEF InOrder
<1>5. ~Abandon(w) /\ ~Restart(w)
  BY DEF TypeOK, Abandon, Restart, Ends, Running
<1>6. QED
  BY <1>1, <1>2, <1>3, <1>4, <1>5 DEF Proceed, GiveUp, Cancel, OnRefusal, OnExistsDirect

LEMMA InOrderStep == ASSUME TypeOK, TypeOK', InOrder, [Next]_vars PROVE InOrder'
<1> SUFFICES ASSUME NEW u \in Writers, pc'[u] \in Running
             PROVE  \A i \in Plan(msg'[u], born'[u]) \ todo'[u] : \A j \in todo'[u] : i < j
  BY DEF InOrder, Plan, MutationKind, WorkingCopy
<1>1. ASSUME pc'[u] = pc[u], msg'[u] = msg[u], todo'[u] = todo[u], born'[u] = born[u]
      PROVE  \A i \in Plan(msg'[u], born'[u]) \ todo'[u] : \A j \in todo'[u] : i < j
  BY <1>1 DEF InOrder
<1>2. ASSUME NEW w \in Writers,
             \/ \E m \in Messages : Receive(w, m)
             \/ Proceed(w) \/ Cancel(w) \/ Restart(w)
      PROVE  \A i \in Plan(msg'[u], born'[u]) \ todo'[u] : \A j \in todo'[u] : i < j
  <2>1. CASE w = u
    BY <1>2, <2>1, InOrderActor
  <2>2. CASE w # u
    BY <1>1, <1>2, <2>2, OthersUntouched
  <2>3. QED
    BY <2>1, <2>2
<1>3. CASE UNCHANGED handler \/ UNCHANGED vars
  BY <1>1, <1>3 DEF handler, vars
<1>4. QED
  BY <1>2, <1>3 DEF Next, Serve, Reject

\* What the runner works on, when it is about an own hazard, is an alert.
LEMMA OwnMessage ==
  ASSUME TypeOK, HandedOver, NEW w \in Writers, pc[w] \in Running,
         NEW e \in OwnHazards, e \in Ids(msg[w])
  PROVE  w = Runner /\ msg[w] \in Direct[Runner]
<1>1. msg[w] \in Messages
  BY MutationFacts
<1>2. msg[w] \in Accepts[w]
  BY <1>1, GraphAssumption DEF HandedOver
<1>3. QED
  BY <1>2, OwnFacts

\* A hazard of which the runner asks for the birth is not one it wrote before.
LEMMA OwnBirthIsNew ==
  ASSUME TypeOK, InOrder, OwnBirths, Runner \in Writers, pc[Runner] = "wait",
         Mutation(Runner).kind = "create", Mutation(Runner) \in wire,
         Mutation(Runner).id \in OwnHazards
  PROVE  Mutation(Runner).id \notin exists
<1> DEFINE M == Mutation(Runner)
           e == Mutation(Runner).id
           i == First(todo[Runner])
           m == msg[Runner]
<1>1. /\ m \in Messages /\ i \in todo[Runner] /\ i \in DOMAIN Steps[m] /\ e = Steps[m][i].id
      /\ M.kind = MutationKind(m, born[Runner], i)
  BY MutationFacts DEF Running
<1>2. e \notin WorkingCopy(m, born[Runner], i)
  BY <1>1 DEF MutationKind
<1>3. e \notin born[Runner] /\ \A j \in 1 .. (i - 1) : Steps[m][j].id # e
  BY <1>2 DEF WorkingCopy
<1>4. ASSUME NEW j \in Plan(m, born[Runner]) \ todo[Runner] PROVE Steps[m][j].id # e
  <2>1. j < i
    BY <1>1, <1>4 DEF InOrder, Running
  <2>2. j \in Nat /\ j >= 1 /\ i \in Nat
    BY <1>1, <1>4, StepFacts DEF Plan
  <2>3. j \in 1 .. (i - 1)
    BY <2>1, <2>2
  <2>4. QED
    BY <1>3, <2>3
<1>5. ~WrittenUnderWay(e)
  BY <1>4 DEF WrittenUnderWay
<1>6. QED
  BY <1>3, <1>5 DEF OwnBirths

\* The graph answers a request while the runner's first run goes on.
LEMMA FirstRunServe ==
  ASSUME IInv, InOrder, FirstRun, NEW r \in wire,
         Reject(r) \/ \E delivered \in BOOLEAN : Serve(r, delivered)
  PROVE  FirstRun'
<1> DEFINE M == Mutation(Runner)
<1>1. /\ Runner \in Writers /\ TypeOK
      /\ pc' = pc /\ msg' = msg /\ todo' = todo /\ born' = born /\ wire' = wire \ {r}
  BY ScenarioAssumption DEF IInv, Reject, Serve, handler
<1>2. M' = M
  BY <1>1 DEF Mutation, Kind
<1>3. \/ reply'[Runner] = reply[Runner]
      \/ /\ pc[Runner] = "wait" /\ reply[Runner] = "none" /\ M = r
         /\ reply'[Runner] \in {Verdict(r), "rejected"}
  BY <1>1 DEF TypeOK, Reject, Serve, Awaited
<1>4. ASSUME NEW x \in wire', x.id \in OwnHazards
      PROVE  pc[Runner] = "wait" /\ reply'[Runner] = "none" /\ x = M
  <2>1. x \in wire /\ x # r
    BY <1>1, <1>4
  <2>2. pc[Runner] = "wait" /\ reply[Runner] = "none" /\ x = M
    BY <1>4, <2>1 DEF FirstRun, OwnRequests
  <2>3. QED
    BY <1>3, <2>1, <2>2
<1>5. OwnRequests'
  BY <1>1, <1>2, <1>4 DEF OwnRequests
<1>6. ASSUME NEW e \in OwnHazards \cap exists' PROVE e \in born'[Runner] \/ WrittenUnderWay(e)'
  <2>1. CASE e \in exists
    <3>1. e \in born[Runner] \/ WrittenUnderWay(e)
      BY <1>6, <2>1 DEF FirstRun, OwnBirths
    <3>2. WrittenUnderWay(e) => WrittenUnderWay(e)'
      BY <1>1, <1>2, <1>3 DEF WrittenUnderWay
    <3>3. QED
      BY <1>1, <3>1, <3>2
  <2>2. CASE e \notin exists
    <3>1. e = r.id /\ Verdict(r) = "ok" /\ \E delivered \in BOOLEAN : Serve(r, delivered)
      BY <1>6, <2>2 DEF Reject, Serve, graph
    <3>2. pc[Runner] = "wait" /\ reply[Runner] = "none" /\ r = M
      BY <1>6, <3>1 DEF FirstRun, OwnRequests
    <3>3. reply'[Runner] \in {"none", "ok"}
      BY <1>1, <3>1, <3>2 DEF TypeOK, Serve
    <3>4. QED
      BY <1>1, <1>2, <3>1, <3>2, <3>3 DEF WrittenUnderWay
  <2>3. QED
    BY <2>1, <2>2
<1>7. OwnBirths'
  BY <1>6 DEF OwnBirths
<1>8. ASSUME pc[Runner] = "wait", reply'[Runner] = "entity_exists" PROVE M.id \notin OwnHazards
  <2>1. CASE reply'[Runner] = reply[Runner]
    BY <1>8, <2>1 DEF FirstRun, OwnReply
  <2>2. CASE M = r /\ Verdict(r) = "entity_exists"
    <3>1. M.kind = "create" /\ M.id \in exists
      BY <2>2 DEF Verdict
    <3>2. QED
      BY <1>1, <1>8, <2>2, <3>1, OwnBirthIsNew DEF FirstRun
  <2>3. QED
    BY <1>3, <1>8, <2>1, <2>2
<1>9. OwnReply'
  BY <1>1, <1>2, <1>8 DEF OwnReply
<1>10. QED
  BY <1>5, <1>7, <1>9 DEF FirstRun

\* Another writer acts while the runner's first run goes on.
LEMMA FirstRunOther ==
  ASSUME TypeOK, HandedOver, FirstRun, NEW w \in Writers \ {Runner}, OfWriter(w)
  PROVE  FirstRun'
<1>1. /\ pc'[Runner] = pc[Runner] /\ msg'[Runner] = msg[Runner] /\ todo'[Runner] = todo[Runner]
      /\ born'[Runner] = born[Runner] /\ reply'[Runner] = reply[Runner] /\ Runner \in Writers
  BY OthersUntouched, ScenarioAssumption DEF OfWriter
<1>2. Mutation(Runner)' = Mutation(Runner)
  BY <1>1 DEF Mutation, Kind
<1>3. exists' = exists
  BY DEF OfWriter, Proceed, Receive, Send, Resend, GiveUp, Cancel, Abandon, OnSuccess, OnExists,
         OnRefusal, OnExistsDirect, Restart, graph
<1>4. wire' = wire \/ (pc[w] \in Running /\ wire' = wire \cup {Mutation(w)})
  BY DEF OfWriter, Proceed, Receive, Send, Resend, GiveUp, Cancel, Abandon, OnSuccess, OnExists,
         OnRefusal, OnExistsDirect, Restart, Running
<1>5. pc[w] \in Running => Mutation(w).id \notin OwnHazards /\ Mutation(w).writer = w
  BY MutationFacts, OwnMessage
<1>6. Mutation(Runner).writer = Runner
  BY DEF Mutation
<1>7. OwnRequests'
  BY <1>1, <1>2, <1>4, <1>5 DEF FirstRun, OwnRequests
<1>8. ASSUME NEW e, WrittenUnderWay(e) PROVE WrittenUnderWay(e)'
  BY <1>1, <1>2, <1>4, <1>5, <1>6, <1>8 DEF WrittenUnderWay
<1>9. OwnBirths'
  BY <1>1, <1>3, <1>8 DEF FirstRun, OwnBirths
<1>10. OwnReply'
  BY <1>1, <1>2 DEF FirstRun, OwnReply
<1>11. QED
  BY <1>7, <1>9, <1>10 DEF FirstRun

\* Nothing is on the wire of an own hazard while the runner does not wait for an answer.
LEMMA QuietRequests ==
  ASSUME OwnRequests, ~(pc[Runner] = "wait" /\ reply[Runner] = "none"), wire' = wire
  PROVE  OwnRequests'
BY DEF OwnRequests

\* The runner acts in its first run.
LEMMA FirstRunReceive ==
  ASSUME IInv, FirstRun, NEW m \in Messages, Receive(Runner, m)
  PROVE  FirstRun'
<1>1. /\ Runner \in Writers /\ TypeOK /\ pc[Runner] \notin Running /\ pc[Runner] # "wait"
      /\ reply' = reply /\ reply[Runner] = "none"
      /\ born' = born /\ exists' = exists /\ wire' = wire
  BY ScenarioAssumption DEF IInv, ReplySound, Receive, Running, Ended, graph
<1>2. OwnRequests'
  BY <1>1, QuietRequests DEF FirstRun
<1>3. OwnBirths'
  BY <1>1 DEF FirstRun, OwnBirths, WrittenUnderWay
<1>4. OwnReply'
  BY <1>1 DEF OwnReply
<1>5. QED
  BY <1>2, <1>3, <1>4 DEF FirstRun

LEMMA FirstRunSend ==
  ASSUME IInv, FirstRun, Send(Runner)
  PROVE  FirstRun'
<1>1. /\ Runner \in Writers /\ TypeOK /\ pc[Runner] = "apply" /\ pc'[Runner] = "wait"
      /\ msg' = msg /\ todo' = todo /\ born' = born /\ exists' = exists
      /\ reply' = reply /\ wire' = wire \cup {Mutation(Runner)}
  BY ScenarioAssumption DEF IInv, TypeOK, Send, graph
<1>2. reply[Runner] = "none"
  BY <1>1 DEF IInv, ReplySound
<1>3. Mutation(Runner)' = Mutation(Runner)
  BY <1>1 DEF Mutation, Kind
<1>4. \A r \in wire : r.id \notin OwnHazards
  BY <1>1 DEF FirstRun, OwnRequests
<1>5. OwnRequests'
  BY <1>1, <1>2, <1>3, <1>4 DEF OwnRequests
<1>6. OwnBirths'
  BY <1>1 DEF FirstRun, OwnBirths, WrittenUnderWay, Running
<1>7. OwnReply'
  BY <1>1, <1>2 DEF OwnReply
<1>8. QED
  BY <1>5, <1>6, <1>7 DEF FirstRun

LEMMA FirstRunSuccess ==
  ASSUME IInv, HandedOver, FirstRun, OnSuccess(Runner)
  PROVE  FirstRun'
<1> DEFINE f == First(todo[Runner])
           m == msg[Runner]
           P == Plan(m, born[Runner])
<1>1. /\ Runner \in Writers /\ TypeOK /\ pc[Runner] = "wait" /\ reply[Runner] = "ok"
      /\ msg' = msg /\ exists' = exists /\ wire' = wire /\ reply'[Runner] = "none"
  BY ScenarioAssumption DEF IInv, TypeOK, OnSuccess, graph
<1>2. /\ m \in Messages /\ f \in todo[Runner] /\ Mutation(Runner).id = Steps[m][f].id
      /\ todo[Runner] \subseteq P /\ P \subseteq DOMAIN Steps[m]
  BY <1>1, MutationFacts, PlanFacts DEF TypeOK, Running
<1>3. OwnRequests'
  BY <1>1, QuietRequests DEF FirstRun
<1>4. pc'[Runner] # "wait"
  BY <1>1 DEF TypeOK, OnSuccess, Ends, Begins
<1>5. ASSUME NEW e \in OwnHazards \cap exists
      PROVE  e \in born[Runner] \/ \E i \in P \ (todo[Runner] \ {f}) : Steps[m][i].id = e
  BY <1>2, <1>5 DEF FirstRun, OwnBirths, WrittenUnderWay
<1>6. ASSUME todo[Runner] \ {f} = {} PROVE OwnBirths'
  <2>1. born'[Runner] = born[Runner] \cup Births(m, born[Runner])
    BY <1>1, <1>6 DEF TypeOK, OnSuccess
  <2>2. ASSUME NEW i \in P PROVE Steps[m][i].id \in born'[Runner]
    <3>1. Steps[m][i].id \in Ids(m)
      BY <1>2, <2>2 DEF Ids
    <3>2. QED
      BY <1>2, <2>1, <3>1, BirthsCover
  <2>3. \A e \in OwnHazards \cap exists : e \in born'[Runner]
    BY <1>5, <2>1, <2>2
  <2>4. QED
    BY <1>1, <2>3 DEF OwnBirths
<1>7. ASSUME todo[Runner] \ {f} # {} PROVE OwnBirths'
  <2>1. born' = born /\ Begins(Runner, todo[Runner] \ {f}, attempt[Runner])
    BY <1>7 DEF OnSuccess
  <2>2. todo'[Runner] = todo[Runner] \ {f} /\ pc'[Runner] \in Running
    BY <1>1, <2>1 DEF TypeOK, Begins, Running
  <2>3. \A e \in OwnHazards \cap exists :
          e \in born[Runner] \/ \E i \in P \ todo'[Runner] : Steps[m][i].id = e
    BY <1>5, <2>2
  <2> HIDE DEF f
  <2>4. QED
    BY <1>1, <2>1, <2>2, <2>3 DEF OwnBirths, WrittenUnderWay
<1>8. OwnBirths'
  BY <1>6, <1>7
<1>9. OwnReply'
  BY <1>4 DEF OwnReply
<1>10. QED
  BY <1>3, <1>8, <1>9 DEF FirstRun

LEMMA FirstRunExists ==
  ASSUME IInv, HandedOver, FirstRun, OnExists(Runner)
  PROVE  FirstRun'
<1>1. /\ Runner \in Writers /\ TypeOK /\ pc[Runner] = "wait" /\ reply[Runner] = "entity_exists"
      /\ msg[Runner] \notin Direct[Runner]
      /\ exists' = exists /\ wire' = wire /\ born[Runner] \subseteq born'[Runner]
  BY ScenarioAssumption DEF IInv, TypeOK, OnExists, graph
<1>2. OwnRequests'
  BY <1>1, QuietRequests DEF FirstRun
<1>3. pc'[Runner] # "wait"
  BY <1>1 DEF TypeOK, OnExists, Ends, Begins
<1>4. \A e \in OwnHazards : e \notin Ids(msg[Runner])
  BY <1>1, OwnMessage DEF Running
<1>5. \A i \in Plan(msg[Runner], born[Runner]) : Steps[msg[Runner]][i].id \in Ids(msg[Runner])
  BY DEF Plan, Ids
<1>6. \A e \in OwnHazards : ~WrittenUnderWay(e)
  BY <1>1, <1>4, <1>5 DEF WrittenUnderWay
<1>7. OwnBirths'
  BY <1>1, <1>6 DEF FirstRun, OwnBirths
<1>8. OwnReply'
  BY <1>3 DEF OwnReply
<1>9. QED
  BY <1>2, <1>7, <1>8 DEF FirstRun

\* In the first run no birth of an alert's hazard is refused.
LEMMA NoDirectConflict ==
  ASSUME RunInv, FirstRun PROVE ~OnExistsDirect(Runner)
<1> SUFFICES ASSUME OnExistsDirect(Runner) PROVE FALSE
  OBVIOUS
<1> DEFINE k == status.completed + 1
<1>1. /\ Runner \in Writers /\ TypeOK /\ pc[Runner] = "wait" /\ reply[Runner] = "entity_exists"
      /\ msg[Runner] \in Direct[Runner]
  BY ScenarioAssumption DEF RunInv, IInv, OnExistsDirect
<1>2. inStep /\ msg[Runner] = Fixture[k] /\ status.completed < Len(Fixture) /\ status \in Status
  BY <1>1 DEF RunInv, RunTypeOK, Running
<1>3. k \in DOMAIN Fixture
  BY <1>2, ScenarioAssumption DEF Status
<1>4. Mutation(Runner).id \in Ids(Fixture[k])
  BY <1>1, <1>2, MutationFacts DEF Running
<1>5. Mutation(Runner).id \in OwnHazards
  BY <1>1, <1>2, <1>3, <1>4 DEF OwnHazards
<1>6. QED
  BY <1>1, <1>5 DEF FirstRun, OwnReply

\* The first run stays what it is as long as it is one.
LEMMA FirstRunStep ==
  ASSUME FaultlessInv, [ScenarioNext]_scenarioVars, past' = "none"
  PROVE  FirstRun'
<1>1. past = "none"
  BY DEF FaultlessInv, ScenarioNext, scenarioVars, runVars, BeginRun, StartStep, Play, StepBreaks,
         FinishStep, FailRun, SucceedRun, RestartRunner
<1>2. /\ FirstRun /\ RunInv /\ IInv /\ TypeOK /\ HandedOver /\ InOrder
  BY <1>1 DEF FaultlessInv, RunInv, IInv
<1>3. CASE UNCHANGED vars
  BY <1>2, <1>3 DEF vars, FirstRun, OwnRequests, OwnBirths, OwnReply, WrittenUnderWay, Mutation, Kind
<1>4. CASE StartStep
  <2>1. \E m \in Messages : Receive(Runner, m)
    BY <1>4, StepsAssumption, ScenarioAssumption DEF StartStep, Play, Receive
  <2>2. QED
    BY <1>2, <2>1, FirstRunReceive
<1>5. CASE RunnerProceeds
  BY <1>2, <1>5, FirstRunSend, FirstRunSuccess, FirstRunExists, NoDirectConflict DEF RunnerProceeds
<1>6. CASE \E w \in Writers \ {Runner} : OfWriter(w)
  BY <1>2, <1>6, FirstRunOther
<1>7. CASE \E r \in wire : Reject(r) \/ \E delivered \in BOOLEAN : Serve(r, delivered)
  BY <1>2, <1>7, FirstRunServe
<1>8. ~RestartRunner /\ ~(past' = "fault")
  BY <1>1 DEF RestartRunner, FaultlessInv, RunInv, RunTypeOK, Status, NotRun
<1>9. CASE BeginRun \/ StepBreaks \/ FinishStep \/ FailRun \/ SucceedRun
  BY <1>3, <1>9 DEF BeginRun, StepBreaks, FinishStep, FailRun, SucceedRun
<1>10. QED
  BY <1>3, <1>4, <1>5, <1>6, <1>7, <1>8, <1>9 DEF ScenarioNext, OfWriter, scenarioVars

\* How the handler of a step of the run comes to an end.
LEMMA StepEndsStep ==
  ASSUME FaultlessInv, [ScenarioNext]_scenarioVars, inStep'
  PROVE  /\ pc'[Runner] \notin {"ready", "refused"}
         /\ pc'[Runner] = "failed" =>
              \/ past' = "fault"
              \/ past' = "replayed" /\ Fixture[status'.completed + 1] \in Direct[Runner]
<1> DEFINE Ending ==
      /\ pc'[Runner] \notin {"ready", "refused"}
      /\ pc'[Runner] = "failed" =>
           \/ past' = "fault"
           \/ past' = "replayed" /\ Fixture[status'.completed + 1] \in Direct[Runner]
<1>1. /\ RunInv /\ TypeOK /\ Runner \in Writers /\ status \in Status
      /\ past \in {"none", "replayed", "fault"} /\ (past = "none" => FirstRun)
  BY ScenarioAssumption DEF FaultlessInv, RunInv, RunTypeOK, IInv
<1>2. ASSUME pc'[Runner] = pc[Runner], UNCHANGED runVars PROVE Ending
  BY <1>2 DEF FaultlessInv, StepEnds, runVars
<1>3. CASE StartStep
  <2> DEFINE k == status.completed + 1
  <2>1. Receive(Runner, Fixture[k]) /\ status.completed < Len(Fixture)
    BY <1>3 DEF StartStep, Play
  <2>2. k \in DOMAIN Fixture
    BY <1>1, <2>1, ScenarioAssumption DEF Status
  <2>3. Fixture[k] \notin Malformed
    BY <2>2, FixtureAssumption
  <2>4. pc'[Runner] \in {"empty", "apply"}
    BY <1>1, <2>1, <2>3 DEF TypeOK, Receive, Ends, Begins
  <2>5. QED
    BY <2>4
<1>4. CASE RunnerProceeds /\ UNCHANGED runVars
  <2>1. CASE Send(Runner) \/ OnSuccess(Runner) \/ OnExists(Runner)
    <3>1. pc'[Runner] \notin {"ready", "refused", "failed"}
      BY <1>1, <2>1 DEF TypeOK, Send, OnSuccess, OnExists, Ends, Begins
    <3>2. QED
      BY <3>1
  <2>2. CASE OnExistsDirect(Runner)
    <3>1. past \in {"replayed", "fault"}
      BY <1>1, <2>2, NoDirectConflict
    <3>2. pc'[Runner] = "failed" /\ pc[Runner] \in Running /\ msg[Runner] \in Direct[Runner]
      BY <1>1, <2>2 DEF TypeOK, OnExistsDirect, Abandon, Ends, Running
    <3>3. Fixture[status.completed + 1] \in Direct[Runner]
      BY <1>1, <3>2 DEF RunInv, RunTypeOK
    <3>4. QED
      BY <1>4, <3>1, <3>2, <3>3 DEF runVars
  <2>3. QED
    BY <1>4, <2>1, <2>2 DEF RunnerProceeds
<1>5. CASE (RunnerFaults \/ Cancel(Runner)) /\ past' = "fault"
  <2>1. pc'[Runner] \notin {"ready", "refused"}
    BY <1>1, <1>5 DEF TypeOK, RunnerFaults, Resend, GiveUp, OnRefusal, Cancel, Abandon, Ends, Running
  <2>2. QED
    BY <1>5, <2>1
<1>6. CASE \E w \in Writers \ {Runner} : OfWriter(w) /\ UNCHANGED runVars
  <2>1. pc'[Runner] = pc[Runner]
    BY <1>1, <1>6, OthersUntouched DEF OfWriter
  <2>2. QED
    BY <1>2, <1>6, <2>1
<1>7. CASE \E r \in wire : /\ Reject(r) \/ \E delivered \in BOOLEAN : Serve(r, delivered)
                         /\ UNCHANGED runVars
  BY <1>2, <1>7 DEF Reject, Serve, handler
<1>8. CASE UNCHANGED scenarioVars
  BY <1>2, <1>8 DEF scenarioVars, vars
<1>9. ~(BeginRun \/ StepBreaks \/ FinishStep \/ FailRun \/ SucceedRun \/ RestartRunner)
  <2>1. ~FinishStep /\ ~RestartRunner
    BY DEF FinishStep, RestartRunner
  <2>2. BeginRun \/ StepBreaks \/ FailRun \/ SucceedRun => inStep
    BY DEF BeginRun, StepBreaks, FailRun, SucceedRun
  <2>3. inStep => status.state = "running" /\ status.failed = 0
    BY <1>1 DEF RunInv, RunTypeOK
  <2>4. ~(BeginRun \/ StepBreaks \/ FailRun \/ SucceedRun)
    <3>1. BeginRun => status.state = "idle"
      BY DEF BeginRun
    <3>2. StepBreaks \/ SucceedRun => ~inStep
      BY DEF StepBreaks, SucceedRun, BetweenSteps
    <3>3. FailRun => status.failed = 1
      BY DEF FailRun
    <3>4. ~("idle" = "running") /\ ~(1 = 0)
      OBVIOUS
    <3>5. QED
      BY <2>2, <2>3, <3>1, <3>2, <3>3, <3>4, Zenon
  <2>5. QED
    BY <2>1, <2>4
<1>10. QED
  BY <1>3, <1>4, <1>5, <1>6, <1>7, <1>8, <1>9 DEF ScenarioNext, OfWriter

\* A step of the run fails for one of the reasons that are named.
LEMMA FailsForAReason ==
  ASSUME FaultlessInv, [ScenarioNext]_scenarioVars PROVE FaultlessRunSucceeds'
<1> DEFINE Many == \E i \in DOMAIN Fixture : Cardinality(Ids(Fixture[i])) >= Attempts
           Replayed(s) == Fixture[s.completed + 1] \in Direct[Runner]
<1>1. /\ RunInv /\ IInv /\ TypeOK /\ Runner \in Writers /\ status \in Status
      /\ past \in {"none", "replayed", "fault"}
  BY ScenarioAssumption DEF FaultlessInv, RunInv, RunTypeOK, IInv
<1>2. Many' = Many
  BY DEF Ids
<1>3. SUFFICES ASSUME status'.failed = 1
               PROVE  past' = "fault" \/ (past' = "replayed" /\ Replayed(status')) \/ Many
  BY <1>2 DEF FaultlessRunSucceeds
<1>4. CASE FinishStep
  <2>1. /\ inStep /\ past' = past /\ status.failed = 0 /\ pc[Runner] \in Ended
        /\ msg[Runner] = Fixture[status.completed + 1] /\ status.completed < Len(Fixture)
    BY <1>1, <1>4 DEF FinishStep, RunInv, RunTypeOK, AtStep
  <2>2. pc[Runner] \notin {"written", "empty"} /\ status' = [status EXCEPT !.failed = 1]
    BY <1>1, <1>3, <1>4, <2>1 DEF FinishStep, Status
  <2>3. status'.completed = status.completed
    BY <1>1, <2>2 DEF Status
  <2>4. pc[Runner] \in {"failed", "exhausted"}
    BY <2>1, <2>2 DEF FaultlessInv, StepEnds, Ended
  <2>5. CASE pc[Runner] = "failed"
    BY <2>1, <2>3, <2>5 DEF FaultlessInv, StepEnds
  <2>6. CASE pc[Runner] = "exhausted"
    <3>1. Cardinality(Ids(msg[Runner])) >= Attempts
      BY <1>1, <2>6 DEF FaultlessInv, CountInv, ExhaustedOnlyByMany
    <3>2. status.completed + 1 \in DOMAIN Fixture
      BY <1>1, <2>1, ScenarioAssumption DEF Status
    <3>3. QED
      BY <2>1, <3>1, <3>2
  <2>7. QED
    BY <2>4, <2>5, <2>6
<1>5. CASE StepBreaks \/ ((RunnerFaults \/ Cancel(Runner)) /\ past' = "fault")
  BY <1>5 DEF StepBreaks
<1>6. CASE BeginRun \/ RestartRunner
  BY <1>3, <1>6 DEF BeginRun, RestartRunner, NotRun
<1>7. CASE FailRun \/ SucceedRun
  <2>1. status'.failed = status.failed /\ status'.completed = status.completed /\ past' = past
    BY <1>1, <1>7 DEF FailRun, SucceedRun, Status
  <2>2. QED
    BY <1>3, <2>1 DEF FaultlessInv, FaultlessRunSucceeds
<1>8. CASE StartStep \/ UNCHANGED runVars
  <2>1. status' = status /\ past' = past
    BY <1>8 DEF StartStep, Play, runVars
  <2>2. QED
    BY <1>3, <2>1 DEF FaultlessInv, FaultlessRunSucceeds
<1> HIDE DEF Many, Replayed
<1>9. QED
  BY <1>4, <1>5, <1>6, <1>7, <1>8 DEF ScenarioNext, scenarioVars

LEMMA FaultlessStep == FaultlessInv /\ [ScenarioNext]_scenarioVars => FaultlessInv'
<1> SUFFICES ASSUME FaultlessInv, [ScenarioNext]_scenarioVars PROVE FaultlessInv'
  OBVIOUS
<1>1. RunInv' /\ CountInv' /\ [Next]_vars
  BY RunInvStep, CountStep, StepImplements DEF FaultlessInv
<1>2. TypeOK /\ TypeOK'
  BY <1>1 DEF FaultlessInv, RunInv, IInv
<1>3. HandedOver' /\ InOrder'
  BY <1>1, <1>2, HandedOverStep, InOrderStep DEF FaultlessInv
<1>4. StepEnds'
  BY StepEndsStep DEF StepEnds
<1>5. past' \in {"none", "replayed", "fault"}
  BY DEF FaultlessInv, ScenarioNext, scenarioVars, runVars, BeginRun, StartStep, Play, StepBreaks,
         FinishStep, FailRun, SucceedRun, RestartRunner
<1>6. past' = "none" => FirstRun'
  BY FirstRunStep
<1>7. FaultlessRunSucceeds'
  BY FailsForAReason
<1>8. QED
  BY <1>1, <1>3, <1>4, <1>5, <1>6, <1>7 DEF FaultlessInv

LEMMA FaultlessInit == ScenarioInit => FaultlessInv
<1> SUFFICES ASSUME ScenarioInit PROVE FaultlessInv
  OBVIOUS
<1>1. RunInv /\ CountInv /\ Runner \in Writers
  BY RunInvInit, CountInit, ScenarioAssumption DEF ScenarioInit
<1>2. HandedOver /\ InOrder
  BY DEF ScenarioInit, Init, HandedOver, InOrder, Running
<1>3. FirstRun
  BY <1>1 DEF ScenarioInit, Init, FirstRun, OwnRequests, OwnBirths, OwnReply
<1>4. QED
  BY <1>1, <1>2, <1>3 DEF ScenarioInit, FaultlessInv, StepEnds, FaultlessRunSucceeds, NotRun

\* A run in which every request is answered as it should be fails only at a snapshot of at
\* least as many aircraft as there are attempts, or when it repeats a run that succeeded, at an
\* alert; whatever other projectors write, lose and repeat beside it.
THEOREM OnlyFaultsFailARun == ScenarioSpec => []FaultlessRunSucceeds
<1>1. FaultlessInv => FaultlessRunSucceeds
  BY DEF FaultlessInv
<1>2. QED
  BY <1>1, FaultlessInit, FaultlessStep, PTL DEF ScenarioSpec
=============================================================================
