------------------------- MODULE FeedProjectorProofs -------------------------
(***************************************************************************)
(* Proofs about FeedProjector, for any writers, observations, plans and    *)
(* retry limits.                                                           *)
(***************************************************************************)
EXTENDS FeedProjector, TLAPS, WellFoundedInduction, FiniteSetTheorems

-----------------------------------------------------------------------------
(* Plans *)

\* A set of step numbers has a least element.
LEMMA LeastExists ==
  ASSUME NEW T, T \subseteq Nat, T # {}
  PROVE  \E i \in T : \A j \in T : i <= j
<1> DEFINE R == OpToRel(<, Nat)
<1>1. IsWellFoundedOn(R, Nat)
  BY NatLessThanWellFounded
<1>2. \A x, y \in Nat : y < x => <<y, x>> \in R
  BY DEF OpToRel
<1> HIDE DEF R
<1>3. PICK x \in T : \A y \in T : ~ (<<y, x>> \in R)
  BY <1>1, WFMin
<1>4. ASSUME NEW y \in T PROVE x <= y
  <2>1. x \in Nat /\ y \in Nat
    OBVIOUS
  <2>2. ~ (y < x)
    BY <1>2, <1>3, <2>1
  <2>3. QED
    BY <2>1, <2>2
<1>5. QED
  BY <1>4

\* The cursor of Apply is the least of the steps to do.
LEMMA FirstIsLeast ==
  ASSUME NEW T, T \subseteq Nat, T # {}
  PROVE  First(T) \in T /\ \A j \in T : First(T) <= j
BY LeastExists DEF First

\* The steps of an observation are numbered from 1 and have the type of a step.
LEMMA StepFacts ==
  ASSUME NEW m \in Messages, NEW i \in DOMAIN Steps[m]
  PROVE  /\ i \in Nat /\ i >= 1
         /\ Steps[m][i] \in Step
         /\ Steps[m][i].id \in Entities
         /\ Steps[m][i].once \in BOOLEAN
         /\ Steps[m][i].edge \in Entities \cup {NoEntity}
         /\ \A j \in 1 .. (i - 1) : j \in DOMAIN Steps[m]
<1>1. Steps[m] \in Seq(Step)
  BY StepsAssumption
<1>2. /\ DOMAIN Steps[m] = 1 .. Len(Steps[m])
      /\ Len(Steps[m]) \in Nat
      /\ \A k \in 1 .. Len(Steps[m]) : Steps[m][k] \in Step
  BY <1>1
<1>3. QED
  BY <1>2 DEF Step

\* The heart of born-first planning: when every planned step before step i has
\* been applied to a graph E that holds the born set, all that the projector's
\* working copy takes for born at step i is in the graph.
LEMMA WorkingCopyInGraph ==
  ASSUME NEW m \in Messages, NEW b, NEW E, NEW T,
         b \subseteq E,
         \A j \in Plan(m, b) \ T : Steps[m][j].id \in E,
         NEW i \in DOMAIN Steps[m],
         \A j \in T : j \in Nat /\ i <= j
  PROVE  /\ \A j \in 1 .. (i - 1) : Steps[m][j].id \in E
         /\ WorkingCopy(m, b, i) \subseteq E
<1> DEFINE Missing == {j \in 1 .. (i - 1) : Steps[m][j].id \notin E}
<1>1. i \in Nat /\ i >= 1 /\ \A j \in 1 .. (i - 1) : j \in DOMAIN Steps[m]
  BY StepFacts
<1>2. Missing = {}
  <2>1. SUFFICES ASSUME Missing # {} PROVE FALSE
    OBVIOUS
  <2>2. Missing \subseteq Nat
    BY <1>1
  <2> HIDE DEF Missing
  <2>3. PICK k \in Missing : \A j \in Missing : k <= j
    BY <2>1, <2>2, LeastExists
  <2> USE DEF Missing
  <2>4. /\ k \in 1 .. (i - 1) /\ k \in DOMAIN Steps[m] /\ k \in Nat
        /\ Steps[m][k].id \notin E
    BY <1>1, <2>3
  <2>5. \A j \in 1 .. (k - 1) : Steps[m][j].id \in E
    BY <1>1, <2>3, <2>4
  <2>6. MutationKind(m, b, k) = "create"
    BY <2>4, <2>5 DEF MutationKind, WorkingCopy
  <2>7. k \in Plan(m, b)
    BY <2>4, <2>6 DEF Plan
  <2>8. k \notin T
    BY <1>1, <2>4
  <2>9. QED
    BY <2>4, <2>7, <2>8
<1>3. QED
  BY <1>2 DEF WorkingCopy

\* A plan is a set of step numbers of its observation.
LEMMA PlanFacts ==
  ASSUME NEW m \in Messages, NEW b
  PROVE  Plan(m, b) \subseteq DOMAIN Steps[m] /\ Plan(m, b) \subseteq Nat
BY StepFacts DEF Plan

\* What the current mutation of a running handler is.
LEMMA MutationFacts ==
  ASSUME TypeOK, NEW w \in Writers, pc[w] \in Running
  PROVE  LET i == First(todo[w])
         IN /\ msg[w] \in Messages
            /\ i \in todo[w] /\ i \in DOMAIN Steps[msg[w]]
            /\ \A j \in todo[w] : j \in Nat /\ i <= j
            /\ Mutation(w).writer = w
            /\ Mutation(w).id = Steps[msg[w]][i].id
            /\ Mutation(w).id \in Ids(msg[w])
            /\ Mutation(w).id \in Entities
            /\ Mutation(w).msg = msg[w]
            /\ Mutation(w).kind = MutationKind(msg[w], born[w], i)
            /\ Mutation(w).edge = IF Mutation(w).kind = "create"
                                  THEN Steps[msg[w]][i].edge ELSE NoEntity
            /\ Mutation(w).edge \in Entities \cup {NoEntity}
<1> DEFINE i == First(todo[w])
<1>1. msg[w] \in Messages
  BY DEF TypeOK, Running
<1>2. todo[w] \subseteq Nat /\ todo[w] # {} /\ todo[w] \subseteq DOMAIN Steps[msg[w]]
  BY <1>1, PlanFacts DEF TypeOK
<1>3. i \in todo[w] /\ \A j \in todo[w] : i <= j
  BY <1>2, FirstIsLeast
<1>4. Steps[msg[w]][i].id \in Entities /\ Steps[msg[w]][i].edge \in Entities \cup {NoEntity}
  BY <1>1, <1>2, <1>3, StepFacts
<1> HIDE DEF i
<1>5. QED
  BY <1>1, <1>2, <1>3, <1>4 DEF Mutation, Kind, Ids, i

\* Only entities of the observation are marked born after its plan.
LEMMA BirthsFacts ==
  ASSUME NEW m \in Messages, NEW b
  PROVE  Births(m, b) \subseteq Entities
BY StepFacts DEF Births

\* The current mutation is a well-formed request.
LEMMA MutationType ==
  ASSUME TypeOK, NEW w \in Writers, pc[w] \in Running
  PROVE  Mutation(w) \in Request
<1>1. Mutation(w) = [writer |-> w, kind |-> Kind(w, First(todo[w])),
                     id |-> Mutation(w).id, msg |-> msg[w],
                     edge |-> Mutation(w).edge]
  BY DEF Mutation
<1>2. Mutation(w).id \in Entities /\ Mutation(w).edge \in Entities \cup {NoEntity}
  BY MutationFacts
<1>3. msg[w] \in Messages
  BY MutationFacts
<1>4. First(todo[w]) \in Plan(msg[w], born[w])
  BY MutationFacts DEF TypeOK
<1>5. Kind(w, First(todo[w])) \in {"create", "update"}
  BY <1>4 DEF Plan, Kind, MutationKind
<1>6. Mutation(w).kind = Kind(w, First(todo[w]))
  BY <1>1
<1>7. Mutation(w).kind = "update" => Mutation(w).edge = NoEntity
  BY MutationFacts
<1>8. QED
  BY <1>1, <1>2, <1>3, <1>5, <1>6, <1>7 DEF Request

LEMMA AttemptsPositive == Attempts \in Nat /\ Attempts >= 1
BY RetryAssumption DEF Attempts

-----------------------------------------------------------------------------
(* Types *)

\* A request the graph serves is of the right type, and serving it keeps the
\* graph's types.
LEMMA TypeOKStep == TypeOK /\ [Next]_vars => TypeOK'
<1> SUFFICES ASSUME TypeOK, [Next]_vars PROVE TypeOK'
  OBVIOUS
<1> USE AttemptsPositive, RetryAssumption DEF Running, Ended, graph, handler
<1>1. ASSUME NEW w \in Writers, NEW m \in Messages, Receive(w, m) PROVE TypeOK'
  <2>1. Plan(m, born[w]) \subseteq DOMAIN Steps[m] /\ Plan(m, born[w]) \subseteq Nat
    BY PlanFacts
  <2>2. CASE Ends(w, "refused") \/ Ends(w, "empty")
    BY <1>1, <2>2, GraphAssumption DEF TypeOK, Receive, Ends
  <2>3. CASE Plan(m, born[w]) # {} /\ Begins(w, Plan(m, born[w]), 1)
    BY <1>1, <2>1, <2>3, GraphAssumption DEF TypeOK, Receive, Begins
  <2>4. QED
    BY <1>1, <2>2, <2>3 DEF Receive
<1>2. ASSUME NEW w \in Writers, Send(w) PROVE TypeOK'
  <2>1. Mutation(w) \in Request
    BY <1>2, MutationType DEF Send
  <2>2. QED
    BY <1>2, <2>1 DEF TypeOK, Send
<1>3. ASSUME NEW w \in Writers, Resend(w) PROVE TypeOK'
  <2>1. Mutation(w) \in Request
    BY <1>3, MutationType DEF Resend
  <2>2. QED
    BY <1>3, <2>1 DEF TypeOK, Resend
<1>4. ASSUME NEW w \in Writers, Abandon(w), pc[w] # "ready" PROVE TypeOK'
  BY <1>4 DEF TypeOK, Abandon, Ends, Replies
<1>5. ASSUME NEW w \in Writers, OnSuccess(w) PROVE TypeOK'
  <2> DEFINE rest == todo[w] \ {First(todo[w])}
  <2>1. msg[w] \in Messages /\ Births(msg[w], born[w]) \subseteq Entities
    BY <1>5, MutationFacts, BirthsFacts DEF OnSuccess
  <2>2. reply' \in [Writers -> Replies]
    BY <1>5 DEF TypeOK, OnSuccess, Replies
  <2>3. CASE rest = {}
    BY <1>5, <2>1, <2>2, <2>3 DEF TypeOK, OnSuccess, Ends
  <2>4. CASE rest # {}
    BY <1>5, <2>1, <2>2, <2>4 DEF TypeOK, OnSuccess, Begins
  <2>5. QED
    BY <2>3, <2>4
<1>6. ASSUME NEW w \in Writers, OnExists(w) PROVE TypeOK'
  <2> DEFINE b == born[w] \cup {Mutation(w).id}
             plan == Plan(msg[w], b)
  <2>1. /\ msg[w] \in Messages /\ Mutation(w).id \in Entities
        /\ plan \subseteq Nat
    BY <1>6, MutationFacts, PlanFacts DEF OnExists
  <2>2. /\ reply' \in [Writers -> Replies]
        /\ born' \in [Writers -> SUBSET Entities] /\ born'[w] = b
    BY <1>6, <2>1 DEF TypeOK, OnExists, Replies
  <2>3. CASE Ends(w, "written") \/ Ends(w, "exhausted")
    BY <1>6, <2>1, <2>2, <2>3 DEF TypeOK, OnExists, Ends
  <2>4. CASE /\ plan # {} /\ attempt[w] # Attempts
             /\ Begins(w, plan, attempt[w] + 1)
    <3>1. attempt[w] + 1 \in 0 .. Attempts
      BY <2>4 DEF TypeOK
    <3> HIDE DEF b, plan
    <3>2. plan = Plan(msg[w], born'[w])
      BY <2>2 DEF plan, b
    <3>3. plan \subseteq Nat /\ plan # {}
      BY <2>1, <2>4 DEF plan
    <3>4. /\ pc' = [pc EXCEPT ![w] = "apply"]
          /\ todo' = [todo EXCEPT ![w] = plan]
          /\ attempt' = [attempt EXCEPT ![w] = attempt[w] + 1]
          /\ sends' = [sends EXCEPT ![w] = 0]
          /\ msg' = msg /\ wire' = wire
          /\ exists' = exists /\ applied' = applied /\ edges' = edges
      BY <1>6, <2>4 DEF OnExists, Begins
    <3>5. \A u \in Writers \ {w} : /\ pc'[u] = pc[u] /\ todo'[u] = todo[u]
                                 /\ born'[u] = born[u] /\ msg'[u] = msg[u]
      BY <1>6, <3>4 DEF TypeOK, OnExists
    <3>6. \A u \in Writers :
            /\ msg'[u] = NoMessage => pc'[u] = "ready"
            /\ pc'[u] \in Running =>
                 todo'[u] # {} /\ todo'[u] \subseteq Plan(msg'[u], born'[u])
      <4>1. msg'[w] = msg[w] /\ msg[w] # NoMessage /\ todo'[w] = plan
        BY <2>1, <3>4, GraphAssumption DEF TypeOK
      <4>2. QED
        BY <3>2, <3>3, <3>5, <4>1 DEF TypeOK
    <3>7. QED
      BY <2>2, <3>1, <3>3, <3>4, <3>6 DEF TypeOK
  <2>5. QED
    BY <1>6, <2>3, <2>4 DEF OnExists
<1>7. ASSUME NEW w \in Writers, Restart(w) PROVE TypeOK'
  BY <1>7 DEF TypeOK, Restart, Ends, Replies
<1>8. ASSUME NEW r \in wire, Reject(r) PROVE TypeOK'
  BY <1>8 DEF TypeOK, Reject, Replies
<1>9. ASSUME NEW r \in wire, NEW delivered \in BOOLEAN, Serve(r, delivered) PROVE TypeOK'
  <2>1. r \in Request
    BY DEF TypeOK
  <2>2. /\ r.writer \in Writers /\ r.id \in Entities /\ r.msg \in Messages
        /\ r.edge \in Entities \cup {NoEntity}
    BY <2>1 DEF Request
  <2>3. Verdict(r) \in Replies
    BY DEF Verdict, Replies
  <2>4. reply' \in [Writers -> Replies]
    BY <1>9, <2>2, <2>3 DEF TypeOK, Serve
  <2>5. exists' \subseteq Entities /\ applied' \in [Entities -> SUBSET Messages]
    BY <1>9, <2>2 DEF TypeOK, Serve
  <2>6. edges' \subseteq Entities \X Entities
    BY <1>9, <2>2 DEF TypeOK, Serve
  <2>7. QED
    BY <1>9, <2>4, <2>5, <2>6 DEF TypeOK, Serve
<1>10. CASE UNCHANGED vars
  BY <1>10 DEF TypeOK, vars
<1>11. QED
  BY <1>1, <1>2, <1>3, <1>4, <1>5, <1>6, <1>7, <1>8, <1>9, <1>10
  DEF Next, Proceed, GiveUp, Cancel, OnRefusal, OnExistsDirect

LEMMA TypeOKInit == Init => TypeOK
BY AttemptsPositive, RetryAssumption DEF Init, TypeOK, Running, Ended, Replies

\* Every reachable state is of the types TypeOK gives; in particular a running
\* handler has steps to do and they are steps of its current plan.
THEOREM TypeCorrect == Spec => []TypeOK
BY TypeOKInit, TypeOKStep, PTL DEF Spec

-----------------------------------------------------------------------------
(* What the graph holds when the handler acts *)

\* The part of the inductive invariant that is about one writer.
WriterInv(u) ==
  /\ born[u] \subseteq exists
  /\ reply[u] # "not_found"
  /\ pc[u] \in Running =>
       \A i \in Plan(msg[u], born[u]) \ todo[u] :
         LET id == Steps[msg[u]][i].id IN id \in exists /\ msg[u] \in applied[id]
  /\ reply[u] # "none" =>
       LET r == Mutation(u)
       IN /\ pc[u] = "wait"
          /\ reply[u] = "ok" => r.id \in exists /\ r.msg \in applied[r.id]
          /\ reply[u] = "entity_exists" => r.kind = "create" /\ r.id \in exists
  /\ pc[u] = "written" =>
       \A i \in DOMAIN Steps[msg[u]] :
         LET s == Steps[msg[u]][i]
         IN s.id \in exists /\ (s.once \/ msg[u] \in applied[s.id])

\* The part that is about the graph and the requests on their way.
GraphInv ==
  /\ Unborn /\ StrictEdges
  /\ \A r \in wire : r.kind = "update" => r.id \in exists

LEMMA IInvParts == IInv <=> TypeOK /\ GraphInv /\ \A u \in Writers : WriterInv(u)
BY DEF IInv, GraphInv, WriterInv, BornInGraph, UpdatesLand, PlanDone, ReplySound,
       WrittenIsApplied

\* At the cursor of a running handler everything it takes for born, and every
\* entity of an earlier step, is in the graph.
LEMMA Cursor ==
  ASSUME TypeOK, NEW w \in Writers, WriterInv(w), pc[w] \in Running
  PROVE  LET i == First(todo[w])
         IN /\ \A j \in 1 .. (i - 1) : Steps[msg[w]][j].id \in exists
            /\ WorkingCopy(msg[w], born[w], i) \subseteq exists
<1> DEFINE i == First(todo[w])
<1>1. msg[w] \in Messages /\ i \in DOMAIN Steps[msg[w]] /\ \A j \in todo[w] : j \in Nat /\ i <= j
  BY MutationFacts
<1>2. born[w] \subseteq exists /\ \A j \in Plan(msg[w], born[w]) \ todo[w] : Steps[msg[w]][j].id \in exists
  BY DEF WriterInv
<1> HIDE DEF i
<1>3. QED
  BY <1>1, <1>2, WorkingCopyInGraph DEF i

\* What is sent is right for the graph: an update of a born entity, or a birth
\* whose edge points to a born entity.
LEMMA SentSound ==
  ASSUME TypeOK, NEW w \in Writers, WriterInv(w), pc[w] \in Running
  PROVE  LET r == Mutation(w)
         IN /\ r.kind = "update" => r.id \in exists
            /\ r.edge # NoEntity => r.edge \in exists
<1> DEFINE i == First(todo[w])
<1>1. /\ msg[w] \in Messages /\ i \in DOMAIN Steps[msg[w]]
      /\ Mutation(w).id = Steps[msg[w]][i].id
      /\ Mutation(w).kind = MutationKind(msg[w], born[w], i)
      /\ Mutation(w).edge = IF Mutation(w).kind = "create"
                            THEN Steps[msg[w]][i].edge ELSE NoEntity
  BY MutationFacts
<1>2. /\ \A j \in 1 .. (i - 1) : Steps[msg[w]][j].id \in exists
      /\ WorkingCopy(msg[w], born[w], i) \subseteq exists
  BY Cursor
<1> HIDE DEF i
<1>3. Mutation(w).kind = "update" => Mutation(w).id \in exists
  BY <1>1, <1>2 DEF MutationKind
<1>4. Mutation(w).edge # NoEntity => Mutation(w).edge \in exists
  <2>1. SUFFICES ASSUME Mutation(w).edge # NoEntity PROVE Mutation(w).edge \in exists
    OBVIOUS
  <2>2. Mutation(w).edge = Steps[msg[w]][i].edge
    BY <1>1, <2>1
  <2>3. QED
    BY <1>1, <1>2, <2>1, <2>2, EdgeAssumption
<1>5. QED
  BY <1>3, <1>4

\* Once all of a plan is applied the observation is on every entity it is about:
\* a step without a mutation belongs to an entity that is born.
LEMMA AllDone ==
  ASSUME NEW m \in Messages, NEW b, b \subseteq exists,
         \A i \in Plan(m, b) : Steps[m][i].id \in exists /\ m \in applied[Steps[m][i].id]
  PROVE  \A i \in DOMAIN Steps[m] :
           LET s == Steps[m][i]
           IN s.id \in exists /\ (s.once \/ m \in applied[s.id])
<1> TAKE i \in DOMAIN Steps[m]
<1>1. CASE i \in Plan(m, b)
  BY <1>1
<1>2. CASE i \notin Plan(m, b)
  <2>1. WorkingCopy(m, b, i) \subseteq exists
    <3> DEFINE T == {}
    <3>1. /\ \A j \in Plan(m, b) \ T : Steps[m][j].id \in exists
          /\ \A j \in T : j \in Nat /\ i <= j
      OBVIOUS
    <3> HIDE DEF T
    <3>2. QED
      BY <3>1, WorkingCopyInGraph
  <2>2. MutationKind(m, b, i) = "none"
    BY <1>2 DEF Plan
  <2>3. Steps[m][i].id \in WorkingCopy(m, b, i) /\ Steps[m][i].once
    BY <2>2, StepFacts DEF MutationKind
  <2>4. QED
    BY <2>1, <2>3
<1>3. QED
  BY <1>1, <1>2

-----------------------------------------------------------------------------
(* The inductive invariant *)

\* The graph only grows.
LEMMA GraphGrows ==
  ASSUME TypeOK, [Next]_vars
  PROVE  exists \subseteq exists' /\ \A e \in Entities : applied[e] \subseteq applied'[e]
<1>1. ASSUME NEW r \in wire, NEW delivered \in BOOLEAN, Serve(r, delivered)
      PROVE exists \subseteq exists' /\ \A e \in Entities : applied[e] \subseteq applied'[e]
  BY <1>1 DEF TypeOK, Serve, graph
<1>2. UNCHANGED graph \/ \E r \in wire, delivered \in BOOLEAN : Serve(r, delivered)
  BY DEF Next, vars, graph, Proceed, Receive, Send, Resend, GiveUp, Cancel, Abandon,
         OnSuccess, OnExists, OnRefusal, OnExistsDirect, Restart, Reject
<1>3. QED
  BY <1>1, <1>2 DEF graph

\* A writer that does not act keeps its part of the invariant while the graph grows.
LEMMA Bystander ==
  ASSUME TypeOK, [Next]_vars, NEW u \in Writers, WriterInv(u),
         pc'[u] = pc[u], msg'[u] = msg[u], todo'[u] = todo[u],
         born'[u] = born[u], reply'[u] = reply[u]
  PROVE  WriterInv(u)'
<1>1. exists \subseteq exists' /\ \A e \in Entities : applied[e] \subseteq applied'[e]
  BY GraphGrows
<1>2. Mutation(u)' = Mutation(u)
  BY DEF Mutation, Kind
<1>3. pc[u] \in {"written"} \cup Running => msg[u] \in Messages
  BY DEF TypeOK, Running
<1>4. ASSUME msg[u] \in Messages, NEW i \in DOMAIN Steps[msg[u]]
      PROVE Steps[msg[u]][i].id \in Entities
  BY <1>4, StepFacts
<1>5. Plan(msg[u], born[u]) \subseteq DOMAIN Steps[msg[u]]
  BY DEF Plan
<1>6. born'[u] \subseteq exists' /\ reply'[u] # "not_found"
  BY <1>1 DEF WriterInv
<1>7. pc'[u] \in Running =>
        \A i \in Plan(msg'[u], born'[u]) \ todo'[u] :
          Steps[msg'[u]][i].id \in exists' /\ msg'[u] \in applied'[Steps[msg'[u]][i].id]
  BY <1>1, <1>3, <1>4, <1>5 DEF WriterInv
<1>8. reply'[u] # "none" =>
        /\ pc'[u] = "wait"
        /\ reply'[u] = "ok" =>
             Mutation(u)'.id \in exists' /\ Mutation(u)'.msg \in applied'[Mutation(u)'.id]
        /\ reply'[u] = "entity_exists" =>
             Mutation(u)'.kind = "create" /\ Mutation(u)'.id \in exists'
  <2>1. pc[u] = "wait" => Mutation(u).id \in Entities
    BY MutationFacts DEF Running
  <2>2. QED
    BY <1>1, <1>2, <2>1 DEF WriterInv
<1>9. pc'[u] = "written" =>
        \A i \in DOMAIN Steps[msg'[u]] :
          /\ Steps[msg'[u]][i].id \in exists'
          /\ Steps[msg'[u]][i].once \/ msg'[u] \in applied'[Steps[msg'[u]][i].id]
  BY <1>1, <1>3, <1>4 DEF WriterInv
<1>10. QED
  BY <1>6, <1>7, <1>8, <1>9 DEF WriterInv

\* The writer whose own handler acts keeps its part of the invariant.
LEMMA ActorStep ==
  ASSUME TypeOK, NEW w \in Writers, WriterInv(w),
         \/ \E m \in Messages : Receive(w, m)
         \/ Proceed(w) \/ Cancel(w) \/ Restart(w)
  PROVE  WriterInv(w)'
<1> USE DEF graph, handler
<1>1. ASSUME NEW m \in Messages, Receive(w, m) PROVE WriterInv(w)'
  <2>1. pc[w] \notin Running /\ pc[w] # "wait" /\ reply[w] = "none"
    BY <1>1 DEF Receive, Ended, Running, WriterInv
  <2>2. /\ born' = born /\ exists' = exists /\ reply' = reply /\ msg'[w] = m
        /\ applied' = applied
    BY <1>1 DEF TypeOK, Receive
  <2>3. CASE Ends(w, "refused") \/ Ends(w, "empty")
    <3>1. pc'[w] \notin Running \cup {"written"}
      BY <2>3 DEF TypeOK, Ends, Running
    <3>2. QED
      BY <2>1, <2>2, <3>1 DEF WriterInv
  <2>4. CASE Begins(w, Plan(m, born[w]), 1)
    <3>1. pc'[w] = "apply" /\ todo'[w] = Plan(msg'[w], born'[w])
      BY <2>2, <2>4 DEF TypeOK, Begins
    <3>2. QED
      BY <2>1, <2>2, <3>1 DEF WriterInv
  <2>5. QED
    BY <1>1, <2>3, <2>4 DEF Receive
<1>2. ASSUME Send(w) \/ Resend(w) PROVE WriterInv(w)'
  <2>1. /\ msg' = msg /\ todo' = todo /\ born' = born /\ reply' = reply
        /\ exists' = exists /\ applied' = applied
        /\ pc[w] \in Running /\ pc'[w] = "wait" /\ reply[w] = "none"
    BY <1>2 DEF TypeOK, Send, Resend, Running, WriterInv
  <2>2. QED
    BY <2>1 DEF WriterInv, Running
<1>3. ASSUME Abandon(w) PROVE WriterInv(w)'
  <2>1. /\ pc'[w] = "failed" /\ reply'[w] = "none"
        /\ born' = born /\ exists' = exists
    BY <1>3 DEF TypeOK, Abandon, Ends
  <2>2. QED
    BY <2>1 DEF WriterInv, Running
<1>4. ASSUME OnSuccess(w) PROVE WriterInv(w)'
  <2> DEFINE i == First(todo[w])
             rest == todo[w] \ {i}
             id(j) == Steps[msg[w]][j].id
  <2>1. /\ pc[w] \in Running /\ reply'[w] = "none"
        /\ exists' = exists /\ applied' = applied /\ msg' = msg
    BY <1>4 DEF TypeOK, OnSuccess, Running
  <2>2. msg[w] \in Messages /\ Mutation(w).id = id(i) /\ Mutation(w).msg = msg[w]
    BY <2>1, MutationFacts
  <2>3. id(i) \in exists /\ msg[w] \in applied[id(i)]
    BY <1>4, <2>2 DEF WriterInv, OnSuccess
  <2>4. \A j \in Plan(msg[w], born[w]) \ rest : id(j) \in exists /\ msg[w] \in applied[id(j)]
    BY <2>1, <2>3 DEF WriterInv
  <2>5. CASE rest # {}
    <3>1. pc'[w] = "apply" /\ todo'[w] = rest /\ born' = born
      BY <1>4, <2>5 DEF TypeOK, OnSuccess, Begins
    <3>2. QED
      BY <2>1, <2>4, <3>1 DEF WriterInv
  <2>6. CASE rest = {}
    <3>1. pc'[w] = "written" /\ born'[w] = born[w] \cup Births(msg[w], born[w])
      BY <1>4, <2>6 DEF TypeOK, OnSuccess, Ends
    <3>2. \A j \in DOMAIN Steps[msg[w]] :
            id(j) \in exists /\ (Steps[msg[w]][j].once \/ msg[w] \in applied[id(j)])
      <4>1. /\ born[w] \subseteq exists
            /\ \A j \in Plan(msg[w], born[w]) : id(j) \in exists /\ msg[w] \in applied[id(j)]
        BY <2>4, <2>6 DEF WriterInv
      <4>2. QED
        BY <2>2, <4>1, AllDone
    <3>3. Births(msg[w], born[w]) \subseteq exists
      BY <3>2 DEF Births
    <3>4. QED
      BY <2>1, <3>1, <3>2, <3>3 DEF WriterInv, Running
  <2>7. QED
    BY <2>5, <2>6
<1>5. ASSUME OnExists(w) PROVE WriterInv(w)'
  <2> DEFINE b == born[w] \cup {Mutation(w).id}
             plan == Plan(msg[w], b)
  <2>1. /\ pc[w] \in Running /\ reply'[w] = "none" /\ born'[w] = b
        /\ exists' = exists /\ applied' = applied /\ msg' = msg
    BY <1>5 DEF TypeOK, OnExists, Running
  <2>2. b \subseteq exists /\ msg[w] \in Messages
    BY <1>5, <2>1, MutationFacts DEF WriterInv, OnExists
  <2> HIDE DEF b
  <2>3. CASE plan = {}
    <3>1. pc'[w] = "written"
      BY <1>5, <2>3 DEF TypeOK, OnExists, Ends, b
    <3>2. \A j \in DOMAIN Steps[msg[w]] :
            LET s == Steps[msg[w]][j]
            IN s.id \in exists /\ (s.once \/ msg[w] \in applied[s.id])
      BY <2>2, <2>3, AllDone
    <3>3. QED
      BY <2>1, <2>2, <3>1, <3>2 DEF WriterInv, Running
  <2>4. CASE Ends(w, "exhausted")
    <3>1. pc'[w] = "exhausted"
      BY <2>4 DEF TypeOK, Ends
    <3>2. QED
      BY <2>1, <2>2, <3>1 DEF WriterInv, Running
  <2>5. CASE Begins(w, plan, attempt[w] + 1)
    <3>1. pc'[w] = "apply" /\ todo'[w] = plan
      BY <2>5 DEF TypeOK, Begins
    <3>2. Plan(msg'[w], born'[w]) \ todo'[w] = {}
      BY <2>1, <3>1
    <3>3. QED
      BY <2>1, <2>2, <3>1, <3>2 DEF WriterInv
  <2>6. QED
    BY <1>5, <2>3, <2>4, <2>5 DEF OnExists, b
<1>6. ASSUME Restart(w) PROVE WriterInv(w)'
  <2>1. pc'[w] = "ready" /\ reply'[w] = "none" /\ born'[w] = {}
    BY <1>6 DEF TypeOK, Restart, Ends
  <2>2. QED
    BY <2>1 DEF WriterInv, Running
<1>7. QED
  BY <1>1, <1>2, <1>3, <1>4, <1>5, <1>6 DEF Proceed, GiveUp, Cancel, OnRefusal, OnExistsDirect

\* What another process does, the graph included, keeps a writer's part of the
\* invariant; an answer the writer receives is true.
LEMMA ServeStep ==
  ASSUME TypeOK, GraphInv, NEW u \in Writers, WriterInv(u),
         NEW r \in wire, NEW delivered \in BOOLEAN, Serve(r, delivered)
  PROVE  WriterInv(u)'
<1>1. /\ pc' = pc /\ msg' = msg /\ todo' = todo /\ born' = born
      /\ r \in Request /\ r.id \in Entities /\ r.kind \in {"create", "update"}
  BY DEF Serve, handler, TypeOK, Request
<1>2. [Next]_vars
  BY DEF Next
<1>3. CASE reply'[u] = reply[u]
  BY <1>1, <1>2, <1>3, Bystander
<1>4. CASE reply'[u] # reply[u]
  <2>1. /\ r.writer = u /\ Awaited(r) /\ reply'[u] = Verdict(r)
    BY <1>4 DEF Serve, TypeOK
  <2>2. /\ pc[u] = "wait" /\ reply[u] = "none" /\ Mutation(u) = r
    BY <2>1 DEF Awaited
  <2>3. Mutation(u)' = r
    BY <1>1, <2>2 DEF Mutation, Kind
  <2>4. r.kind = "update" => r.id \in exists
    BY DEF GraphInv
  <2>5. Verdict(r) = "ok" => r.id \in exists' /\ r.msg \in applied'[r.id]
    BY <1>1 DEF Serve, TypeOK
  <2>6. Verdict(r) # "ok" => Verdict(r) = "entity_exists" /\ r.kind = "create" /\ r.id \in exists
    BY <1>1, <2>4 DEF Verdict
  <2>7. exists \subseteq exists' /\ \A e \in Entities : applied[e] \subseteq applied'[e]
    BY <1>2, GraphGrows
  <2>8. \A i \in DOMAIN Steps[msg[u]] : Steps[msg[u]][i].id \in Entities
    BY <2>2, MutationFacts, StepFacts DEF Running
  <2>9. \A i \in Plan(msg[u], born[u]) \ todo[u] :
          Steps[msg[u]][i].id \in exists' /\ msg[u] \in applied'[Steps[msg[u]][i].id]
    BY <2>2, <2>7, <2>8 DEF WriterInv, Plan, Running
  <2>10. /\ born'[u] \subseteq exists' /\ reply'[u] # "not_found" /\ pc'[u] = "wait"
    BY <1>1, <2>1, <2>2, <2>6, <2>7 DEF WriterInv
  <2>11. /\ reply'[u] = "ok" => r.id \in exists' /\ r.msg \in applied'[r.id]
         /\ reply'[u] = "entity_exists" => r.kind = "create" /\ r.id \in exists'
    BY <2>1, <2>5, <2>6, <2>7
  <2>12. QED
    BY <1>1, <2>3, <2>9, <2>10, <2>11 DEF WriterInv
<1>5. QED
  BY <1>3, <1>4

\* A request that the graph refuses.
LEMMA RejectStep ==
  ASSUME TypeOK, NEW u \in Writers, WriterInv(u), NEW r \in wire, Reject(r)
  PROVE  WriterInv(u)'
<1>1. /\ pc' = pc /\ msg' = msg /\ todo' = todo /\ born' = born
      /\ exists' = exists /\ applied' = applied
  BY DEF Reject, handler, graph
<1>2. [Next]_vars
  BY DEF Next
<1>3. CASE reply'[u] = reply[u]
  BY <1>1, <1>2, <1>3, Bystander
<1>4. CASE reply'[u] # reply[u]
  <2>1. reply'[u] = "rejected" /\ pc[u] = "wait"
    BY <1>4 DEF Reject, Awaited, TypeOK
  <2>2. QED
    BY <1>1, <2>1 DEF WriterInv
<1>5. QED
  BY <1>3, <1>4

\* What a handler does on its own leaves the other writers alone.
LEMMA OthersUntouched ==
  ASSUME TypeOK, NEW w \in Writers, NEW u \in Writers, u # w,
         \/ \E m \in Messages : Receive(w, m)
         \/ Proceed(w) \/ Cancel(w) \/ Restart(w)
  PROVE  /\ pc'[u] = pc[u] /\ msg'[u] = msg[u] /\ todo'[u] = todo[u]
         /\ born'[u] = born[u] /\ reply'[u] = reply[u]
BY DEF TypeOK, Receive, Proceed, Send, Resend, GiveUp, Cancel, Abandon, OnSuccess,
       OnExists, OnRefusal, OnExistsDirect, Restart, Ends, Begins

\* The graph stays sound: only sound requests are sent, and serving them keeps
\* every edge between born entities.
LEMMA GraphStep ==
  ASSUME TypeOK, GraphInv, \A u \in Writers : WriterInv(u), [Next]_vars
  PROVE  GraphInv'
<1>1. ASSUME NEW w \in Writers, Send(w) \/ Resend(w) PROVE GraphInv'
  <2>1. /\ exists' = exists /\ applied' = applied /\ edges' = edges
        /\ wire' = wire \cup {Mutation(w)} /\ pc[w] \in Running
    BY <1>1 DEF Send, Resend, graph, Running
  <2>2. LET r == Mutation(w)
        IN /\ r.kind = "update" => r.id \in exists
           /\ r.edge # NoEntity => r.edge \in exists
    BY <2>1, SentSound
  <2>3. QED
    BY <2>1, <2>2 DEF GraphInv, Unborn, StrictEdges
<1>2. ASSUME NEW r \in wire, NEW delivered \in BOOLEAN, Serve(r, delivered) PROVE GraphInv'
  <2>1. /\ r.id \in Entities /\ r.kind \in {"create", "update"}
        /\ r.edge \in Entities \cup {NoEntity}
    <3>1. r \in Request
      BY DEF TypeOK
    <3>2. QED
      BY <3>1 DEF Request
  <2>2. wire' \subseteq wire /\ exists \subseteq exists'
    BY <1>2 DEF Serve, graph
  <2>3. CASE Verdict(r) # "ok"
    BY <1>2, <2>2, <2>3 DEF Serve, graph, GraphInv, Unborn, StrictEdges
  <2>4. CASE Verdict(r) = "ok"
    <3>1. /\ exists' = exists \cup {r.id}
          /\ applied' = [applied EXCEPT ![r.id] = @ \cup {r.msg}]
          /\ edges' = IF r.edge = NoEntity THEN edges ELSE edges \cup {<<r.id, r.edge>>}
      BY <1>2, <2>4 DEF Serve
    <3>2. r.edge # NoEntity => r.edge \in exists
      BY <2>1 DEF GraphInv, StrictEdges
    <3>3. StrictEdges'
      BY <2>2, <3>1, <3>2 DEF GraphInv, StrictEdges
    <3>4. Unborn'
      BY <2>1, <3>1 DEF GraphInv, Unborn, TypeOK
    <3>5. QED
      BY <2>2, <3>3, <3>4 DEF GraphInv
  <2>5. QED
    BY <2>3, <2>4
<1>3. CASE UNCHANGED graph /\ wire' \subseteq wire
  BY <1>3 DEF GraphInv, Unborn, StrictEdges, graph
<1>4. QED
  BY <1>1, <1>2, <1>3 DEF Next, vars, graph, Proceed, Receive, GiveUp, Cancel, Abandon,
     OnSuccess, OnExists, OnRefusal, OnExistsDirect, Restart, Reject

LEMMA IInvInit == Init => IInv
<1> SUFFICES ASSUME Init PROVE IInv
  OBVIOUS
<1>1. TypeOK
  BY TypeOKInit
<1>2. GraphInv
  BY DEF Init, GraphInv, Unborn, StrictEdges
<1>3. \A u \in Writers : WriterInv(u)
  BY DEF Init, WriterInv, Running
<1>4. QED
  BY <1>1, <1>2, <1>3, IInvParts

LEMMA IInvStep == IInv /\ [Next]_vars => IInv'
<1> SUFFICES ASSUME IInv, [Next]_vars PROVE IInv'
  OBVIOUS
<1>1. TypeOK /\ GraphInv /\ \A u \in Writers : WriterInv(u)
  BY IInvParts
<1>2. TypeOK' /\ GraphInv'
  BY <1>1, TypeOKStep, GraphStep
<1>3. ASSUME NEW u \in Writers PROVE WriterInv(u)'
  <2>1. ASSUME NEW w \in Writers,
               \/ \E m \in Messages : Receive(w, m)
               \/ Proceed(w) \/ Cancel(w) \/ Restart(w)
        PROVE WriterInv(u)'
    <3>1. CASE u = w
      BY <1>1, <2>1, <3>1, ActorStep
    <3>2. CASE u # w
      BY <1>1, <2>1, <3>2, OthersUntouched, Bystander
    <3>3. QED
      BY <3>1, <3>2
  <2>2. ASSUME NEW r \in wire, Reject(r) PROVE WriterInv(u)'
    BY <1>1, <2>2, RejectStep
  <2>3. ASSUME NEW r \in wire, NEW delivered \in BOOLEAN, Serve(r, delivered)
        PROVE WriterInv(u)'
    BY <1>1, <2>3, ServeStep
  <2>4. CASE UNCHANGED vars
    BY <1>1, <2>4, Bystander DEF vars
  <2>5. QED
    BY <2>1, <2>2, <2>3, <2>4 DEF Next
<1>4. QED
  <2>1. (TypeOK /\ GraphInv /\ \A u \in Writers : WriterInv(u))'
    BY <1>2, <1>3
  <2>2. QED
    BY <2>1, IInvParts, PTL

-----------------------------------------------------------------------------
(* Theorems *)

\* The inductive invariant holds of every execution.
THEOREM Inductive == Spec => []IInv
BY IInvInit, IInvStep, PTL DEF Spec

\* No projector ever takes for born what the graph does not hold, for any number
\* of writers, whatever is lost, late, repeated or restarted.
THEOREM BornIsBorn == Spec => []BornInGraph
<1>1. IInv => BornInGraph
  BY DEF IInv
<1>2. QED
  BY <1>1, Inductive, PTL

\* No update is ever sent to an entity the graph does not hold.
THEOREM UpdatesFindTheirEntity == Spec => []UpdatesLand
<1>1. IInv => UpdatesLand
  BY DEF IInv
<1>2. QED
  BY <1>1, Inductive, PTL

\* The graph never holds, and is never asked for, an edge to an unborn entity.
THEOREM NoDanglingEdge == Spec => []StrictEdges
<1>1. IInv => StrictEdges
  BY DEF IInv
<1>2. QED
  BY <1>1, Inductive, PTL

\* A handler that reports success has written its observation everywhere.
THEOREM SuccessIsComplete == Spec => []WrittenIsApplied
<1>1. IInv => WrittenIsApplied
  BY DEF IInv
<1>2. QED
  BY <1>1, Inductive, PTL

-----------------------------------------------------------------------------
(* Refinement *)

\* Serving a request is a birth, an observation or no step of the abstract graph.
LEMMA ServeRefines ==
  ASSUME IInv, NEW r \in wire, NEW delivered \in BOOLEAN, Serve(r, delivered)
  PROVE  BornFirst!Next \/ UNCHANGED BornFirst!graph
<1>1. /\ r \in Request /\ r.id \in Entities /\ r.msg \in Messages
      /\ r.kind \in {"create", "update"} /\ r.edge \in Entities \cup {NoEntity}
  BY DEF IInv, TypeOK, Request
<1>2. /\ applied \in [Entities -> SUBSET Messages]
      /\ r.edge # NoEntity => r.edge \in exists
  BY DEF IInv, TypeOK, StrictEdges
<1>3. CASE Verdict(r) # "ok"
  BY <1>3 DEF Serve, graph, BornFirst!graph
<1>4. CASE Verdict(r) = "ok"
  <2>1. /\ exists' = exists \cup {r.id}
        /\ applied' = [applied EXCEPT ![r.id] = @ \cup {r.msg}]
        /\ edges' = IF r.edge = NoEntity THEN edges ELSE edges \cup {<<r.id, r.edge>>}
    BY <1>4 DEF Serve
  <2>2. CASE r.kind = "create"
    <3>1. r.id \notin exists /\ applied[r.id] = {}
      BY <1>1, <1>4, <2>2 DEF Verdict, IInv, Unborn
    <3>2. applied' = [applied EXCEPT ![r.id] = {r.msg}]
      BY <1>1, <1>2, <2>1, <3>1
    <3>3. BornFirst!Birth(r.id, r.msg, r.edge)
      BY <1>2, <2>1, <3>1, <3>2 DEF BornFirst!Birth
    <3>4. QED
      BY <1>1, <3>3 DEF BornFirst!Next
  <2>3. CASE r.kind = "update"
    <3>1. r.id \in exists /\ r.edge = NoEntity
      BY <1>1, <1>4, <2>3 DEF Verdict, Request
    <3>2. BornFirst!Observe(r.id, r.msg)
      BY <2>1, <3>1 DEF BornFirst!Observe
    <3>3. QED
      BY <1>1, <3>2 DEF BornFirst!Next
  <2>4. QED
    BY <1>1, <2>2, <2>3
<1>5. QED
  BY <1>3, <1>4

LEMMA StepRefines == IInv /\ [Next]_vars => [BornFirst!Next]_(BornFirst!graph)
<1> SUFFICES ASSUME IInv, [Next]_vars PROVE BornFirst!Next \/ UNCHANGED BornFirst!graph
  OBVIOUS
<1>1. UNCHANGED graph \/ \E r \in wire, delivered \in BOOLEAN : Serve(r, delivered)
  BY DEF Next, vars, graph, Proceed, Receive, Send, Resend, GiveUp, Cancel, Abandon,
         OnSuccess, OnExists, OnRefusal, OnExistsDirect, Restart, Reject
<1>2. CASE UNCHANGED graph
  BY <1>2 DEF graph, BornFirst!graph
<1>3. QED
  BY <1>1, <1>2, ServeRefines

\* The projectors, the transport and the graph service implement the born-first
\* graph: every birth is a first one with a born source, every other write an
\* observation of a born entity.
THEOREM Refinement == Spec => ImplementsBornFirst
<1>1. Init => BornFirst!Init
  BY DEF Init, BornFirst!Init
<1>2. QED
  BY <1>1, StepRefines, Inductive, PTL DEF Spec, ImplementsBornFirst, BornFirst!Spec

-----------------------------------------------------------------------------
(* How reconciliation runs out of attempts *)

\* Every attempt behind the handler has put one more entity of its observation
\* into the born set.
AttemptsCounted ==
  \A w \in Writers : pc[w] \in Running =>
    attempt[w] >= 1 /\ attempt[w] <= Cardinality(born[w] \cap Ids(msg[w])) + 1

CountInv == IInv /\ AttemptsCounted /\ ExhaustedOnlyByMany

\* An observation is about finitely many entities.
LEMMA IdsFinite ==
  ASSUME NEW m \in Messages
  PROVE  IsFiniteSet(Ids(m))
<1> DEFINE D == DOMAIN Steps[m]
           f == [i \in D |-> Steps[m][i].id]
<1>1. IsFiniteSet(D)
  <2>1. Len(Steps[m]) \in Nat /\ D = 1 .. Len(Steps[m])
    BY StepsAssumption
  <2>2. QED
    BY <2>1, FS_Interval
<1>2. f \in Surjection(D, Ids(m))
  BY DEF Ids, Surjection
<1> HIDE DEF f, D
<1>3. QED
  BY <1>1, <1>2, FS_Surjection

\* A birth that the graph refused adds an entity of the observation to the born
\* set that was not in it.
LEMMA ReconciledGrows ==
  ASSUME IInv, NEW w \in Writers, OnExists(w)
  PROVE  LET b == born[w] \cup {Mutation(w).id}
         IN /\ Cardinality(b \cap Ids(msg[w])) = Cardinality(born[w] \cap Ids(msg[w])) + 1
            /\ Cardinality(b \cap Ids(msg[w])) \in Nat
            /\ Cardinality(b \cap Ids(msg[w])) <= Cardinality(Ids(msg[w]))
            /\ Cardinality(Ids(msg[w])) \in Nat
<1> DEFINE id == Mutation(w).id
           I == Ids(msg[w])
<1>1. pc[w] \in Running /\ msg[w] \in Messages /\ id \in I /\ IsFiniteSet(I)
  BY MutationFacts, IdsFinite DEF OnExists, Running, IInv
<1>2. Mutation(w).kind = "create"
  BY DEF OnExists, IInv, ReplySound
<1>3. id \notin born[w]
  BY <1>1, <1>2, MutationFacts DEF IInv, MutationKind, WorkingCopy
<1> HIDE DEF id, I
<1>4. IsFiniteSet(born[w] \cap I)
  BY <1>1, FS_Intersection
<1>5. (born[w] \cup {id}) \cap I = (born[w] \cap I) \cup {id}
  BY <1>1
<1>6. /\ IsFiniteSet((born[w] \cap I) \cup {id})
      /\ Cardinality((born[w] \cap I) \cup {id}) = Cardinality(born[w] \cap I) + 1
  BY <1>3, <1>4, FS_AddElement
<1>7. /\ Cardinality((born[w] \cap I) \cup {id}) <= Cardinality(I)
      /\ Cardinality(I) \in Nat
  BY <1>1, FS_Subset, FS_CardinalityType
<1>8. Cardinality((born[w] \cap I) \cup {id}) \in Nat
  BY <1>6, FS_CardinalityType
<1>9. QED
  BY <1>5, <1>6, <1>7, <1>8 DEF id, I

LEMMA CountInit == Init => CountInv
BY IInvInit DEF Init, CountInv, AttemptsCounted, ExhaustedOnlyByMany, Running

LEMMA CountStep == CountInv /\ [Next]_vars => CountInv'
<1> SUFFICES ASSUME CountInv, [Next]_vars PROVE (AttemptsCounted /\ ExhaustedOnlyByMany)'
  BY IInvStep DEF CountInv
<1> DEFINE Held(u) == born[u] \cap Ids(msg[u])
           Counted(u) ==
             /\ pc[u] \in Running => attempt[u] >= 1 /\ attempt[u] <= Cardinality(Held(u)) + 1
             /\ pc[u] = "exhausted" => Cardinality(Ids(msg[u])) >= Attempts
<1>1. IInv /\ TypeOK /\ \A u \in Writers : Counted(u)
  BY DEF CountInv, AttemptsCounted, ExhaustedOnlyByMany, IInv
<1>2. ASSUME NEW u \in Writers, pc'[u] = pc[u], msg'[u] = msg[u],
             born'[u] = born[u], attempt'[u] = attempt[u]
      PROVE Counted(u)'
  BY <1>1, <1>2 DEF Ids
<1>3. ASSUME NEW u \in Writers, pc'[u] \notin Running \cup {"exhausted"}
      PROVE Counted(u)'
  BY <1>3
<1>4. ASSUME NEW w \in Writers, NEW m \in Messages, Receive(w, m) PROVE Counted(w)'
  <2>1. CASE Ends(w, "refused") \/ Ends(w, "empty")
    BY <1>1, <1>3, <2>1 DEF TypeOK, Ends, Running
  <2>2. CASE Begins(w, Plan(m, born[w]), 1)
    <3>1. pc'[w] = "apply" /\ attempt'[w] = 1 /\ msg'[w] = m
      BY <1>1, <1>4, <2>2 DEF TypeOK, Begins, Receive
    <3>2. Cardinality(born'[w] \cap Ids(m)) \in Nat
      BY IdsFinite, FS_Intersection, FS_CardinalityType
    <3>3. QED
      BY <3>1, <3>2 DEF Ids
  <2>3. QED
    BY <1>4, <2>1, <2>2 DEF Receive
<1>5. ASSUME NEW w \in Writers, Send(w) \/ Resend(w) PROVE Counted(w)'
  <2>1. /\ pc[w] \in Running /\ pc'[w] \in Running /\ pc'[w] # "exhausted"
        /\ msg' = msg /\ born' = born /\ attempt' = attempt
    BY <1>1, <1>5 DEF TypeOK, Send, Resend, Running
  <2>2. QED
    BY <1>1, <2>1 DEF Ids
<1>6. ASSUME NEW w \in Writers, Abandon(w) \/ Restart(w) PROVE Counted(w)'
  BY <1>1, <1>3, <1>6 DEF TypeOK, Abandon, Restart, Ends, Running
<1>7. ASSUME NEW w \in Writers, OnSuccess(w) PROVE Counted(w)'
  <2>1. CASE Ends(w, "written")
    BY <1>1, <1>3, <2>1 DEF TypeOK, Ends, Running
  <2>2. CASE UNCHANGED born /\ Begins(w, todo[w] \ {First(todo[w])}, attempt[w])
    <3>1. /\ pc[w] \in Running /\ pc'[w] = "apply"
          /\ attempt'[w] = attempt[w] /\ msg' = msg /\ born' = born
      BY <1>1, <1>7, <2>2 DEF TypeOK, OnSuccess, Begins, Running
    <3>2. QED
      BY <1>1, <3>1 DEF Ids
  <2>3. QED
    BY <1>7, <2>1, <2>2 DEF OnSuccess
<1>8. ASSUME NEW w \in Writers, OnExists(w) PROVE Counted(w)'
  <2> DEFINE b == born[w] \cup {Mutation(w).id}
             I == Ids(msg[w])
  <2>1. /\ pc[w] \in Running /\ msg' = msg /\ born'[w] = b
        /\ attempt[w] >= 1 /\ attempt[w] \in Nat
        /\ attempt[w] <= Cardinality(born[w] \cap I) + 1
    BY <1>1, <1>8, AttemptsPositive DEF TypeOK, OnExists, Running
  <2>2. /\ Cardinality(b \cap I) = Cardinality(born[w] \cap I) + 1
        /\ Cardinality(b \cap I) \in Nat
        /\ Cardinality(b \cap I) <= Cardinality(I)
        /\ Cardinality(I) \in Nat
    BY <1>1, <1>8, ReconciledGrows
  <2>3. Ids(msg[w])' = I /\ (born[w] \cap Ids(msg[w]))' = b \cap I
    BY <2>1 DEF Ids
  <2> HIDE DEF b, I
  <2>4. CASE Ends(w, "written")
    BY <1>1, <1>3, <2>4 DEF TypeOK, Ends, Running
  <2>5. CASE attempt[w] = Attempts /\ Ends(w, "exhausted")
    <3>1. pc'[w] = "exhausted"
      BY <1>1, <2>5 DEF TypeOK, Ends
    <3>2. Cardinality(I) >= Attempts
      BY <2>1, <2>2, <2>5
    <3>3. QED
      BY <2>3, <3>1, <3>2 DEF Running
  <2>6. CASE Begins(w, Plan(msg[w], b), attempt[w] + 1)
    <3>1. pc'[w] = "apply" /\ attempt'[w] = attempt[w] + 1
      BY <1>1, <2>6 DEF TypeOK, Begins
    <3>2. attempt'[w] >= 1 /\ attempt'[w] <= Cardinality(b \cap I) + 1
      BY <2>1, <2>2, <3>1
    <3>3. QED
      BY <2>3, <3>1, <3>2
  <2>7. QED
    BY <1>8, <2>4, <2>5, <2>6 DEF OnExists, b
<1>9. ASSUME NEW u \in Writers PROVE Counted(u)'
  <2>1. ASSUME NEW w \in Writers, u # w,
               \/ \E m \in Messages : Receive(w, m)
               \/ Proceed(w) \/ Cancel(w) \/ Restart(w)
        PROVE Counted(u)'
    <3>1. attempt'[u] = attempt[u]
      BY <1>1, <2>1 DEF TypeOK, Receive, Proceed, Send, Resend, GiveUp, Cancel, Abandon,
         OnSuccess, OnExists, OnRefusal, OnExistsDirect, Restart, Ends, Begins
    <3>2. QED
      BY <1>1, <1>2, <2>1, <3>1, OthersUntouched
  <2>2. CASE \/ \E m \in Messages : Receive(u, m)
             \/ Proceed(u) \/ Cancel(u) \/ Restart(u)
    BY <1>4, <1>5, <1>6, <1>7, <1>8, <2>2 DEF Proceed, GiveUp, Cancel, OnRefusal, OnExistsDirect
  <2>3. CASE UNCHANGED handler \/ UNCHANGED vars
    BY <1>2, <2>3 DEF handler, vars
  <2>4. QED
    BY <2>1, <2>2, <2>3 DEF Next, Serve, Reject
<1>10. QED
  BY <1>9 DEF AttemptsCounted, ExhaustedOnlyByMany

\* Reconciliation fails an observation only if it is about at least as many
\* entities as there are attempts, for every retry limit.
THEOREM AttemptsSuffice == Spec => []ExhaustedOnlyByMany
<1>1. CountInv => ExhaustedOnlyByMany
  BY DEF CountInv
<1>2. QED
  BY <1>1, CountInit, CountStep, PTL DEF Spec
=============================================================================
