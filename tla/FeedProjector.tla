---------------------------- MODULE FeedProjector ----------------------------
(***************************************************************************)
(* The graph-projector processors of the feeds and the graph they write.   *)
(*                                                                         *)
(* A writer is one projector with its own, volatile born set: the hosted   *)
(* projector component of a feed, or the adapter of the scenario runner.   *)
(* For a decoded observation it plans one mutation per step (FeedSteps), a *)
(* birth for an entity it has not seen born and an update otherwise, and   *)
(* applies the plan in order, one request/reply at a time.  A birth that   *)
(* the graph refuses because the entity exists is reconciled: the entity   *)
(* is marked born and the observation is planned again, at most            *)
(* WriteRetries times.                                                     *)
(*                                                                         *)
(* Requests may be lost, answered too late, sent again by the requester,   *)
(* or reach the graph after their writer gave up or restarted; several     *)
(* writers may write the same entities.                                    *)
(***************************************************************************)
EXTENDS Integers, Sequences, FiniteSets

CONSTANTS
  Writers,       \* the projectors
  Entities,      \* entity ids
  Messages,      \* decoded observations
  NoEntity,      \* no strict edge
  NoMessage,     \* no observation handled yet
  Steps,         \* Steps[m]: the entities m is written to, in order
  Malformed,     \* observations the projector refuses as a whole
  Accepts,       \* Accepts[w]: the observations that reach writer w
  Direct,        \* Direct[w]: the observations w writes without reconciliation
  WriteRetries,  \* configured attempts of one observation
  MaxSends       \* how often the requester sends one request

Step == [id : Entities, once : BOOLEAN, edge : Entities \cup {NoEntity}]

ASSUME GraphAssumption == NoEntity \notin Entities /\ NoMessage \notin Messages

ASSUME StepsAssumption ==
  /\ Steps \in [Messages -> Seq(Step)]
  /\ Malformed \subseteq Messages
  /\ Accepts \in [Writers -> SUBSET Messages]
  /\ Direct \in [Writers -> SUBSET Messages]

\* A strict edge points to an entity that an earlier step of the observation writes.
ASSUME EdgeAssumption ==
  \A m \in Messages : \A i \in DOMAIN Steps[m] :
    Steps[m][i].edge # NoEntity =>
      \E j \in 1 .. (i - 1) : Steps[m][j].id = Steps[m][i].edge

ASSUME RetryAssumption == WriteRetries \in Int /\ MaxSends \in Nat \ {0}

VARIABLES
  exists, applied, edges,   \* the graph, as in BornFirstGraph
  born,      \* born[w]: bornAssets, bornTracks, ... of the projector
  pc,        \* pc[w]: where the handler is, or how the last one ended
  msg,       \* msg[w]: the observation being, or last, handled
  todo,      \* todo[w]: the steps of the plan not yet applied
  attempt,   \* attempt[w]: 1, 2, ... of writePlan's loop
  sends,     \* sends[w]: how often the current request was sent
  wire,      \* requests the graph has not processed
  reply      \* reply[w]: the answer to the current request, if it arrived

graph == <<exists, applied, edges>>
handler == <<born, pc, msg, todo, attempt, sends>>
vars == <<exists, applied, edges, born, pc, msg, todo, attempt, sends, wire, reply>>

Running == {"apply", "wait"}
Ended == {"ready", "refused", "empty", "written", "failed", "exhausted"}
Replies == {"none", "ok", "entity_exists", "not_found", "rejected"}
\* Only a birth carries an edge.
Request ==
  {r \in [writer : Writers, kind : {"create", "update"}, id : Entities,
          msg : Messages, edge : Entities \cup {NoEntity}] :
     r.kind = "update" => r.edge = NoEntity}

Attempts == IF WriteRetries <= 0 THEN 1 ELSE WriteRetries

Ids(m) == {Steps[m][i].id : i \in DOMAIN Steps[m]}

-----------------------------------------------------------------------------
(* The projector.  Its working copy of the born sets grows as it plans, so  *)
(* the second step of one entity is an update even when the first is a      *)
(* birth.                                                                  *)

WorkingCopy(m, b, i) == b \cup {Steps[m][j].id : j \in 1 .. (i - 1)}

MutationKind(m, b, i) ==
  IF Steps[m][i].id \notin WorkingCopy(m, b, i) THEN "create"
  ELSE IF Steps[m][i].once THEN "none"
  ELSE "update"

\* The steps that have a mutation in the plan for m under the born set b.
Plan(m, b) == {i \in DOMAIN Steps[m] : MutationKind(m, b, i) # "none"}

Births(m, b) ==
  {Steps[m][i].id : i \in {j \in DOMAIN Steps[m] : MutationKind(m, b, j) = "create"}}

\* Between two changes of born[w] the plan is a function of it, and only the
\* running handler changes born[w]: the plan itself is not kept as state.
Kind(w, i) == MutationKind(msg[w], born[w], i)

\* Fault: the plan is applied from its end.
Last(S) == CHOOSE i \in S : \A j \in S : i >= j

First(S) == CHOOSE i \in S : \A j \in S : i <= j

Mutation(w) ==
  LET i == First(todo[w])
      s == Steps[msg[w]][i]
  IN [writer |-> w, kind |-> Kind(w, i), id |-> s.id, msg |-> msg[w],
      edge |-> IF Kind(w, i) = "create" THEN s.edge ELSE NoEntity]

-----------------------------------------------------------------------------
Init ==
  /\ exists = {}
  /\ applied = [e \in Entities |-> {}]
  /\ edges = {}
  /\ born = [w \in Writers |-> {}]
  /\ pc = [w \in Writers |-> "ready"]
  /\ msg = [w \in Writers |-> NoMessage]
  /\ todo = [w \in Writers |-> {}]
  /\ attempt = [w \in Writers |-> 0]
  /\ sends = [w \in Writers |-> 0]
  /\ wire = {}
  /\ reply = [w \in Writers |-> "none"]

\* A handler that returns: its locals are gone, how it ended is kept in pc.
Ends(w, how) ==
  /\ pc' = [pc EXCEPT ![w] = how]
  /\ todo' = [todo EXCEPT ![w] = {}]
  /\ attempt' = [attempt EXCEPT ![w] = 0]
  /\ sends' = [sends EXCEPT ![w] = 0]

\* An attempt of writePlan starts with the first mutation of a fresh plan.
Begins(w, plan, n) ==
  /\ pc' = [pc EXCEPT ![w] = "apply"]
  /\ todo' = [todo EXCEPT ![w] = plan]
  /\ attempt' = [attempt EXCEPT ![w] = n]
  /\ sends' = [sends EXCEPT ![w] = 0]

\* HandleDecodedPayload: project the observation.  A subscription delivers one
\* message at a time.
Receive(w, m) ==
  /\ pc[w] \in Ended
  /\ m \in Accepts[w]
  /\ msg' = [msg EXCEPT ![w] = m]
  /\ LET plan == Plan(m, born[w])
     IN IF m \in Malformed THEN Ends(w, "refused")
        ELSE IF plan = {} THEN Ends(w, "empty")
        ELSE Begins(w, plan, 1)
  /\ UNCHANGED <<graph, born, wire, reply>>

\* GraphWriter.Apply sends the next mutation of the plan.
Send(w) ==
  /\ pc[w] = "apply"
  /\ wire' = wire \cup {Mutation(w)}
  /\ sends' = [sends EXCEPT ![w] = 1]
  /\ pc' = [pc EXCEPT ![w] = "wait"]
  /\ UNCHANGED <<graph, born, msg, todo, attempt, reply>>

\* RequestWithRetry: no answer in time, the same request is sent again.
Resend(w) ==
  /\ pc[w] = "wait"
  /\ reply[w] = "none"
  /\ sends[w] < MaxSends
  /\ wire' = wire \cup {Mutation(w)}
  /\ sends' = [sends EXCEPT ![w] = @ + 1]
  /\ UNCHANGED <<graph, born, pc, msg, todo, attempt, reply>>

\* Fault: the births of the plan are marked even though it was not applied.
AbandonMarkingBirths(w) ==
  /\ Ends(w, "failed")
  /\ reply' = [reply EXCEPT ![w] = "none"]
  /\ born' = [born EXCEPT ![w] = @ \cup Births(msg[w], @)]
  /\ UNCHANGED <<graph, msg, wire>>

\* The handler returns an error; what the plan wrote so far stays written and
\* nothing of it is marked born.
Abandon(w) ==
  /\ Ends(w, "failed")
  /\ reply' = [reply EXCEPT ![w] = "none"]
  /\ UNCHANGED <<graph, born, msg, wire>>

\* The requester has no answer after its last send.
GiveUp(w) ==
  /\ pc[w] = "wait"
  /\ reply[w] = "none"
  /\ sends[w] = MaxSends
  /\ Abandon(w)

\* The handler's context ends, before a mutation or while one is waited for.
Cancel(w) ==
  /\ pc[w] \in Running
  /\ reply[w] = "none"
  /\ Abandon(w)

\* A mutation succeeded.  After the last one MarkBornForPlan marks the births.
OnSuccess(w) ==
  /\ pc[w] = "wait"
  /\ reply[w] = "ok"
  /\ LET rest == todo[w] \ {First(todo[w])}
     IN IF rest = {}
        THEN /\ Ends(w, "written")
             /\ born' = [born EXCEPT ![w] = @ \cup Births(msg[w], @)]
        ELSE /\ Begins(w, rest, attempt[w])
             /\ UNCHANGED born
  /\ reply' = [reply EXCEPT ![w] = "none"]
  /\ UNCHANGED <<graph, msg, wire>>

\* Fault: the reconciliation plans again without marking the entity born.
OnExistsUnmarked(w) ==
  /\ pc[w] = "wait"
  /\ reply[w] = "entity_exists"
  /\ IF attempt[w] = Attempts THEN Ends(w, "exhausted")
     ELSE Begins(w, Plan(msg[w], born[w]), attempt[w] + 1)
  /\ reply' = [reply EXCEPT ![w] = "none"]
  /\ UNCHANGED <<graph, born, msg, wire>>

\* Fault: as before, and the attempts are not counted either.
OnExistsForever(w) ==
  /\ pc[w] = "wait"
  /\ reply[w] = "entity_exists"
  /\ Begins(w, Plan(msg[w], born[w]), attempt[w])
  /\ reply' = [reply EXCEPT ![w] = "none"]
  /\ UNCHANGED <<graph, born, msg, wire>>

\* writePlan: the entity exists, mark it born, plan the observation again and
\* start over unless the attempts are used up.  (Apply returns the entity of a
\* birth of this very observation, so the MarkBorn call always accepts it.)
OnExists(w) ==
  /\ pc[w] = "wait"
  /\ reply[w] = "entity_exists"
  /\ msg[w] \notin Direct[w]
  /\ LET b == born[w] \cup {Mutation(w).id}
         plan == Plan(msg[w], b)
     IN /\ born' = [born EXCEPT ![w] = b]
        /\ IF plan = {} THEN Ends(w, "written")
           ELSE IF attempt[w] = Attempts THEN Ends(w, "exhausted")
           ELSE Begins(w, plan, attempt[w] + 1)
  /\ reply' = [reply EXCEPT ![w] = "none"]
  /\ UNCHANGED <<graph, msg, wire>>

\* Any other unsuccessful answer ends the handler.
OnRefusal(w) ==
  /\ pc[w] = "wait"
  /\ reply[w] \in {"not_found", "rejected"}
  /\ Abandon(w)

\* The CAP step of the scenario runner has no reconciliation: a birth of an entity that
\* exists ends it too.
OnExistsDirect(w) ==
  /\ pc[w] = "wait"
  /\ reply[w] = "entity_exists"
  /\ msg[w] \in Direct[w]
  /\ Abandon(w)

\* The process of w stops at any point and comes back with empty born sets.
Restart(w) ==
  /\ Ends(w, "ready")
  /\ born' = [born EXCEPT ![w] = {}]
  /\ msg' = [msg EXCEPT ![w] = NoMessage]
  /\ reply' = [reply EXCEPT ![w] = "none"]
  /\ UNCHANGED <<graph, wire>>

-----------------------------------------------------------------------------
(* The graph service (external).  A request that stays on the wire for ever *)
(* is a lost one; one that is served after its writer moved on is late.     *)

Verdict(r) ==
  CASE r.kind = "create" /\ r.id \notin exists -> "ok"
    [] r.kind = "create" /\ r.id \in exists -> "entity_exists"
    [] r.kind = "update" /\ r.id \in exists -> "ok"
    [] OTHER -> "not_found"

\* r is what its writer waits for: the answer reaches it unless it is lost or
\* too late.
Awaited(r) ==
  /\ pc[r.writer] = "wait"
  /\ reply[r.writer] = "none"
  /\ Mutation(r.writer) = r

Serve(r, delivered) ==
  /\ wire' = wire \ {r}
  /\ IF Verdict(r) = "ok"
     THEN /\ exists' = exists \cup {r.id}
          /\ applied' = [applied EXCEPT ![r.id] = @ \cup {r.msg}]
          /\ edges' = IF r.edge = NoEntity THEN edges ELSE edges \cup {<<r.id, r.edge>>}
     ELSE UNCHANGED graph
  /\ reply' = IF delivered /\ Awaited(r)
              THEN [reply EXCEPT ![r.writer] = Verdict(r)] ELSE reply
  /\ UNCHANGED handler

\* The graph refuses a mutation for a reason of its own (its owner token, say).
Reject(r) ==
  /\ wire' = wire \ {r}
  /\ Awaited(r)
  /\ reply' = [reply EXCEPT ![r.writer] = "rejected"]
  /\ UNCHANGED <<graph, handler>>

-----------------------------------------------------------------------------
\* What the handler's goroutine does by itself, once it has an observation.
Proceed(w) ==
  \/ Send(w) \/ Resend(w) \/ GiveUp(w)
  \/ OnSuccess(w) \/ OnExists(w) \/ OnExistsDirect(w) \/ OnRefusal(w)

Next ==
  \/ \E w \in Writers :
       \/ \E m \in Messages : Receive(w, m)
       \/ Proceed(w) \/ Cancel(w) \/ Restart(w)
  \/ \E r \in wire :
       Reject(r) \/ \E delivered \in BOOLEAN : Serve(r, delivered)

Spec == Init /\ [][Next]_vars

-----------------------------------------------------------------------------
TypeOK ==
  /\ exists \subseteq Entities
  /\ applied \in [Entities -> SUBSET Messages]
  /\ edges \subseteq Entities \X Entities
  /\ born \in [Writers -> SUBSET Entities]
  /\ pc \in [Writers -> Running \cup Ended]
  /\ msg \in [Writers -> Messages \cup {NoMessage}]
  /\ \A w \in Writers :
       /\ msg[w] = NoMessage => pc[w] = "ready"
       /\ pc[w] \in Running => todo[w] # {} /\ todo[w] \subseteq Plan(msg[w], born[w])
  /\ todo \in [Writers -> SUBSET Nat]
  /\ attempt \in [Writers -> 0 .. Attempts]
  /\ sends \in [Writers -> 0 .. MaxSends]
  /\ wire \subseteq Request
  /\ reply \in [Writers -> Replies]

\* A projector never takes an entity for born that the graph does not hold: not
\* after lost answers, failed plans or the births of another writer.
BornInGraph == \A w \in Writers : born[w] \subseteq exists

\* An update is only ever sent for a born entity, also when it is late, so the
\* graph never answers that the entity is missing.
UpdatesLand ==
  /\ \A r \in wire : r.kind = "update" => r.id \in exists
  /\ \A w \in Writers : reply[w] # "not_found"

\* The source asset of a track is born before a birth with an edge to it is
\* sent, whatever became of earlier requests: the graph has no dangling edge.
StrictEdges ==
  /\ \A r \in wire : r.edge # NoEntity => r.edge \in exists
  /\ edges \subseteq exists \X exists

\* A handler that reports success has put its observation on every entity it is
\* about, also when reconciliation changed the plan under way.
WrittenIsApplied ==
  \A w \in Writers : pc[w] = "written" =>
    \A i \in DOMAIN Steps[msg[w]] :
      LET s == Steps[msg[w]][i]
      IN s.id \in exists /\ (s.once \/ msg[w] \in applied[s.id])

\* What the cursor of Apply has passed is in the graph: every planned step that
\* is no longer to do was applied, whoever gave birth to its entity.
PlanDone ==
  \A w \in Writers : pc[w] \in Running =>
    \A i \in Plan(msg[w], born[w]) \ todo[w] :
      LET id == Steps[msg[w]][i].id IN id \in exists /\ msg[w] \in applied[id]

\* An answer is always one to the mutation at the cursor, never to an earlier
\* request of the writer, and it tells the truth about the graph.
ReplySound ==
  \A w \in Writers : reply[w] # "none" =>
    LET r == Mutation(w)
    IN /\ pc[w] = "wait"
       /\ reply[w] = "ok" => r.id \in exists /\ r.msg \in applied[r.id]
       /\ reply[w] = "entity_exists" => r.kind = "create" /\ r.id \in exists

\* Nothing is recorded of an entity before its birth.
Unborn == \A e \in Entities : e \notin exists => applied[e] = {}

\* The inductive invariant of FeedProjectorProofs.
IInv ==
  /\ TypeOK /\ Unborn /\ BornInGraph /\ UpdatesLand /\ StrictEdges
  /\ PlanDone /\ ReplySound /\ WrittenIsApplied

\* Reconciliation runs out of attempts only for an observation of at least as
\* many entities as there are attempts: each attempt that fails on an existing
\* entity takes one entity off the births of the next plan.
ExhaustedOnlyByMany ==
  \A w \in Writers : pc[w] = "exhausted" => Cardinality(Ids(msg[w])) >= Attempts

\* The projectors and the transport implement the born-first graph.
BornFirst == INSTANCE BornFirstGraph
ImplementsBornFirst == BornFirst!Spec

\* What the ADS-B documentation says of the hosted ingest: a snapshot whose
\* tracks are already born is reconciled, not dropped.
SnapshotsReconcile == \A w \in Writers : pc[w] # "exhausted"
=============================================================================
