------------------------------ MODULE Readback ------------------------------
(***************************************************************************)
(* What the picture makes of the observations in the graph                  *)
(* (internal/api/cop, GraphProvider.snapshotFromGraph) while time passes    *)
(* and the feeds' projectors write.                                         *)
(*                                                                         *)
(* A write of a hazard appends: every CAP message about a hazard stays in   *)
(* the graph as evidence, and the readback chooses.  A write of a track,    *)
(* a task or an advisory replaces.  A projector works on one message after  *)
(* the other; a request whose answer is late is sent again, and the copy    *)
(* that was left on the wire may reach the graph at any later time.         *)
(*                                                                         *)
(* Time is a number of ticks; 0 is Go's zero time.                          *)
(***************************************************************************)
EXTENDS Integers, Sequences, FiniteSets

CONSTANTS
  Entities,   \* the entities under observation
  Kind,       \* Kind[e]: "hazard", "track", "task" or "advisory"
  Feed,       \* Feed[e]: the feed that writes e
  Messages,   \* the decoded messages: CAP alerts and the others' reports
  Freshness,  \* the window in which an observation is fresh
  MaxNow,     \* bound: the last tick
  MaxWrites,  \* bound: writes of one hazard
  MaxLate     \* bound: requests on the wire that nobody waits for

Feeds == {"mavlink", "tak-cot", "cap", "adsb"}

\* A message as the decoders accept it.  sent is when the feed sends it, effective
\* the time that it states itself, 0 when it states none; a report states one.
\* drawn: it has a shape on the map (a hazard, a track) or a text (an advisory).
MessageType ==
  [entity : Entities, sent : Nat \ {0}, effective : Nat, expires : Nat,
   msgType : {"report", "alert", "update", "cancel", "error", "ack"},
   status : {"actual", "test", "active", ""}, drawn : BOOLEAN]

ASSUME ReadbackAssumption ==
  /\ Kind \in [Entities -> {"hazard", "track", "task", "advisory"}]
  /\ Feed \in [Entities -> Feeds]
  /\ \A e \in Entities : Kind[e] = "hazard" <=> Feed[e] = "cap"
  /\ \A e \in Entities : Kind[e] \in {"task", "advisory"} => Feed[e] = "tak-cot"
  /\ Messages \subseteq MessageType
  /\ Freshness \in Nat \ {0} /\ MaxNow \in Nat /\ MaxWrites \in Nat /\ MaxLate \in Nat

\* The picture is drawn from the entity states of one snapshot.
ASSUME EntitiesAssumption == IsFiniteSet(Entities)

Hazards == {e \in Entities : Kind[e] = "hazard"}

VARIABLES
  now,        \* the clock
  projected,  \* the messages that reached their projector
  writing,    \* the messages that are being written, one of a feed
  late,       \* requests without a projector that waits for their answer
  triples,    \* triples[h]: the evidence of a hazard, in the order of the graph
  current     \* current[e]: what was last written of any other entity

vars == <<now, projected, writing, late, triples, current>>

Unwritten == [observed |-> 0, status |-> "", drawn |-> FALSE]

Init ==
  /\ now = 1
  /\ projected = {}
  /\ writing = {}
  /\ late = {}
  /\ triples = [h \in Hazards |-> << >>]
  /\ current = [e \in Entities \ Hazards |-> Unwritten]

-----------------------------------------------------------------------------
(* Writing.                                                                *)

\* The time of an observation: an alert's effective time before the time it was sent.
Observed(m) == IF m.effective # 0 THEN m.effective ELSE m.sent

Triple(p, m) == [predicate |-> p, object |-> m, timestamp |-> Observed(m)]

\* What one alert appends.  Every triple has the time of the observation.
EvidenceTriples(m) ==
  << Triple("evidence", m), Triple("observed_at", m), Triple("source_ref", m) >>

\* A report that says nothing of the status or the position leaves them as they are.
Replaced(old, m) ==
  [observed |-> Observed(m),
   status |-> IF m.status = "" THEN old.status ELSE m.status,
   drawn |-> old.drawn \/ m.drawn]

Written(e) == IF Kind[e] = "hazard" THEN triples[e] # << >> ELSE current[e].observed # 0

\* The graph applies the write of m.
Applied(m) ==
  IF Kind[m.entity] = "hazard"
    THEN /\ Len(triples[m.entity]) < 3 * MaxWrites
         /\ triples' = [triples EXCEPT ![m.entity] = @ \o EvidenceTriples(m)]
         /\ UNCHANGED current
    ELSE /\ current' = [current EXCEPT ![m.entity] = Replaced(@, m)]
         /\ UNCHANGED triples

\* The next message of a feed reaches its projector; some never do.
Receive(m) ==
  /\ m.sent <= now
  /\ m \notin projected
  /\ \A x \in projected : Feed[x.entity] = Feed[m.entity] => x.sent <= m.sent
  /\ \A x \in writing : Feed[x.entity] # Feed[m.entity]
  /\ projected' = projected \cup {m}
  /\ writing' = writing \cup {m}
  /\ UNCHANGED <<now, late, triples, current>>

\* The graph applies the request and the projector gets the answer.
Write(m) ==
  /\ m \in writing
  /\ Applied(m)
  /\ writing' = writing \ {m}
  /\ UNCHANGED <<now, projected, late>>

\* No answer in time: the request is sent again and its first copy stays on the wire.
\* A birth that the graph has taken is refused when it is repeated, and the projector
\* writes the message again as an update.
Resend(m) ==
  /\ m \in writing
  /\ Cardinality(late) < MaxLate
  /\ late' = late \cup {[message |-> m, birth |-> ~Written(m.entity)]}
  /\ UNCHANGED <<now, projected, writing, triples, current>>

\* No attempt is left, or the request is refused.
GiveUp(m) ==
  /\ m \in writing
  /\ writing' = writing \ {m}
  /\ UNCHANGED <<now, projected, late, triples, current>>

\* A copy left on the wire arrives.  That of a birth is refused once the entity exists.
ServeLate(r) ==
  /\ r \in late
  /\ r.birth => ~Written(r.message.entity)
  /\ Applied(r.message)
  /\ late' = late \ {r}
  /\ UNCHANGED <<now, projected, writing>>

Tick ==
  /\ now < MaxNow
  /\ now' = now + 1
  /\ UNCHANGED <<projected, writing, late, triples, current>>

Next ==
  \/ Tick
  \/ \E m \in Messages : Receive(m) \/ Write(m) \/ Resend(m) \/ GiveUp(m)
  \/ \E r \in late : ServeLate(r)

Spec == Init /\ [][Next]_vars

-----------------------------------------------------------------------------
(* Reading.                                                                *)

\* Fault: the triple that arrived last.
IsLast(s, p, i) ==
  /\ i \in DOMAIN s
  /\ s[i].predicate = p
  /\ \A j \in DOMAIN s : s[j].predicate = p => j <= i

\* Triple i is the latest of predicate p: the later in the sequence wins a tie.
IsLatest(s, p, i) ==
  /\ i \in DOMAIN s
  /\ s[i].predicate = p
  /\ \A j \in DOMAIN s : s[j].predicate = p =>
       \/ s[j].timestamp < s[i].timestamp
       \/ s[j].timestamp = s[i].timestamp /\ j <= i

LatestValue(s, p) == s[CHOOSE i \in DOMAIN s : IsLatest(s, p, i)].object

\* The alert whose document, time and source reference the picture shows.
Evidence(h) == LatestValue(triples[h], "evidence")
SourceRef(h) == LatestValue(triples[h], "source_ref")

\* Fault: the first time written, as for entities whose writes replace.
FirstObservedAt(e) ==
  IF Kind[e] = "hazard" THEN Observed(triples[e][1].object) ELSE current[e].observed

UpdatedAt(e) ==
  IF Kind[e] = "hazard" THEN Observed(LatestValue(triples[e], "observed_at"))
                        ELSE current[e].observed

\* What the picture shows of an entity at all.
Shown(e) ==
  /\ Written(e)
  /\ CASE Kind[e] = "hazard" -> Evidence(e).drawn
       [] Kind[e] \in {"track", "advisory"} -> current[e].drawn
       [] OTHER -> TRUE

\* Fault: a status never ages.
FreshnessForgotten(status, updatedAt) == status

\* A status holds as long as the observation is fresh.
FreshnessStatus(status, updatedAt) ==
  IF now - updatedAt <= Freshness THEN status ELSE "stale"

\* The statuses of a hazard, that of an update with a suffix of its own.
HazardStatus(a, updatedAt) ==
  CASE a.status # "actual" -> "nonoperational"
    [] a.status = "actual" /\ a.msgType \in {"cancel", "error", "ack"} -> a.msgType
    [] a.status = "actual" /\ a.msgType \notin {"cancel", "error", "ack"} ->
         IF a.expires # 0 /\ a.expires <= now THEN "expired"
         ELSE FreshnessStatus(IF a.msgType = "update" THEN "active.update" ELSE "active", updatedAt)

ReportStatus(e) ==
  FreshnessStatus(IF current[e].status = "" THEN "unknown" ELSE current[e].status, UpdatedAt(e))

Status(e) == IF Kind[e] = "hazard" THEN HazardStatus(Evidence(e), UpdatedAt(e)) ELSE ReportStatus(e)

ShownOf(f) == {e \in Entities : Feed[e] = f /\ Shown(e)}

LatestTime(S) == CHOOSE t \in S : \A u \in S : u <= t

\* CAP and ADS-B without observations count as planned feeds, the others as stale ones.
FeedHealth(f) ==
  LET times == {UpdatedAt(e) : e \in ShownOf(f)}
  IN  IF times = {} THEN IF f \in {"cap", "adsb"} THEN "planned" ELSE "stale"
      ELSE IF now - LatestTime(times) > Freshness THEN "stale" ELSE "live"

-----------------------------------------------------------------------------
(* Properties.                                                             *)

\* Type invariant of the graph's content and of what is under way.
TypeOK ==
  /\ now \in Nat
  /\ projected \subseteq Messages
  /\ writing \subseteq projected
  /\ \A x, y \in writing : Feed[x.entity] = Feed[y.entity] => x = y
  /\ late \subseteq [message : projected, birth : BOOLEAN]
  /\ triples \in [Hazards ->
       Seq([predicate : {"evidence", "observed_at", "source_ref"}, object : projected, timestamp : Nat])]
  /\ current \in [Entities \ Hazards ->
       [observed : Nat, status : {"actual", "test", "active", ""}, drawn : BOOLEAN]]

\* The alerts about h that are in the graph.
Alerts(h) == {triples[h][i].object : i \in DOMAIN triples[h]}

\* The last alert that was sent is also the last to take effect.
Orderly(S) ==
  \E y \in S : \A x \in S \ {y} : x.sent < y.sent /\ Observed(x) < Observed(y)

\* The document, the time and the source reference that the picture shows of a hazard
\* are those of one and the same alert, in whatever order the alerts and late copies of
\* them arrived, also when several alerts have the same time.
EvidenceAgrees ==
  \A h \in Hazards : Written(h) =>
    SourceRef(h) = Evidence(h) /\ UpdatedAt(h) = Observed(Evidence(h))

\* A hazard is shown by the last alert about it, whatever late copies of earlier ones
\* arrive behind it, if that alert takes effect after the others.
NewestAlertShown ==
  \A h \in Hazards : Orderly(Alerts(h)) => \A x \in Alerts(h) : x.sent <= Evidence(h).sent

\* The same without the condition, as feed-evidence/cap-edxl.md has it: the newest
\* evidence drives the readback.
NewestEvidenceDrivesReadback ==
  \A h \in Hazards : \A x \in Alerts(h) : x.sent <= Evidence(h).sent

\* The statuses of the entities and the health of the feeds, two computations over the
\* same observations, do not contradict each other: nothing on the map is fresh under a
\* feed that is not live, and a live feed has an observation that is fresh.
FeedsAgree ==
  \A f \in Feeds :
    /\ (\E e \in ShownOf(f) : Status(e) \in {"active", "active.update", "unknown"}) => FeedHealth(f) = "live"
    /\ FeedHealth(f) = "live" =>
         \E e \in ShownOf(f) : FreshnessStatus("fresh", UpdatedAt(e)) = "fresh"

Active(h) == Shown(h) /\ Status(h) \in {"active", "active.update"}

\* A hazard that was cancelled, has expired or is stale does not become active again by
\* the passing of time, nor by late copies of alerts that are already in the graph.
InactiveStaysInactive ==
  [][\A h \in Hazards :
       /\ Written(h) /\ ~Active(h)
       /\ Orderly(Alerts(h)) /\ Alerts(h)' = Alerts(h)
       => ~Active(h)']_vars
=============================================================================
