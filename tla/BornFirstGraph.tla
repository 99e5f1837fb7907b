--------------------------- MODULE BornFirstGraph ---------------------------
(***************************************************************************)
(* What SemOps promises of the governed graph, whatever the feeds, their   *)
(* restarts and the request transport do: an entity is born once, a birth  *)
(* carries a strict edge only to an entity that is already born, and every *)
(* later observation lands on a born entity.                               *)
(***************************************************************************)
CONSTANTS
  Entities,   \* entity ids of the common operating picture
  Messages,   \* observations the feeds may write
  NoEntity    \* the absence of a strict edge

VARIABLES
  exists,     \* the entities born so far
  applied,    \* applied[e]: the observations whose triples e carries
  edges       \* strict cop.track.source edges <<track, asset>>

graph == <<exists, applied, edges>>

Init ==
  /\ exists = {}
  /\ applied = [e \in Entities |-> {}]
  /\ edges = {}

Birth(e, m, source) ==
  /\ e \notin exists
  /\ source = NoEntity \/ source \in exists
  /\ exists' = exists \cup {e}
  /\ applied' = [applied EXCEPT ![e] = {m}]
  /\ edges' = IF source = NoEntity THEN edges ELSE edges \cup {<<e, source>>}

Observe(e, m) ==
  /\ e \in exists
  /\ applied' = [applied EXCEPT ![e] = @ \cup {m}]
  /\ UNCHANGED <<exists, edges>>

Next ==
  \E e \in Entities, m \in Messages :
    \/ \E source \in Entities \cup {NoEntity} : Birth(e, m, source)
    \/ Observe(e, m)

Spec == Init /\ [][Next]_graph
=============================================================================
