-------------------------- MODULE FeedPollerProofs --------------------------
(***************************************************************************)
(* The safety of the HTTP pollers, for any number of starts and versions.  *)
(***************************************************************************)
EXTENDS FeedPoller, FiniteSetTheorems, TLAPS

\* A part of a finite set has no more elements, and fewer if it lacks one.
LEMMA PartCounts ==
  ASSUME NEW S, IsFiniteSet(S), NEW T, T \subseteq S
  PROVE  /\ IsFiniteSet(T) /\ Cardinality(S) \in Nat /\ Cardinality(T) \in Nat
         /\ Cardinality(T) <= Cardinality(S)
         /\ \A x \in S : x \notin T => Cardinality(T) + 1 <= Cardinality(S)
  <1>1. IsFiniteSet(T) /\ Cardinality(S) \in Nat /\ Cardinality(T) \in Nat
        /\ Cardinality(T) <= Cardinality(S)
    BY FS_Subset, FS_CardinalityType
  <1>2. ASSUME NEW x \in S, x \notin T PROVE Cardinality(T) # Cardinality(S)
    BY <1>2, FS_Subset
  <1> QED
    BY <1>1, <1>2

\* One element more counts for one at most.
LEMMA MoreCounts ==
  ASSUME NEW S, IsFiniteSet(S), NEW x, NEW T, T \subseteq S \cup {x}
  PROVE  /\ Cardinality(S) \in Nat /\ Cardinality(T) \in Nat
         /\ Cardinality(T) <= Cardinality(S) + 1
  <1>1. /\ IsFiniteSet(S \cup {x}) /\ Cardinality(S) \in Nat
        /\ Cardinality(S \cup {x}) <= Cardinality(S) + 1
    <2>1. Cardinality(S) \in Nat
      BY FS_CardinalityType
    <2> QED
      BY <2>1, FS_AddElement
  <1>2. Cardinality(T) \in Nat /\ Cardinality(S \cup {x}) \in Nat
        /\ Cardinality(T) <= Cardinality(S \cup {x})
    BY <1>1, PartCounts
  <1> QED
    BY <1>1, <1>2

LEMMA LoopSetsFinite ==
  ASSUME TypeOK
  PROVE  /\ IsFiniteSet(Alive) /\ IsFiniteSet(Signalled) /\ IsFiniteSet(abandoned)
         /\ \A v : IsFiniteSet(Behind(v))
         /\ Cardinality(Alive) \in Nat /\ Cardinality(Signalled) \in Nat
         /\ Cardinality(abandoned) \in Nat /\ \A v : Cardinality(Behind(v)) \in Nat
  <1>1. IsFiniteSet(Loops)
    BY PollerAssumption, FS_Interval DEF Loops
  <1>2. Alive \subseteq Loops /\ Signalled \subseteq Loops /\ abandoned \subseteq Loops
    BY DEF Alive, Signalled, TypeOK
  <1>3. ASSUME NEW v PROVE Behind(v) \subseteq Loops
    BY PollerAssumption DEF Behind, Loops, TypeOK
  <1> QED
    BY <1>1, <1>2, <1>3, PartCounts

LEMMA InitInv == Init => IInv
  <1> SUFFICES ASSUME Init PROVE IInv
    OBVIOUS
  <1> USE PollerAssumption DEF Init, Loops, Versions, NoTag, Most
  <1>1. TypeOK
    <2>1. /\ published \in [Versions -> 0 .. Most] /\ version \in Versions
          /\ current = 0 /\ etag = 0 /\ waiting = 0 /\ 0 \in 0 .. MaxStarts /\ 0 \in 0 .. MaxVersion
      OBVIOUS
    <2>2. /\ loop \in [Loops -> {"none", "wait", "asked", "answered", "published", "ended"}]
          /\ \A l \in Loops : loop[l] = "none"
      OBVIOUS
    <2>3. cancelled \in [Loops -> BOOLEAN] /\ signal \in [Loops -> BOOLEAN]
      OBVIOUS
    <2>4. sentTag \in [Loops -> 0 .. MaxVersion] /\ body \in [Loops -> 0 .. MaxVersion]
      BY <2>1
    <2> QED
      BY <2>1, <2>2, <2>3, <2>4 DEF TypeOK
  <1>2. LoopOrder /\ TagInv /\ VersionOrder
    BY DEF LoopOrder, TagInv, VersionOrder, Alive
  <1>3. LoopsAccounted
    <2>1. Alive = {} /\ Signalled = {} /\ abandoned = {} /\ Busy = 0
      BY DEF Alive, Signalled, Busy
    <2> QED
      BY <2>1, FS_EmptySet DEF LoopsAccounted
  <1>4. PublishesAccounted
    <2> SUFFICES ASSUME NEW v \in Versions
                 PROVE  published[v] = 0 /\ Cardinality(Behind(v)) = 0 /\ overlaps = 0
      BY DEF PublishesAccounted
    <2>1. Behind(v) = {}
      BY DEF Behind
    <2> QED
      BY <2>1, FS_EmptySet
  <1> QED
    BY <1>1, <1>2, <1>3, <1>4 DEF IInv

\* Types.
LEMMA TypeOKStep == IInv /\ [Next]_vars => TypeOK'
  <1> SUFFICES ASSUME IInv, [Next]_vars PROVE TypeOK'
    OBVIOUS
  <1> USE PollerAssumption DEF Loops, Versions, NoTag, Most, provider, loops, calls
  <1>1. CASE Change
    BY <1>1 DEF Change, IInv, TypeOK
  <1>2. CASE Start
    <2>1. current \in Nat /\ current + 1 \in Loops /\ current' = current + 1 /\ current' # 0
      BY <1>2 DEF Start, IInv, TypeOK
    <2>2. loop' \in [Loops -> {"none", "wait", "asked", "answered", "published", "ended"}]
      BY <1>2, <2>1 DEF Start, IInv, TypeOK
    <2>3. \A l \in Loops : loop'[l] \in {"answered", "published"} => body'[l] # 0
      BY <1>2, <2>1 DEF Start, IInv, TypeOK
    <2>4. /\ overlaps' \in Nat /\ state' \in {"created", "started", "stopped"}
          /\ current' \in 0 .. MaxStarts
      BY <1>2, <2>1 DEF Start, IInv, TypeOK
    <2>5. quiet' \in BOOLEAN
      BY <1>2 DEF Start
    <2> QED
      BY <1>2, <2>1, <2>2, <2>3, <2>4, <2>5 DEF Start, IInv, TypeOK
  <1>3. CASE CancelContext
    BY <1>3 DEF CancelContext, IInv, TypeOK
  <1>4. CASE Stop
    BY <1>4 DEF Stop, IInv, TypeOK
  <1>5. CASE StopNotStarted
    BY <1>5 DEF StopNotStarted, IInv, TypeOK
  <1>6. CASE StopReturns
    BY <1>6 DEF StopReturns, IInv, TypeOK
  <1>7. CASE StopTimesOut
    BY <1>7 DEF StopTimesOut, IInv, TypeOK
  <1>8. ASSUME NEW l \in Loops, Ask(l) PROVE TypeOK'
    BY <1>8 DEF Ask, AtLoop, IInv, TypeOK
  <1>9. ASSUME NEW l \in Loops, NotModified(l) PROVE TypeOK'
    BY <1>9 DEF NotModified, AtLoop, IInv, TypeOK
  <1>10. ASSUME NEW l \in Loops, Full(l) PROVE TypeOK'
    <2>1. /\ body' \in [Loops -> 0 .. MaxVersion]
          /\ \A k \in Loops : loop'[k] \in {"answered", "published"} => body'[k] # 0
      BY <1>10 DEF Full, AtLoop, IInv, TypeOK
    <2> QED
      BY <1>10, <2>1 DEF Full, AtLoop, IInv, TypeOK
  <1>11. ASSUME NEW l \in Loops, AskFails(l) PROVE TypeOK'
    BY <1>11 DEF AskFails, AtLoop, IInv, TypeOK
  <1>12. ASSUME NEW l \in Loops, Publish(l) PROVE TypeOK'
    <2>1. body[l] \in Versions /\ published \in [Versions -> 0 .. Most]
      BY <1>12 DEF Publish, AtLoop, IInv, TypeOK
    <2>2. published' \in [Versions -> 0 .. Most]
      <3>1. PICK m \in Nat : m = Most
        OBVIOUS
      <3>2. published[body[l]] \in 0 .. m
        BY <2>1, <3>1
      <3>3. (IF published[body[l]] = m THEN m ELSE published[body[l]] + 1) \in 0 .. m
        BY <3>2
      <3> QED
        BY <1>12, <2>1, <3>1, <3>3 DEF Publish
    <2> QED
      BY <1>12, <2>2 DEF Publish, AtLoop, IInv, TypeOK
  <1>13. ASSUME NEW l \in Loops, PublishFails(l) PROVE TypeOK'
    BY <1>13 DEF PublishFails, AtLoop, IInv, TypeOK
  <1>14. ASSUME NEW l \in Loops, Keep(l) PROVE TypeOK'
    <2>1. etag' \in 0 .. MaxVersion
      BY <1>14 DEF Keep, Validator, IInv, TypeOK
    <2> QED
      BY <1>14, <2>1 DEF Keep, AtLoop, IInv, TypeOK
  <1>15. ASSUME NEW l \in Loops, End(l) PROVE TypeOK'
    BY <1>15 DEF End, AtLoop, IInv, TypeOK
  <1>16. CASE UNCHANGED vars
    BY <1>16 DEF vars, IInv, TypeOK
  <1> QED
    BY <1>1, <1>2, <1>3, <1>4, <1>5, <1>6, <1>7, <1>8, <1>9, <1>10, <1>11, <1>12, <1>13, <1>14, <1>15, <1>16
    DEF Next, LoopStep, Answer

\* A loop that goes on leaves the order of the loops alone.
LEMMA LoopMoves ==
  ASSUME IInv, NEW l \in Loops, NEW to, l \in Alive, to # "none",
         loop' = [loop EXCEPT ![l] = to], UNCHANGED <<cancelled, calls, signal>>
  PROVE  LoopOrder'
  <1>1. /\ loop' \in [Loops -> {"none", "wait", "asked", "answered", "published", "ended", to}]
        /\ \A k \in Loops : k # l => loop'[k] = loop[k]
        /\ loop'[l] = to /\ loop[l] \notin {"none", "ended"}
    BY DEF IInv, TypeOK, Alive
  <1>2. Alive' \subseteq Alive
    BY <1>1 DEF Alive
  <1>3. \A k \in Loops : k > current => loop'[k] = "none"
    BY <1>1 DEF IInv, LoopOrder
  <1>4. overlaps = 0 => \A k \in Loops : signal[k] => loop'[k] = "ended"
    BY <1>1 DEF IInv, LoopOrder
  <1> QED
    BY <1>2, <1>3, <1>4 DEF calls, IInv, LoopOrder

\* Unless a start overlapped, at most the last loop is alive, and Stop knows of it.
LEMMA LoopOrderStep == IInv /\ [Next]_vars => LoopOrder'
  <1> SUFFICES ASSUME IInv, [Next]_vars PROVE LoopOrder'
    OBVIOUS
  <1> USE PollerAssumption DEF Loops, Versions, NoTag, Most, provider, loops, calls
  <1>1. CASE Change
    BY <1>1 DEF Change, IInv, TypeOK, LoopOrder, Alive
  <1>2. CASE Start
    <2>1. current \in Nat /\ current' = current + 1 /\ current + 1 \in Loops
      BY <1>2 DEF Start, IInv, TypeOK
    <2>2. /\ \A l \in Loops : l > current' => loop'[l] = "none"
          /\ \A l \in Loops : l < current' => cancelled'[l]
          /\ state' = "started" /\ waiting' = 0 /\ ~quiet'
      BY <1>2, <2>1 DEF Start, IInv, TypeOK, LoopOrder
    <2>3. ASSUME overlaps' = 0
          PROVE  Alive' \subseteq {current'} /\ \A l \in Loops : signal'[l] => loop'[l] = "ended"
      <3>1. overlaps = 0 /\ Alive = {}
        BY <1>2, <2>3 DEF Start, IInv, TypeOK
      <3>2. \A l \in Loops : l # current + 1 => loop'[l] = loop[l]
        BY <1>2, <2>1 DEF Start, IInv, TypeOK
      <3>3. ~signal[current + 1]
        BY <2>1, <3>1 DEF IInv, LoopOrder
      <3> QED
        BY <1>2, <2>1, <3>1, <3>2, <3>3 DEF Start, IInv, LoopOrder, Alive
    <2> QED
      BY <2>2, <2>3 DEF LoopOrder
  <1>3. CASE CancelContext
    BY <1>3 DEF CancelContext, IInv, TypeOK, LoopOrder, Alive
  <1>4. CASE Stop
    BY <1>4 DEF Stop, IInv, TypeOK, LoopOrder, Alive
  <1>5. CASE StopNotStarted
    BY <1>5 DEF StopNotStarted, IInv, TypeOK, LoopOrder, Alive
  <1>6. CASE StopReturns
    BY <1>6 DEF StopReturns, IInv, TypeOK, LoopOrder, Alive
  <1>7. CASE StopTimesOut
    BY <1>7 DEF StopTimesOut, IInv, TypeOK, LoopOrder, Alive
  <1>8. ASSUME NEW l \in Loops, Ask(l) PROVE LoopOrder'
    <2>1. l \in Alive /\ loop' = [loop EXCEPT ![l] = "asked"]
          /\ UNCHANGED <<cancelled, calls, signal>>
      BY <1>8 DEF Ask, AtLoop, Alive
    <2> QED
      BY <2>1, LoopMoves
  <1>9. ASSUME NEW l \in Loops, NotModified(l) PROVE LoopOrder'
    <2>1. l \in Alive /\ loop' = [loop EXCEPT ![l] = "wait"]
          /\ UNCHANGED <<cancelled, calls, signal>>
      BY <1>9 DEF NotModified, AtLoop, Alive
    <2> QED
      BY <2>1, LoopMoves
  <1>10. ASSUME NEW l \in Loops, Full(l) PROVE LoopOrder'
    <2>1. l \in Alive /\ loop' = [loop EXCEPT ![l] = "answered"]
          /\ UNCHANGED <<cancelled, calls, signal>>
      BY <1>10 DEF Full, AtLoop, Alive
    <2> QED
      BY <2>1, LoopMoves
  <1>11. ASSUME NEW l \in Loops, AskFails(l) PROVE LoopOrder'
    <2>1. l \in Alive /\ loop' = [loop EXCEPT ![l] = "wait"]
          /\ UNCHANGED <<cancelled, calls, signal>>
      BY <1>11 DEF AskFails, AtLoop, Alive
    <2> QED
      BY <2>1, LoopMoves
  <1>12. ASSUME NEW l \in Loops, Publish(l) PROVE LoopOrder'
    <2>1. l \in Alive /\ loop' = [loop EXCEPT ![l] = "published"]
          /\ UNCHANGED <<cancelled, calls, signal>>
      BY <1>12 DEF Publish, AtLoop, Alive
    <2> QED
      BY <2>1, LoopMoves
  <1>13. ASSUME NEW l \in Loops, PublishFails(l) PROVE LoopOrder'
    <2>1. l \in Alive /\ loop' = [loop EXCEPT ![l] = "wait"]
          /\ UNCHANGED <<cancelled, calls, signal>>
      BY <1>13 DEF PublishFails, AtLoop, Alive
    <2> QED
      BY <2>1, LoopMoves
  <1>14. ASSUME NEW l \in Loops, Keep(l) PROVE LoopOrder'
    <2>1. l \in Alive /\ loop' = [loop EXCEPT ![l] = "wait"]
          /\ UNCHANGED <<cancelled, calls, signal>>
      BY <1>14 DEF Keep, AtLoop, Alive
    <2> QED
      BY <2>1, LoopMoves
  <1>15. ASSUME NEW l \in Loops, End(l) PROVE LoopOrder'
    <2>1. /\ loop[l] = "wait" /\ loop' = [loop EXCEPT ![l] = "ended"]
          /\ UNCHANGED <<cancelled, calls, state, current, waiting, quiet, abandoned, overlaps>>
      BY <1>15 DEF End, AtLoop
    <2>2. PICK c \in l .. current : signal' = [signal EXCEPT ![c] = TRUE]
      BY <1>15 DEF End
    <2>3. /\ loop'[l] = "ended" /\ \A k \in Loops : k # l => loop'[k] = loop[k]
          /\ l \in Alive /\ Alive' \subseteq Alive
      BY <2>1 DEF Alive, IInv, TypeOK
    <2>4. \A k \in Loops : k > current => loop'[k] = "none"
      BY <2>1, <2>3 DEF IInv, LoopOrder
    <2>5. ASSUME overlaps = 0 PROVE \A k \in Loops : signal'[k] => loop'[k] = "ended"
      <3>1. l = current /\ c = l /\ \A k \in Loops : signal[k] => loop[k] = "ended"
        BY <2>2, <2>3, <2>5 DEF IInv, TypeOK, LoopOrder
      <3>2. \A k \in Loops : signal'[k] => signal[k] \/ k = l
        BY <2>2, <3>1 DEF IInv, TypeOK
      <3> QED
        BY <2>3, <3>1, <3>2
    <2> QED
      BY <2>1, <2>3, <2>4, <2>5 DEF IInv, LoopOrder
  <1>16. CASE UNCHANGED vars
    BY <1>16 DEF vars, IInv, TypeOK, LoopOrder, Alive
  <1> QED
    BY <1>1, <1>2, <1>3, <1>4, <1>5, <1>6, <1>7, <1>8, <1>9, <1>10, <1>11, <1>12, <1>13, <1>14, <1>15, <1>16
    DEF Next, LoopStep, Answer

\* A validator is kept, and sent, only after its content was published.
LEMMA TagStep == IInv /\ [Next]_vars => TagInv'
  <1> SUFFICES ASSUME IInv, [Next]_vars PROVE TagInv'
    OBVIOUS
  <1> USE PollerAssumption DEF Loops, Versions, NoTag, Most, provider, loops, calls
  <1>1. CASE Change
    BY <1>1 DEF Change, IInv, TypeOK, TagInv
  <1>2. CASE Start
    BY <1>2 DEF Start, IInv, TypeOK, TagInv
  <1>3. CASE CancelContext
    BY <1>3 DEF CancelContext, IInv, TypeOK, TagInv
  <1>4. CASE Stop
    BY <1>4 DEF Stop, IInv, TypeOK, TagInv
  <1>5. CASE StopNotStarted
    BY <1>5 DEF StopNotStarted, IInv, TypeOK, TagInv
  <1>6. CASE StopReturns
    BY <1>6 DEF StopReturns, IInv, TypeOK, TagInv
  <1>7. CASE StopTimesOut
    BY <1>7 DEF StopTimesOut, IInv, TypeOK, TagInv
  <1>8. ASSUME NEW l \in Loops, Ask(l) PROVE TagInv'
    BY <1>8 DEF Ask, AtLoop, IInv, TypeOK, TagInv
  <1>9. ASSUME NEW l \in Loops, NotModified(l) PROVE TagInv'
    BY <1>9 DEF NotModified, AtLoop, IInv, TypeOK, TagInv
  <1>10. ASSUME NEW l \in Loops, Full(l) PROVE TagInv'
    BY <1>10 DEF Full, AtLoop, IInv, TypeOK, TagInv
  <1>11. ASSUME NEW l \in Loops, AskFails(l) PROVE TagInv'
    BY <1>11 DEF AskFails, AtLoop, IInv, TypeOK, TagInv
  <1>12. ASSUME NEW l \in Loops, Publish(l) PROVE TagInv'
    <2>1. /\ body[l] \in Versions /\ published \in [Versions -> 0 .. Most]
          /\ loop' = [loop EXCEPT ![l] = "published"]
      BY <1>12 DEF Publish, AtLoop, IInv, TypeOK
    <2>2. /\ published'[body[l]] > 0
          /\ \A v \in Versions : published[v] > 0 => published'[v] > 0
      BY <1>12, <2>1 DEF Publish
    <2>3. etag' = NoTag \/ published'[etag'] > 0
      BY <1>12, <2>2 DEF Publish, IInv, TypeOK, TagInv
    <2>4. ASSUME NEW k \in Loops
          PROVE  /\ sentTag'[k] = NoTag \/ published'[sentTag'[k]] > 0
                 /\ loop'[k] = "published" => published'[body'[k]] > 0
      BY <1>12, <2>1, <2>2, SMTT(30) DEF Publish, IInv, TypeOK, TagInv
    <2> QED
      BY <2>3, <2>4 DEF TagInv
  <1>13. ASSUME NEW l \in Loops, PublishFails(l) PROVE TagInv'
    BY <1>13 DEF PublishFails, AtLoop, IInv, TypeOK, TagInv
  <1>14. ASSUME NEW l \in Loops, Keep(l) PROVE TagInv'
    BY <1>14 DEF Keep, Validator, AtLoop, IInv, TypeOK, TagInv
  <1>15. ASSUME NEW l \in Loops, End(l) PROVE TagInv'
    BY <1>15 DEF End, AtLoop, IInv, TypeOK, TagInv
  <1>16. CASE UNCHANGED vars
    BY <1>16 DEF vars, IInv, TypeOK, TagInv
  <1> QED
    BY <1>1, <1>2, <1>3, <1>4, <1>5, <1>6, <1>7, <1>8, <1>9, <1>10, <1>11, <1>12, <1>13, <1>14, <1>15, <1>16
    DEF Next, LoopStep, Answer

\* Content only gets newer.
LEMMA VersionStep == IInv /\ [Next]_vars => VersionOrder'
  <1> SUFFICES ASSUME IInv, [Next]_vars PROVE VersionOrder'
    OBVIOUS
  <1> USE PollerAssumption DEF Loops, Versions, NoTag, Most, provider, loops, calls
  <1>1. CASE Change
    BY <1>1, SMTT(30) DEF Change, IInv, TypeOK, VersionOrder
  <1>2. CASE Start
    BY <1>2 DEF Start, IInv, TypeOK, VersionOrder
  <1>3. CASE CancelContext
    BY <1>3 DEF CancelContext, IInv, TypeOK, VersionOrder
  <1>4. CASE Stop
    BY <1>4 DEF Stop, IInv, TypeOK, VersionOrder
  <1>5. CASE StopNotStarted
    BY <1>5 DEF StopNotStarted, IInv, TypeOK, VersionOrder
  <1>6. CASE StopReturns
    BY <1>6 DEF StopReturns, IInv, TypeOK, VersionOrder
  <1>7. CASE StopTimesOut
    BY <1>7 DEF StopTimesOut, IInv, TypeOK, VersionOrder
  <1>8. ASSUME NEW l \in Loops, Ask(l) PROVE VersionOrder'
    BY <1>8 DEF Ask, AtLoop, IInv, TypeOK, VersionOrder
  <1>9. ASSUME NEW l \in Loops, NotModified(l) PROVE VersionOrder'
    BY <1>9 DEF NotModified, AtLoop, IInv, TypeOK, VersionOrder
  <1>10. ASSUME NEW l \in Loops, Full(l) PROVE VersionOrder'
    BY <1>10 DEF Full, AtLoop, IInv, TypeOK, VersionOrder
  <1>11. ASSUME NEW l \in Loops, AskFails(l) PROVE VersionOrder'
    BY <1>11 DEF AskFails, AtLoop, IInv, TypeOK, VersionOrder
  <1>12. ASSUME NEW l \in Loops, Publish(l) PROVE VersionOrder'
    BY <1>12 DEF Publish, AtLoop, IInv, TypeOK, VersionOrder
  <1>13. ASSUME NEW l \in Loops, PublishFails(l) PROVE VersionOrder'
    BY <1>13 DEF PublishFails, AtLoop, IInv, TypeOK, VersionOrder
  <1>14. ASSUME NEW l \in Loops, Keep(l) PROVE VersionOrder'
    BY <1>14 DEF Keep, Validator, AtLoop, IInv, TypeOK, VersionOrder
  <1>15. ASSUME NEW l \in Loops, End(l) PROVE VersionOrder'
    BY <1>15 DEF End, AtLoop, IInv, TypeOK, VersionOrder
  <1>16. CASE UNCHANGED vars
    BY <1>16 DEF vars, IInv, TypeOK, VersionOrder
  <1> QED
    BY <1>1, <1>2, <1>3, <1>4, <1>5, <1>6, <1>7, <1>8, <1>9, <1>10, <1>11, <1>12, <1>13, <1>14, <1>15, <1>16
    DEF Next, LoopStep, Answer

\* A step that starts, ends and abandons no loop keeps the account of them.
LEMMA SameLoops ==
  ASSUME IInv, Alive' = Alive, current' = current,
         UNCHANGED <<signal, abandoned>>, Busy' = Busy
  PROVE  LoopsAccounted'
  <1>1. Signalled' = Signalled
    BY DEF Signalled
  <1> QED
    BY <1>1 DEF IInv, LoopsAccounted

\* A Start adds a loop, a Stop that times out abandons one, and one that takes a value
\* does so after a loop has ended.
LEMMA LoopsStep == IInv /\ [Next]_vars => LoopsAccounted'
  <1> SUFFICES ASSUME IInv, [Next]_vars PROVE LoopsAccounted'
    OBVIOUS
  <1> USE PollerAssumption DEF Loops, Versions, NoTag, Most, provider, loops, calls
  <1>1. CASE Change
    <2>1. Alive' = Alive /\ current' = current /\ UNCHANGED <<signal, abandoned>> /\ Busy' = Busy
      BY <1>1 DEF Change, Alive, Busy, IInv, TypeOK, LoopOrder
    <2> QED
      BY <2>1, SameLoops
  <1>2. CASE Start
    <2>1. /\ current \in Nat /\ current' = current + 1 /\ current + 1 \in Loops
          /\ loop[current + 1] = "none" /\ Busy = 0 /\ Busy' = 1
          /\ UNCHANGED <<signal, abandoned>>
      BY <1>2 DEF Start, Busy, IInv, TypeOK, LoopOrder
    <2>2. Alive' = Alive \cup {current + 1} /\ current + 1 \notin Alive
      BY <1>2, <2>1 DEF Start, Alive, IInv, TypeOK
    <2>3. Cardinality(Alive') = Cardinality(Alive) + 1 /\ Signalled' = Signalled
      BY <2>1, <2>2, LoopSetsFinite, FS_AddElement DEF IInv, Signalled
    <2>4. \A l \in abandoned : l <= current' /\ l # current'
      BY <2>1 DEF IInv, TypeOK, LoopsAccounted
    <2> QED
      BY <2>1, <2>3, <2>4, LoopSetsFinite DEF IInv, LoopsAccounted
  <1>3. CASE CancelContext
    <2>1. Alive' = Alive /\ current' = current /\ UNCHANGED <<signal, abandoned>> /\ Busy' = Busy
      BY <1>3 DEF CancelContext, Alive, Busy, IInv, TypeOK, LoopOrder
    <2> QED
      BY <2>1, SameLoops
  <1>4. CASE Stop
    <2>1. Alive' = Alive /\ current' = current /\ UNCHANGED <<signal, abandoned>> /\ Busy' = Busy
      BY <1>4 DEF Stop, Alive, Busy, IInv, TypeOK, LoopOrder
    <2> QED
      BY <2>1, SameLoops
  <1>5. CASE StopNotStarted
    <2>1. Alive' = Alive /\ current' = current /\ UNCHANGED <<signal, abandoned>> /\ Busy' = Busy
      BY <1>5 DEF StopNotStarted, Alive, Busy, IInv, TypeOK, LoopOrder
    <2> QED
      BY <2>1, SameLoops
  <1>6. CASE StopReturns
    <2>1. /\ waiting \in Signalled /\ Busy = 1 /\ Busy' = 0
          /\ UNCHANGED <<current, abandoned>> /\ Alive' = Alive
      BY <1>6 DEF StopReturns, Busy, Signalled, Alive, IInv, TypeOK, LoopOrder
    <2>2. Signalled' = Signalled \ {waiting}
      BY <1>6 DEF StopReturns, Signalled, IInv, TypeOK
    <2>3. Cardinality(Signalled') = Cardinality(Signalled) - 1
      BY <2>1, <2>2, LoopSetsFinite, FS_RemoveElement DEF IInv
    <2> QED
      BY <2>1, <2>3, LoopSetsFinite DEF IInv, LoopsAccounted
  <1>7. CASE StopTimesOut
    <2>1. /\ waiting = current /\ current \in Nat /\ Busy = 1 /\ Busy' = 0
          /\ UNCHANGED <<current, signal>> /\ Alive' = Alive
          /\ abandoned' = abandoned \cup {waiting}
      BY <1>7 DEF StopTimesOut, Busy, Alive, IInv, TypeOK, LoopOrder
    <2>2. waiting \notin abandoned
      BY <2>1 DEF IInv, LoopsAccounted
    <2>3. Cardinality(abandoned') = Cardinality(abandoned) + 1 /\ Signalled' = Signalled
      BY <2>1, <2>2, LoopSetsFinite, FS_AddElement DEF IInv, Signalled
    <2> QED
      BY <2>1, <2>3, LoopSetsFinite DEF IInv, LoopsAccounted
  <1>8. ASSUME NEW l \in Loops, Ask(l) PROVE LoopsAccounted'
    <2>1. Alive' = Alive /\ current' = current /\ UNCHANGED <<signal, abandoned>> /\ Busy' = Busy
      BY <1>8 DEF Ask, AtLoop, Alive, Busy, IInv, TypeOK, LoopOrder
    <2> QED
      BY <2>1, SameLoops
  <1>9. ASSUME NEW l \in Loops, NotModified(l) PROVE LoopsAccounted'
    <2>1. Alive' = Alive /\ current' = current /\ UNCHANGED <<signal, abandoned>> /\ Busy' = Busy
      BY <1>9 DEF NotModified, AtLoop, Alive, Busy, IInv, TypeOK, LoopOrder
    <2> QED
      BY <2>1, SameLoops
  <1>10. ASSUME NEW l \in Loops, Full(l) PROVE LoopsAccounted'
    <2>1. Alive' = Alive /\ current' = current /\ UNCHANGED <<signal, abandoned>> /\ Busy' = Busy
      BY <1>10 DEF Full, AtLoop, Alive, Busy, IInv, TypeOK, LoopOrder
    <2> QED
      BY <2>1, SameLoops
  <1>11. ASSUME NEW l \in Loops, AskFails(l) PROVE LoopsAccounted'
    <2>1. Alive' = Alive /\ current' = current /\ UNCHANGED <<signal, abandoned>> /\ Busy' = Busy
      BY <1>11 DEF AskFails, AtLoop, Alive, Busy, IInv, TypeOK, LoopOrder
    <2> QED
      BY <2>1, SameLoops
  <1>12. ASSUME NEW l \in Loops, Publish(l) PROVE LoopsAccounted'
    <2>1. Alive' = Alive /\ current' = current /\ UNCHANGED <<signal, abandoned>> /\ Busy' = Busy
      BY <1>12 DEF Publish, AtLoop, Alive, Busy, IInv, TypeOK, LoopOrder
    <2> QED
      BY <2>1, SameLoops
  <1>13. ASSUME NEW l \in Loops, PublishFails(l) PROVE LoopsAccounted'
    <2>1. Alive' = Alive /\ current' = current /\ UNCHANGED <<signal, abandoned>> /\ Busy' = Busy
      BY <1>13 DEF PublishFails, AtLoop, Alive, Busy, IInv, TypeOK, LoopOrder
    <2> QED
      BY <2>1, SameLoops
  <1>14. ASSUME NEW l \in Loops, Keep(l) PROVE LoopsAccounted'
    <2>1. Alive' = Alive /\ current' = current /\ UNCHANGED <<signal, abandoned>> /\ Busy' = Busy
      BY <1>14 DEF Keep, AtLoop, Alive, Busy, IInv, TypeOK, LoopOrder
    <2> QED
      BY <2>1, SameLoops
  <1>15. ASSUME NEW l \in Loops, End(l) PROVE LoopsAccounted'
    <2>1. /\ l \in Alive /\ Alive' = Alive \ {l}
          /\ UNCHANGED <<current, abandoned>> /\ Busy' = Busy
      BY <1>15 DEF End, AtLoop, Alive, Busy, IInv, TypeOK
    <2>2. PICK c \in l .. current : ~signal[c] /\ signal' = [signal EXCEPT ![c] = TRUE]
      BY <1>15 DEF End
    <2>3. c \in Loops
      BY <2>2 DEF IInv, TypeOK
    <2>4. Signalled' = Signalled \cup {c} /\ c \notin Signalled
      BY <2>2, <2>3 DEF Signalled, IInv, TypeOK
    <2>5. /\ Cardinality(Signalled') = Cardinality(Signalled) + 1
          /\ Cardinality(Alive') = Cardinality(Alive) - 1
      BY <2>1, <2>4, LoopSetsFinite, FS_AddElement, FS_RemoveElement DEF IInv
    <2> QED
      BY <2>1, <2>5, LoopSetsFinite DEF IInv, LoopsAccounted
  <1>16. CASE UNCHANGED vars
    <2>1. Alive' = Alive /\ current' = current /\ UNCHANGED <<signal, abandoned>> /\ Busy' = Busy
      BY <1>16 DEF vars, Alive, Busy, IInv, TypeOK, LoopOrder
    <2> QED
      BY <2>1, SameLoops
  <1> QED
    BY <1>1, <1>2, <1>3, <1>4, <1>5, <1>6, <1>7, <1>8, <1>9, <1>10, <1>11, <1>12, <1>13, <1>14, <1>15, <1>16
    DEF Next, LoopStep, Answer

\* A step that publishes nothing and leaves no more to come keeps the account.
LEMMA NoMoreToCome ==
  ASSUME IInv, UNCHANGED <<tagged, published, overlaps, current>>,
         tagged => \A v \in Versions : /\ \A k \in 1 .. current - 1 : Owes(k, v)' => Owes(k, v)
                                       /\ Fetches(v)' => Fetches(v)
  PROVE  PublishesAccounted'
  <1> SUFFICES ASSUME tagged, NEW v \in Versions
               PROVE  published[v] + Cardinality(Behind(v)') + (IF Fetches(v)' THEN 1 ELSE 0)
                        <= 1 + overlaps
    BY DEF PublishesAccounted
  <1>1. published[v] \in Nat /\ overlaps \in Nat
    BY DEF IInv, TypeOK
  <1>2. /\ Cardinality(Behind(v)') \in Nat /\ Cardinality(Behind(v)) \in Nat
        /\ Cardinality(Behind(v)') <= Cardinality(Behind(v))
    <2>1. Behind(v)' \subseteq Behind(v)
      BY DEF Behind
    <2> QED
      BY <2>1, LoopSetsFinite, PartCounts DEF IInv
  <1>3. published[v] + Cardinality(Behind(v)) + (IF Fetches(v) THEN 1 ELSE 0) <= 1 + overlaps
    BY DEF IInv, PublishesAccounted
  <1> QED
    BY <1>1, <1>2, <1>3

\* So does a loop that begins a poll, or drops one, or ends.
LEMMA PollDropped ==
  ASSUME IInv, NEW l \in Loops, NEW to, loop' = [loop EXCEPT ![l] = to],
         UNCHANGED <<provider, body, calls, etag, published>>,
         \/ loop[l] \in {"asked", "answered"} /\ to = "wait" /\ UNCHANGED sentTag
         \/ loop[l] = "wait" /\ to = "ended" /\ UNCHANGED sentTag
         \/ loop[l] = "wait" /\ to = "asked" /\ sentTag' = [sentTag EXCEPT ![l] = etag]
  PROVE  PublishesAccounted'
  <1> USE PollerAssumption DEF Loops, Versions
  <1>1. /\ loop \in [Loops -> {"none", "wait", "asked", "answered", "published", "ended"}]
        /\ sentTag \in [Loops -> 0 .. MaxVersion] /\ body \in [Loops -> 0 .. MaxVersion]
        /\ version \in Nat /\ etag \in Nat /\ current \in 0 .. MaxStarts
        /\ UNCHANGED <<version, body, current, etag>>
    BY DEF IInv, TypeOK, provider, calls
  <1>2. /\ \A k \in Loops : k # l => loop'[k] = loop[k] /\ sentTag'[k] = sentTag[k]
        /\ loop'[l] = to /\ loop'[l] \notin {"answered", "published"}
        /\ to = "asked" => sentTag'[l] = etag /\ loop[l] = "wait"
    BY <1>1
  <1>3. ASSUME NEW v \in Versions, NEW k \in Loops, Owes(k, v)' PROVE Owes(k, v)
    BY <1>1, <1>2, <1>3 DEF Owes
  <1>4. ASSUME NEW v \in Versions, current # 0, current # l, Fetches(v)' PROVE Fetches(v)
    <2>1. current \in Loops /\ loop'[current] = loop[current] /\ sentTag'[current] = sentTag[current]
      BY <1>1, <1>2, <1>4
    <2> QED
      BY <1>1, <1>3, <1>4, <2>1 DEF Fetches
  <1>5. ASSUME NEW v \in Versions, current = l, Fetches(v)' PROVE Fetches(v)
    <2>1. version <= v /\ etag < v
      BY <1>1, <1>2, <1>5 DEF Fetches
    <2>2. body[l] <= version /\ (loop[l] = "answered" /\ body[l] # v => body[l] < v)
      BY <1>1, <2>1 DEF IInv, VersionOrder
    <2> QED
      BY <1>1, <1>5, <2>1, <2>2 DEF Fetches, Owes
  <1>6. ASSUME NEW v \in Versions, current = 0, Fetches(v)' PROVE Fetches(v)
    BY <1>1, <1>6 DEF Fetches
  <1>7. \A k \in 1 .. current - 1 : k \in Loops
    BY <1>1
  <1> QED
    BY <1>3, <1>4, <1>5, <1>6, <1>7, NoMoreToCome DEF provider, calls

\* Who publishes had it to come; who keeps an older validator had that to come; a Start
\* beside a live loop adds one to the account.
LEMMA PublishesStep == IInv /\ [Next]_vars => PublishesAccounted'
  <1> SUFFICES ASSUME IInv, [Next]_vars PROVE PublishesAccounted'
    OBVIOUS
  <1> USE PollerAssumption DEF Loops, Versions, NoTag, Most, provider, loops, calls
  <1>1. CASE Change
    <2>1. ASSUME NEW v \in Versions
          PROVE  /\ \A k \in 1 .. current - 1 : Owes(k, v)' => Owes(k, v)
                 /\ Fetches(v)' => Fetches(v)
      BY <1>1 DEF Change, Fetches, Owes, IInv, TypeOK
    <2> QED
      BY <1>1, <2>1, NoMoreToCome DEF Change
  <1>2. CASE Start
    <2> SUFFICES ASSUME tagged, NEW v \in Versions
                 PROVE  published[v] + Cardinality(Behind(v)') + (IF Fetches(v)' THEN 1 ELSE 0)
                          <= 1 + overlaps'
      BY <1>2 DEF Start, PublishesAccounted
    <2>1. /\ current \in Nat /\ current' = current + 1 /\ current + 1 \in Loops
          /\ loop' = [loop EXCEPT ![current + 1] = "wait"]
          /\ UNCHANGED <<version, etag, body, sentTag>>
          /\ overlaps' = IF Alive = {} THEN overlaps ELSE overlaps + 1
          /\ published[v] \in Nat /\ overlaps \in Nat
      BY <1>2 DEF Start, IInv, TypeOK
    <2>2. Behind(v)' = {l \in 1 .. current : Owes(l, v)}
      <3>1. current' - 1 = current /\ \A l \in 1 .. current : Owes(l, v)' <=> Owes(l, v)
        BY <2>1 DEF Owes, IInv, TypeOK
      <3> QED
        BY <3>1 DEF Behind
    <2>3. Fetches(v)' => version <= v /\ etag < v
      BY <2>1 DEF Fetches, Owes, IInv, TypeOK
    <2>4. /\ published[v] + Cardinality(Behind(v)) + (IF Fetches(v) THEN 1 ELSE 0) <= 1 + overlaps
          /\ IsFiniteSet(Behind(v)) /\ Cardinality(Behind(v)) \in Nat
      BY LoopSetsFinite DEF IInv, PublishesAccounted
    <2>5. CASE Alive = {}
      <3>0. /\ \A k \in Loops : loop[k] \notin {"asked", "answered", "published"}
            /\ \A k \in 1 .. current : k \in Loops
        BY <2>1, <2>5 DEF Alive
      <3>1. Behind(v)' = {}
        BY <2>2, <3>0 DEF Owes
      <3>2. Fetches(v)' => Fetches(v)
        <4>1. current # 0 => current \in 1 .. current
          BY <2>1
        <4> QED
          BY <2>3, <3>0, <4>1 DEF Fetches
      <3> QED
        BY <2>1, <2>4, <2>5, <3>1, <3>2, FS_EmptySet
    <2>6. CASE Alive # {} /\ current # 0 /\ Owes(current, v)
      <3>1. Fetches(v)
        BY <2>6 DEF Fetches, Owes
      <3>2. Behind(v)' \subseteq Behind(v) \cup {current}
        BY <2>1, <2>2 DEF Behind
      <3>3. Cardinality(Behind(v)') \in Nat /\ Cardinality(Behind(v)') <= Cardinality(Behind(v)) + 1
        BY <2>4, <3>2, MoreCounts
      <3> QED
        BY <2>1, <2>4, <2>6, <3>1, <3>3
    <2>7. CASE Alive # {} /\ ~(current # 0 /\ Owes(current, v))
      <3>1. Behind(v)' \subseteq Behind(v)
        BY <2>1, <2>2, <2>7 DEF Behind
      <3>2. Cardinality(Behind(v)') \in Nat /\ Cardinality(Behind(v)') <= Cardinality(Behind(v))
        BY <2>4, <3>1, PartCounts
      <3> QED
        BY <2>1, <2>4, <2>7, <3>2
    <2> QED
      BY <2>5, <2>6, <2>7
  <1>3. CASE CancelContext
    <2>1. ASSUME NEW v \in Versions
          PROVE  /\ \A k \in 1 .. current - 1 : Owes(k, v)' => Owes(k, v)
                 /\ Fetches(v)' => Fetches(v)
      BY <1>3 DEF CancelContext, Fetches, Owes, IInv, TypeOK
    <2> QED
      BY <1>3, <2>1, NoMoreToCome DEF CancelContext
  <1>4. CASE Stop
    <2>1. ASSUME NEW v \in Versions
          PROVE  /\ \A k \in 1 .. current - 1 : Owes(k, v)' => Owes(k, v)
                 /\ Fetches(v)' => Fetches(v)
      BY <1>4 DEF Stop, Fetches, Owes, IInv, TypeOK
    <2> QED
      BY <1>4, <2>1, NoMoreToCome DEF Stop
  <1>5. CASE StopNotStarted
    <2>1. ASSUME NEW v \in Versions
          PROVE  /\ \A k \in 1 .. current - 1 : Owes(k, v)' => Owes(k, v)
                 /\ Fetches(v)' => Fetches(v)
      BY <1>5 DEF StopNotStarted, Fetches, Owes, IInv, TypeOK
    <2> QED
      BY <1>5, <2>1, NoMoreToCome DEF StopNotStarted
  <1>6. CASE StopReturns
    <2>1. ASSUME NEW v \in Versions
          PROVE  /\ \A k \in 1 .. current - 1 : Owes(k, v)' => Owes(k, v)
                 /\ Fetches(v)' => Fetches(v)
      BY <1>6 DEF StopReturns, Fetches, Owes, IInv, TypeOK
    <2> QED
      BY <1>6, <2>1, NoMoreToCome DEF StopReturns
  <1>7. CASE StopTimesOut
    <2>1. ASSUME NEW v \in Versions
          PROVE  /\ \A k \in 1 .. current - 1 : Owes(k, v)' => Owes(k, v)
                 /\ Fetches(v)' => Fetches(v)
      BY <1>7 DEF StopTimesOut, Fetches, Owes, IInv, TypeOK
    <2> QED
      BY <1>7, <2>1, NoMoreToCome DEF StopTimesOut
  <1>8. ASSUME NEW l \in Loops, Ask(l) PROVE PublishesAccounted'
    <2>1. /\ loop[l] = "wait" /\ loop' = [loop EXCEPT ![l] = "asked"] /\ sentTag' = [sentTag EXCEPT ![l] = etag]
          /\ UNCHANGED <<provider, body, calls, etag, published>>
      BY <1>8 DEF Ask, AtLoop
    <2> QED
      BY <2>1, PollDropped
  <1>9. ASSUME NEW l \in Loops, NotModified(l) PROVE PublishesAccounted'
    <2>1. /\ loop[l] = "asked" /\ loop' = [loop EXCEPT ![l] = "wait"] /\ UNCHANGED sentTag
          /\ UNCHANGED <<provider, body, calls, etag, published>>
      BY <1>9 DEF NotModified, AtLoop
    <2> QED
      BY <2>1, PollDropped
  <1>10. ASSUME NEW l \in Loops, Full(l) PROVE PublishesAccounted'
    <2>1. l = current
      BY <1>10 DEF Full, AtLoop, IInv, TypeOK, LoopOrder
    <2>2. ASSUME tagged, NEW v \in Versions
          PROVE  /\ \A k \in 1 .. current - 1 : Owes(k, v)' => Owes(k, v)
                 /\ Fetches(v)' => Fetches(v)
      <3>1. /\ loop[l] = "asked" /\ loop' = [loop EXCEPT ![l] = "answered"]
            /\ body' = [body EXCEPT ![l] = version] /\ UNCHANGED <<version, current>>
            /\ sentTag[l] < version /\ version \in Nat /\ sentTag[l] \in Nat /\ current # 0
        BY <1>10, <2>1, <2>2 DEF Full, AtLoop, IInv, TypeOK, VersionOrder
      <3>2. \A k \in 1 .. current - 1 : Owes(k, v)' => Owes(k, v)
        BY <2>1, <3>1 DEF Owes, IInv, TypeOK
      <3>3. Fetches(v)' => version <= v
        BY <2>1, <3>1 DEF Fetches, Owes, IInv, TypeOK
      <3>4. version <= v => Fetches(v)
        BY <2>1, <3>1 DEF Fetches, IInv, TypeOK
      <3> QED
        BY <3>2, <3>3, <3>4
    <2> QED
      BY <1>10, <2>2, NoMoreToCome DEF Full
  <1>11. ASSUME NEW l \in Loops, AskFails(l) PROVE PublishesAccounted'
    <2>1. /\ loop[l] = "asked" /\ loop' = [loop EXCEPT ![l] = "wait"] /\ UNCHANGED sentTag
          /\ UNCHANGED <<provider, body, calls, etag, published>>
      BY <1>11 DEF AskFails, AtLoop
    <2> QED
      BY <2>1, PollDropped
  <1>12. ASSUME NEW l \in Loops, Publish(l) PROVE PublishesAccounted'
    <2> SUFFICES ASSUME tagged, NEW v \in Versions
                 PROVE  published'[v] + Cardinality(Behind(v)') + (IF Fetches(v)' THEN 1 ELSE 0)
                          <= 1 + overlaps
      BY <1>12 DEF Publish, PublishesAccounted
    <2>1. /\ published[v] + Cardinality(Behind(v)) + (IF Fetches(v) THEN 1 ELSE 0) <= 1 + overlaps
          /\ IsFiniteSet(Behind(v)) /\ Cardinality(Behind(v)) \in Nat
          /\ published[v] \in Nat /\ overlaps \in Nat
      <3>1. published[v] \in Nat /\ overlaps \in Nat
        BY DEF IInv, TypeOK
      <3> QED
        BY <3>1, LoopSetsFinite DEF IInv, PublishesAccounted
    <2>2. /\ loop[l] = "answered" /\ loop' = [loop EXCEPT ![l] = "published"]
          /\ body[l] \in Versions /\ l <= current /\ current # 0 /\ current \in Loops
          /\ UNCHANGED <<version, etag, body, sentTag, current>>
      BY <1>12 DEF Publish, AtLoop, IInv, TypeOK, LoopOrder
    <2>3. /\ published'[v] \in Nat /\ published'[v] <= published[v] + 1
          /\ v # body[l] => published'[v] = published[v]
      BY <1>12, <2>2, SMTT(30) DEF Publish, IInv, TypeOK
    <2>4. Behind(v)' \subseteq Behind(v) /\ (Fetches(v)' => Fetches(v))
      <3>1. /\ \A k \in Loops : k # l => loop'[k] = loop[k]
            /\ loop'[l] = "published"
        BY <2>2 DEF IInv, TypeOK
      <3>2. \A k \in Loops : Owes(k, v)' => Owes(k, v)
        BY <2>2, <3>1 DEF Owes
      <3>3. \A k \in 1 .. current - 1 : k \in Loops
        BY <2>2
      <3> QED
        BY <2>2, <3>1, <3>2, <3>3 DEF Behind, Fetches
    <2>5. CASE v # body[l]
      BY <2>1, <2>3, <2>4, <2>5, PartCounts
    <2>6. CASE v = body[l] /\ l = current
      <3>1. Fetches(v) /\ ~Fetches(v)'
        BY <2>2, <2>6 DEF Fetches, Owes, IInv, TypeOK
      <3> QED
        BY <2>1, <2>3, <2>4, <3>1, PartCounts
    <2>7. CASE v = body[l] /\ l # current
      <3>1. l \in Behind(v) /\ l \notin Behind(v)'
        BY <2>2, <2>7 DEF Behind, Owes, IInv, TypeOK
      <3>2. Cardinality(Behind(v)') \in Nat /\ Cardinality(Behind(v)') + 1 <= Cardinality(Behind(v))
        BY <2>1, <2>4, <3>1, PartCounts
      <3> QED
        BY <2>1, <2>3, <2>4, <3>2
    <2> QED
      BY <2>5, <2>6, <2>7
  <1>13. ASSUME NEW l \in Loops, PublishFails(l) PROVE PublishesAccounted'
    <2>1. /\ loop[l] = "answered" /\ loop' = [loop EXCEPT ![l] = "wait"] /\ UNCHANGED sentTag
          /\ UNCHANGED <<provider, body, calls, etag, published>>
      BY <1>13 DEF PublishFails, AtLoop
    <2> QED
      BY <2>1, PollDropped
  <1>14. ASSUME NEW l \in Loops, Keep(l) PROVE PublishesAccounted'
    <2> SUFFICES ASSUME tagged, NEW v \in Versions
                 PROVE  published'[v] + Cardinality(Behind(v)') + (IF Fetches(v)' THEN 1 ELSE 0)
                          <= 1 + overlaps
      BY <1>14 DEF Keep, PublishesAccounted
    <2>1. /\ published[v] + Cardinality(Behind(v)) + (IF Fetches(v) THEN 1 ELSE 0) <= 1 + overlaps
          /\ IsFiniteSet(Behind(v)) /\ Cardinality(Behind(v)) \in Nat
          /\ published[v] \in Nat /\ overlaps \in Nat
      <3>1. published[v] \in Nat /\ overlaps \in Nat
        BY DEF IInv, TypeOK
      <3> QED
        BY <3>1, LoopSetsFinite DEF IInv, PublishesAccounted
    <2>2. /\ loop[l] = "published" /\ loop' = [loop EXCEPT ![l] = "wait"]
          /\ etag' = body[l] /\ body[l] \in Versions
          /\ l <= current /\ current # 0 /\ current \in Loops
          /\ UNCHANGED <<version, body, sentTag, current, published>>
      BY <1>14 DEF Keep, Validator, AtLoop, IInv, TypeOK, LoopOrder
    <2>3. Behind(v)' \subseteq Behind(v)
      <3>1. /\ \A k \in Loops : k # l => loop'[k] = loop[k]
            /\ loop'[l] = "wait"
        BY <2>2 DEF IInv, TypeOK
      <3>2. \A k \in Loops : Owes(k, v)' => Owes(k, v)
        BY <2>2, <3>1 DEF Owes
      <3>3. \A k \in 1 .. current - 1 : k \in Loops
        BY <2>2
      <3> QED
        BY <2>2, <3>2, <3>3 DEF Behind
    <2>4. CASE l = current
      <3>1. Fetches(v)' => Fetches(v)
        BY <2>2, <2>4 DEF Fetches, Owes, IInv, TypeOK
      <3> QED
        BY <2>1, <2>2, <2>3, <3>1, PartCounts
    <2>5. CASE l # current /\ body[l] < v /\ version <= v
      <3>1. l \in Behind(v) /\ l \notin Behind(v)'
        BY <2>2, <2>5 DEF Behind, Owes, IInv, TypeOK
      <3>2. Cardinality(Behind(v)') \in Nat /\ Cardinality(Behind(v)') + 1 <= Cardinality(Behind(v))
        BY <2>1, <2>3, <3>1, PartCounts
      <3> QED
        BY <2>1, <2>2, <3>2
    <2>6. CASE l # current /\ ~(body[l] < v /\ version <= v)
      <3>1. Fetches(v)' => Fetches(v)
        BY <2>2, <2>6 DEF Fetches, Owes, IInv, TypeOK
      <3> QED
        BY <2>1, <2>2, <2>3, <3>1, PartCounts
    <2> QED
      BY <2>4, <2>5, <2>6
  <1>15. ASSUME NEW l \in Loops, End(l) PROVE PublishesAccounted'
    <2>1. /\ loop[l] = "wait" /\ loop' = [loop EXCEPT ![l] = "ended"] /\ UNCHANGED sentTag
          /\ UNCHANGED <<provider, body, calls, etag, published>>
      BY <1>15 DEF End, AtLoop
    <2> QED
      BY <2>1, PollDropped
  <1>16. CASE UNCHANGED vars
    <2>1. ASSUME NEW v \in Versions
          PROVE  /\ \A k \in 1 .. current - 1 : Owes(k, v)' => Owes(k, v)
                 /\ Fetches(v)' => Fetches(v)
      BY <1>16 DEF vars, Fetches, Owes, IInv, TypeOK
    <2> QED
      BY <1>16, <2>1, NoMoreToCome DEF vars
  <1> QED
    BY <1>1, <1>2, <1>3, <1>4, <1>5, <1>6, <1>7, <1>8, <1>9, <1>10, <1>11, <1>12, <1>13, <1>14, <1>15, <1>16
    DEF Next, LoopStep, Answer

LEMMA StepInv == IInv /\ [Next]_vars => IInv'
  BY TypeOKStep, LoopOrderStep, LoopsStep, TagStep, VersionStep, PublishesStep DEF IInv

\* Types, and all that the theorems below rest on.
THEOREM PollerInvariant == Spec => []IInv
  BY InitInv, StepInv, PTL DEF Spec

\* The variables keep their types, and a loop with an answer has a content to publish.
THEOREM TypeCorrect == Spec => []TypeOK
  <1>1. IInv => TypeOK
    BY DEF IInv
  <1> QED
    BY <1>1, PollerInvariant, PTL

\* A 304 never stands for content that was not published (PollOnce keeps a
\* validator only behind the publish), with any number of overlapping loops.
THEOREM TagsAfterPublish == Spec => []TagsArePublished
  <1>1. IInv => TagsArePublished
    <2> SUFFICES ASSUME IInv, NEW v \in Versions,
                        v = etag \/ \E l \in Alive : v = sentTag[l]
                 PROVE  published[v] > 0
      BY DEF TagsArePublished
    <2>1. v # NoTag
      BY DEF Versions, NoTag
    <2> QED
      BY <2>1 DEF IInv, TagInv, Alive
  <1> QED
    BY <1>1, PollerInvariant, PTL

\* The 304 protocol publishes a content once, and once more at most for each Start beside
\* a loop that still ran (PollOnce holds the lock neither over its request nor over its
\* publish, and Start runs a loop whatever the last Stop reported).
THEOREM PublishesOnce == Spec => []PublishedOnce
  <1>1. IInv => PublishedOnce
    <2> SUFFICES ASSUME IInv, tagged, NEW v \in Versions PROVE published[v] <= 1 + overlaps
      BY DEF PublishedOnce
    <2>1. published[v] + Cardinality(Behind(v)) + (IF Fetches(v) THEN 1 ELSE 0) <= 1 + overlaps
      BY DEF IInv, PublishesAccounted
    <2>2. published[v] \in Nat /\ overlaps \in Nat /\ Cardinality(Behind(v)) \in Nat
      BY LoopSetsFinite DEF IInv, TypeOK
    <2> QED
      BY <2>1, <2>2
  <1> QED
    BY <1>1, PollerInvariant, PTL

\* When the last Stop reported success, also one that found nothing started, no more
\* loops are alive than Stops have timed out on; without overlapping starts they are
\* the loops that were given up.
THEOREM StopWaits == Spec => []StopIsQuiet
  <1>1. IInv => StopIsQuiet
    <2> SUFFICES ASSUME IInv, quiet
                 PROVE  /\ Cardinality(Alive) <= Cardinality(abandoned)
                        /\ overlaps = 0 => Alive \subseteq abandoned
      BY DEF StopIsQuiet
    <2>1. Busy = 0 /\ (overlaps = 0 => Alive \subseteq abandoned)
      BY DEF IInv, LoopOrder, Busy
    <2>2. Cardinality(Alive) + Cardinality(Signalled) = Cardinality(abandoned)
      BY <2>1, LoopSetsFinite DEF IInv, LoopsAccounted
    <2> QED
      BY <2>1, <2>2, LoopSetsFinite DEF IInv
  <1> QED
    BY <1>1, PollerInvariant, PTL
=============================================================================
