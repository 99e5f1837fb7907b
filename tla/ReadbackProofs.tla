---------------------------- MODULE ReadbackProofs ----------------------------
(***************************************************************************)
(* The readback, for every set of messages, clock and window.              *)
(***************************************************************************)
EXTENDS Readback, SequenceTheorems, WellFoundedInduction, TLAPS

TripleType ==
  [predicate : {"evidence", "observed_at", "source_ref"}, object : Messages, timestamp : Nat]

\* Every triple has the time of its alert, and every alert is there as evidence.
WholeAlerts ==
  \A h \in Hazards : \A i \in DOMAIN triples[h] :
    /\ triples[h][i].timestamp = Observed(triples[h][i].object)
    /\ \E j \in DOMAIN triples[h] :
         triples[h][j].predicate = "evidence" /\ triples[h][j].object = triples[h][i].object

\* i, j and k are the latest triples of the three predicates, and of one alert.
LatestOf(s, i, j, k) ==
  /\ IsLatest(s, "evidence", i) /\ IsLatest(s, "observed_at", j) /\ IsLatest(s, "source_ref", k)
  /\ s[j].object = s[i].object /\ s[k].object = s[i].object

\* The latest document, time and source reference of a hazard are of one alert.
LatestTogether ==
  \A h \in Hazards : triples[h] # << >> =>
    \E i, j, k \in DOMAIN triples[h] : LatestOf(triples[h], i, j, k)

IInv == TypeOK /\ WholeAlerts /\ LatestTogether

LEMMA ObservedType == ASSUME NEW m \in Messages PROVE Observed(m) \in Nat \ {0}
  BY ReadbackAssumption DEF Observed, MessageType

\* The choice of LatestValue is determined.
LEMMA LatestUnique ==
  ASSUME NEW s \in Seq(TripleType), NEW p, NEW i, IsLatest(s, p, i)
  PROVE  LatestValue(s, p) = s[i].object
  <1> DEFINE c == CHOOSE x \in DOMAIN s : IsLatest(s, p, x)
  <1>1. c \in DOMAIN s /\ IsLatest(s, p, c)
    BY DEF IsLatest
  <1>2. i \in DOMAIN s /\ s[i].predicate = p /\ s[c].predicate = p
    BY <1>1 DEF IsLatest
  <1>3. s[i].timestamp \in Nat /\ s[c].timestamp \in Nat /\ i \in Nat /\ c \in Nat
    <2>1. s[i] \in TripleType /\ s[c] \in TripleType /\ i \in 1 .. Len(s) /\ c \in 1 .. Len(s)
      BY <1>1, <1>2
    <2> QED
      BY <2>1 DEF TripleType
  <1>4. c = i
    BY <1>1, <1>2, <1>3 DEF IsLatest
  <1> QED
    BY <1>4 DEF LatestValue

\* What is behind a sequence to which an alert was appended.
LEMMA Appended ==
  ASSUME NEW s \in Seq(TripleType), NEW m \in Messages
  PROVE  LET t == s \o EvidenceTriples(m)  n == Len(s)
         IN  /\ t \in Seq(TripleType) /\ Len(t) = n + 3 /\ n \in Nat /\ t # << >>
             /\ \A i \in 1 .. n : t[i] = s[i]
             /\ t[n + 1] = Triple("evidence", m)
             /\ t[n + 2] = Triple("observed_at", m)
             /\ t[n + 3] = Triple("source_ref", m)
  <1> DEFINE e == EvidenceTriples(m)
  <1>1. /\ Triple("evidence", m) \in TripleType /\ Triple("observed_at", m) \in TripleType
        /\ Triple("source_ref", m) \in TripleType
    BY ObservedType DEF Triple, TripleType
  <1>2. /\ e \in Seq(TripleType) /\ Len(e) = 3
        /\ e[1] = Triple("evidence", m) /\ e[2] = Triple("observed_at", m) /\ e[3] = Triple("source_ref", m)
    BY <1>1 DEF EvidenceTriples
  <1> HIDE DEF e
  <1>3. /\ s \o e \in Seq(TripleType) /\ Len(s \o e) = Len(s) + 3 /\ Len(s) \in Nat
        /\ \A i \in 1 .. Len(s) : (s \o e)[i] = s[i]
        /\ (s \o e)[Len(s) + 1] = e[1] /\ (s \o e)[Len(s) + 2] = e[2] /\ (s \o e)[Len(s) + 3] = e[3]
    <2>1. Len(s) \in Nat
      BY LenProperties
    <2>2. /\ s \o e \in Seq(TripleType) /\ Len(s \o e) = Len(s) + Len(e)
          /\ \A i \in 1 .. Len(s) + Len(e) : (s \o e)[i] = IF i <= Len(s) THEN s[i] ELSE e[i - Len(s)]
      BY <1>2, ConcatProperties
    <2> QED
      BY <1>2, <2>1, <2>2
  <1>4. s \o e # << >>
    BY <1>3
  <1> QED
    BY <1>2, <1>3, <1>4 DEF e

\* An alert that was appended is latest in all its triples or in none of them.
LEMMA AppendedLatest ==
  ASSUME NEW s \in Seq(TripleType), NEW m \in Messages,
         NEW i \in DOMAIN s, NEW j \in DOMAIN s, NEW k \in DOMAIN s, LatestOf(s, i, j, k),
         \A x \in DOMAIN s : s[x].timestamp = Observed(s[x].object)
  PROVE  LET t == s \o EvidenceTriples(m)
         IN  \E a, b, c \in DOMAIN t : LatestOf(t, a, b, c)
  <1> DEFINE t == s \o EvidenceTriples(m)
             n == Len(s)
  <1>1. /\ n \in Nat /\ DOMAIN s = 1 .. n /\ DOMAIN t = 1 .. n + 3
        /\ \A x \in 1 .. n : t[x] = s[x]
        /\ t[n + 1] = Triple("evidence", m)
        /\ t[n + 2] = Triple("observed_at", m)
        /\ t[n + 3] = Triple("source_ref", m)
    BY Appended, LenProperties
  <1> HIDE DEF t
  <1>2. \A x \in 1 .. n : s[x].timestamp \in Nat
    <2>1. \A x \in 1 .. n : s[x] \in TripleType
      BY <1>1
    <2> QED
      BY <2>1 DEF TripleType
  <1>3. Observed(m) \in Nat
    BY ObservedType
  <1>4. /\ i \in 1 .. n /\ j \in 1 .. n /\ k \in 1 .. n
        /\ s[j].timestamp = s[i].timestamp /\ s[k].timestamp = s[i].timestamp
    BY <1>1 DEF LatestOf
  <1>5. /\ t[n + 1].predicate = "evidence" /\ t[n + 1].timestamp = Observed(m) /\ t[n + 1].object = m
        /\ t[n + 2].predicate = "observed_at" /\ t[n + 2].timestamp = Observed(m) /\ t[n + 2].object = m
        /\ t[n + 3].predicate = "source_ref" /\ t[n + 3].timestamp = Observed(m) /\ t[n + 3].object = m
    BY <1>1 DEF Triple
  <1>7. \A z \in n + 1 .. n + 3 : z = n + 1 \/ z = n + 2 \/ z = n + 3
    BY <1>1, SMTT(30)
  <1>6. ASSUME NEW p, NEW x \in 1 .. n, IsLatest(s, p, x),
               NEW y \in n + 1 .. n + 3, t[y].predicate = p,
               \A z \in n + 1 .. n + 3 : t[z].predicate = p => z = y
        PROVE  IF s[x].timestamp <= Observed(m) THEN IsLatest(t, p, y) ELSE IsLatest(t, p, x)
    <2>1. t[y].timestamp = Observed(m)
      BY <1>5, <1>6, <1>7
    <2>2. \A z \in 1 .. n : s[z].predicate = p =>
            \/ s[z].timestamp < s[x].timestamp
            \/ s[z].timestamp = s[x].timestamp /\ z <= x
      BY <1>1, <1>6 DEF IsLatest
    <2>3. ASSUME NEW z \in 1 .. n + 3 PROVE z \in 1 .. n \/ z \in n + 1 .. n + 3
      BY <1>1
    <2>4. s[x].predicate = p
      BY <1>6 DEF IsLatest
    <2>5. ASSUME s[x].timestamp <= Observed(m) PROVE IsLatest(t, p, y)
      BY <1>1, <1>2, <1>3, <1>6, <2>1, <2>2, <2>3, <2>5, SMTT(30) DEF IsLatest
    <2>6. ASSUME ~(s[x].timestamp <= Observed(m)) PROVE IsLatest(t, p, x)
      BY <1>1, <1>2, <1>3, <1>6, <2>1, <2>2, <2>3, <2>4, <2>6, SMTT(30) DEF IsLatest
    <2> QED
      BY <2>5, <2>6
  <1>8. /\ n + 1 \in n + 1 .. n + 3 /\ n + 2 \in n + 1 .. n + 3 /\ n + 3 \in n + 1 .. n + 3
        /\ n + 1 \in DOMAIN t /\ n + 2 \in DOMAIN t /\ n + 3 \in DOMAIN t
        /\ i \in DOMAIN t /\ j \in DOMAIN t /\ k \in DOMAIN t
    BY <1>1, <1>4
  <1>9. /\ \A z \in n + 1 .. n + 3 : t[z].predicate = "evidence" => z = n + 1
        /\ \A z \in n + 1 .. n + 3 : t[z].predicate = "observed_at" => z = n + 2
        /\ \A z \in n + 1 .. n + 3 : t[z].predicate = "source_ref" => z = n + 3
    BY <1>5, <1>7
  <1>10. IF s[i].timestamp <= Observed(m)
           THEN IsLatest(t, "evidence", n + 1) ELSE IsLatest(t, "evidence", i)
    BY <1>4, <1>5, <1>6, <1>8, <1>9 DEF LatestOf
  <1>11. IF s[i].timestamp <= Observed(m)
           THEN IsLatest(t, "observed_at", n + 2) ELSE IsLatest(t, "observed_at", j)
    BY <1>4, <1>5, <1>6, <1>8, <1>9 DEF LatestOf
  <1>12. IF s[i].timestamp <= Observed(m)
           THEN IsLatest(t, "source_ref", n + 3) ELSE IsLatest(t, "source_ref", k)
    BY <1>4, <1>5, <1>6, <1>8, <1>9 DEF LatestOf
  <1>13. CASE s[i].timestamp <= Observed(m)
    <2>1. LatestOf(t, n + 1, n + 2, n + 3)
      BY <1>5, <1>10, <1>11, <1>12, <1>13 DEF LatestOf
    <2> QED
      BY <1>8, <2>1 DEF t
  <1>14. CASE ~(s[i].timestamp <= Observed(m))
    <2>1. LatestOf(t, i, j, k)
      BY <1>1, <1>4, <1>10, <1>11, <1>12, <1>14 DEF LatestOf
    <2> QED
      BY <1>8, <2>1 DEF t
  <1> QED
    BY <1>13, <1>14

\* The first alert of a hazard is the latest.
LEMMA FirstLatest ==
  ASSUME NEW m \in Messages
  PROVE  LET t == << >> \o EvidenceTriples(m) IN LatestOf(t, 1, 2, 3) /\ DOMAIN t = 1 .. 3
  <1> DEFINE t == << >> \o EvidenceTriples(m)
  <1>1. /\ DOMAIN t = 1 .. 3
        /\ t[1] = Triple("evidence", m) /\ t[2] = Triple("observed_at", m) /\ t[3] = Triple("source_ref", m)
    <2>1. /\ Triple("evidence", m) \in TripleType /\ Triple("observed_at", m) \in TripleType
          /\ Triple("source_ref", m) \in TripleType
      BY ObservedType DEF Triple, TripleType
    <2>2. t = EvidenceTriples(m)
      BY <2>1 DEF EvidenceTriples
    <2> QED
      BY <2>1, <2>2 DEF EvidenceTriples
  <1> HIDE DEF t
  <1>2. Observed(m) \in Nat
    BY ObservedType
  <1>3. LatestOf(t, 1, 2, 3)
    BY <1>1, <1>2 DEF LatestOf, IsLatest, Triple
  <1> QED
    BY <1>1, <1>3 DEF t

-----------------------------------------------------------------------------

LEMMA InitInv == Init => IInv
  <1> SUFFICES ASSUME Init PROVE IInv
    OBVIOUS
  <1>1. TypeOK
    <2>1. << >> \in Seq([predicate : {"evidence", "observed_at", "source_ref"}, object : projected, timestamp : Nat])
      BY EmptySeq
    <2>2. Unwritten \in [observed : Nat, status : {"actual", "test", "active", ""}, drawn : BOOLEAN]
      BY DEF Unwritten
    <2> QED
      BY <2>1, <2>2 DEF Init, TypeOK
  <1>2. \A h \in Hazards : triples[h] = << >>
    BY DEF Init
  <1>3. WholeAlerts /\ LatestTogether
    BY <1>2 DEF WholeAlerts, LatestTogether
  <1> QED
    BY <1>1, <1>3 DEF IInv

\* Triples of projected messages are triples of messages.
LEMMA TriplesType == ASSUME TypeOK, NEW h \in Hazards PROVE triples[h] \in Seq(TripleType)
  <1> DEFINE T == [predicate : {"evidence", "observed_at", "source_ref"}, object : projected, timestamp : Nat]
  <1>1. triples[h] \in Seq(T)
    BY DEF TypeOK
  <1>2. \A x \in T : x \in TripleType
    BY DEF TypeOK, TripleType
  <1> HIDE DEF T
  <1> QED
    BY <1>1, <1>2

LEMMA WrittenType == ASSUME NEW e PROVE (~Written(e)) \in BOOLEAN
  <1>1. CASE Kind[e] = "hazard"
    BY <1>1 DEF Written
  <1>2. CASE Kind[e] # "hazard"
    BY <1>2 DEF Written
  <1> QED
    BY <1>1, <1>2

\* The types after a step that leaves the graph and what was projected alone.
LEMMA TypesInFlight ==
  ASSUME TypeOK, now' \in Nat, writing' \subseteq writing,
         late' \subseteq [message : projected, birth : BOOLEAN],
         UNCHANGED projected, UNCHANGED triples, UNCHANGED current
  PROVE  TypeOK'
  <1> DEFINE T(P) == [predicate : {"evidence", "observed_at", "source_ref"}, object : P, timestamp : Nat]
             L(P) == [message : P, birth : BOOLEAN]
             C == [observed : Nat, status : {"actual", "test", "active", ""}, drawn : BOOLEAN]
  <1>1. /\ triples \in [Hazards -> Seq(T(projected))] /\ late' \subseteq L(projected)
        /\ current \in [Entities \ Hazards -> C]
        /\ projected \subseteq Messages /\ writing \subseteq projected
        /\ \A x, y \in writing : Feed[x.entity] = Feed[y.entity] => x = y
    BY DEF TypeOK
  <1> HIDE DEF T, L, C
  <1>2. /\ triples' \in [Hazards -> Seq(T(projected'))] /\ late' \subseteq L(projected')
        /\ current' \in [Entities \ Hazards -> C]
        /\ projected' \subseteq Messages /\ writing' \subseteq projected'
        /\ \A x, y \in writing' : Feed[x.entity] = Feed[y.entity] => x = y
    BY <1>1
  <1> QED
    BY <1>2 DEF TypeOK, T, L, C

\* What the graph's applying a request does to the invariant.
LEMMA AppliedInv ==
  ASSUME IInv, NEW m \in projected, Applied(m), UNCHANGED <<now, projected>>,
         writing' \subseteq writing, late' \subseteq late
  PROVE  IInv'
  <1> USE ReadbackAssumption
  <1> DEFINE e == m.entity
  <1>1. m \in Messages /\ e \in Entities /\ Observed(m) \in Nat /\ projected \subseteq Messages
    BY ObservedType DEF IInv, TypeOK, MessageType
  <1>2. CASE Kind[e] = "hazard"
    <2>1. e \in Hazards /\ DOMAIN triples = Hazards
      BY <1>1, <1>2 DEF Hazards, IInv, TypeOK
    <2>2. /\ triples' = [triples EXCEPT ![e] = triples[e] \o EvidenceTriples(m)]
          /\ current' = current
      BY <1>2 DEF Applied
    <2> DEFINE s == triples[e]
               n == Len(s)
               t == s \o EvidenceTriples(m)
               T == [predicate : {"evidence", "observed_at", "source_ref"}, object : projected, timestamp : Nat]
    <2>3. triples'[e] = t /\ \A h \in Hazards : h # e => triples'[h] = triples[h]
      BY <2>1, <2>2
    <2>4. s \in Seq(TripleType) /\ s \in Seq(T)
      BY <2>1, TriplesType DEF IInv, TypeOK
    <2>5. /\ t # << >> /\ n \in Nat
          /\ Len(t) = n + 3 /\ DOMAIN s = 1 .. n /\ DOMAIN t = 1 .. n + 3
          /\ \A i \in 1 .. n : t[i] = s[i]
          /\ t[n + 1] = Triple("evidence", m)
          /\ t[n + 2] = Triple("observed_at", m)
          /\ t[n + 3] = Triple("source_ref", m)
      <3>1. /\ t \in Seq(TripleType) /\ t # << >> /\ n \in Nat /\ Len(t) = n + 3
            /\ \A i \in 1 .. n : t[i] = s[i]
            /\ t[n + 1] = Triple("evidence", m)
            /\ t[n + 2] = Triple("observed_at", m)
            /\ t[n + 3] = Triple("source_ref", m)
        BY <1>1, <2>4, Appended
      <3>2. DOMAIN s = 1 .. n
        BY <2>4, LenProperties
      <3> HIDE DEF t
      <3>3. DOMAIN t = 1 .. Len(t)
        BY <3>1, LenProperties
      <3> QED
        BY <3>1, <3>2, <3>3
    <2>6. TypeOK'
      <3>1. /\ Triple("evidence", m) \in T /\ Triple("observed_at", m) \in T /\ Triple("source_ref", m) \in T
        BY <1>1 DEF Triple
      <3>2. EvidenceTriples(m) \in Seq(T)
        BY <3>1 DEF EvidenceTriples
      <3>3. t \in Seq(T)
        BY <2>4, <3>2, ConcatProperties
      <3>4. triples' \in [Hazards -> Seq(T)]
        BY <2>1, <2>2, <3>3 DEF IInv, TypeOK
      <3> QED
        BY <2>2, <3>4 DEF IInv, TypeOK
    <2>7. WholeAlerts'
      <3>1. ASSUME NEW i \in DOMAIN t
            PROVE  /\ t[i].timestamp = Observed(t[i].object)
                   /\ \E j \in DOMAIN t : t[j].predicate = "evidence" /\ t[j].object = t[i].object
        <4>1. CASE i \in 1 .. n
          <5>1. t[i] = s[i] /\ i \in DOMAIN s
            BY <2>5, <4>1
          <5>2. PICK j \in DOMAIN s : s[j].predicate = "evidence" /\ s[j].object = s[i].object
            BY <2>1, <5>1 DEF IInv, WholeAlerts
          <5>3. s[i].timestamp = Observed(s[i].object)
            BY <2>1, <5>1 DEF IInv, WholeAlerts
          <5>4. t[j] = s[j] /\ j \in DOMAIN t
            BY <2>5
          <5> QED
            BY <5>1, <5>2, <5>3, <5>4
        <4>2. CASE i \in n + 1 .. n + 3
          <5>1. /\ t[i].timestamp = Observed(m) /\ t[i].object = m
            <6> HIDE DEF n, t
            <6>1. i = n + 1 \/ i = n + 2 \/ i = n + 3
              BY <2>5, <4>2
            <6> QED
              BY <2>5, <6>1 DEF Triple
          <5>2. n + 1 \in DOMAIN t /\ t[n + 1].predicate = "evidence" /\ t[n + 1].object = m
            BY <2>5 DEF Triple
          <5> QED
            BY <5>1, <5>2
        <4> QED
          BY <2>5, <4>1, <4>2, SMTT(30)
      <3> HIDE DEF t
      <3>2. \A h \in Hazards : h # e => \A i \in DOMAIN triples[h] :
              /\ triples[h][i].timestamp = Observed(triples[h][i].object)
              /\ \E j \in DOMAIN triples[h] :
                   triples[h][j].predicate = "evidence" /\ triples[h][j].object = triples[h][i].object
        BY DEF IInv, WholeAlerts
      <3> QED
        BY <2>3, <3>1, <3>2 DEF WholeAlerts
    <2>8. LatestTogether'
      <3>1. \E a, b, c \in DOMAIN t : LatestOf(t, a, b, c)
        <4>1. CASE s = << >>
          <5>1. LatestOf(t, 1, 2, 3) /\ DOMAIN t = 1 .. 3
            BY <1>1, <4>1, FirstLatest
          <5> HIDE DEF t
          <5> QED
            BY <5>1
        <4>2. CASE s # << >>
          <5>1. PICK i, j, k \in DOMAIN s : LatestOf(s, i, j, k)
            BY <2>1, <4>2 DEF IInv, LatestTogether
          <5>2. \A x \in DOMAIN s : s[x].timestamp = Observed(s[x].object)
            BY <2>1 DEF IInv, WholeAlerts
          <5> HIDE DEF s
          <5> QED
            BY <1>1, <2>4, <5>1, <5>2, AppendedLatest
        <4> QED
          BY <4>1, <4>2
      <3> HIDE DEF t
      <3> QED
        BY <2>3, <3>1 DEF IInv, LatestTogether
    <2> QED
      BY <2>6, <2>7, <2>8 DEF IInv
  <1>3. CASE Kind[e] # "hazard"
    <2>1. e \in Entities \ Hazards
      BY <1>1, <1>3 DEF Hazards
    <2>2. triples' = triples /\ current' = [current EXCEPT ![e] = Replaced(current[e], m)]
      BY <1>3 DEF Applied
    <2>3. m.status \in {"actual", "test", "active", ""} /\ m.drawn \in BOOLEAN
      BY <1>1 DEF MessageType
    <2>4. /\ current[e].status \in {"actual", "test", "active", ""}
          /\ current[e].drawn \in BOOLEAN
      BY <2>1 DEF IInv, TypeOK
    <2>5. Replaced(current[e], m) \in
            [observed : Nat, status : {"actual", "test", "active", ""}, drawn : BOOLEAN]
      <3>1. (current[e].drawn \/ m.drawn) \in BOOLEAN
        OBVIOUS
      <3> QED
        BY <1>1, <2>3, <2>4, <3>1 DEF Replaced
    <2>6. TypeOK'
      BY <2>1, <2>2, <2>5 DEF IInv, TypeOK
    <2>7. WholeAlerts' /\ LatestTogether'
      BY <2>2 DEF IInv, WholeAlerts, LatestTogether
    <2> QED
      BY <2>6, <2>7 DEF IInv
  <1> QED
    BY <1>2, <1>3

LEMMA NextInv == ASSUME IInv, [Next]_vars PROVE IInv'
  <1> USE ReadbackAssumption
  <1>1. CASE UNCHANGED triples
    <2>1. WholeAlerts' /\ LatestTogether'
      BY <1>1 DEF IInv, WholeAlerts, LatestTogether
    <2>2. ASSUME NEW m \in Messages, Receive(m) PROVE IInv'
      <3> DEFINE T(P) == [predicate : {"evidence", "observed_at", "source_ref"}, object : P, timestamp : Nat]
      <3>1. projected' = projected \cup {m} /\ triples' = triples
        BY <2>2 DEF Receive
      <3>2. T(projected) \subseteq T(projected')
        BY <3>1
      <3>3. triples \in [Hazards -> Seq(T(projected))]
        BY DEF IInv, TypeOK
      <3> HIDE DEF T
      <3>4. triples' \in [Hazards -> Seq(T(projected'))]
        BY <3>1, <3>2, <3>3, SeqMonotonic
      <3>5. TypeOK'
        BY <2>2, <3>4 DEF IInv, TypeOK, Receive, T
      <3> QED
        BY <2>1, <3>5 DEF IInv
    <2>3. ASSUME NEW m \in Messages, Resend(m) PROVE IInv'
      <3>1. PICK b \in BOOLEAN : b = ~Written(m.entity)
        BY WrittenType
      <3>2. late' \subseteq [message : projected, birth : BOOLEAN]
        <4>1. late' = late \cup {[message |-> m, birth |-> b]}
          BY <2>3, <3>1 DEF Resend
        <4>2. m \in projected /\ late \subseteq [message : projected, birth : BOOLEAN]
          BY <2>3 DEF Resend, IInv, TypeOK
        <4>3. [message |-> m, birth |-> b] \in [message : projected, birth : BOOLEAN]
          BY <3>1, <4>2, Zenon
        <4> QED
          BY <4>1, <4>2, <4>3
      <3>3. TypeOK'
        BY <2>3, <3>2, TypesInFlight DEF IInv, TypeOK, Resend
      <3> QED
        BY <2>1, <3>3 DEF IInv
    <2>4. ASSUME NEW m \in Messages, GiveUp(m) PROVE IInv'
      <3>1. /\ UNCHANGED <<now, projected, late, triples, current>> /\ writing' \subseteq writing
        BY <2>4 DEF GiveUp
      <3>2. TypeOK'
        BY <3>1, TypesInFlight DEF IInv, TypeOK
      <3> QED
        BY <2>1, <3>2 DEF IInv
    <2>5. ASSUME Tick PROVE IInv'
      <3>1. now' \in Nat
        <4>1. now \in Nat
          BY DEF IInv, TypeOK
        <4>2. now' = now + 1
          BY <2>5 DEF Tick
        <4> QED
          BY <4>1, <4>2
      <3>2. TypeOK'
        BY <2>5, <3>1, TypesInFlight DEF IInv, TypeOK, Tick
      <3> QED
        BY <2>1, <3>2 DEF IInv
    <2>6. ASSUME UNCHANGED vars PROVE IInv'
      <3>1. UNCHANGED <<now, projected, writing, late, triples, current>>
        BY <2>6 DEF vars
      <3>2. TypeOK'
        BY <3>1, TypesInFlight DEF IInv, TypeOK
      <3> QED
        BY <2>1, <3>2 DEF IInv
    <2>7. ASSUME NEW m \in Messages, Write(m) PROVE IInv'
      BY <2>7, AppliedInv DEF Write, IInv, TypeOK
    <2>8. ASSUME NEW r \in late, ServeLate(r) PROVE IInv'
      BY <2>8, AppliedInv DEF ServeLate, IInv, TypeOK
    <2> QED
      BY <2>2, <2>3, <2>4, <2>5, <2>6, <2>7, <2>8 DEF Next
  <1>2. CASE ~UNCHANGED triples
    <2>1. ASSUME NEW m \in Messages, Write(m) PROVE IInv'
      BY <2>1, AppliedInv DEF Write, IInv, TypeOK
    <2>2. ASSUME NEW r \in late, ServeLate(r) PROVE IInv'
      BY <2>2, AppliedInv DEF ServeLate, IInv, TypeOK
    <2> QED
      BY <1>2, <2>1, <2>2 DEF Next, Receive, Resend, GiveUp, Tick, vars
  <1> QED
    BY <1>1, <1>2

\* What is shown of a hazard is always the latest of its evidence, whole.
THEOREM ReadbackInvariant == Spec => []IInv
  BY InitInv, NextInv, PTL DEF Spec

-----------------------------------------------------------------------------

\* The three readings of a hazard are of the latest alert, which is in the graph.
LEMMA ShownAlert ==
  ASSUME IInv, NEW h \in Hazards, triples[h] # << >>
  PROVE  /\ Evidence(h) \in Alerts(h) /\ SourceRef(h) = Evidence(h)
         /\ UpdatedAt(h) = Observed(Evidence(h))
         /\ \A x \in Alerts(h) : Observed(x) <= Observed(Evidence(h))
  <1> DEFINE s == triples[h]
  <1>1. PICK i, j, k \in DOMAIN s : LatestOf(s, i, j, k)
    BY DEF IInv, LatestTogether
  <1>2. s \in Seq(TripleType)
    BY TriplesType DEF IInv
  <1>3. Evidence(h) = s[i].object /\ SourceRef(h) = s[k].object
    BY <1>1, <1>2, LatestUnique DEF LatestOf, Evidence, SourceRef
  <1>4. LatestValue(s, "observed_at") = s[j].object
    BY <1>1, <1>2, LatestUnique DEF LatestOf
  <1>5. UpdatedAt(h) = Observed(s[j].object)
    BY <1>4 DEF UpdatedAt, Hazards
  <1>6. s[i].object \in Alerts(h)
    BY <1>1 DEF Alerts
  <1>7. ASSUME NEW x \in Alerts(h) PROVE Observed(x) <= Observed(s[i].object)
    <2>1. PICK a \in DOMAIN s : s[a].object = x
      BY <1>7 DEF Alerts
    <2>2. PICK b \in DOMAIN s : s[b].predicate = "evidence" /\ s[b].object = x
      BY <2>1 DEF IInv, WholeAlerts
    <2>3. s[b].timestamp = Observed(x) /\ s[i].timestamp = Observed(s[i].object)
      BY <1>1, <2>2 DEF IInv, WholeAlerts
    <2>4. s[b] \in TripleType /\ s[i] \in TripleType
      BY <1>1, <1>2, <2>2, ElementOfSeq, LenProperties
    <2>5. s[b].timestamp \in Nat /\ s[i].timestamp \in Nat
      BY <2>4 DEF TripleType
    <2>6. s[b].timestamp < s[i].timestamp \/ s[b].timestamp = s[i].timestamp
      BY <1>1, <2>2 DEF LatestOf, IsLatest
    <2> QED
      BY <2>3, <2>5, <2>6
  <1> QED
    BY <1>1, <1>3, <1>5, <1>6, <1>7 DEF LatestOf

LEMMA AlertsAreMessages == ASSUME TypeOK, NEW h \in Hazards PROVE Alerts(h) \subseteq Messages
  <1>1. triples[h] \in Seq(TripleType)
    BY TriplesType
  <1>2. \A i \in DOMAIN triples[h] : triples[h][i] \in TripleType
    BY <1>1, ElementOfSeq, LenProperties
  <1> QED
    BY <1>2 DEF Alerts, TripleType

\* The alert that orders the others is the one shown.
LEMMA OrderlyShown ==
  ASSUME IInv, NEW h \in Hazards, NEW y \in Alerts(h),
         \A x \in Alerts(h) \ {y} : x.sent < y.sent /\ Observed(x) < Observed(y)
  PROVE  triples[h] # << >> /\ Evidence(h) = y /\ UpdatedAt(h) = Observed(y)
  <1>1. triples[h] # << >>
    BY DEF Alerts
  <1>2. Alerts(h) \subseteq Messages
    BY AlertsAreMessages DEF IInv
  <1>3. Observed(y) \in Nat /\ Observed(Evidence(h)) \in Nat
    BY <1>1, <1>2, ShownAlert, ObservedType
  <1>4. Evidence(h) \in Alerts(h) /\ Observed(y) <= Observed(Evidence(h))
    BY <1>1, ShownAlert
  <1>5. Evidence(h) = y
    BY <1>3, <1>4
  <1> QED
    BY <1>1, <1>5, ShownAlert

\* In every reachable state the graph's content and what is under way have their types.
THEOREM TypeCorrect == Spec => []TypeOK
  BY ReadbackInvariant, PTL DEF IInv

\* However many alerts and late copies of them are in the graph, document, time and
\* source reference of a hazard are read from one of them.
THEOREM EvidenceIsWhole == Spec => []EvidenceAgrees
  <1>1. ASSUME IInv, NEW h \in Hazards, Written(h)
        PROVE  SourceRef(h) = Evidence(h) /\ UpdatedAt(h) = Observed(Evidence(h))
    <2>1. triples[h] # << >>
      BY <1>1 DEF Written, Hazards
    <2> QED
      BY <1>1, <2>1, ShownAlert
  <1>2. IInv => EvidenceAgrees
    BY <1>1 DEF EvidenceAgrees
  <1> QED
    BY <1>2, ReadbackInvariant, PTL

\* The last alert is shown if it is the last to take effect.
THEOREM NewestIsShown == Spec => []NewestAlertShown
  <1>1. ASSUME IInv, NEW h \in Hazards, Orderly(Alerts(h)), NEW x \in Alerts(h)
        PROVE  x.sent <= Evidence(h).sent
    <2>1. PICK y \in Alerts(h) :
            \A z \in Alerts(h) \ {y} : z.sent < y.sent /\ Observed(z) < Observed(y)
      BY <1>1 DEF Orderly
    <2>2. Evidence(h) = y
      BY <1>1, <2>1, OrderlyShown
    <2>3. x.sent \in Nat /\ y.sent \in Nat
      BY <1>1, <2>1, AlertsAreMessages, ReadbackAssumption DEF IInv, MessageType
    <2> QED
      BY <2>1, <2>2, <2>3
  <1>2. IInv => NewestAlertShown
    BY <1>1 DEF NewestAlertShown
  <1> QED
    BY <1>2, ReadbackInvariant, PTL

\* An alert that orders the others is the one shown, as an invariant.
OrderlyIsShown ==
  \A h \in Hazards : \A y \in Alerts(h) :
    (\A x \in Alerts(h) \ {y} : x.sent < y.sent /\ Observed(x) < Observed(y))
      => triples[h] # << >> /\ Evidence(h) = y /\ UpdatedAt(h) = Observed(y)

LEMMA StatusOf == ASSUME NEW h \in Hazards PROVE Status(h) = HazardStatus(Evidence(h), UpdatedAt(h))
  BY DEF Status, Hazards

LEMMA TimePasses == ASSUME TypeOK, [Next]_vars PROVE now \in Nat /\ now' \in Nat /\ now <= now'
  <1>1. now \in Nat
    BY DEF TypeOK
  <1>2. now' = now \/ now' = now + 1
    BY DEF Next, vars, Tick, Receive, Write, Resend, GiveUp, ServeLate
  <1> QED
    BY <1>1, <1>2

\* A hazard that is shown by the same alert after a step is not active unless it was.
LEMMA StepStaysInactive ==
  ASSUME TypeOK, [Next]_vars, OrderlyIsShown, OrderlyIsShown',
         NEW h \in Hazards, ~Active(h), Orderly(Alerts(h)), Alerts(h)' = Alerts(h)
  PROVE  ~Active(h)'
  <1>1. PICK y \in Alerts(h) : \A x \in Alerts(h) \ {y} : x.sent < y.sent /\ Observed(x) < Observed(y)
    BY DEF Orderly
  <1>2. triples[h] # << >> /\ Evidence(h) = y /\ UpdatedAt(h) = Observed(y)
    BY <1>1 DEF OrderlyIsShown
  <1>3. (triples[h] # << >>)' /\ Evidence(h)' = y /\ UpdatedAt(h)' = Observed(y)
    BY <1>1 DEF OrderlyIsShown
  <1>4. now \in Nat /\ now' \in Nat /\ now <= now'
    BY TimePasses
  <1>5. Observed(y) \in Nat /\ y.expires \in Nat /\ Freshness \in Nat
    BY <1>1, AlertsAreMessages, ObservedType, ReadbackAssumption DEF MessageType
  <1>6. Shown(h)' <=> Shown(h)
    BY <1>2, <1>3 DEF Shown, Written, Hazards
  <1>7. SUFFICES ASSUME Shown(h) PROVE Status(h)' \notin {"active", "active.update"}
    BY <1>6 DEF Active
  <1>8. Status(h) \notin {"active", "active.update"}
    BY <1>7 DEF Active
  <1>9. /\ Status(h) = HazardStatus(y, Observed(y))
        /\ Status(h)' = HazardStatus(Evidence(h), UpdatedAt(h))'
    BY <1>2, <1>3, StatusOf DEF Status, Hazards
  <1>10. CASE y.status # "actual"
    BY <1>3, <1>9, <1>10 DEF HazardStatus
  <1>11. CASE y.status = "actual" /\ y.msgType \in {"cancel", "error", "ack"}
    BY <1>3, <1>9, <1>11 DEF HazardStatus
  <1>12. CASE y.status = "actual" /\ y.msgType \notin {"cancel", "error", "ack"}
    <2>1. CASE y.expires # 0 /\ y.expires <= now
      <3>1. y.expires <= now'
        BY <1>4, <1>5, <2>1
      <3> QED
        BY <1>3, <1>9, <1>12, <2>1, <3>1 DEF HazardStatus
    <2>2. CASE ~(y.expires # 0 /\ y.expires <= now)
      <3>1. ~(now - Observed(y) <= Freshness)
        BY <1>8, <1>9, <1>12, <2>2 DEF HazardStatus, FreshnessStatus
      <3>2. ~(now' - Observed(y) <= Freshness)
        BY <1>4, <1>5, <3>1
      <3> QED
        BY <1>3, <1>9, <1>12, <2>2, <3>2 DEF HazardStatus, FreshnessStatus
    <2> QED
      BY <2>1, <2>2
  <1> QED
    BY <1>10, <1>11, <1>12

\* No hazard comes back by the passing of time or by late copies.
THEOREM InactiveForGood == Spec => InactiveStaysInactive
  <1>1. IInv => OrderlyIsShown
    BY OrderlyShown DEF OrderlyIsShown
  <1>2. IInv => TypeOK
    BY DEF IInv
  <1>3. ASSUME TypeOK, [Next]_vars, OrderlyIsShown, OrderlyIsShown'
        PROVE  \A h \in Hazards :
                 /\ Written(h) /\ ~Active(h)
                 /\ Orderly(Alerts(h)) /\ Alerts(h)' = Alerts(h)
                 => ~Active(h)'
    BY <1>3, StepStaysInactive
  <1> QED
    BY <1>1, <1>2, <1>3, ReadbackInvariant, PTL DEF Spec, InactiveStaysInactive

-----------------------------------------------------------------------------
(* The statuses of the entities and the health of the feeds.  The health   *)
(* looks at the latest time only, which exists because a snapshot has      *)
(* finitely many entities.                                                 *)

\* A non-empty set of naturals has a least element.
LEMMA LeastExists ==
  ASSUME NEW T, T \subseteq Nat, T # {}
  PROVE  \E x \in T : \A y \in T : x <= y
  <1> DEFINE R == OpToRel(<, Nat)
  <1>1. IsWellFoundedOn(R, Nat)
    BY NatLessThanWellFounded
  <1>2. \A x, y \in Nat : y < x => <<y, x>> \in R
    BY DEF OpToRel
  <1> HIDE DEF R
  <1>3. PICK x \in T : \A y \in T : ~(<<y, x>> \in R)
    BY <1>1, WFMin
  <1>4. ASSUME NEW y \in T PROVE x <= y
    <2>1. x \in Nat /\ y \in Nat
      OBVIOUS
    <2>2. ~(y < x)
      BY <1>2, <1>3, <2>1
    <2> QED
      BY <2>1, <2>2
  <1> QED
    BY <1>4

\* A function on a finite set takes bounded values: the shortest part of a list of the set
\* that had no bound would have one.
LEMMA BoundedOnFinite ==
  ASSUME NEW S, IsFiniteSet(S), NEW u \in [S -> Nat]
  PROVE  \E b \in Nat : \A e \in S : u[e] <= b
  <1>1. PICK s \in Seq(S) : \A e \in S : \E n \in 1 .. Len(s) : s[n] = e
    BY DEF IsFiniteSet
  <1> DEFINE Bounded(k) == \E b \in Nat : \A i \in 1 .. k : u[s[i]] <= b
             Bad == {k \in 0 .. Len(s) : ~Bounded(k)}
  <1>2. Len(s) \in Nat /\ \A i \in 1 .. Len(s) : s[i] \in S
    BY LenProperties, ElementOfSeq
  <1>3. \A i \in 1 .. Len(s) : u[s[i]] \in Nat
    BY <1>2
  <1>4. SUFFICES ASSUME Bad # {} PROVE FALSE
    <2>1. Len(s) \in 0 .. Len(s)
      BY <1>2
    <2>2. Bad = {} => Bounded(Len(s))
      BY <2>1
    <2> HIDE DEF Bad
    <2>3. Bounded(Len(s)) => \E b \in Nat : \A e \in S : u[e] <= b
      BY <1>1
    <2> QED
      BY <2>2, <2>3
  <1>5. PICK k \in Bad : \A y \in Bad : k <= y
    <2>1. Bad \subseteq Nat
      BY <1>2
    <2> HIDE DEF Bad
    <2> QED
      BY <1>4, <2>1, LeastExists
  <1>6. k \in 0 .. Len(s) /\ ~Bounded(k)
    BY <1>5
  <1>7. k # 0
    <2>1. \A i \in 1 .. 0 : u[s[i]] <= 0
      OBVIOUS
    <2>2. Bounded(0)
      BY <2>1
    <2> QED
      BY <1>6, <2>2
  <1>8. k - 1 \in 0 .. Len(s) /\ ~(k <= k - 1) /\ k \in 1 .. Len(s)
    BY <1>2, <1>6, <1>7
  <1>9. Bounded(k - 1)
    <2>1. k - 1 \notin Bad
      BY <1>5, <1>8
    <2> QED
      BY <1>8, <2>1
  <1>10. PICK b \in Nat : \A i \in 1 .. k - 1 : u[s[i]] <= b
    BY <1>9
  <1> HIDE DEF Bad
  <1>11. PICK c \in Nat : b <= c /\ u[s[k]] <= c
    <2>1. PICK x \in Nat : x = u[s[k]]
      BY <1>3, <1>8
    <2>2. b <= b + x /\ x <= b + x /\ b + x \in Nat
      OBVIOUS
    <2> QED
      BY <2>1, <2>2
  <1>12. \A i \in 1 .. k : u[s[i]] <= c
    <2>1. \A i \in 1 .. k : i \in 1 .. k - 1 \/ i = k
      BY <1>8
    <2>2. ASSUME NEW i \in 1 .. k - 1 PROVE u[s[i]] <= c
      <3>1. i \in 1 .. Len(s)
        BY <1>2, <1>8
      <3>2. PICK x \in Nat : x = u[s[i]]
        BY <1>3, <3>1
      <3>3. x <= b
        BY <1>10, <2>2, <3>2
      <3> QED
        BY <1>11, <3>2, <3>3
    <2> QED
      BY <1>11, <2>1, <2>2
  <1> QED
    BY <1>6, <1>12

\* The latest of bounded times is one of them, and no time is later.
LEMMA LatestTimeIsLatest ==
  ASSUME NEW b \in Nat, NEW T, T \subseteq 0 .. b, T # {}
  PROVE  LatestTime(T) \in T /\ \A t \in T : t <= LatestTime(T)
  <1> DEFINE D == {b - t : t \in T}
  <1>1. D \subseteq Nat /\ D # {}
    <2>1. \A t \in T : b - t \in Nat
      OBVIOUS
    <2> QED
      BY <2>1
  <1>2. PICK d \in D : \A e \in D : d <= e
    BY <1>1, LeastExists
  <1>3. PICK t \in T : d = b - t
    OBVIOUS
  <1>4. \A u \in T : b - t <= b - u
    BY <1>2, <1>3
  <1>5. \A u \in T : u <= t
    BY <1>4
  <1> QED
    BY <1>3, <1>5 DEF LatestTime

\* Whatever is shown has a time.
LEMMA UpdatedAtType == ASSUME IInv, NEW e \in Entities, Shown(e) PROVE UpdatedAt(e) \in Nat
  <1>1. CASE Kind[e] = "hazard"
    <2>1. e \in Hazards /\ triples[e] # << >>
      BY <1>1 DEF Hazards, Shown, Written
    <2>2. Evidence(e) \in Messages /\ UpdatedAt(e) = Observed(Evidence(e))
      BY <2>1, ShownAlert, AlertsAreMessages DEF IInv
    <2> QED
      BY <2>2, ObservedType
  <1>2. CASE Kind[e] # "hazard"
    <2>1. e \in Entities \ Hazards /\ UpdatedAt(e) = current[e].observed
      BY <1>2 DEF Hazards, UpdatedAt
    <2>2. current[e] \in [observed : Nat, status : {"actual", "test", "active", ""}, drawn : BOOLEAN]
      BY <2>1 DEF IInv, TypeOK
    <2> QED
      BY <2>1, <2>2
  <1> QED
    BY <1>1, <1>2

\* What is not said to be stale, expired or ended has a fresh observation.
LEMMA FreshStatus ==
  ASSUME NEW e \in Entities, Status(e) \in {"active", "active.update", "unknown"}
  PROVE  now - UpdatedAt(e) <= Freshness
  <1>1. CASE Kind[e] = "hazard"
    <2> DEFINE a == Evidence(e)
    <2>1. Status(e) = HazardStatus(a, UpdatedAt(e))
      BY <1>1 DEF Status
    <2>2. a.status = "actual" /\ a.msgType \notin {"cancel", "error", "ack"}
      BY <2>1 DEF HazardStatus
    <2>3. \E s : Status(e) = "expired" \/ Status(e) = FreshnessStatus(s, UpdatedAt(e))
      BY <2>1, <2>2 DEF HazardStatus
    <2> QED
      BY <2>3 DEF FreshnessStatus
  <1>2. CASE Kind[e] # "hazard"
    <2>1. Status(e) = ReportStatus(e)
      BY <1>2 DEF Status
    <2> QED
      BY <2>1 DEF ReportStatus, FreshnessStatus
  <1> QED
    BY <1>1, <1>2

\* The health of a feed with observations is that of its latest one.
LEMMA HealthOf ==
  ASSUME IInv, NEW f \in Feeds, ShownOf(f) # {}
  PROVE  \E e \in ShownOf(f) :
           /\ \A x \in ShownOf(f) : UpdatedAt(x) <= UpdatedAt(e)
           /\ FeedHealth(f) = IF now - UpdatedAt(e) > Freshness THEN "stale" ELSE "live"
  <1> DEFINE times == {UpdatedAt(e) : e \in ShownOf(f)}
             u == [e \in Entities |-> IF Shown(e) THEN UpdatedAt(e) ELSE 0]
  <1>1. u \in [Entities -> Nat]
    BY UpdatedAtType
  <1>2. \A e \in ShownOf(f) : e \in Entities /\ u[e] = UpdatedAt(e)
    BY DEF ShownOf
  <1> HIDE DEF u
  <1>3. PICK b \in Nat : \A e \in Entities : u[e] <= b
    BY <1>1, BoundedOnFinite, EntitiesAssumption
  <1>4. times \subseteq 0 .. b
    <2>1. \A e \in Entities : u[e] \in 0 .. b
      BY <1>1, <1>3
    <2> QED
      BY <1>2, <2>1
  <1>5. times # {}
    OBVIOUS
  <1>6. FeedHealth(f) = IF now - LatestTime(times) > Freshness THEN "stale" ELSE "live"
    BY <1>5 DEF FeedHealth
  <1> HIDE DEF times
  <1>7. LatestTime(times) \in times /\ \A t \in times : t <= LatestTime(times)
    BY <1>4, <1>5, LatestTimeIsLatest
  <1>8. PICK e \in ShownOf(f) : UpdatedAt(e) = LatestTime(times)
    BY <1>7 DEF times
  <1>9. \A x \in ShownOf(f) : UpdatedAt(x) <= UpdatedAt(e)
    BY <1>7, <1>8 DEF times
  <1> QED
    BY <1>6, <1>8, <1>9

\* Entities and feeds do not contradict each other at any time: a fresh entity makes its
\* feed live, and a feed is live by a fresh entity only.
THEOREM StatusesAndHealthAgree == Spec => []FeedsAgree
  <1>1. ASSUME IInv, NEW f \in Feeds, NEW e \in ShownOf(f),
               Status(e) \in {"active", "active.update", "unknown"}
        PROVE  FeedHealth(f) = "live"
    <2>1. PICK y \in ShownOf(f) :
            /\ \A x \in ShownOf(f) : UpdatedAt(x) <= UpdatedAt(y)
            /\ FeedHealth(f) = IF now - UpdatedAt(y) > Freshness THEN "stale" ELSE "live"
      BY <1>1, HealthOf
    <2>2. now - UpdatedAt(e) <= Freshness /\ UpdatedAt(e) <= UpdatedAt(y)
      BY <1>1, <2>1, FreshStatus DEF ShownOf
    <2>3. UpdatedAt(e) \in Nat /\ UpdatedAt(y) \in Nat /\ now \in Nat /\ Freshness \in Nat
      BY <1>1, UpdatedAtType, ReadbackAssumption DEF ShownOf, IInv, TypeOK
    <2>4. ~(now - UpdatedAt(y) > Freshness)
      BY <2>2, <2>3
    <2> QED
      BY <2>1, <2>4
  <1>2. ASSUME IInv, NEW f \in Feeds, FeedHealth(f) = "live"
        PROVE  \E e \in ShownOf(f) : FreshnessStatus("fresh", UpdatedAt(e)) = "fresh"
    <2>1. ShownOf(f) # {}
      BY <1>2 DEF FeedHealth
    <2>2. PICK y \in ShownOf(f) :
            FeedHealth(f) = IF now - UpdatedAt(y) > Freshness THEN "stale" ELSE "live"
      BY <1>2, <2>1, HealthOf
    <2>3. UpdatedAt(y) \in Nat /\ now \in Nat /\ Freshness \in Nat
      BY <1>2, UpdatedAtType, ReadbackAssumption DEF ShownOf, IInv, TypeOK
    <2>4. now - UpdatedAt(y) <= Freshness
      BY <1>2, <2>2, <2>3
    <2> QED
      BY <2>4 DEF FreshnessStatus
  <1>3. IInv => FeedsAgree
    BY <1>1, <1>2 DEF FeedsAgree
  <1> QED
    BY <1>3, ReadbackInvariant, PTL
=============================================================================
