---------------------------- MODULE FeedFlowProofs ----------------------------
(***************************************************************************)
(* The decoder processors, for any documents, limits and number of lives.   *)
(* First the raw lane they capture into, for every capacity and every       *)
(* sequence of frames; then what gets through a feed's parser, its encoding *)
(* and the validation of its payload; then the processors themselves.       *)
(***************************************************************************)
EXTENDS FeedFlow, SequenceTheorems, TLAPS

-----------------------------------------------------------------------------
(* The raw lane.                                                           *)

LEMMA InitInv == Init => IInv
  <1> SUFFICES ASSUME Init PROVE IInv
    OBVIOUS
  <1> USE LaneAssumption
  <1>1. /\ next = 0 /\ Len(records) = 0 /\ records \in Seq(Record) /\ Evicted = 0
        /\ upTo \in [0 .. next -> Nat] /\ upTo[0] = 0
    BY DEF Init, Evicted
  <1>2. TypeOK
    BY <1>1 DEF Init, TypeOK
  <1>3. Newest /\ NewestRetained /\ FrameFits /\ EvictedForNeed
    BY <1>1 DEF Newest, NewestRetained, FrameFits, EvictedForNeed
  <1>4. Accounted /\ ~Overfull
    BY <1>1 DEF Init, Accounted, Overfull
  <1> QED
    BY <1>2, <1>3, <1>4 DEF IInv

LEMMA CaptureInv ==
  ASSUME IInv, NEW size \in Frames, Capture(size)
  PROVE  IInv'
  <1> USE LaneAssumption
  <1> DEFINE r == [ref |-> next + 1, size |-> size]
  <1>1. /\ next \in Nat /\ size \in Nat \ {0} /\ size <= MaxBytes /\ r \in Record
        /\ records \in Seq(Record) /\ upTo \in [0 .. next -> Nat] /\ MaxBytes \in Nat
        /\ next' = next + 1
    BY DEF IInv, TypeOK, Capture, Store, Record
  <1>2. /\ \A n \in 0 .. next : upTo'[n] = upTo[n] /\ upTo[n] \in Nat
        /\ upTo'[next + 1] = upTo[next] + size
    BY <1>1 DEF Capture, Store
  <1>3. /\ records' = Append(records, r) /\ Len(records') = Len(records) + 1
        /\ records' \in Seq(Record)
        /\ \A i \in 1 .. Len(records) : records'[i] = records[i]
        /\ records'[Len(records) + 1] = r
    BY <1>1 DEF Capture, Store
  <1>4. Evicted' = Evicted /\ Evicted \in 0 .. next
    BY <1>1, <1>3 DEF Evicted, Capture, Store, IInv, Newest
  <1>5. TypeOK'
    <2>1. upTo' \in [0 .. next' -> Nat]
      BY <1>1, <1>2 DEF Capture, Store
    <2> QED
      BY <1>1, <1>3, <2>1 DEF IInv, TypeOK, Capture, Store
  <1>6. Newest'
    <2>2. ASSUME NEW i \in 1 .. Len(records)
          PROVE  /\ records'[i].ref = Evicted' + i
                 /\ records'[i].size = upTo'[Evicted' + i] - upTo'[Evicted' + i - 1]
      <3>1. Evicted + i \in 0 .. next /\ Evicted + i - 1 \in 0 .. next
        BY <1>1, <1>4 DEF Evicted
      <3> QED
        BY <1>2, <1>3, <1>4, <3>1 DEF IInv, Newest
    <2>3. /\ r.ref = Evicted' + Len(records) + 1
          /\ r.size = upTo'[Evicted' + Len(records) + 1] - upTo'[Evicted' + Len(records)]
      <3>1. Evicted' + Len(records) = next /\ Evicted' + Len(records) + 1 = next + 1
        <4>1. next \in Nat /\ Len(records) \in Nat
          BY <1>1, LenProperties
        <4>2. Evicted = next - Len(records)
          BY DEF Evicted
        <4> QED
          BY <1>4, <4>1, <4>2
      <3>2. r.ref = next + 1 /\ r.size = size
        OBVIOUS
      <3>3. upTo'[next + 1] - upTo'[next] = size
        BY <1>1, <1>2
      <3> QED
        BY <3>1, <3>2, <3>3
    <2>4. Len(records') <= next' /\ next' = next + 1
      BY <1>1, <1>3 DEF IInv, Newest, Capture, Store
    <2> QED
      <3>1. ASSUME NEW i \in 1 .. Len(records')
            PROVE  /\ records'[i].ref = Evicted' + i
                   /\ records'[i].size = upTo'[Evicted' + i] - upTo'[Evicted' + i - 1]
        <4>1. CASE i \in 1 .. Len(records)
          BY <2>2, <4>1
        <4>2. CASE i = Len(records) + 1
          <5>1. /\ Evicted' + i = Evicted' + Len(records) + 1
                /\ Evicted' + i - 1 = Evicted' + Len(records)
            BY <1>1, <1>4, <4>2
          <5> QED
            BY <1>3, <2>3, <4>2, <5>1
        <4> QED
          BY <1>1, <1>3, <4>1, <4>2
      <3> QED
        BY <2>4, <3>1 DEF Newest
  <1>7. Accounted'
    BY <1>1, <1>2, <1>4 DEF IInv, Accounted, Capture, Store
  <1>8. FrameFits'
    BY <1>1, <1>2, SMTT(30) DEF IInv, FrameFits, Capture, Store
  <1>9. NewestRetained'
    <2>1. Len(records') \in Nat \ {0} /\ records'[Len(records')].ref = next'
      BY <1>1, <1>3
    <2> QED
      BY <2>1 DEF NewestRetained
  <1>10. EvictedForNeed'
    <2> SUFFICES ASSUME NEW n \in 1 .. Evicted
                 PROVE  \E m \in n .. next' :
                          m - n + 1 > MaxRecords \/ upTo'[m] - upTo'[n - 1] > MaxBytes
      BY <1>4 DEF EvictedForNeed
    <2>1. PICK m \in n .. next :
            m - n + 1 > MaxRecords \/ upTo[m] - upTo[n - 1] > MaxBytes
      BY DEF IInv, EvictedForNeed
    <2>2. m \in 0 .. next /\ n - 1 \in 0 .. next /\ m \in n .. next'
      BY <1>1, <1>4 DEF Capture, Store
    <2> QED
      BY <1>2, <2>1, <2>2
  <1> QED
    BY <1>5, <1>6, <1>7, <1>8, <1>9, <1>10 DEF IInv, Capture, Store

LEMMA EvictInv ==
  ASSUME IInv, Evict
  PROVE  IInv'
  <1> USE LaneAssumption
  <1>1. /\ next \in Nat /\ next' = next /\ upTo' = upTo /\ locked' = locked
        /\ records \in Seq(Record) /\ Len(records) <= next
        /\ \A n \in 0 .. next : upTo[n] \in Nat /\ upTo'[n] = upTo[n]
    BY DEF IInv, TypeOK, Newest, Evict
  \* There is more than the newest record to evict.
  <1>2. Len(records) > 1
    <2>1. CASE next = 0
      BY <1>1, <2>1 DEF IInv, Evict, Overfull, Accounted, Evicted
    <2>2. CASE next > 0 /\ Len(records) = 0
      BY <1>1, <2>2 DEF IInv, NewestRetained
    <2>3. CASE next > 0 /\ Len(records) = 1
      <3>1. totalBytes = upTo[next] - upTo[next - 1]
        BY <1>1, <2>3 DEF IInv, Accounted, Evicted
      <3>2. totalBytes \in 1 .. MaxBytes
        BY <1>1, <2>3, <3>1 DEF IInv, FrameFits
      <3> QED
        BY <2>3, <3>2 DEF Evict, Overfull
    <2> QED
      <3>1. next \in Nat /\ Len(records) \in Nat
        BY <1>1, LenProperties
      <3> QED
        BY <2>1, <2>2, <2>3, <3>1
  <1>3. /\ records' \in Seq(Record) /\ Len(records') = Len(records) - 1
        /\ \A i \in 1 .. (Len(records) - 1) : records'[i] = records[i + 1]
        /\ records[1].size \in Nat
    <2>1. records # << >> /\ records' = Tail(records)
      BY <1>1, <1>2 DEF Evict
    <2>2. /\ Tail(records) \in Seq(Record) /\ Len(Tail(records)) = Len(records) - 1
          /\ \A i \in 1 .. (Len(records) - 1) : Tail(records)[i] = records[i + 1]
      BY <1>1, <2>1, HeadTailProperties
    <2>3. records[1] \in Record
      BY <1>1, <1>2
    <2> QED
      BY <2>1, <2>2, <2>3 DEF Record
  <1>4. Evicted' = Evicted + 1 /\ Evicted \in Nat /\ Evicted + 1 \in 0 .. next
    BY <1>1, <1>2, <1>3 DEF Evicted
  <1>5. TypeOK'
    BY <1>1, <1>3 DEF IInv, TypeOK, Evict
  <1>6. Newest'
    <2>1. ASSUME NEW i \in 1 .. (Len(records) - 1)
          PROVE  /\ records'[i].ref = Evicted' + i
                 /\ records'[i].size = upTo'[Evicted' + i] - upTo'[Evicted' + i - 1]
      <3>1. /\ records[i + 1].ref = Evicted + (i + 1)
            /\ records[i + 1].size = upTo[Evicted + (i + 1)] - upTo[Evicted + (i + 1) - 1]
        BY <1>1 DEF IInv, Newest
      <3>2. /\ Evicted + (i + 1) = Evicted' + i /\ Evicted + (i + 1) - 1 = Evicted' + i - 1
            /\ Evicted' + i \in 0 .. next /\ Evicted' + i - 1 \in 0 .. next
        BY <1>1, <1>4, SMTT(30) DEF Evicted
      <3> QED
        BY <1>1, <1>3, <3>1, <3>2
    <2> QED
      BY <1>1, <1>3, <2>1 DEF IInv, Newest
  <1>7. Accounted'
    <2>1. records[1].size = upTo[Evicted + 1] - upTo[Evicted]
      BY <1>1, <1>2, <1>4 DEF IInv, Newest
    <2> QED
      BY <1>1, <1>4, <2>1, SMTT(30) DEF IInv, Accounted, Evict
  <1>8. FrameFits'
    BY <1>1 DEF IInv, FrameFits
  <1>9. NewestRetained'
    BY <1>1, <1>2, <1>3 DEF IInv, NewestRetained
  <1>10. EvictedForNeed'
    <2> SUFFICES ASSUME NEW n \in 1 .. (Evicted + 1)
                 PROVE  \E m \in n .. next :
                          m - n + 1 > MaxRecords \/ upTo[m] - upTo[n - 1] > MaxBytes
      BY <1>1, <1>4 DEF EvictedForNeed
    <2>1. CASE n \in 1 .. Evicted
      BY <2>1 DEF IInv, EvictedForNeed
    <2>2. CASE n = Evicted + 1
      \* The frames still held are what the lane is overfull with.
      BY <1>1, <1>4, <2>2 DEF IInv, Accounted, Evict, Overfull, Evicted
    <2> QED
      BY <1>4, <2>1, <2>2
  <1> QED
    BY <1>1, <1>5, <1>6, <1>7, <1>8, <1>9, <1>10 DEF IInv, Evict

LEMMA StepInv == IInv /\ [Next]_vars => IInv'
  <1> SUFFICES ASSUME IInv, [Next]_vars PROVE IInv'
    OBVIOUS
  <1>1. ASSUME NEW size \in Frames, Capture(size) PROVE IInv'
    BY <1>1, CaptureInv
  <1>2. CASE Evict
    BY <1>2, EvictInv
  <1>3. CASE Return
    BY <1>3 DEF Return, IInv, TypeOK, Newest, Accounted, FrameFits, NewestRetained,
                EvictedForNeed, Evicted, Overfull
  <1>4. CASE UNCHANGED vars
    BY <1>4 DEF vars, IInv, TypeOK, Newest, Accounted, FrameFits, NewestRetained,
                EvictedForNeed, Evicted, Overfull
  <1> QED
    BY <1>1, <1>2, <1>3, <1>4 DEF Next

\* The inductive invariant holds throughout: the lane is the newest part of what
\* was captured and its account is right (raw_lane.go, Capture and evict).
THEOREM LaneInvariant == Spec => []IInv
  BY InitInv, StepInv, PTL DEF Spec

\* References are consecutive and records keep their frames, for any number of
\* captures (Capture's numbering and evict's copy-down).
THEOREM LaneIsNewest == Spec => []Newest
  <1>1. IInv => Newest
    BY DEF IInv
  <1> QED
    BY <1>1, LaneInvariant, PTL

\* Eviction never reaches the record that Capture is about to return, so it never
\* indexes an empty lane either.
THEOREM LaneKeepsNewest == Spec => []NewestRetained
  <1>1. IInv => NewestRetained
    BY DEF IInv
  <1> QED
    BY <1>1, LaneInvariant, PTL

\* Outside of Capture the lane is within its record and byte limits.
THEOREM LaneBounded == Spec => []WithinLimits
  <1>1. IInv => WithinLimits
    BY LaneAssumption DEF IInv, WithinLimits, Overfull, Accounted, TypeOK, Newest
  <1> QED
    BY <1>1, LaneInvariant, PTL

\* A record is evicted only when what came with and after it exceeded a limit.
THEOREM LaneEvictsForNeed == Spec => []EvictedForNeed
  <1>1. IInv => EvictedForNeed
    BY DEF IInv
  <1> QED
    BY <1>1, LaneInvariant, PTL

-----------------------------------------------------------------------------
(* The codecs: what gets through one is sound, for documents of any        *)
(* length; and what of a CoT event survives being written and read again.  *)

\* The place of a point that parses and can be encoded.
LEMMA PointSound ==
  ASSUME NEW p \in CapPoints, PointParses(p), PointEncodes(p)
  PROVE  p = [lat |-> "in", lon |-> "in"]
  BY DEF CapPoints, CapNumbers, PointParses, PointEncodes, InRange, Unencodable

\* The parser of an area bounds its numbers except NaN (Go compares with < and >), and
\* the JSON of the payload has no NaN.
LEMMA AreaSound ==
  ASSUME NEW a \in CapAreas, AreaParses(a), AreaEncodes(a)
  PROVE  /\ \A p \in DOMAIN a.polygons : Len(a.polygons[p]) > 2
         /\ \A p \in DOMAIN a.polygons : \A q \in DOMAIN a.polygons[p] :
              a.polygons[p][q] = [lat |-> "in", lon |-> "in"]
         /\ \A p \in DOMAIN a.circles :
              /\ a.circles[p].center = [lat |-> "in", lon |-> "in"]
              /\ a.circles[p].radius \in {"in", "high"}
  <1>1. a.polygons \in Seq(Seq(CapPoints)) /\ a.circles \in Seq(CapCircles)
    BY DEF CapAreas
  <1>2. ASSUME NEW p \in DOMAIN a.polygons
        PROVE  /\ Len(a.polygons[p]) > 2
               /\ \A q \in DOMAIN a.polygons[p] : a.polygons[p][q] = [lat |-> "in", lon |-> "in"]
    <2>1. a.polygons[p] \in Seq(CapPoints)
      BY <1>1
    <2>2. Len(a.polygons[p]) \in Nat /\ Len(a.polygons[p]) >= 3
      BY <2>1 DEF AreaParses, PolygonParses
    <2>3. ASSUME NEW q \in DOMAIN a.polygons[p] PROVE a.polygons[p][q] = [lat |-> "in", lon |-> "in"]
      <3>1. a.polygons[p][q] \in CapPoints
        BY <2>1
      <3>2. PointParses(a.polygons[p][q]) /\ PointEncodes(a.polygons[p][q])
        BY DEF AreaParses, PolygonParses, AreaEncodes
      <3> QED
        BY <3>1, <3>2, PointSound
    <2> QED
      BY <2>2, <2>3
  <1>3. ASSUME NEW p \in DOMAIN a.circles
        PROVE  /\ a.circles[p].center = [lat |-> "in", lon |-> "in"]
               /\ a.circles[p].radius \in {"in", "high"}
    <2>1. a.circles[p] \in CapCircles
      BY <1>1
    <2>2. PointParses(a.circles[p].center) /\ PointEncodes(a.circles[p].center)
      BY DEF AreaParses, CircleParses, AreaEncodes
    <2>3. a.circles[p].radius \notin {"bad", "low", "nan", "inf"}
      BY DEF AreaParses, CircleParses, AreaEncodes, Unencodable
    <2> QED
      BY <2>1, <2>2, <2>3, PointSound DEF CapCircles, CapNumbers
  <1> QED
    BY <1>2, <1>3

LEMMA ToAlertFacts ==
  ASSUME NEW x \in CapDocuments
  PROVE  /\ ToAlert(x).text = x.text /\ ToAlert(x).sent = CapTimeOf(x.sent)
         /\ DOMAIN ToAlert(x).infos = DOMAIN x.infos
         /\ \A n \in DOMAIN x.infos :
              /\ ToAlert(x).infos[n].effective = CapTimeOf(x.infos[n].effective)
              /\ ToAlert(x).infos[n].expires = CapTimeOf(x.infos[n].expires)
              /\ ToAlert(x).infos[n].areas = x.infos[n].areas
  <1>1. x.infos \in Seq(CapInfos)
    BY DEF CapDocuments
  <1>2. \A n \in DOMAIN x.infos : x.infos[n] \in CapInfos
    BY <1>1
  <1>3. ToAlert(x).infos = [n \in DOMAIN x.infos |-> ToInfo(x.infos[n])]
    BY SMTT(30) DEF ToAlert, CapDocuments
  <1> QED
    BY <1>2, <1>3 DEF ToAlert, ToInfo, CapDocuments, CapInfos

\* Parse and the payload's JSON together let only sound CAP alerts through.
THEOREM CapIsSound ==
  ASSUME NEW x \in CapDocuments, CapParses(x), CapPayloadEncodes(ToAlert(x))
  PROVE  CapSound(x)
  <1>1. x.infos \in Seq(CapInfos) /\ x.text \in [Mandatory -> {"blank", "text"}] /\ x.sent \in CapTimes
    BY DEF CapDocuments
  <1>2. x.xml /\ x.sent = "good" /\ \A f \in DOMAIN x.text : x.text[f] = "text"
    BY <1>1, ToAlertFacts DEF CapParses, AlertValid, CapPayloadEncodes, CapTimeOf, CapTimes, CapTimeParses
  <1>3. Len(x.infos) > 0
    <2>1. DOMAIN x.infos # {}
      <3>1. ToAlert(x).infos # << >> /\ ToAlert(x).infos = [n \in DOMAIN x.infos |-> ToInfo(x.infos[n])]
        BY DEF CapParses, AlertValid, ToAlert, CapDocuments
      <3> QED
        BY <3>1
    <2> QED
      BY <1>1, <2>1
  <1>4. ASSUME NEW n \in DOMAIN x.infos
        PROVE  {x.infos[n].effective, x.infos[n].expires} \subseteq {"good", "blank", "zero"}
    <2>1. x.infos[n] \in CapInfos
      BY <1>1
    <2>2. InfoParses(x.infos[n])
      BY DEF CapParses
    <2>3. CapTimeOf(x.infos[n].effective) # "far" /\ CapTimeOf(x.infos[n].expires) # "far"
      BY ToAlertFacts DEF CapPayloadEncodes
    <2> QED
      BY <2>1, <2>2, <2>3 DEF CapInfos, CapTimes, CapTimeOf, CapTimeParses, InfoParses
  <1>5. ASSUME NEW n \in DOMAIN x.infos, NEW k \in DOMAIN x.infos[n].areas
        PROVE  /\ x.infos[n].areas[k] \in CapAreas
               /\ AreaParses(x.infos[n].areas[k]) /\ AreaEncodes(x.infos[n].areas[k])
    <2>1. x.infos[n] \in CapInfos
      BY <1>1
    <2>2. x.infos[n].areas[k] \in CapAreas
      BY <2>1 DEF CapInfos
    <2>3. AreaParses(x.infos[n].areas[k])
      BY DEF CapParses, InfoParses
    <2>4. AreaEncodes(x.infos[n].areas[k])
      BY ToAlertFacts DEF CapPayloadEncodes
    <2> QED
      BY <2>2, <2>3, <2>4
  <1> QED
    BY <1>2, <1>3, <1>4, <1>5, AreaSound DEF CapSound

\* ParseOpenSkySnapshot and the payload's JSON together let only sound snapshots through.
THEOREM OpenSkyIsSound ==
  ASSUME NEW x, OpenSkyParses(x), OpenSkyPayloadEncodes(x)
  PROVE  OpenSkySound(x)
  <1>1. ASSUME NEW i \in DOMAIN x.states.rows, NEW row, row = x.states.rows[i]
        PROVE  /\ row[ICAO24] = "text" /\ row[LastContact] = "positive"
               /\ row[TimePosition] \in {"positive", "zero", "null"}
               /\ \A f \in Floats : row[f] \in {"null", "fraction", "positive", "zero", "far"}
    <2>1. StateVectorParses(row) /\ row[LastContact] # "far" /\ row[TimePosition] # "far"
      BY <1>1 DEF OpenSkyParses, OpenSkyPayloadEncodes
    <2> QED
      BY <2>1 DEF StateVectorParses, SomeText, RequiredUnixTime, OptionalUnixTime, OptionalFloat, Integral
  <1> QED
    BY <1>1 DEF OpenSkySound, OpenSkyParses, OpenSkyPayloadEncodes

\* Unmarshal and the payload's JSON together let only sound CoT events through.
THEOREM CotIsSound ==
  ASSUME NEW x \in CotDocuments, CotParses(x), CotPayloadEncodes(Unmarshal(x))
  PROVE  CotSound(x)
  BY DEF CotDocuments, CotTimes, CotPlaces, CotParses, CotTimeParses, EventValid, Unmarshal, CotPayloadEncodes, CotSound

\* A JSON value is of one kind.
LEMMA KindOf ==
  ASSUME NEW J, ClosedJSON(J), NEW j \in J
  PROVE  \/ /\ DOMAIN j = {"text"} /\ j = Text(j.text)
         \/ /\ DOMAIN j = {"number"} /\ j.number \in {"low", "one", "part", "high"}
         \/ DOMAIN j = {"null"}
         \/ /\ DOMAIN j = {"object"} /\ \A f \in DOMAIN j.object : j.object[f] \in J
         \/ /\ DOMAIN j = {"array"} /\ j.array \in Seq(J)
  <1>1. CASE \E c \in STRING : j = Text(c)
    BY <1>1 DEF Text
  <1>2. CASE \E c \in {"low", "one", "part", "high"} : j = Number(c)
    BY <1>2 DEF Number
  <1>3. CASE j = Null
    BY <1>3 DEF Null
  <1>4. CASE \E F \in SUBSET STRING : \E f \in [F -> J] : j = Object(f)
    BY <1>4 DEF Object
  <1>5. CASE \E s \in Seq(J) : j = Array(s)
    BY <1>5 DEF Array
  <1> QED
    BY <1>1, <1>2, <1>3, <1>4, <1>5 DEF ClosedJSON

LEMMA FieldOf ==
  ASSUME NEW J, ClosedJSON(J), NEW v \in J, NEW f
  PROVE  Field(v, f) = Absent \/ (IsObject(v) /\ f \in Fields(v) /\ Field(v, f) \in J)
  BY KindOf DEF Field, Fields, IsObject, Is

LEMMA TextField ==
  ASSUME NEW J, ClosedJSON(J), NEW v \in J, NEW f, NEW classes, TextOf(v, f, classes)
  PROVE  Field(v, f) = Text(ClassOf(v, f)) /\ ClassOf(v, f) \in classes
  <1>1. Is(Field(v, f), {"text"}) /\ ClassOf(v, f) \in classes
    BY DEF TextOf
  <1>2. Field(v, f) # Absent
    BY <1>1 DEF Is, Absent
  <1>3. Field(v, f) \in J /\ "text" \in DOMAIN Field(v, f)
    BY <1>1, <1>2, FieldOf DEF Is
  <1>4. Field(v, f) = Text(Field(v, f).text)
    BY <1>3, KindOf
  <1> QED
    BY <1>1, <1>4 DEF ClassOf

LEMMA NumberField ==
  ASSUME NEW J, ClosedJSON(J), NEW v \in J, NEW f, OptionalNumber(v, f)
  PROVE  ClassOf(v, f) \in {"none", "low", "one", "part", "high", "nan", "inf"}
  <1>1. CASE Field(v, f) = Absent
    BY <1>1 DEF ClassOf, Is, Absent
  <1>2. CASE Field(v, f) \in J
    <2>1. CASE None(Field(v, f))
      BY <1>2, <2>1, KindOf DEF None, ClassOf, Is
    <2>2. CASE Is(Field(v, f), {"number"})
      BY <1>2, <2>2, KindOf DEF ClassOf, Is
    <2>3. CASE TextOf(v, f, Numbers \cup NotFinite)
      BY <2>3 DEF TextOf, Numbers, NotFinite
    <2> QED
      BY <2>1, <2>2, <2>3 DEF OptionalNumber, RequiredNumber
  <1> QED
    BY <1>1, <1>2, FieldOf

\* ParseJSONMessage and ParseBinaryMessage, the payload's JSON and its Validate together
\* let only sound SAPIENT messages through, whatever JSON a message is.
THEOREM SapientIsSound ==
  ASSUME NEW J, ClosedJSON(J), NEW x, x.message \in J,
         SapientParses(x), SapientPayloadEncodes(x), SapientAccepts(x)
  PROVE  SapientSound(x)
  <1> DEFINE m == x.message
  <1>1. ParseJSONMessage(m)
    BY DEF SapientParses, ParseBinaryMessage
  <1>2. Is(m, {"object"}) /\ m \in J
    BY <1>1 DEF ParseJSONMessage, IsObject
  <1>3. Field(m, "timestamp") = Text("time")
    <2>1. /\ Field(m, "timestamp") = Text(ClassOf(m, "timestamp"))
          /\ ClassOf(m, "timestamp") \in Instants
      BY <1>1, <1>2, TextField DEF ParseJSONMessage, RequiredTime
    <2>2. ClassOf(m, "timestamp") # "far" /\ ClassOf(m, "timestamp") # "zero"
      BY DEF SapientPayloadEncodes, SapientRecordEncodes, SapientAccepts
    <2>3. ClassOf(m, "timestamp") = "time"
      BY <2>1, <2>2 DEF Instants
    <2> QED
      BY <2>1, <2>3
  <1>4. Field(m, "nodeId") = Text("uuid")
    <2>1. /\ Field(m, "nodeId") = Text(ClassOf(m, "nodeId"))
          /\ ClassOf(m, "nodeId") \in {"uuid"}
      BY <1>1, <1>2, TextField DEF ParseJSONMessage, RequiredUUID
    <2> QED
      BY <2>1
  <1>5. PICK kind \in Contents : FindContent(m) = {kind} /\ ContentParses(kind, Field(m, kind))
    BY <1>1 DEF ParseJSONMessage
  <1>6. kind \in {"detectionReport", "registration", "statusReport", "taskAck"}
    BY <1>5 DEF ContentParses, Contents
  <1>7. ASSUME NEW d, d = Field(m, "detectionReport"), d # Absent
        PROVE  LET where == IF "location" \in Fields(d) THEN Field(d, "location") ELSE Field(d, "rangeBearing") IN
               /\ ClassOf(d, "objectId") = "ulid"
               /\ \A f \in IF "location" \in Fields(d) THEN {"x", "y", "z"} ELSE {"elevation", "azimuth", "range"} :
                    ClassOf(where, f) \notin {"nan", "inf"}
               /\ "unspecified" \notin {ClassOf(where, "coordinateSystem"), ClassOf(where, "datum")}
               /\ ClassOf(d, "detectionConfidence") \in {"one", "part", "none"}
    <2>1. "detectionReport" \in Fields(m) /\ d \in J
      BY <1>2, <1>7, FieldOf
    <2>2. kind = "detectionReport"
      BY <1>5, <2>1 DEF FindContent, Contents
    <2>3. DetectionReportParses(d) /\ DetectionReportEncodes(d)
      BY <1>5, <1>7, <2>1, <2>2 DEF ContentParses, SapientPayloadEncodes
    <2>4. ClassOf(d, "objectId") = "ulid"
      BY <2>3 DEF DetectionReportParses, RequiredULID, TextOf
    <2>5. ClassOf(d, "detectionConfidence") \in {"one", "part", "none"}
      <3>1. OptionalNumber(d, "detectionConfidence") /\ ClassOf(d, "detectionConfidence") \notin {"low", "high", "inf"}
        BY <2>3 DEF DetectionReportParses, ConfidenceParses
      <3>2. ClassOf(d, "detectionConfidence") \notin {"nan", "inf"}
        BY <2>3 DEF DetectionReportEncodes, Finite, NotFinite
      <3>3. ClassOf(d, "detectionConfidence") \in {"none", "low", "one", "part", "high", "nan", "inf"}
        BY <2>1, <3>1, NumberField
      <3> QED
        BY <3>1, <3>2, <3>3
    <2>6. CASE "location" \in Fields(d)
      <3>1. LocationParses(Field(d, "location")) /\ LocationEncodes(Field(d, "location"))
        BY <2>3, <2>6 DEF DetectionReportParses, DetectionLocationParses, DetectionReportEncodes
      <3> QED
        BY <2>4, <2>5, <2>6, <3>1 DEF LocationParses, LocationEncodes, Finite, NotFinite, RequiredEnum
    <2>7. CASE "location" \notin Fields(d)
      <3>1. RangeBearingParses(Field(d, "rangeBearing")) /\ RangeBearingEncodes(Field(d, "rangeBearing"))
        BY <2>3, <2>7 DEF DetectionReportParses, DetectionLocationParses, DetectionReportEncodes
      <3> QED
        BY <2>4, <2>5, <2>7, <3>1 DEF RangeBearingParses, RangeBearingEncodes, Finite, NotFinite, RequiredEnum
    <2> QED
      BY <2>6, <2>7
  <1> QED
    BY <1>2, <1>3, <1>4, <1>5, <1>6, <1>7 DEF SapientSound, FindContent

\* What was published of a feed is refused by the payload's Validate for no other reason
\* than a snapshot without rows.
LEMMA OpenSkyIsAccepted ==
  ASSUME NEW x \in OpenSkyDocuments, OpenSkyParses(x), x.states.rows # << >>
  PROVE  OpenSkyAccepts(x)
  <1>1. CloneSnapshot(x).states.present
    BY DEF CloneSnapshot, OpenSkyDocuments
  <1>2. ASSUME NEW i \in DOMAIN x.states.rows
        PROVE  x.states.rows[i][ICAO24] = "text" /\ x.states.rows[i][LastContact] # "zero"
    BY DEF OpenSkyParses, StateVectorParses, SomeText, RequiredUnixTime
  <1> QED
    BY <1>1, <1>2 DEF OpenSkyAccepts

LEMMA ChatFields ==
  ASSUME NEW c, NEW m, NEW s, c = [message |-> m, text |-> "", sender |-> s]
  PROVE  c.sender = s /\ c.message = m /\ c.text = ""
  OBVIOUS

\* What Unmarshal reads of what Marshal writes.
LEMMA ReadOfWritten ==
  ASSUME NEW e, e.uid # "", e.type # "",
         e.time # "bad", e.start # "bad", e.stale # "bad"
  PROVE  /\ CotParses(Marshal(e))
         /\ Unmarshal(Marshal(e)) =
              [uid |-> e.uid, type |-> e.type, how |-> FirstNonEmpty(e.how, "m-g"),
               time |-> Stated(e.time, "good"), start |-> Stated(e.start, Stated(e.time, "good")),
               stale |-> Stated(e.stale, "good"), point |-> e.point,
               callsign |-> e.callsign, track |-> e.track,
               remarks |-> FirstNonEmpty(e.remarks, e.chatText),
               chatText |-> FirstNonEmpty(e.chatText, IF IsGeoChatType(e.type) THEN e.remarks ELSE ""),
               senderUID |-> IF e.chatText = "" THEN "" ELSE e.senderUID]
  <1> DEFINE w == Marshal(e)
  <1>1. /\ w.xml = TRUE /\ w.uid = e.uid /\ w.type = e.type /\ w.how = FirstNonEmpty(e.how, "m-g")
        /\ w.time = Stated(e.time, "good") /\ w.start = Stated(e.start, Stated(e.time, "good"))
        /\ w.stale = Stated(e.stale, "good") /\ w.point = e.point /\ w.callsign = e.callsign
        /\ w.track = e.track /\ w.remarks = FirstNonEmpty(e.remarks, e.chatText)
    BY DEF Marshal
  <1>2. w.chat = IF e.chatText = "" THEN NoChat
                 ELSE [message |-> e.chatText, text |-> "", sender |-> e.senderUID]
    BY DEF Marshal
  <1>3. w.detail = (e.callsign # "" \/ e.track # "none" \/ FirstNonEmpty(e.remarks, e.chatText) # "" \/ e.chatText # "")
    BY DEF Marshal
  <1>4. /\ w.chat.sender = IF e.chatText = "" THEN "" ELSE e.senderUID
        /\ w.chat.message = e.chatText /\ w.chat.text = ""
    <2> HIDE DEF w
    <2>1. CASE e.chatText = ""
      <3>1. w.chat = NoChat
        BY <1>2, <2>1
      <3>2. NoChat.sender = "" /\ NoChat.message = "" /\ NoChat.text = ""
        BY DEF NoChat
      <3> QED
        BY <2>1, <3>1, <3>2
    <2>2. CASE e.chatText # ""
      <3>1. w.chat = [message |-> e.chatText, text |-> "", sender |-> e.senderUID]
        BY <1>2, <2>2
      <3>2. w.chat.sender = e.senderUID /\ w.chat.message = e.chatText /\ w.chat.text = ""
        BY <3>1, ChatFields
      <3> QED
        BY <2>2, <3>2
    <2> QED
      BY <2>1, <2>2
  <1>5. FirstNonEmpty(w.chat.message, w.chat.text) = e.chatText
    BY <1>4 DEF FirstNonEmpty
  <1>6. e.remarks # "" => w.detail
    BY <1>3 DEF FirstNonEmpty
  <1>7. ChatText(w) = FirstNonEmpty(e.chatText, IF IsGeoChatType(e.type) THEN e.remarks ELSE "")
    BY <1>1, <1>5, <1>6 DEF ChatText, FirstNonEmpty
  <1>8. CotParses(w)
    <2>1. CotTimeParses(w.time) /\ CotTimeParses(w.start) /\ CotTimeParses(w.stale)
      BY <1>1 DEF CotTimeParses, Stated
    <2>2. EventValid(Unmarshal(w))
      BY <1>1 DEF EventValid, Unmarshal
    <2> QED
      BY <1>1, <2>1, <2>2 DEF CotParses
  <1> HIDE DEF w
  <1>9. Unmarshal(w) =
              [uid |-> e.uid, type |-> e.type, how |-> FirstNonEmpty(e.how, "m-g"),
               time |-> Stated(e.time, "good"), start |-> Stated(e.start, Stated(e.time, "good")),
               stale |-> Stated(e.stale, "good"), point |-> e.point,
               callsign |-> e.callsign, track |-> e.track,
               remarks |-> FirstNonEmpty(e.remarks, e.chatText),
               chatText |-> FirstNonEmpty(e.chatText, IF IsGeoChatType(e.type) THEN e.remarks ELSE ""),
               senderUID |-> IF e.chatText = "" THEN "" ELSE e.senderUID]
    BY <1>1, <1>4, <1>7 DEF Unmarshal
  <1> QED
    BY <1>8, <1>9 DEF w

\* Whatever valid event Marshal writes, Unmarshal reads; and although a chat's text and
\* its remarks stand in for each other, a second writing and reading changes nothing.
THEOREM MarshalIsRead ==
  ASSUME NEW e, EventValid(e), e.time # "bad", e.start # "bad", e.stale # "bad"
  PROVE  LET read == Unmarshal(Marshal(e)) IN
         /\ CotParses(Marshal(e))
         /\ read.uid = e.uid /\ read.type = e.type
         /\ e.chatText # "" => read.chatText = e.chatText /\ read.senderUID = e.senderUID
         /\ Unmarshal(Marshal(read)) = read
  <1> DEFINE read == Unmarshal(Marshal(e))
             again == Unmarshal(Marshal(read))
  <1>1. CotParses(Marshal(e)) /\ e.uid # "" /\ e.type # ""
    BY ReadOfWritten DEF EventValid
  <1>2. read = [uid |-> e.uid, type |-> e.type, how |-> FirstNonEmpty(e.how, "m-g"),
               time |-> Stated(e.time, "good"), start |-> Stated(e.start, Stated(e.time, "good")),
               stale |-> Stated(e.stale, "good"), point |-> e.point,
               callsign |-> e.callsign, track |-> e.track,
               remarks |-> FirstNonEmpty(e.remarks, e.chatText),
               chatText |-> FirstNonEmpty(e.chatText, IF IsGeoChatType(e.type) THEN e.remarks ELSE ""),
               senderUID |-> IF e.chatText = "" THEN "" ELSE e.senderUID]
    BY <1>1, ReadOfWritten
  <1> HIDE DEF read
  <1>3. read.uid # "" /\ read.type # "" /\ read.time # "bad" /\ read.start # "bad" /\ read.stale # "bad"
    BY <1>1, <1>2 DEF Stated
  <1>4. again = [uid |-> read.uid, type |-> read.type, how |-> FirstNonEmpty(read.how, "m-g"),
               time |-> Stated(read.time, "good"), start |-> Stated(read.start, Stated(read.time, "good")),
               stale |-> Stated(read.stale, "good"), point |-> read.point,
               callsign |-> read.callsign, track |-> read.track,
               remarks |-> FirstNonEmpty(read.remarks, read.chatText),
               chatText |-> FirstNonEmpty(read.chatText, IF IsGeoChatType(read.type) THEN read.remarks ELSE ""),
               senderUID |-> IF read.chatText = "" THEN "" ELSE read.senderUID]
    BY <1>3, ReadOfWritten
  <1>5. /\ FirstNonEmpty(read.how, "m-g") = read.how
        /\ Stated(read.time, "good") = read.time /\ Stated(read.stale, "good") = read.stale
        /\ Stated(read.start, Stated(read.time, "good")) = read.start
    BY <1>2 DEF FirstNonEmpty, Stated
  <1>6. /\ FirstNonEmpty(read.remarks, read.chatText) = read.remarks
        /\ FirstNonEmpty(read.chatText, IF IsGeoChatType(read.type) THEN read.remarks ELSE "") = read.chatText
        /\ (IF read.chatText = "" THEN "" ELSE read.senderUID) = read.senderUID
    BY <1>2 DEF FirstNonEmpty
  <1>7. again = read
    <2>1. again = [uid |-> read.uid, type |-> read.type, how |-> read.how,
                   time |-> read.time, start |-> read.start, stale |-> read.stale, point |-> read.point,
                   callsign |-> read.callsign, track |-> read.track, remarks |-> read.remarks,
                   chatText |-> read.chatText, senderUID |-> read.senderUID]
      BY <1>4, <1>5, <1>6
    <2> HIDE DEF again
    <2> QED
      BY <1>2, <2>1
  <1>8. e.chatText # "" => read.chatText = e.chatText /\ read.senderUID = e.senderUID
    BY <1>2 DEF FirstNonEmpty
  <1>9. read.uid = e.uid /\ read.type = e.type
    BY <1>2
  <1> QED
    BY <1>1, <1>7, <1>8, <1>9 DEF read

-----------------------------------------------------------------------------
(* The processors.                                                         *)

LEMMA OneFeed ==
  ASSUME FlowTypes, NEW d \in traffic
  PROVE  d \in Documents /\ ((\E e \in traffic : ~HasLane(e)) <=> ~HasLane(d))
  BY FlowAssumption DEF FlowTypes, FlowTypeOK, HasLane

AnyLine == WholeLine \cup {TornLine}

LEMMA LineFacts ==
  ASSUME FlowTypes, hand \in [step : {"taken", "captured", "kept"}, doc : traffic, ref : Nat]
  PROVE  /\ Line \in WholeLine /\ ~Line.torn /\ TornLine.torn
         /\ Line.life = life /\ Line.ref = hand.ref /\ Line.doc = hand.doc
  BY DEF Line, TornLine, WholeLine, FlowTypes, FlowTypeOK

\* The file only grows, by a whole line or half a one.
LEMMA FileGrows ==
  ASSUME FlowTypes, NEW l \in AnyLine, file' = Append(file, l)
  PROVE  /\ file' \in Seq(AnyLine)
         /\ Len(file') = Len(file) + 1 /\ file'[Len(file) + 1] = l
         /\ \A i \in 1 .. Len(file) : file'[i] = file[i] /\ file[i] \in AnyLine
         /\ Lines' = Lines \cup (IF l.torn THEN {} ELSE {l})
  <1>1. file \in Seq(AnyLine) /\ Len(file) \in Nat
    BY DEF FlowTypes, AnyLine
  <1>2. /\ file' \in Seq(AnyLine) /\ Len(file') = Len(file) + 1 /\ file'[Len(file) + 1] = l
        /\ \A i \in 1 .. Len(file) : file'[i] = file[i] /\ file[i] \in AnyLine
    BY <1>1
  <1>3. DOMAIN file' = 1 .. Len(file) + 1 /\ DOMAIN file = 1 .. Len(file)
    BY <1>1, <1>2
  <1>4. Lines' = Lines \cup (IF l.torn THEN {} ELSE {l})
    <2>1. ASSUME NEW x \in Lines' PROVE x \in Lines \cup (IF l.torn THEN {} ELSE {l})
      <3>1. PICK i \in 1 .. Len(file) + 1 : x = file'[i] /\ ~file'[i].torn
        BY <1>3 DEF Lines
      <3> QED
        BY <1>1, <1>2, <1>3, <3>1 DEF Lines
    <2>2. ASSUME NEW x \in Lines PROVE x \in Lines'
      <3>1. PICK i \in 1 .. Len(file) : x = file[i] /\ ~file[i].torn
        BY <1>3 DEF Lines
      <3>2. i \in DOMAIN file' /\ file'[i] = x
        BY <1>1, <1>2, <1>3, <3>1
      <3> QED
        BY <3>1, <3>2 DEF Lines
    <2>3. ~l.torn => l \in Lines'
      <3>1. Len(file) + 1 \in DOMAIN file'
        BY <1>1, <1>3
      <3> QED
        BY <1>2, <3>1 DEF Lines
    <2> QED
      BY <2>1, <2>2, <2>3
  <1> QED
    BY <1>2, <1>4

LEMMA DecodedGrows ==
  ASSUME FlowTypes, NEW m \in DecodedMessage, decoded' = Append(decoded, m), taken' = taken
  PROVE  decoded' \in Seq(DecodedMessage) /\ Decoded' = Decoded \cup {m}
  <1>1. decoded \in Seq(DecodedMessage) /\ Len(decoded) \in Nat
    BY DEF FlowTypes
  <1>2. /\ decoded' \in Seq(DecodedMessage) /\ DOMAIN decoded' = 1 .. Len(decoded) + 1
        /\ DOMAIN decoded = 1 .. Len(decoded) /\ decoded'[Len(decoded) + 1] = m
        /\ \A i \in 1 .. Len(decoded) : decoded'[i] = decoded[i]
    BY <1>1
  <1>3. {decoded'[i] : i \in DOMAIN decoded'} = {decoded[i] : i \in DOMAIN decoded} \cup {m}
    <2>1. ASSUME NEW i \in DOMAIN decoded' PROVE decoded'[i] \in {decoded[k] : k \in DOMAIN decoded} \cup {m}
      BY <1>1, <1>2
    <2>2. ASSUME NEW i \in DOMAIN decoded PROVE decoded[i] \in {decoded'[k] : k \in DOMAIN decoded'}
      <3>1. i \in DOMAIN decoded' /\ decoded'[i] = decoded[i]
        BY <1>1, <1>2
      <3> QED
        BY <3>1
    <2>3. m \in {decoded'[k] : k \in DOMAIN decoded'}
      <3>1. Len(decoded) + 1 \in DOMAIN decoded'
        BY <1>1, <1>2
      <3> QED
        BY <1>2, <3>1
    <2> QED
      BY <2>1, <2>2, <2>3
  <1> QED
    BY <1>2, <1>3 DEF Decoded

\* What is taken was pending.
LEMMA ProjectKeeps ==
  ASSUME FlowTypes, Project
  PROVE  /\ decoded' \in Seq(DecodedMessage) /\ Len(decoded') <= MaxPending
         /\ taken' \in SUBSET TakenMessage
         /\ Decoded' = Decoded
         /\ \A t \in taken' : t \in taken \/ t.accepted = (t.of.doc \in Accepts)
  <1> DEFINE h == Head(decoded)
             new == [of |-> h, accepted |-> h.doc \in Accepts]
  <1>1. decoded \in Seq(DecodedMessage) /\ decoded # << >> /\ Len(decoded) \in Nat /\ Len(decoded) >= 1
    BY DEF FlowTypes, Project
  <1>2. h = decoded[1] /\ h \in DecodedMessage /\ decoded' \in Seq(DecodedMessage)
    BY <1>1 DEF Project
  <1>3. /\ DOMAIN decoded = 1 .. Len(decoded) /\ DOMAIN decoded' = 1 .. Len(decoded) - 1
        /\ Len(decoded') = Len(decoded) - 1
        /\ \A i \in 1 .. Len(decoded) - 1 : decoded'[i] = decoded[i + 1]
    BY <1>1 DEF Project
  <1>4. taken' = taken \cup {new}
    BY DEF Project
  <1>5. (h.doc \in Accepts) \in BOOLEAN
    OBVIOUS
  <1>6. new \in TakenMessage /\ new.of = h /\ new.accepted = (new.of.doc \in Accepts)
    BY <1>2, <1>5 DEF TakenMessage
  <1> HIDE DEF h, new
  <1>7. {decoded[i] : i \in DOMAIN decoded} = {decoded'[i] : i \in DOMAIN decoded'} \cup {h}
    <2>1. ASSUME NEW i \in DOMAIN decoded PROVE decoded[i] \in {decoded'[k] : k \in DOMAIN decoded'} \cup {h}
      <3>1. CASE i = 1
        BY <1>2, <3>1
      <3>2. CASE i # 1
        <4>1. i - 1 \in DOMAIN decoded' /\ decoded'[i - 1] = decoded[i]
          BY <1>1, <1>3, <3>2
        <4> QED
          BY <4>1
      <3> QED
        BY <3>1, <3>2
    <2>2. ASSUME NEW i \in DOMAIN decoded' PROVE decoded'[i] \in {decoded[k] : k \in DOMAIN decoded}
      <3>1. i + 1 \in DOMAIN decoded /\ decoded'[i] = decoded[i + 1]
        BY <1>1, <1>3
      <3> QED
        BY <3>1
    <2>3. h \in {decoded[k] : k \in DOMAIN decoded}
      <3>1. 1 \in DOMAIN decoded
        BY <1>1, <1>3
      <3> QED
        BY <1>2, <3>1
    <2> QED
      BY <2>1, <2>2, <2>3
  <1>8. {t.of : t \in taken'} = {t.of : t \in taken} \cup {h}
    BY <1>4, <1>6
  <1>9. Decoded' = Decoded
    BY <1>7, <1>8 DEF Decoded
  <1>10. Len(decoded') <= MaxPending
    BY <1>1, <1>3, FlowAssumption DEF FlowTypes, FlowTypeOK
  <1>11. taken' \in SUBSET TakenMessage
    BY <1>4, <1>6 DEF FlowTypes
  <1>12. \A t \in taken' : t \in taken \/ t.accepted = (t.of.doc \in Accepts)
    BY <1>4, <1>6
  <1> QED
    BY <1>2, <1>9, <1>10, <1>11, <1>12

LEMMA FlowInitInv == FlowInit => FlowInv
  <1> SUFFICES ASSUME FlowInit PROVE FlowInv
    OBVIOUS
  <1>1. IInv
    BY InitInv DEF FlowInit
  <1>2. Lines = {} /\ Decoded = {}
    BY DEF FlowInit, Lines, Decoded
  <1>3. FlowTypes
    BY FlowAssumption, LaneAssumption DEF FlowInit, Init, Idle, FlowTypes, FlowTypeOK, Steps, TakenMessage
  <1>4. RefInv /\ KeptInv
    BY <1>2 DEF FlowInit, Idle, RefInv, KeptInv
  <1>5. PublishedIsKept /\ MalformedIsKept /\ RefsAgree
    BY <1>2 DEF FlowInit, PublishedIsKept, MalformedIsKept, RefsAgree
  <1> QED
    BY <1>1, <1>3, <1>4, <1>5 DEF FlowInv

\* The lane of a decoder is a raw lane, started anew with the process.
LEMMA LaneStepInv == ASSUME FlowInv, [FlowNext]_allVars PROVE IInv'
  <1> USE DEF FlowInv
  <1>1. CASE UNCHANGED vars
    BY <1>1, StepInv
  <1>2. CASE CaptureRaw
    <2>1. hand.doc \in traffic /\ Size[hand.doc] \in Frames
      BY <1>2, OneFeed, FlowAssumption DEF CaptureRaw, FlowTypes, Idle
    <2>2. Capture(Size[hand.doc]) \/ UNCHANGED vars
      BY <1>2 DEF CaptureRaw
    <2> QED
      BY <2>1, <2>2, CaptureInv, <1>1
  <1>3. CASE LaneStep
    BY <1>3, StepInv DEF LaneStep, Next
  <1>4. CASE Restart
    <2>1. Init'
      BY <1>4 DEF Restart, Init
    <2>2. Init' => IInv'
      BY InitInv, PTL
    <2> QED
      BY <2>1, <2>2
  <1>5. CASE FlowNext /\ ~CaptureRaw /\ ~LaneStep /\ ~Restart
    BY <1>1, <1>5 DEF FlowNext, Arrive, Take, RecordAlert, AppendReplay, AppendFails, PublishDecoded,
                      PublishFails, Project
  <1>6. CASE UNCHANGED allVars
    BY <1>1, <1>6 DEF allVars
  <1> QED
    BY <1>2, <1>3, <1>4, <1>5, <1>6

LEMMA HandType ==
  ASSUME FlowTypes, hand.step # "idle"
  PROVE  /\ hand \in [step : {"taken", "captured", "kept"}, doc : traffic, ref : Nat]
         /\ hand.doc \in Documents
  BY OneFeed DEF FlowTypes, Idle

LEMMA HandCaptured ==
  ASSUME hand \in [step : {"taken", "captured", "kept"}, doc : traffic, ref : Nat], NEW r \in Nat,
         hand' = [hand EXCEPT !.step = "captured", !.ref = r]
  PROVE  /\ hand' \in [step : {"taken", "captured", "kept"}, doc : traffic, ref : Nat]
         /\ hand'.step = "captured" /\ hand'.doc = hand.doc /\ hand'.ref = r
  OBVIOUS

LEMMA EndsFacts ==
  ASSUME FlowTypes, NEW how \in Outcomes, Ends(how)
  PROVE  hand' = Idle /\ \A e \in ended' : e.as \in Outcomes
  BY DEF Ends, FlowTypes, FlowTypeOK

LEMMA TypesStep == ASSUME FlowInv, [FlowNext]_allVars PROVE FlowTypes'
  <1> USE FlowAssumption DEF FlowInv, FlowTypes, FlowTypeOK, Steps
  <1>1. ASSUME NEW d \in traffic, Arrive(d) PROVE FlowTypes'
    <2>1. d \in Documents
      BY OneFeed
    <2>2. raw' \in Seq(traffic) /\ raw' \in Seq(Documents) /\ Len(raw') <= MaxPending
      BY <1>1, <2>1 DEF Arrive
    <2> QED
      BY <1>1, <2>2 DEF Arrive, vars, DecodedMessage, WholeLine, TakenMessage
  <1>2. CASE Take
    <2>1. Head(raw) \in traffic /\ raw' \in Seq(traffic) /\ Len(raw') <= MaxPending /\ raw' \in Seq(Documents)
      BY <1>2 DEF Take
    <2>2. hand' \in [step : {"taken", "captured", "kept"}, doc : traffic, ref : Nat] /\ hand'.ref = 0 /\ hand'.step = "taken"
      BY <1>2, <2>1 DEF Take
    <2>3. received' \in 0 .. MaxCaptures /\ next <= received' /\ ~locked
      BY <1>2, LaneAssumption DEF Take, Idle, IInv, TypeOK
    <2> QED
      BY <1>2, <2>1, <2>2, <2>3, OneFeed DEF Take, vars, DecodedMessage, WholeLine, TakenMessage, Idle
  <1>3. CASE CaptureRaw
    <2>1. /\ hand \in [step : {"taken", "captured", "kept"}, doc : traffic, ref : Nat]
          /\ hand.doc \in Documents /\ hand.step = "taken" /\ HasLane(hand.doc) /\ next < received /\ next \in Nat
      BY <1>3, HandType DEF CaptureRaw, RefInv, IInv, TypeOK
    <2>2. CASE Size[hand.doc] <= MaxBytes
      <3>1. next' = next + 1 /\ locked' = TRUE /\ UNCHANGED ended
        BY <1>3, <2>2 DEF CaptureRaw, Capture, Store
      <3>2. /\ hand' \in [step : {"taken", "captured", "kept"}, doc : traffic, ref : Nat]
            /\ hand'.step = "captured" /\ hand'.doc = hand.doc /\ hand'.ref = next + 1
        <4>1. PICK r \in Nat : r = next + 1
          BY <2>1
        <4>2. hand' = [hand EXCEPT !.step = "captured", !.ref = r]
          BY <1>3, <2>2, <4>1 DEF CaptureRaw
        <4> QED
          BY <2>1, <4>1, <4>2, HandCaptured
      <3> QED
        BY <1>3, <2>1, <3>1, <3>2 DEF CaptureRaw, Idle, HasLane, DecodedMessage, WholeLine, TakenMessage
    <2>3. CASE ~(Size[hand.doc] <= MaxBytes)
      <3>1. Ends("oversize") /\ UNCHANGED vars /\ ~locked
        BY <1>3, <2>1, <2>3 DEF CaptureRaw
      <3>2. hand' = Idle /\ \A e \in ended' : e.as \in Outcomes
        BY <3>1, EndsFacts DEF Outcomes
      <3> QED
        BY <1>3, <3>1, <3>2 DEF CaptureRaw, vars, Idle, DecodedMessage, WholeLine, TakenMessage
    <2> QED
      BY <2>2, <2>3
  <1>4. CASE RecordAlert
    <2>1. /\ hand \in [step : {"taken", "captured", "kept"}, doc : traffic, ref : Nat]
          /\ hand.doc \in Documents /\ hand.step = "taken" /\ ~HasLane(hand.doc) /\ ~locked
      BY <1>4, HandType DEF RecordAlert
    <2>2. CASE hand.doc \in Parses
      <3>1. UNCHANGED ended
        BY <1>4, <2>2 DEF RecordAlert
      <3>2. /\ hand' \in [step : {"taken", "captured", "kept"}, doc : traffic, ref : Nat]
            /\ hand'.step = "captured" /\ hand'.doc = hand.doc /\ hand'.ref = received
        <4>1. hand' = [hand EXCEPT !.step = "captured", !.ref = received]
          BY <1>4, <2>2 DEF RecordAlert
        <4> QED
          BY <2>1, <4>1, HandCaptured
      <3> QED
        BY <1>4, <2>1, <3>1, <3>2 DEF RecordAlert, vars, Idle, DecodedMessage, WholeLine, TakenMessage
    <2>3. CASE hand.doc \notin Parses
      <3>1. hand' = Idle /\ \A e \in ended' : e.as \in Outcomes
        BY <1>4, <2>3, EndsFacts DEF RecordAlert, Outcomes
      <3> QED
        BY <1>4, <2>1, <3>1 DEF RecordAlert, vars, Idle, DecodedMessage, WholeLine, TakenMessage
    <2> QED
      BY <2>2, <2>3
  <1>5. CASE LaneStep
    <2>1. next' = next /\ (locked' => locked)
      BY <1>5 DEF LaneStep, Evict, Return
    <2> QED
      BY <1>5, <2>1 DEF LaneStep, flowVars, DecodedMessage, WholeLine, TakenMessage
  <1>6. CASE AppendReplay
    <2>1. /\ hand \in [step : {"taken", "captured", "kept"}, doc : traffic, ref : Nat]
          /\ hand.doc \in Documents /\ hand.step = "captured" /\ ~locked /\ UNCHANGED vars
          /\ UNCHANGED <<traffic, store, life, received, raw, decoded, taken>>
      BY <1>6, HandType DEF AppendReplay
    <2>2. file' \in Seq(AnyLine)
      BY <1>6, <2>1, LineFacts, FileGrows DEF AppendReplay, AnyLine
    <2>3. CASE hand.doc \in Parses
      <3>1. /\ hand' \in [step : {"taken", "captured", "kept"}, doc : traffic, ref : Nat] /\ UNCHANGED ended
            /\ hand'.step = "kept" /\ hand'.doc = hand.doc /\ hand'.ref = hand.ref
        BY <1>6, <2>1, <2>3 DEF AppendReplay, Appended
      <3> QED
        BY <2>1, <2>2, <3>1 DEF vars, Idle, DecodedMessage, WholeLine, TakenMessage, AnyLine
    <2>4. CASE hand.doc \notin Parses
      <3>1. hand' = Idle /\ \A e \in ended' : e.as \in Outcomes
        BY <1>6, <2>4, EndsFacts DEF AppendReplay, Appended, Outcomes
      <3> QED
        BY <2>1, <2>2, <3>1 DEF vars, Idle, DecodedMessage, WholeLine, TakenMessage, AnyLine
    <2> QED
      BY <2>3, <2>4
  <1>7. CASE AppendFails
    <2>1. /\ ~locked /\ UNCHANGED vars
          /\ UNCHANGED <<traffic, store, life, received, raw, decoded, taken>>
      BY <1>7 DEF AppendFails
    <2>2. file' \in Seq(AnyLine)
      BY <1>7, FileGrows DEF AppendFails, AnyLine
    <2>3. hand' = Idle /\ \A e \in ended' : e.as \in Outcomes
      BY <1>7, EndsFacts DEF AppendFails, Outcomes
    <2> QED
      BY <2>1, <2>2, <2>3 DEF vars, Idle, DecodedMessage, WholeLine, TakenMessage, AnyLine
  <1>8. ASSUME NEW lost \in BOOLEAN, PublishDecoded(lost) PROVE FlowTypes'
    <2>1. /\ ~locked /\ UNCHANGED vars
          /\ UNCHANGED <<traffic, store, life, received, raw, file, taken>>
      BY <1>8 DEF PublishDecoded
    <2>2. decoded' \in Seq(DecodedMessage) /\ Len(decoded') <= MaxPending
      <3>1. hand \in [step : {"taken", "captured", "kept"}, doc : traffic, ref : Nat] /\ life \in Nat
        BY <1>8, HandType DEF PublishDecoded
      <3>2. [life |-> life, ref |-> hand.ref, doc |-> hand.doc] \in DecodedMessage
        BY <3>1 DEF DecodedMessage
      <3>3. CASE lost
        BY <1>8, <3>3 DEF PublishDecoded
      <3>4. CASE ~lost
        <4>1. decoded' = Append(decoded, [life |-> life, ref |-> hand.ref, doc |-> hand.doc]) /\ Len(decoded) < MaxPending
          BY <1>8, <3>4 DEF PublishDecoded
        <4> QED
          BY <3>2, <4>1
      <3> QED
        BY <3>3, <3>4
    <2>3. hand' = Idle /\ \A e \in ended' : e.as \in Outcomes
      BY <1>8, EndsFacts DEF PublishDecoded, Outcomes
    <2> QED
      BY <2>1, <2>2, <2>3 DEF vars, Idle, DecodedMessage, WholeLine, TakenMessage
  <1>9. CASE PublishFails
    <2>1. hand' = Idle /\ \A e \in ended' : e.as \in Outcomes
      BY <1>9, EndsFacts DEF PublishFails, Outcomes
    <2> QED
      BY <1>9, <2>1 DEF PublishFails, vars, Idle, DecodedMessage, WholeLine, TakenMessage
  <1>10. CASE Project
    <2>1. /\ decoded' \in Seq(DecodedMessage) /\ Len(decoded') <= MaxPending
          /\ taken' \in SUBSET TakenMessage
      BY <1>10, ProjectKeeps
    <2> QED
      BY <1>10, <2>1 DEF Project, vars, Idle, DecodedMessage, WholeLine, TakenMessage
  <1>11. CASE Restart
    <2>1. file' \in Seq(AnyLine)
      <3>1. CASE file' = file
        BY <3>1 DEF AnyLine
      <3>2. CASE file' \in {Append(file, Line), Append(file, TornLine)} /\ hand.step = "captured"
        BY <3>2, HandType, LineFacts, FileGrows DEF AnyLine
      <3> QED
        BY <1>11, <3>1, <3>2 DEF Restart
    <2>2. /\ life' \in 1 .. MaxLives /\ next' = 0 /\ ~locked' /\ received' = received /\ received \in 0 .. MaxCaptures
          /\ hand' = Idle /\ raw' = << >> /\ decoded' = << >>
          /\ UNCHANGED <<traffic, store, ended, taken>>
      BY <1>11 DEF Restart
    <2> QED
      BY <2>1, <2>2, LaneAssumption DEF Idle, DecodedMessage, WholeLine, TakenMessage, AnyLine
  <1>12. CASE UNCHANGED allVars
    BY <1>12 DEF allVars, vars, flowVars, DecodedMessage, WholeLine, TakenMessage
  <1> QED
    BY <1>1, <1>2, <1>3, <1>4, <1>5, <1>6, <1>7, <1>8, <1>9, <1>10, <1>11, <1>12, ZenonT(60) DEF FlowNext

LEMMA SameFile == ASSUME file' = file PROVE Lines' = Lines
  BY DEF Lines

LEMMA SameDecoded == ASSUME decoded' = decoded, taken' = taken PROVE Decoded' = Decoded
  BY DEF Decoded

LEMMA Known ==
  ASSUME FlowTypes, IInv
  PROVE  /\ Lines \subseteq WholeLine /\ Decoded \subseteq DecodedMessage
         /\ UsedUpTo \in Int /\ life \in Nat /\ received \in Nat /\ next \in Int
  <1>1. file \in Seq(AnyLine) /\ decoded \in Seq(DecodedMessage)
    BY DEF FlowTypes, AnyLine
  <1>2. \A l \in Lines : l \in AnyLine /\ ~l.torn
    BY <1>1 DEF Lines
  <1>3. Lines \subseteq WholeLine
    BY <1>2 DEF AnyLine, TornLine
  <1>4. Decoded \subseteq DecodedMessage
    BY <1>1 DEF Decoded, FlowTypes, TakenMessage
  <1> QED
    <2>1. next \in Int
      BY LaneAssumption DEF IInv, TypeOK
    <2>2. life \in Nat /\ received \in Nat
      BY FlowAssumption DEF FlowTypes, FlowTypeOK
    <2> QED
      BY <1>3, <1>4, <2>1, <2>2 DEF UsedUpTo

\* Some actions leave everything that RefInv speaks of alone.
LEMMA RefsUntouched ==
  ASSUME RefInv, FlowTypes, Lines' = Lines, Decoded' = Decoded,
         UNCHANGED <<hand, traffic, life, received, next>>
  PROVE  RefInv'
  BY DEF RefInv, UsedUpTo, HasLane

\* A message leaves the decoder's hands, its reference being used up.
LEMMA RefsIdle ==
  ASSUME RefInv, FlowTypes, IInv, Lines' \subseteq Lines \cup {l \in WholeLine : l.life = life /\ l.ref = UsedUpTo},
         Decoded' \subseteq Decoded \cup {m \in DecodedMessage : m.life = life /\ m.ref = UsedUpTo},
         hand' = Idle, hand.step # "idle", UNCHANGED <<traffic, life, received, next>>
  PROVE  RefInv'
  <1>1. /\ Lines \subseteq WholeLine /\ Decoded \subseteq DecodedMessage
        /\ UsedUpTo \in Int /\ life \in Nat /\ received \in Nat
    BY Known
  <1>2. UsedUpTo' \in {UsedUpTo, UsedUpTo + 1}
    BY <1>1 DEF UsedUpTo, HasLane, Idle
  <1>3. \A u \in Lines' \cup Decoded' : u.life <= life /\ (u.life = life => u.ref <= UsedUpTo')
    <2>1. ASSUME NEW u \in Lines \cup Decoded PROVE u.life <= life /\ (u.life = life => u.ref <= UsedUpTo')
      <3>1. u.life \in Nat /\ u.ref \in Nat
        BY <1>1 DEF WholeLine, DecodedMessage
      <3> QED
        BY <1>1, <1>2, <3>1 DEF RefInv
    <2>2. ASSUME NEW u, u.life = life, u.ref = UsedUpTo PROVE u.life <= life /\ (u.life = life => u.ref <= UsedUpTo')
      BY <1>1, <1>2, <2>2
    <2> QED
      BY <2>1, <2>2
  <1> QED
    BY <1>3 DEF RefInv, Idle

LEMMA RefStep == ASSUME FlowInv, [FlowNext]_allVars PROVE RefInv'
  <1> USE FlowAssumption DEF FlowInv
  <1>0. /\ Lines \subseteq WholeLine /\ Decoded \subseteq DecodedMessage
        /\ UsedUpTo \in Int /\ life \in Nat /\ received \in Nat /\ next \in Int
        /\ \A u \in Lines \cup Decoded : u.life \in Nat /\ u.ref \in Nat
    BY Known DEF WholeLine, DecodedMessage
  <1>1. ASSUME NEW d \in traffic, Arrive(d) PROVE RefInv'
    BY <1>1, SameFile, SameDecoded, RefsUntouched DEF Arrive, vars
  <1>2. CASE Take
    <2>1. Lines' = Lines /\ Decoded' = Decoded
      BY <1>2, SameFile, SameDecoded DEF Take
    <2>2. UsedUpTo' = UsedUpTo /\ hand'.step = "taken" /\ next' < received'
      BY <1>2, <1>0 DEF Take, UsedUpTo, HasLane, Idle, vars, FlowTypes, FlowTypeOK
    <2> QED
      BY <1>2, <2>1, <2>2 DEF RefInv, Take, vars
  <1>3. CASE CaptureRaw
    <2>1. Lines' = Lines /\ Decoded' = Decoded
      BY <1>3, SameFile, SameDecoded DEF CaptureRaw
    <2>2. hand.step = "taken" /\ hand.doc \in traffic /\ HasLane(hand.doc) /\ UsedUpTo = next
      BY <1>3, HandType, OneFeed DEF CaptureRaw, UsedUpTo
    <2>3. CASE Size[hand.doc] <= MaxBytes
      <3>1. next' = next + 1 /\ hand' = [hand EXCEPT !.step = "captured", !.ref = next + 1] /\ UNCHANGED <<life, traffic>>
        BY <1>3, <2>3 DEF CaptureRaw, Capture, Store
      <3>2. hand'.step = "captured" /\ hand'.ref = next + 1
        BY <2>2, <3>1, HandType
      <3>3. UsedUpTo' = next + 1
        BY <2>2, <3>1, OneFeed DEF UsedUpTo, HasLane
      <3>4. ASSUME NEW u \in Lines \cup Decoded
            PROVE  u.life <= life /\ (u.life = life => u.ref <= next + 1 /\ u.ref < next + 1)
        BY <1>0, <2>2 DEF RefInv
      <3> QED
        BY <2>1, <3>1, <3>2, <3>3, <3>4 DEF RefInv
    <2>4. CASE ~(Size[hand.doc] <= MaxBytes)
      BY <1>3, <2>1, <2>2, <2>4, RefsIdle DEF CaptureRaw, Ends, vars
    <2> QED
      BY <2>3, <2>4
  <1>4. CASE RecordAlert
    <2>1. Lines' = Lines /\ Decoded' = Decoded
      BY <1>4, SameFile, SameDecoded DEF RecordAlert
    <2>2. hand.step = "taken" /\ hand.doc \in traffic /\ ~HasLane(hand.doc) /\ UsedUpTo = received - 1
      BY <1>4, HandType, OneFeed DEF RecordAlert, UsedUpTo
    <2>3. CASE hand.doc \in Parses
      <3>1. hand' = [hand EXCEPT !.step = "captured", !.ref = received] /\ UNCHANGED <<life, traffic, received>>
        BY <1>4, <2>3 DEF RecordAlert
      <3>2. hand'.step = "captured" /\ hand'.ref = received
        BY <2>2, <3>1, HandType
      <3>3. UsedUpTo' = received
        BY <2>2, <3>1, <3>2, OneFeed DEF UsedUpTo, HasLane
      <3>4. ASSUME NEW u \in Lines \cup Decoded
            PROVE  u.life <= life /\ (u.life = life => u.ref <= received /\ u.ref < received)
        BY <1>0, <2>2 DEF RefInv
      <3> QED
        BY <2>1, <3>1, <3>2, <3>3, <3>4 DEF RefInv
    <2>4. CASE hand.doc \notin Parses
      BY <1>4, <2>1, <2>2, <2>4, RefsIdle DEF RecordAlert, Ends, vars
    <2> QED
      BY <2>3, <2>4
  <1>5. CASE LaneStep
    BY <1>5, SameFile, SameDecoded, RefsUntouched DEF LaneStep, Evict, Return, flowVars
  <1>6. CASE AppendReplay
    <2>1. /\ hand \in [step : {"taken", "captured", "kept"}, doc : traffic, ref : Nat]
          /\ hand.step = "captured" /\ hand.ref = UsedUpTo /\ UNCHANGED <<traffic, life, received, next>>
      BY <1>6, HandType DEF AppendReplay, RefInv, vars
    <2>2. Decoded' = Decoded
      BY <1>6, SameDecoded DEF AppendReplay
    <2>3. Line \in WholeLine /\ Line.life = life /\ Line.ref = UsedUpTo /\ Line.doc = hand.doc
      BY <2>1, LineFacts
    <2>4. Lines' \in {Lines, Lines \cup {Line}}
      BY <1>6, <2>1, SameFile, LineFacts, FileGrows DEF AppendReplay, AnyLine
    <2>5. CASE hand.doc \in Parses
      <3>1. hand' = [hand EXCEPT !.step = "kept"]
        BY <1>6, <2>5 DEF AppendReplay, Appended
      <3>2. hand'.step = "kept" /\ hand'.ref = hand.ref /\ hand'.doc = hand.doc
        BY <2>1, <3>1
      <3>3. UsedUpTo' = UsedUpTo
        BY <2>1, <3>2 DEF UsedUpTo, HasLane
      <3>4. \A u \in Lines \cup Decoded : u.life <= life /\ (u.life = life => u.ref < UsedUpTo)
        BY <2>1 DEF RefInv
      <3>5. \A u \in Lines \cup Decoded : u.life <= life /\ (u.life = life => u.ref <= UsedUpTo /\ u.ref # UsedUpTo)
        BY <1>0, <3>4
      <3>6. Line.life <= life /\ Line.ref <= UsedUpTo
        BY <1>0, <2>3
      <3> QED
        BY <2>1, <2>2, <2>3, <2>4, <3>2, <3>3, <3>4, <3>5, <3>6 DEF RefInv
    <2>6. CASE hand.doc \notin Parses
      <3>1. hand' = Idle
        BY <1>6, <2>6 DEF AppendReplay, Appended, Ends
      <3> QED
        BY <2>1, <2>2, <2>3, <2>4, <3>1, RefsIdle
    <2> QED
      BY <2>5, <2>6
  <1>7. CASE AppendFails
    <2>1. Lines' = Lines
      <3>1. TornLine \in AnyLine /\ TornLine.torn
        BY DEF AnyLine, TornLine
      <3>2. file' \in {file, Append(file, TornLine)}
        BY <1>7 DEF AppendFails
      <3> QED
        BY <3>1, <3>2, SameFile, FileGrows
    <2> QED
      BY <1>7, <2>1, SameDecoded, RefsIdle DEF AppendFails, Ends, vars
  <1>8. ASSUME NEW lost \in BOOLEAN, PublishDecoded(lost) PROVE RefInv'
    <2>1. /\ hand \in [step : {"taken", "captured", "kept"}, doc : traffic, ref : Nat]
          /\ hand.step = "kept" /\ hand.ref = UsedUpTo /\ hand' = Idle
          /\ UNCHANGED <<traffic, life, received, next, file, taken>>
      BY <1>8, HandType DEF PublishDecoded, RefInv, vars, Ends
    <2> DEFINE m == [life |-> life, ref |-> hand.ref, doc |-> hand.doc]
    <2>2. m \in DecodedMessage /\ m.life = life /\ m.ref = UsedUpTo
      BY <1>0, <2>1 DEF DecodedMessage
    <2>3. Decoded' \in {Decoded, Decoded \cup {m}}
      BY <1>8, <2>2, SameDecoded, DecodedGrows DEF PublishDecoded
    <2> HIDE DEF m
    <2> QED
      BY <2>1, <2>2, <2>3, SameFile, RefsIdle
  <1>9. CASE PublishFails
    BY <1>9, SameFile, SameDecoded, RefsIdle DEF PublishFails, Ends, vars
  <1>10. CASE Project
    BY <1>10, SameFile, ProjectKeeps, RefsUntouched DEF Project, vars
  <1>11. CASE Restart
    <2>1. Decoded' \subseteq Decoded
      BY <1>11 DEF Restart, Decoded
    <2>2. \A l \in Lines' : l.life <= life /\ l \in WholeLine
      <3>1. CASE file' = file
        BY <1>0, <3>1, SameFile DEF RefInv
      <3>2. CASE file' \in {Append(file, Line), Append(file, TornLine)} /\ hand.step = "captured"
        <4>1. Line \in WholeLine /\ Line.life = life /\ TornLine.torn
          BY <3>2, HandType, LineFacts
        <4>2. Lines' \in {Lines, Lines \cup {Line}}
          BY <3>2, <4>1, FileGrows, LineFacts, HandType DEF AnyLine
        <4> QED
          BY <1>0, <4>1, <4>2 DEF RefInv
      <3> QED
        BY <1>11, <3>1, <3>2 DEF Restart
    <2>3. life' = life + 1 /\ hand' = Idle
      BY <1>11 DEF Restart
    <2>4. ASSUME NEW u \in Lines' \cup Decoded' PROVE u.life <= life' /\ u.life # life'
      <3>1. u.life \in Nat /\ u.life <= life
        BY <1>0, <2>1, <2>2 DEF RefInv, WholeLine
      <3> QED
        BY <1>0, <2>3, <3>1
    <2> QED
      BY <2>3, <2>4 DEF RefInv, Idle
  <1>12. CASE UNCHANGED allVars
    BY <1>12, SameFile, SameDecoded, RefsUntouched DEF allVars, vars, flowVars
  <1> QED
    BY <1>1, <1>2, <1>3, <1>4, <1>5, <1>6, <1>7, <1>8, <1>9, <1>10, <1>11, <1>12 DEF FlowNext

\* What a step adds to the file is the line in hand, whole or torn.
LEMMA FileStep ==
  ASSUME FlowInv, [FlowNext]_allVars
  PROVE  \/ file' = file
         \/ file' = Append(file, TornLine)
         \/ file' = Append(file, Line) /\ hand.step = "captured" /\ store
  BY DEF FlowNext, Arrive, Take, CaptureRaw, RecordAlert, LaneStep, flowVars, allVars, AppendReplay,
         AppendFails, PublishDecoded, PublishFails, Project, Restart

LEMMA LinesStep ==
  ASSUME FlowInv, [FlowNext]_allVars
  PROVE  Lines \subseteq Lines' /\ Lines' \subseteq Lines \cup {Line}
  <1>1. CASE file' = file
    BY <1>1, SameFile
  <1>2. CASE file' = Append(file, TornLine)
    <2>1. TornLine \in AnyLine /\ TornLine.torn
      BY DEF AnyLine, TornLine
    <2> QED
      BY <1>2, <2>1, FileGrows DEF FlowInv
  <1>3. CASE file' = Append(file, Line) /\ hand.step = "captured"
    <2>1. Line \in AnyLine /\ ~Line.torn
      BY <1>3, HandType, LineFacts DEF FlowInv, AnyLine
    <2> QED
      BY <1>3, <2>1, FileGrows DEF FlowInv
  <1> QED
    BY <1>1, <1>2, <1>3, FileStep

Current == [life |-> life, ref |-> hand.ref, doc |-> hand.doc]

\* What a step adds to the decoded messages is the one in hand, behind its line.
LEMMA DecodedStep ==
  ASSUME FlowInv, [FlowNext]_allVars
  PROVE  /\ \A m \in Decoded' : m \in Decoded \/ (m = Current /\ hand.step = "kept" /\ hand.doc \in PayloadEncodes)
         /\ \A t \in taken' : t \in taken \/ t.accepted = (t.of.doc \in Accepts)
  <1> USE DEF FlowInv
  <1>1. CASE decoded' = decoded /\ taken' = taken
    BY <1>1, SameDecoded
  <1>2. ASSUME NEW lost \in BOOLEAN, PublishDecoded(lost)
        PROVE  Decoded' \subseteq Decoded \cup {Current} /\ hand.step = "kept" /\ hand.doc \in PayloadEncodes /\ taken' = taken
    <2>1. Current \in DecodedMessage
      BY <1>2, HandType, Known DEF PublishDecoded, Current, DecodedMessage
    <2> QED
      BY <1>2, <2>1, SameDecoded, DecodedGrows DEF PublishDecoded, Current
  <1>3. CASE Project
    BY <1>3, ProjectKeeps
  <1>4. CASE Restart
    BY <1>4 DEF Restart, Decoded
  <1>5. CASE FlowNext /\ ~(\E lost \in BOOLEAN : PublishDecoded(lost)) /\ ~Project /\ ~Restart
    BY <1>1, <1>5 DEF FlowNext, Arrive, Take, CaptureRaw, RecordAlert, LaneStep, flowVars, AppendReplay,
                      AppendFails, PublishFails
  <1>6. CASE UNCHANGED allVars
    BY <1>1, <1>6 DEF allVars, flowVars
  <1> QED
    BY <1>2, <1>3, <1>4, <1>5, <1>6

LEMMA KeptStep == ASSUME FlowInv, [FlowNext]_allVars PROVE KeptInv'
  <1> USE DEF FlowInv
  <1>1. ASSUME hand'.step = "kept"
        PROVE  /\ hand'.doc \in Parses
               /\ store' => \E l \in Lines' : l.life = life' /\ l.ref = hand'.ref /\ l.doc = hand'.doc
    <2>1. CASE UNCHANGED <<hand, store, life>>
      BY <1>1, <2>1, LinesStep DEF KeptInv
    <2>2. CASE AppendReplay
      <3>1. /\ hand.step = "captured" /\ hand.doc \in Parses /\ hand' = [hand EXCEPT !.step = "kept"] /\ UNCHANGED <<store, life>>
        BY <1>1, <2>2 DEF AppendReplay, Appended, Ends, Idle
      <3>2. hand'.ref = hand.ref /\ hand'.doc = hand.doc
        BY <3>1, HandType
      <3>3. ASSUME store PROVE Line \in Lines' /\ Line.life = life /\ Line.ref = hand.ref /\ Line.doc = hand.doc
        <4>1. Line \in AnyLine /\ ~Line.torn /\ Line.life = life /\ Line.ref = hand.ref /\ Line.doc = hand.doc
          BY <3>1, HandType, LineFacts DEF AnyLine
        <4>2. file' = Append(file, Line)
          BY <2>2, <3>3 DEF AppendReplay
        <4> QED
          BY <4>1, <4>2, FileGrows
      <3> QED
        BY <3>1, <3>2, <3>3
    <2>3. CASE FlowNext /\ ~AppendReplay
      <3>1. CASE Take \/ Restart
        BY <1>1, <3>1 DEF Take, Restart, Idle
      <3>2. CASE CaptureRaw
        <4>1. hand' = Idle \/ hand' = [hand EXCEPT !.step = "captured", !.ref = next + 1]
          BY <3>2 DEF CaptureRaw, Ends
        <4>2. hand \in [step : {"taken", "captured", "kept"}, doc : traffic, ref : Nat]
          BY <3>2, HandType DEF CaptureRaw
        <4>3. hand'.step # "kept"
          <5>1. CASE hand' = Idle
            BY <5>1 DEF Idle
          <5>2. CASE hand' # Idle
            BY <4>1, <4>2, <5>2
          <5> QED
            BY <5>1, <5>2
        <4> QED
          BY <1>1, <4>3
      <3>3. CASE RecordAlert
        <4>1. hand' = Idle \/ hand' = [hand EXCEPT !.step = "captured", !.ref = received]
          BY <3>3 DEF RecordAlert, Ends
        <4>2. hand \in [step : {"taken", "captured", "kept"}, doc : traffic, ref : Nat]
          BY <3>3, HandType DEF RecordAlert
        <4>3. hand'.step # "kept"
          <5>1. CASE hand' = Idle
            BY <5>1 DEF Idle
          <5>2. CASE hand' # Idle
            BY <4>1, <4>2, <5>2
          <5> QED
            BY <5>1, <5>2
        <4> QED
          BY <1>1, <4>3
      <3>4. CASE AppendFails \/ PublishFails \/ \E lost \in BOOLEAN : PublishDecoded(lost)
        BY <1>1, <3>4 DEF AppendFails, PublishFails, PublishDecoded, Ends, Idle
      <3> QED
        BY <2>1, <2>3, <3>1, <3>2, <3>3, <3>4 DEF FlowNext, Arrive, LaneStep, flowVars, Project
    <2> QED
      BY <2>1, <2>2, <2>3 DEF allVars, flowVars
  <1>2. \A m \in Decoded' : m.doc \in Parses /\ m.doc \in PayloadEncodes
    BY DecodedStep DEF KeptInv, Current
  <1>3. \A t \in taken' : t.accepted = (t.of.doc \in Accepts)
    BY DecodedStep DEF KeptInv
  <1> QED
    BY <1>1, <1>2, <1>3 DEF KeptInv

LEMMA PublishedStep == ASSUME FlowInv, [FlowNext]_allVars PROVE PublishedIsKept'
  <1>1. store' = store
    BY DEF FlowNext, Arrive, Take, CaptureRaw, RecordAlert, LaneStep, flowVars, allVars, AppendReplay,
           AppendFails, PublishDecoded, PublishFails, Project, Restart
  <1>2. ASSUME store, NEW m \in Decoded' PROVE \E l \in Lines : IsLineOf(l, m)
    BY <1>2, DecodedStep DEF FlowInv, PublishedIsKept, KeptInv, IsLineOf, Current
  <1> QED
    BY <1>1, <1>2, LinesStep DEF PublishedIsKept, IsLineOf

LEMMA MalformedStep == ASSUME FlowInv, [FlowNext]_allVars PROVE MalformedIsKept'
  <1> USE DEF FlowInv
  <1>1. store' = store
    BY DEF FlowNext, Arrive, Take, CaptureRaw, RecordAlert, LaneStep, flowVars, allVars, AppendReplay,
           AppendFails, PublishDecoded, PublishFails, Project, Restart
  <1>2. ASSUME store, NEW e \in ended', e.as = "malformed", HasLane(e.doc)
        PROVE  \E l \in Lines' : IsLineOf(l, e)
    <2>1. CASE e \in ended
      BY <1>2, <2>1, LinesStep DEF MalformedIsKept
    <2>2. CASE e \notin ended /\ AppendReplay
      <3>1. /\ hand.step = "captured" /\ file' = Append(file, Line)
            /\ e = [life |-> life, n |-> received, ref |-> hand.ref, doc |-> hand.doc, as |-> "malformed"]
        BY <1>2, <2>2 DEF AppendReplay, Appended, Ends
      <3>2. Line \in AnyLine /\ ~Line.torn /\ Line.life = life /\ Line.ref = hand.ref /\ Line.doc = hand.doc
        BY <3>1, HandType, LineFacts DEF AnyLine
      <3> QED
        BY <3>1, <3>2, FileGrows DEF IsLineOf
    <2>3. CASE e \notin ended /\ FlowNext /\ ~AppendReplay
      <3>1. ASSUME NEW how, Ends(how), how # "malformed" PROVE FALSE
        BY <1>2, <2>3, <3>1 DEF Ends
      <3>2. CASE RecordAlert
        <4>1. e = [life |-> life, n |-> received, ref |-> hand.ref, doc |-> hand.doc, as |-> "malformed"] /\ ~HasLane(hand.doc)
          BY <2>3, <3>2 DEF RecordAlert, Ends
        <4> QED
          BY <1>2, <4>1 DEF HasLane
      <3> QED
        BY <2>3, <3>1, <3>2 DEF FlowNext, Arrive, Take, CaptureRaw, LaneStep, flowVars,
                                AppendFails, PublishDecoded, PublishFails, Project, Restart
    <2> QED
      BY <2>1, <2>2, <2>3 DEF allVars, flowVars
  <1> QED
    BY <1>1, <1>2 DEF MalformedIsKept, HasLane

LEMMA AgreeStep == ASSUME FlowInv, [FlowNext]_allVars PROVE RefsAgree'
  <1> USE DEF FlowInv
  <1>1. ASSUME NEW i \in DOMAIN file', NEW j \in DOMAIN file', i < j,
               ~file'[i].torn, ~file'[j].torn, file'[i].life = file'[j].life
        PROVE  file'[i].ref < file'[j].ref
    <2>1. CASE file' = file
      BY <1>1, <2>1 DEF RefsAgree
    <2>2. CASE \E l \in AnyLine : file' = Append(file, l) /\ (l.torn \/ (l = Line /\ hand.step = "captured"))
      <3>1. PICK l \in AnyLine : file' = Append(file, l) /\ (l.torn \/ (l = Line /\ hand.step = "captured"))
        BY <2>2
      <3>2. /\ file' \in Seq(AnyLine) /\ Len(file) \in Nat
            /\ Len(file') = Len(file) + 1 /\ file'[Len(file) + 1] = l
            /\ \A k \in 1 .. Len(file) : file'[k] = file[k]
            /\ DOMAIN file = 1 .. Len(file) /\ DOMAIN file' = 1 .. Len(file) + 1
        BY <3>1, FileGrows DEF FlowTypes
      <3>3. i \in 1 .. Len(file) /\ file'[i] = file[i]
        BY <1>1, <3>2
      <3>4. CASE j \in 1 .. Len(file)
        BY <1>1, <3>2, <3>3, <3>4 DEF RefsAgree
      <3>5. CASE j = Len(file) + 1
        <4>1. l = Line /\ hand.step = "captured" /\ l = file'[j]
          BY <1>1, <3>1, <3>2, <3>5
        <4>2. l.life = life /\ l.ref = hand.ref
          BY <4>1, HandType, LineFacts
        <4>3. file[i] \in Lines
          BY <1>1, <3>2, <3>3 DEF Lines
        <4> QED
          BY <1>1, <3>3, <4>1, <4>2, <4>3 DEF RefInv
      <3> QED
        BY <3>2, <3>4, <3>5
    <2> QED
      <3>1. TornLine \in AnyLine /\ TornLine.torn
        BY DEF AnyLine, TornLine
      <3>2. hand.step = "captured" => Line \in AnyLine
        BY HandType, LineFacts DEF AnyLine
      <3> QED
        BY <2>1, <2>2, <3>1, <3>2, FileStep
  <1>2. ASSUME NEW m \in Decoded', NEW l \in Lines', l.life = m.life, l.ref = m.ref PROVE l.doc = m.doc
    <2>1. CASE m \in Decoded /\ l \in Lines
      BY <1>2, <2>1 DEF RefsAgree
    <2>2. CASE m \notin Decoded
      <3>1. m = Current /\ hand.step = "kept"
        BY <1>2, <2>2, DecodedStep
      <3>2. l \in Lines
        <4>1. file' = file \/ file' = Append(file, TornLine)
          BY <3>1, FileStep
        <4>2. TornLine \in AnyLine /\ TornLine.torn
          BY DEF AnyLine, TornLine
        <4> QED
          BY <1>2, <4>1, <4>2, SameFile, FileGrows
      <3> QED
        BY <1>2, <3>1, <3>2 DEF RefInv, Current
    <2>3. CASE m \in Decoded /\ l \notin Lines
      <3>1. l = Line /\ hand.step = "captured"
        <4>1. l = Line
          BY <1>2, <2>3, LinesStep
        <4>2. file' # file
          BY <1>2, <2>3, SameFile
        <4>3. TornLine \in AnyLine /\ TornLine.torn
          BY DEF AnyLine, TornLine
        <4>4. file' # Append(file, TornLine)
          BY <1>2, <2>3, <4>3, FileGrows
        <4> QED
          BY <4>1, <4>2, <4>4, FileStep
      <3>2. l.life = life /\ l.ref = hand.ref
        BY <3>1, HandType, LineFacts
      <3>3. m.ref < hand.ref /\ m.ref \in Nat /\ hand.ref \in Nat
        BY <1>2, <2>3, <3>1, <3>2, Known, HandType DEF RefInv, DecodedMessage
      <3> QED
        BY <1>2, <3>2, <3>3
    <2> QED
      BY <2>1, <2>2, <2>3
  <1> QED
    BY <1>1, <1>2 DEF RefsAgree

LEMMA FlowStepInv == FlowInv /\ [FlowNext]_allVars => FlowInv'
  BY LaneStepInv, TypesStep, RefStep, KeptStep, PublishedStep, MalformedStep, AgreeStep DEF FlowInv

\* The lane, the decoder's hand, the replay file and what was decoded agree throughout,
\* for any documents and limits, failed appends and restarts.
THEOREM FlowInvariant == FlowSpec => []FlowInv
  BY FlowInitInv, FlowStepInv, PTL DEF FlowSpec

\* Types, and that the lane is at work only while a message is being captured.
THEOREM FlowTypeCorrect == FlowSpec => []FlowTypeOK
  <1>1. FlowInv => FlowTypeOK
    BY DEF FlowInv, FlowTypes
  <1> QED
    BY <1>1, FlowInvariant, PTL

\* The lane of a decoder always holds the newest messages of this life (Capture, evict).
THEOREM FlowLaneIsNewest == FlowSpec => []Newest
  <1>1. FlowInv => Newest
    BY DEF FlowInv, IInv
  <1> QED
    BY <1>1, FlowInvariant, PTL

\* It evicts only what its limits demand.
THEOREM FlowLaneEvictsForNeed == FlowSpec => []EvictedForNeed
  <1>1. FlowInv => EvictedForNeed
    BY DEF FlowInv, IInv
  <1> QED
    BY <1>1, FlowInvariant, PTL

\* HandleRawPayload appends before it publishes: with a replay store whatever was
\* published is in the file under its reference, over failed appends and restarts.
THEOREM KeptBeforePublished == FlowSpec => []PublishedIsKept
  <1>1. FlowInv => PublishedIsKept
    BY DEF FlowInv
  <1> QED
    BY <1>1, FlowInvariant, PTL

\* And what a decoder with a lane refuses as malformed is in the file too.
THEOREM MalformedAreKept == FlowSpec => []MalformedIsKept
  <1>1. FlowInv => MalformedIsKept
    BY DEF FlowInv
  <1> QED
    BY <1>1, FlowInvariant, PTL

\* A reference means one message, in the file and on the bus, for one life of the process.
THEOREM ReferencesAgree == FlowSpec => []RefsAgree
  <1>1. FlowInv => RefsAgree
    BY DEF FlowInv
  <1> QED
    BY <1>1, FlowInvariant, PTL

\* Parser, encoding and validation together let only sound messages reach a projector,
\* whatever JSON values the messages of SAPIENT are.
THEOREM OnlySoundIsProjected ==
  ASSUME NEW J, ClosedJSON(J), \A d \in Documents : Feed[d] = "sapient" => Body[d].message \in J
  PROVE  FlowSpec => []ProjectedIsSound
  <1>1. ASSUME NEW d \in Documents, d \in Parses, d \in PayloadEncodes, d \in Accepts PROVE Sound(d)
    <2>1. CASE Feed[d] = "cap"
      BY <1>1, <2>1, CapIsSound, BodyAssumption DEF Parses, PayloadEncodes, Sound
    <2>2. CASE Feed[d] = "adsb"
      BY <1>1, <2>2, OpenSkyIsSound DEF Parses, PayloadEncodes, Sound
    <2>3. CASE Feed[d] = "cot"
      BY <1>1, <2>3, CotIsSound, BodyAssumption DEF Parses, PayloadEncodes, Sound
    <2>4. CASE Feed[d] = "sapient"
      BY <1>1, <2>4, SapientIsSound DEF Parses, PayloadEncodes, Accepts, Sound
    <2> QED
      BY <2>1, <2>2, <2>3, <2>4, FlowAssumption
  <1>2. FlowInv => ProjectedIsSound
    <2> SUFFICES ASSUME FlowInv, NEW t \in taken, t.accepted PROVE Sound(t.of.doc)
      BY DEF ProjectedIsSound
    <2>1. t.of \in Decoded /\ t.of.doc \in Documents
      BY OneFeed DEF Decoded, FlowInv, FlowTypes, TakenMessage, DecodedMessage
    <2> QED
      BY <1>1, <2>1 DEF FlowInv, KeptInv
  <1> QED
    BY <1>2, FlowInvariant, PTL

\* What a decoder publishes is refused only for one of two reasons: a snapshot without
\* aircraft, or a SAPIENT message at Go's zero time.
THEOREM PublishedAreAccepted == FlowSpec => []PublishedIsAccepted
  <1>1. ASSUME NEW d \in Documents, d \in Parses, ~PublishedInVain(d) PROVE d \in Accepts
    <2>1. CASE Feed[d] = "cap"
      BY <1>1, <2>1 DEF Parses, Accepts, CapParses, CapAccepts
    <2>2. CASE Feed[d] = "adsb"
      BY <1>1, <2>2, OpenSkyIsAccepted, BodyAssumption DEF Parses, Accepts, PublishedInVain
    <2>3. CASE Feed[d] = "cot"
      BY <1>1, <2>3 DEF Parses, Accepts, CotParses, CotAccepts
    <2>4. CASE Feed[d] = "sapient"
      BY <1>1, <2>4 DEF Parses, Accepts, PublishedInVain, SapientAccepts
    <2> QED
      BY <2>1, <2>2, <2>3, <2>4, FlowAssumption
  <1>2. FlowInv => PublishedIsAccepted
    <2> SUFFICES ASSUME FlowInv, NEW t \in taken, ~PublishedInVain(t.of.doc) PROVE t.accepted
      BY DEF PublishedIsAccepted
    <2>1. t.of \in Decoded /\ t.of.doc \in Documents
      BY OneFeed DEF Decoded, FlowInv, FlowTypes, TakenMessage, DecodedMessage
    <2> QED
      BY <1>1, <2>1 DEF FlowInv, KeptInv
  <1> QED
    BY <1>2, FlowInvariant, PTL
=============================================================================
