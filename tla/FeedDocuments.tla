------------------------------ MODULE FeedDocuments ------------------------------
(***************************************************************************)
(* The documents of MCFeedFlow.  Of every feed there is a good message of    *)
(* size 2, one longer than the lane, and, of size 1, one for every way in   *)
(* which a single field may differ from the good one.                       *)
(***************************************************************************)
EXTENDS FiniteSets, CapCodec, OpenSkyCodec, CotCodec, SapientCodec, SequencesExt

Doc(feed, size, body) == [feed |-> feed, size |-> size, body |-> body]

-----------------------------------------------------------------------------
Here == [lat |-> "in", lon |-> "in"]
Places == {[lat |-> a, lon |-> b] : a \in {"bad", "nan", "inf", "low", "high", "in"}, b \in {"in"}}
            \cup {[lat |-> "in", lon |-> b] : b \in {"bad", "nan", "low", "high"}}
Area == [polygons |-> << <<Here, Here, Here>> >>,
         circles |-> << [parts |-> 2, center |-> Here, radius |-> "in"] >>]
Areas ==
  {[Area EXCEPT !.polygons[1][2] = p] : p \in Places}
    \cup {[Area EXCEPT !.circles[1].center = p] : p \in Places}
    \cup {[Area EXCEPT !.circles[1].radius = r] : r \in {"bad", "nan", "inf", "low"}}
    \cup {[Area EXCEPT !.circles[1].parts = 1], [Area EXCEPT !.polygons[1] = <<Here, Here>>],
          [polygons |-> << >>, circles |-> << >>]}
Info == [effective |-> "good", expires |-> "blank", areas |-> <<Area>>]
GoodAlert ==
  [xml |-> TRUE, text |-> [f \in {"identifier", "sender", "status", "msgType", "scope"} |-> "text"],
   sent |-> "good", infos |-> <<Info, Info>>]
Instant == {"blank", "bad", "zero", "far"}
Alerts ==
  {[GoodAlert EXCEPT !.text[f] = "blank"] : f \in DOMAIN GoodAlert.text}
    \cup {[GoodAlert EXCEPT !.sent = t] : t \in Instant}
    \cup {[GoodAlert EXCEPT !.infos[2].effective = t] : t \in Instant}
    \cup {[GoodAlert EXCEPT !.infos[1].expires = t] : t \in Instant}
    \cup {[GoodAlert EXCEPT !.infos[2].areas = <<Area, a>>] : a \in Areas}
    \cup {[GoodAlert EXCEPT !.xml = FALSE], [GoodAlert EXCEPT !.infos = << >>]}

-----------------------------------------------------------------------------
GoodRow ==
  [i \in 1 .. 17 |-> CASE i \in {ICAO24, OriginCountry, Callsign} -> "text"
                       [] i \in {OnGround, SPI} -> "bool"
                       [] i \in {TimePosition, LastContact, PositionSource} -> "positive"
                       [] i = Sensors -> "null"
                       [] i = Squawk -> "blank"
                       [] OTHER -> "fraction"]
GoodSnapshot == [json |-> TRUE, time |-> "positive", states |-> [present |-> TRUE, rows |-> <<GoodRow, GoodRow>>]]
RowsDiffering(fields) ==
  {[GoodSnapshot EXCEPT !.states.rows[2][i] = j] : i \in fields, j \in JSONClasses}
Snapshots ==
  {[GoodSnapshot EXCEPT !.states.rows[1] = Append(@, j)] : j \in JSONClasses}
    \cup {[GoodSnapshot EXCEPT !.time = t] : t \in {"zero", "far"}}
    \cup {[GoodSnapshot EXCEPT !.states.rows[1] = SubSeq(@, 1, 16)],
          [GoodSnapshot EXCEPT !.json = FALSE], [GoodSnapshot EXCEPT !.states.rows = << >>],
          [GoodSnapshot EXCEPT !.states = [present |-> FALSE, rows |-> << >>]]}

-----------------------------------------------------------------------------
GoodEvent ==
  [xml |-> TRUE, uid |-> "u", type |-> "operator", how |-> "", time |-> "good", start |-> "zero",
   stale |-> "good", point |-> "good", callsign |-> "c", track |-> "good", remarks |-> "r",
   chat |-> NoChat, detail |-> TRUE]
Events ==
  {[GoodEvent EXCEPT !.type = t] : t \in CotTypes \ {"operator"}}
    \cup {[GoodEvent EXCEPT !.time = t] : t \in {"zero", "bad", "far"}}
    \cup {[GoodEvent EXCEPT !.start = t] : t \in {"good", "bad", "far"}}
    \cup {[GoodEvent EXCEPT !.stale = t] : t \in {"zero", "bad", "far"}}
    \cup {[GoodEvent EXCEPT !.point = p] : p \in {"none", "nan"}}
    \cup {[GoodEvent EXCEPT !.track = p] : p \in {"none", "nan"}}
    \cup {[GoodEvent EXCEPT !.uid = ""], [GoodEvent EXCEPT !.xml = FALSE]}

-----------------------------------------------------------------------------
Put(v, f, j) == Object([k \in Fields(v) \cup {f} |-> IF k = f THEN j ELSE v.object[k]])
Without(v, f) == Object([k \in Fields(v) \ {f} |-> v.object[k]])
OddNumbers == {Text("nan"), Text("inf"), Text("one"),
               Number("low"), Number("one"), Number("part"), Number("high")}
OddTexts == {Text("blank"), Text("word"), Text("unspecified"), Text("uuid"), Text("ulid"),
             Text("time"), Text("far"), Text("zero")}
OddOthers == {Null, Absent, Array(<< >>), Object([f \in {} |-> 0])}

\* The object with one of its fields, present or not, in another way.
Differing(v, others, values) ==
  {IF j = Absent THEN Without(v, f) ELSE Put(v, f, j) : f \in Fields(v) \cup others, j \in values}

Where == Object([x |-> Number("high"), y |-> Number("low"), coordinateSystem |-> Text("word"), datum |-> Text("word")])
Bearing == Object([azimuth |-> Number("high"), coordinateSystem |-> Text("word"), datum |-> Text("word")])
SubClass == Object([type |-> Text("word"), level |-> Number("one")])
Class == Object([type |-> Text("word"), confidence |-> Number("part"), subClass |-> Array(<<SubClass>>)])
Ref == Object([nodeId |-> Text("uuid"), objectId |-> Text("ulid")])
Detection ==
  Object([reportId |-> Text("ulid"), objectId |-> Text("ulid"), location |-> Where,
          detectionConfidence |-> Number("part"), classification |-> Array(<<Class>>)])
DetectionGroups(odd) ==
  << Differing(Detection, {"taskId"}, odd), {Put(Detection, f, j) : f \in {"rangeBearing", "state"}, j \in odd},
     {Put(Detection, "location", w) : w \in Differing(Where, {"z", "utmZone"}, odd)},
     {Put(Without(Detection, "location"), "rangeBearing", b) : b \in Differing(Bearing, {"range"}, odd)},
     {Put(Detection, "classification", Array(<<Class, c>>)) : c \in Differing(Class, {}, odd)},
     {Put(Detection, "classification", Array(<<Put(Class, "subClass", Array(<<s>>))>>)) :
        s \in Differing(SubClass, {"confidence", "subClass"}, odd)},
     {Put(Detection, "associatedDetection", Array(<<r>>)) :
        r \in Differing(Ref, {"timestamp", "associationType"}, odd)},
     {Put(Detection, "derivedDetection", Array(<<r>>)) : r \in Differing(Ref, {"timestamp"}, odd)} >>
Span == Object([units |-> Text("word"), value |-> Number("one")])
Mode == Object([modeName |-> Text("word"), modeType |-> Text("word"), settleTime |-> Span,
                task |-> Object([regionDefinition |-> Null])])
GoodRegistration ==
  Object([icdVersion |-> Text("version"), nodeDefinition |-> Array(<<Object([nodeType |-> Text("word")])>>),
          capabilities |-> Array(<<Object([category |-> Text("word"), type |-> Text("word")])>>),
          statusDefinition |-> Object([statusInterval |-> Span]), modeDefinition |-> Array(<<Mode>>),
          configData |-> Array(<<Object([manufacturer |-> Text("word"), model |-> Text("word")])>>)])
Registrations(odd) == {GoodRegistration} \cup Differing(GoodRegistration, {"name"}, odd)
Modes(odd) == {Put(GoodRegistration, "modeDefinition", Array(<<m>>)) : m \in Differing(Mode, {}, odd)}
Status == Object([reportId |-> Text("ulid"), system |-> Text("word"), info |-> Text("word"),
                  mode |-> Text("word"), nodeLocation |-> Where])
Statuses(odd) == {Status} \cup Differing(Status, {"activeTaskId"}, odd)
              \cup {Put(Status, "nodeLocation", w) : w \in Differing(Where, {"z"}, odd)}
Ack == Object([taskId |-> Text("ulid"), taskStatus |-> Text("word"), reason |-> Array(<<Text("word")>>)])
Acks(odd) == {Ack} \cup Differing(Ack, {}, odd)

Message(kind, j) ==
  Object([f \in {"timestamp", "nodeId", kind} |->
            CASE f = "timestamp" -> Text("time") [] f = "nodeId" -> Text("uuid") [] OTHER -> j])
GoodMessage == Message("detectionReport", Detection)
HTTP(encoding, m) == [configured |-> "", contentType |-> encoding, message |-> m]
JSONMessages(kind, values) == {HTTP("json", Message(kind, j)) : j \in values}
SapientGroupsOf(odd) ==
  [i \in 1 .. 8 |-> JSONMessages("detectionReport", DetectionGroups(odd)[i])]
    \o << JSONMessages("registration", Registrations(odd)), JSONMessages("registration", Modes(odd)),
          JSONMessages("statusReport", Statuses(odd)), JSONMessages("taskAck", Acks(odd)),
          {HTTP("json", m) : m \in Differing(GoodMessage, {"destinationId"}, odd)} >>
SapientGroups ==
  SapientGroupsOf(OddNumbers) \o SapientGroupsOf(OddTexts) \o SapientGroupsOf(OddOthers)
    \o << {HTTP("json", Put(GoodMessage, f, Null)) : f \in {"alert", "taskAck"}},
          {HTTP("json", Message("alert", Null)), HTTP("json", Text("word"))},
          {HTTP("protobuf", m) : m \in {GoodMessage, Put(GoodMessage, "timestamp", Text("far")),
                                        Put(GoodMessage, "timestamp", Text("zero"))}},
          {HTTP("other", GoodMessage), [HTTP("other", GoodMessage) EXCEPT !.configured = "json"]} >>

-----------------------------------------------------------------------------
Good ==
  <<Doc("cap", 2, GoodAlert), Doc("adsb", 2, GoodSnapshot), Doc("cot", 2, GoodEvent),
    Doc("sapient", 2, HTTP("json", GoodMessage))>>
Oversize == [i \in 1 .. 4 |-> [Good[i] EXCEPT !.size = 4]]
\* Of every feed what does not parse, and what parses and cannot be encoded.
Broken ==
  <<Doc("cap", 1, [GoodAlert EXCEPT !.xml = FALSE]), Doc("adsb", 1, [GoodSnapshot EXCEPT !.json = FALSE]),
    Doc("cot", 1, [GoodEvent EXCEPT !.xml = FALSE]), Doc("sapient", 1, HTTP("json", Text("word"))),
    Doc("cap", 1, [GoodAlert EXCEPT !.sent = "far"]), Doc("adsb", 1, [GoodSnapshot EXCEPT !.time = "far"]),
    Doc("cot", 1, [GoodEvent EXCEPT !.point = "nan"]),
    Doc("sapient", 1, HTTP("json", Put(GoodMessage, "timestamp", Text("far"))))>>
Sized(feed, bodies) == LET all == FoldSet(LAMBDA b, seq : Append(seq, b), << >>, bodies) IN [i \in DOMAIN all |-> Doc(feed, 1, all[i])]
All ==
  Good \o Oversize \o Broken \o Sized("cap", Alerts) \o Sized("adsb", Snapshots)
    \o Sized("adsb", RowsDiffering(1 .. 8)) \o Sized("adsb", RowsDiffering(9 .. 17))
    \o Sized("cot", Events) \o FlattenSeq([i \in DOMAIN SapientGroups |-> Sized("sapient", SapientGroups[i])])

\* A document is its number among them all.
MCDocuments == DOMAIN All
MCFeed == LET all == All IN SubSeq([d \in DOMAIN all |-> all[d].feed], 1, Len(all))
MCSize == LET all == All IN SubSeq([d \in DOMAIN all |-> all[d].size], 1, Len(all))
MCBody == LET all == All IN SubSeq([d \in DOMAIN all |-> all[d].body], 1, Len(all))

\* The long and the broken ones among good ones, the others by themselves, once.
MCTraffics ==
  LET all == All IN
  {IF d <= 16 THEN {CHOOSE g \in 1 .. 4 : all[g].feed = all[d].feed, d} ELSE {d} : d \in 5 .. Len(all)}
MCMaxTaken == [t \in MCTraffics |-> IF Cardinality(t) = 2 THEN 3 ELSE 1]
=============================================================================
