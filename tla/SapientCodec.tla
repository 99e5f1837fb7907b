----------------------------- MODULE SapientCodec -----------------------------
(***************************************************************************)
(* The SAPIENT codec (pkg/adapters/sapient, ParseJSONMessage and            *)
(* ParseBinaryMessage) and the payloads that carry its messages.            *)
(*                                                                         *)
(* A JSON value is a record whose one field is its kind: an object is a     *)
(* function from its fields, an array a sequence, a text or number a class: *)
(*   a text    "blank", "word", "uuid", "ulid", "version" (of the standard), *)
(*             "unspecified" (ends in _UNSPECIFIED), "time", "zero" and      *)
(*             "far" (times: Go's zero time, and one that JSON has no form   *)
(*             for), or a number in quotes;                                  *)
(*   a number  "low" (below zero), "one" (an integer from zero to one),      *)
(*             "part" (between them), "high", or, in quotes only, "nan" and  *)
(*             "inf".                                                       *)
(***************************************************************************)
EXTENDS Naturals, Sequences

Text(c) == [text |-> c]
Number(c) == [number |-> c]
Object(f) == [object |-> f]
Array(s) == [array |-> s]
Null == [null |-> TRUE]
Absent == [absent |-> TRUE]

\* J is a set of JSON values, with all the values within them.
ClosedJSON(J) ==
  \A j \in J :
    \/ \E c \in STRING : j = Text(c)
    \/ \E c \in {"low", "one", "part", "high"} : j = Number(c)
    \/ j = Null
    \/ \E F \in SUBSET STRING : \E f \in [F -> J] : j = Object(f)
    \/ \E s \in Seq(J) : j = Array(s)

Is(v, kinds) == DOMAIN v \cap kinds # {}

Fields(v) == IF Is(v, {"object"}) THEN DOMAIN v.object ELSE {}

Instants == {"time", "zero", "far"}
Numbers == {"low", "one", "part", "high"}
NotFinite == {"nan", "inf"}

Field(v, f) == IF f \in Fields(v) THEN v.object[f] ELSE Absent

\* The class of a text or a number.
ClassOf(v, f) ==
  LET j == Field(v, f) IN
  IF Is(j, {"text"}) THEN j.text ELSE IF Is(j, {"number"}) THEN j.number ELSE "none"

Elements(j) == {j.array[i] : i \in DOMAIN j.array}

-----------------------------------------------------------------------------
(* Fields: whether one is taken, null counting as absent.                   *)

None(j) == Is(j, {"absent", "null"})

OptionalText(v, f) == Is(Field(v, f), {"absent", "null", "text"})

RequiredText(v, f) == Is(Field(v, f), {"text"}) /\ ClassOf(v, f) # "blank"

TextOf(v, f, classes) == Is(Field(v, f), {"text"}) /\ ClassOf(v, f) \in classes

RequiredTime(v, f) == TextOf(v, f, Instants)
OptionalTime(v, f) == None(Field(v, f)) \/ TextOf(v, f, Instants)
RequiredUUID(v, f) == TextOf(v, f, {"uuid"})

\* A blank identifier is not an absent one.
OptionalUUID(v, f) == None(Field(v, f)) \/ TextOf(v, f, {"uuid"})
RequiredULID(v, f) == TextOf(v, f, {"ulid"})
OptionalULID(v, f) == None(Field(v, f)) \/ TextOf(v, f, {"ulid"})

RequiredEnum(v, f) == RequiredText(v, f) /\ ClassOf(v, f) # "unspecified"
OptionalEnum(v, f) == OptionalText(v, f) /\ ClassOf(v, f) # "unspecified"

TextArray(v, f) ==
  \/ None(Field(v, f))
  \/ Is(Field(v, f), {"array"}) /\ \A x \in Elements(Field(v, f)) : Is(x, {"text", "null"})

\* A number, or a text that Go reads as one, NaN and Inf among them.
RequiredNumber(v, f) ==
  \/ Is(Field(v, f), {"number"})
  \/ TextOf(v, f, Numbers \cup NotFinite)

OptionalNumber(v, f) == None(Field(v, f)) \/ RequiredNumber(v, f)

IsObject(j) == Is(j, {"object"})

\* A null is no array: these are absent, or there.
IsArray(j) == Is(j, {"array"})
OptionalArray(v, f) == Is(Field(v, f), {"absent", "array"})
RequiredArray(v, f) == IsArray(Field(v, f)) /\ Field(v, f).array # << >>

Items(v, f) == IF IsArray(Field(v, f)) THEN Elements(Field(v, f)) ELSE {}

-----------------------------------------------------------------------------
(* The contents.                                                            *)

LocationParses(j) ==
  /\ IsObject(j)
  /\ RequiredNumber(j, "x") /\ RequiredNumber(j, "y") /\ OptionalNumber(j, "z")
  /\ RequiredEnum(j, "coordinateSystem") /\ RequiredEnum(j, "datum")
  /\ OptionalText(j, "utmZone")

RangeBearingParses(j) ==
  /\ IsObject(j)
  /\ \A f \in {"elevation", "azimuth", "range"} : OptionalNumber(j, f)
  /\ RequiredEnum(j, "coordinateSystem") /\ RequiredEnum(j, "datum")

\* Exactly one of the two fields is there, whatever it holds.
DetectionLocationParses(v) ==
  /\ ("location" \in Fields(v)) # ("rangeBearing" \in Fields(v))
  /\ IF "location" \in Fields(v) THEN LocationParses(Field(v, "location"))
     ELSE RangeBearingParses(Field(v, "rangeBearing"))

\* A level that is no finite integer is refused.
SubClassParses(j) ==
  /\ IsObject(j)
  /\ RequiredText(j, "type")
  /\ RequiredNumber(j, "level") /\ ClassOf(j, "level") \notin {"part", "nan", "inf"}
  /\ OptionalNumber(j, "confidence")
  /\ OptionalArray(j, "subClass")

\* The sub-classes of a classification are the nodes of its tree, at any depth.
ClassificationParses(j) ==
  /\ IsObject(j)
  /\ RequiredText(j, "type")
  /\ OptionalNumber(j, "confidence")
  /\ OptionalArray(j, "subClass")
  /\ \A s \in Items(j, "subClass") : SubClassParses(s)

DetectionRefParses(j, associated) ==
  /\ IsObject(j)
  /\ OptionalTime(j, "timestamp")
  /\ RequiredUUID(j, "nodeId") /\ RequiredULID(j, "objectId")
  /\ associated => OptionalEnum(j, "associationType")

\* Fault: a confidence may be any number.
AnyConfidence(v) == OptionalNumber(v, "detectionConfidence")

\* Between 0 and 1, unless it is NaN, which is neither below nor above.
ConfidenceParses(v) ==
  /\ OptionalNumber(v, "detectionConfidence")
  /\ ClassOf(v, "detectionConfidence") \notin {"low", "high", "inf"}

DetectionReportParses(j) ==
  /\ IsObject(j)
  /\ RequiredULID(j, "reportId") /\ RequiredULID(j, "objectId") /\ OptionalULID(j, "taskId")
  /\ DetectionLocationParses(j)
  /\ ConfidenceParses(j)
  /\ \A f \in {"classification", "associatedDetection", "derivedDetection"} : OptionalArray(j, f)
  /\ \A c \in Items(j, "classification") : ClassificationParses(c)
  /\ \A r \in Items(j, "associatedDetection") : DetectionRefParses(r, TRUE)
  /\ \A r \in Items(j, "derivedDetection") : DetectionRefParses(r, FALSE)
  /\ \A f \in {"state", "colour", "id"} : OptionalText(j, f)

DurationParses(j) == IsObject(j) /\ RequiredEnum(j, "units") /\ RequiredNumber(j, "value")

CapabilityParses(j) ==
  /\ IsObject(j)
  /\ RequiredText(j, "category") /\ RequiredText(j, "type")
  /\ OptionalText(j, "value") /\ OptionalText(j, "units")

CapabilitiesParse(v) ==
  RequiredArray(v, "capabilities") /\ \A c \in Items(v, "capabilities") : CapabilityParses(c)

StatusDefinitionParses(j) == IsObject(j) /\ DurationParses(Field(j, "statusInterval"))

ModeDefinitionParses(j) ==
  /\ IsObject(j)
  /\ RequiredText(j, "modeName") /\ RequiredEnum(j, "modeType")
  /\ DurationParses(Field(j, "settleTime"))
  /\ IsObject(Field(j, "task"))
  /\ "regionDefinition" \in Fields(Field(j, "task"))

ModeDefinitionsParse(v) ==
  RequiredArray(v, "modeDefinition") /\ \A m \in Items(v, "modeDefinition") : ModeDefinitionParses(m)

ConfigDataParse(v) ==
  /\ RequiredArray(v, "configData")
  /\ \A c \in Items(v, "configData") :
       IsObject(c) /\ RequiredText(c, "manufacturer") /\ RequiredText(c, "model")

RegistrationParses(j) ==
  /\ IsObject(j)
  /\ TextOf(j, "icdVersion", {"version"})
  /\ RequiredArray(j, "nodeDefinition")
  /\ \A n \in Items(j, "nodeDefinition") : IsObject(n) /\ RequiredEnum(n, "nodeType")
  /\ CapabilitiesParse(j)
  /\ StatusDefinitionParses(Field(j, "statusDefinition"))
  /\ ModeDefinitionsParse(j)
  /\ ConfigDataParse(j)
  /\ OptionalText(j, "name") /\ OptionalText(j, "shortName")

StatusReportParses(j) ==
  /\ IsObject(j)
  /\ RequiredULID(j, "reportId")
  /\ RequiredEnum(j, "system") /\ RequiredEnum(j, "info") /\ RequiredText(j, "mode")
  /\ OptionalULID(j, "activeTaskId")
  /\ "nodeLocation" \in Fields(j) => LocationParses(Field(j, "nodeLocation"))

TaskAckParses(j) ==
  /\ IsObject(j)
  /\ RequiredULID(j, "taskId") /\ RequiredEnum(j, "taskStatus") /\ TextArray(j, "reason")

Contents ==
  {"registration", "registrationAck", "statusReport", "detectionReport", "task", "taskAck",
   "alert", "alertAck", "error"}

\* The content fields that are there, whatever they hold.
FindContent(m) == Contents \cap Fields(m)

\* Four of the nine contents have a parser.
ContentParses(kind, j) ==
  CASE kind = "detectionReport" -> DetectionReportParses(j)
    [] kind = "registration" -> RegistrationParses(j)
    [] kind = "statusReport" -> StatusReportParses(j)
    [] kind = "taskAck" -> TaskAckParses(j)
    [] OTHER -> FALSE

ParseJSONMessage(m) ==
  /\ IsObject(m)
  /\ RequiredTime(m, "timestamp") /\ RequiredUUID(m, "nodeId") /\ OptionalUUID(m, "destinationId")
  /\ \E kind \in Contents : FindContent(m) = {kind} /\ ContentParses(kind, Field(m, kind))

\* A protobuf message is parsed as the JSON it is turned into; a time that is beyond those
\* of JSON is beyond those of protobuf.
ParseBinaryMessage(m) ==
  /\ ~TextOf(m, "timestamp", {"far"})
  /\ \A r \in Items(Field(m, "detectionReport"), "associatedDetection")
          \cup Items(Field(m, "detectionReport"), "derivedDetection") : ~TextOf(r, "timestamp", {"far"})
  /\ ParseJSONMessage(m)

\* The encoding of an HTTP body: configured, or taken from its content type.
InferEncoding(x) ==
  IF x.configured # "" THEN x.configured
  ELSE IF x.contentType \in {"json", "protobuf"} THEN x.contentType ELSE "unknown"

\* The input publishes no body whose encoding it does not know.
SapientPublishes(x) == InferEncoding(x) # "unknown"

SapientParses(x) ==
  CASE InferEncoding(x) = "json" -> ParseJSONMessage(x.message)
    [] InferEncoding(x) = "protobuf" -> ParseBinaryMessage(x.message)
    [] OTHER -> FALSE

-----------------------------------------------------------------------------
(* What is encoded again, of a message that parses.                         *)

Finite(v, f) == ClassOf(v, f) \notin NotFinite

LocationEncodes(j) == \A f \in {"x", "y", "z"} : Finite(j, f)
RangeBearingEncodes(j) == \A f \in {"elevation", "azimuth", "range"} : Finite(j, f)
RefEncodes(j) == ClassOf(j, "timestamp") # "far"

DetectionReportEncodes(j) ==
  /\ IF "location" \in Fields(j) THEN LocationEncodes(Field(j, "location"))
     ELSE RangeBearingEncodes(Field(j, "rangeBearing"))
  /\ Finite(j, "detectionConfidence")
  /\ \A c \in Items(j, "classification") :
       Finite(c, "confidence") /\ \A s \in Items(c, "subClass") : Finite(s, "confidence")
  /\ \A r \in Items(j, "associatedDetection") \cup Items(j, "derivedDetection") : RefEncodes(r)

\* The replay line has the message's time; the payload the whole message.
SapientRecordEncodes(x) == ClassOf(x.message, "timestamp") # "far"

SapientPayloadEncodes(x) ==
  LET m == x.message IN
  /\ SapientRecordEncodes(x)
  /\ "detectionReport" \in Fields(m) => DetectionReportEncodes(Field(m, "detectionReport"))
  /\ "statusReport" \in Fields(m) /\ "nodeLocation" \in Fields(Field(m, "statusReport")) =>
       LocationEncodes(Field(Field(m, "statusReport"), "nodeLocation"))

\* Validate of the decoded payload: Go's zero time is no time.
SapientAccepts(x) == ClassOf(x.message, "timestamp") # "zero"

\* What a SAPIENT message has to be for its consumers, said without the parser.
SapientSound(x) ==
  LET m == x.message IN
  /\ Is(m, {"object"})
  /\ Field(m, "timestamp") = Text("time")
  /\ Field(m, "nodeId") = Text("uuid")
  /\ \E kind \in {"detectionReport", "registration", "statusReport", "taskAck"} :
       Contents \cap Fields(m) = {kind}
  /\ \A d \in {Field(m, "detectionReport")} \ {Absent} :
       LET where == IF "location" \in Fields(d) THEN Field(d, "location") ELSE Field(d, "rangeBearing") IN
       /\ ClassOf(d, "objectId") = "ulid"
       /\ \A f \in IF "location" \in Fields(d) THEN {"x", "y", "z"} ELSE {"elevation", "azimuth", "range"} :
            ClassOf(where, f) \notin {"nan", "inf"}
       /\ "unspecified" \notin {ClassOf(where, "coordinateSystem"), ClassOf(where, "datum")}
       /\ ClassOf(d, "detectionConfidence") \in {"one", "part", "none"}
=============================================================================
