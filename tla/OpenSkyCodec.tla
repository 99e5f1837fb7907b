----------------------------- MODULE OpenSkyCodec -----------------------------
(***************************************************************************)
(* The OpenSky codec of the ADS-B feed (pkg/adapters/adsb,                  *)
(* ParseOpenSkySnapshot) and the payloads that carry its snapshots.         *)
(*                                                                         *)
(* A row of "states" is an array; each of its fields is a class of JSON     *)
(* values: "null", "text", "blank" (a text of blanks), "bool", "array",     *)
(* "fraction", or an integer: "positive", "zero", or "far" (seconds for     *)
(* which JSON has no time, such as milliseconds by mistake).                *)
(***************************************************************************)
EXTENDS Naturals, Sequences

Integral == {"positive", "zero", "far"}
JSONClasses == Integral \cup {"null", "text", "blank", "bool", "array", "fraction"}

\* What encoding/json makes of a message.
OpenSkyDocuments ==
  [json : BOOLEAN, time : Integral, states : [present : BOOLEAN, rows : Seq(Seq(JSONClasses))]]

\* The helpers of the fields: what they take without an error.
TextOrNull(j) == j \in {"null", "text", "blank"}
SomeText(j) == TextOrNull(j) /\ j = "text"

\* Fault: a time of zero is a time.
RequiredUnixTimeAny(j) == j \in Integral

RequiredUnixTime(j) == j \in {"positive", "far"}

OptionalUnixTime(j) == j \in Integral \cup {"null"}
\* A null leaves the bool as it is, false.
RequiredBool(j) == j \in {"bool", "null"}
OptionalFloat(j) == j \in Integral \cup {"fraction", "null"}
OptionalInteger(j) == j \in Integral \cup {"null"}
OptionalIntegers(j) == j \in {"array", "null"}

\* Positions of the fields in a row, counted from one.
ICAO24 == 1
Callsign == 2
OriginCountry == 3
TimePosition == 4
LastContact == 5
OnGround == 9
Sensors == 13
Squawk == 15
SPI == 16
PositionSource == 17
Category == 18
Floats == {6, 7, 8, 10, 11, 12, 14}

StateVectorParses(row) ==
  /\ Len(row) >= 17
  /\ SomeText(row[ICAO24]) /\ SomeText(row[OriginCountry])
  /\ RequiredUnixTime(row[LastContact])
  /\ RequiredBool(row[OnGround]) /\ RequiredBool(row[SPI])
  /\ TextOrNull(row[Callsign]) /\ TextOrNull(row[Squawk])
  /\ OptionalUnixTime(row[TimePosition])
  /\ \A i \in Floats : OptionalFloat(row[i])
  /\ OptionalIntegers(row[Sensors])
  /\ OptionalInteger(row[PositionSource])
  /\ Len(row) > 17 => OptionalInteger(row[Category])

\* time must be positive and states an array: it may be empty, but not null.
OpenSkyParses(x) ==
  /\ x.json
  /\ x.time \in {"positive", "far"}
  /\ x.states.present
  /\ \A i \in DOMAIN x.states.rows : StateVectorParses(x.states.rows[i])

\* The replay line has the snapshot's time.
OpenSkyRecordEncodes(x) == x.time # "far"

OpenSkyPayloadEncodes(x) ==
  /\ x.time # "far"
  /\ \A i \in DOMAIN x.states.rows :
       x.states.rows[i][LastContact] # "far" /\ x.states.rows[i][TimePosition] # "far"

\* cloneSnapshot appends the rows to nil: a snapshot without rows has no states any more.
CloneSnapshot(x) == [x EXCEPT !.states.present = x.states.rows # << >>]

\* Validate of the payload, and the projector's own checks of every row.
OpenSkyAccepts(x) ==
  /\ CloneSnapshot(x).states.present
  /\ \A i \in DOMAIN x.states.rows :
       x.states.rows[i][ICAO24] = "text" /\ x.states.rows[i][LastContact] # "zero"

\* What a snapshot has to be for the picture, said without the parser: every row names
\* its aircraft and when it was heard, at times that exist.
OpenSkySound(x) ==
  /\ x.json
  /\ x.time = "positive"
  /\ \A i \in DOMAIN x.states.rows :
       LET row == x.states.rows[i] IN
       /\ row[ICAO24] = "text"
       /\ row[LastContact] = "positive"
       /\ row[TimePosition] \in {"positive", "zero", "null"}
       /\ \A f \in Floats : row[f] \in {"null", "fraction", "positive", "zero", "far"}
=============================================================================
