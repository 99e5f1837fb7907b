------------------------------- MODULE CotCodec -------------------------------
(***************************************************************************)
(* The Cursor-on-Target codec (pkg/adapters/cot, Marshal and Unmarshal) and *)
(* the payloads that carry its events.                                      *)
(*                                                                         *)
(* Texts are "" (blank) or some text; a time is "zero" (Go's zero time,     *)
(* blank in XML), "bad" (XML only), "good" or "far" (a time that JSON has no *)
(* form for, such as an offset of 24 hours).  A point and a track are       *)
(* "none", "good" or "nan" (one of the numbers is not finite).              *)
(***************************************************************************)
EXTENDS Naturals, Sequences

\* Types by their prefixes, which are disjoint.
CotTypes == {"", "air", "operator", "marker", "chat", "other"}
CotTimes == {"zero", "bad", "good", "far"}
CotPlaces == {"none", "good", "nan"}
IsGeoChatType(t) == t = "chat"

EventValid(e) == e.uid # "" /\ e.type # ""

FirstNonEmpty(a, b) == IF a # "" THEN a ELSE b

\* An element <__chat> holds the message as an attribute, or as its text.
NoChat == [message |-> "", text |-> "", sender |-> ""]

\* What encoding/xml makes of a message.
CotDocuments ==
  [xml : BOOLEAN, uid : STRING, type : CotTypes, how : STRING,
   time : CotTimes, start : CotTimes, stale : CotTimes, point : CotPlaces, track : CotPlaces,
   callsign : STRING, remarks : STRING, detail : BOOLEAN,
   chat : [message : STRING, text : STRING, sender : STRING]]

\* A GeoChat without a chat element says its text in the remarks.
ChatText(x) ==
  LET said == FirstNonEmpty(x.chat.message, x.chat.text) IN
  IF said = "" /\ IsGeoChatType(x.type) /\ x.detail THEN x.remarks ELSE said

CotTimeParses(t) == t # "bad"

\* Unmarshal, for an event that parses.
Unmarshal(x) ==
  [uid |-> x.uid, type |-> x.type, how |-> x.how,
   time |-> x.time, start |-> x.start, stale |-> x.stale, point |-> x.point,
   callsign |-> x.callsign, track |-> x.track, remarks |-> x.remarks,
   chatText |-> ChatText(x), senderUID |-> x.chat.sender]

CotParses(x) ==
  /\ x.xml
  /\ CotTimeParses(x.time) /\ CotTimeParses(x.start) /\ CotTimeParses(x.stale)
  /\ EventValid(Unmarshal(x))

Stated(t, default) == IF t = "zero" THEN default ELSE t

\* Marshal, for a valid event at times of four-digit years in UTC: times default to the
\* clock, a chat repeats itself in the remarks when there are none, and there is a detail
\* only if it says something.
Marshal(e) ==
  LET now == Stated(e.time, "good")
      chat == IF e.chatText = "" THEN NoChat
              ELSE [message |-> e.chatText, text |-> "", sender |-> e.senderUID]
      remarks == FirstNonEmpty(e.remarks, e.chatText)
  IN [xml |-> TRUE, uid |-> e.uid, type |-> e.type, how |-> FirstNonEmpty(e.how, "m-g"),
      time |-> now, start |-> Stated(e.start, now), stale |-> Stated(e.stale, "good"),
      point |-> e.point, callsign |-> e.callsign, track |-> e.track,
      remarks |-> remarks, chat |-> chat,
      detail |-> e.callsign # "" \/ e.track # "none" \/ remarks # "" \/ e.chatText # ""]

\* The replay line has the stale time, the payload the whole event.
CotRecordEncodes(e) == e.stale # "far"
CotPayloadEncodes(e) ==
  "far" \notin {e.time, e.start, e.stale} /\ "nan" \notin {e.point, e.track}

\* The payload and the projector validate the event once more.
CotAccepts(e) == EventValid(e)

\* What an event has to be for the picture, said without the parser.
CotSound(x) ==
  /\ x.xml
  /\ x.uid # "" /\ x.type # ""
  /\ {x.time, x.start, x.stale} \subseteq {"zero", "good"}
  /\ {x.point, x.track} \subseteq {"none", "good"}
=============================================================================
