------------------------------- MODULE FeedFlow -------------------------------
(***************************************************************************)
(* The decoder processors of the CAP, ADS-B, CoT and SAPIENT feeds, between *)
(* the inputs that publish what they received and the projectors that take  *)
(* what was decoded (internal/components/*, HandleRawPayload).              *)
(*                                                                         *)
(* One message after the other is captured in the raw lane (RawLane),       *)
(* appended to the replay file when a replay store is attached, parsed by   *)
(* the feed's codec, encoded again and published.  The bus keeps nothing:   *)
(* a publish may be lost, and so is what is pending when the process ends.  *)
(* The file outlives the process; an append may fail, leave half a line, or *)
(* be cut short by the end of the process.                                  *)
(*                                                                         *)
(* CAP has no raw lane: an alert is parsed first, and its reference is made *)
(* of its identifier and the time at which it was received.                 *)
(***************************************************************************)
EXTENDS RawLane, CapCodec, OpenSkyCodec, CotCodec, SapientCodec

CONSTANTS
  Documents,   \* what the inputs receive
  Feed,        \* Feed[d]: the feed it comes from
  Size,        \* Size[d]: its length
  Body,        \* Body[d]: what it says, in the classes of the feed's codec
  Traffics,    \* sets of documents of one feed that arrive together in a behaviour
  MaxTaken,    \* bound: MaxTaken[t], messages that the decoder takes of the documents t
  MaxPending,  \* bound: messages pending on one subscription
  MaxLives     \* bound: lives of the process

ASSUME FlowAssumption ==
  /\ Traffics \subseteq SUBSET Documents
  /\ \A t \in Traffics : \A c, d \in t : Feed[c] = Feed[d]
  /\ Feed \in [Documents -> {"cap", "adsb", "cot", "sapient"}]
  /\ Size \in [Documents -> Frames \ {0}]
  /\ MaxTaken \in [Traffics -> 0 .. MaxCaptures]
  /\ MaxPending \in Nat \ {0} /\ MaxLives \in Nat \ {0}

\* The documents of three feeds are what the libraries make of any text.
ASSUME BodyAssumption ==
  \A d \in Documents :
    /\ Feed[d] = "cap" => Body[d] \in CapDocuments
    /\ Feed[d] = "adsb" => Body[d] \in OpenSkyDocuments
    /\ Feed[d] = "cot" => Body[d] \in CotDocuments

VARIABLES
  traffic,   \* the documents that arrive in this behaviour
  store,     \* a replay store is attached
  life,      \* lives of the process until now
  received,  \* raw messages taken, in all lives: the clock of CAP's references
  raw,       \* raw messages pending on the decoder's subscription
  hand,      \* the message in the decoder's hands, with where it is
  file,      \* the replay file: lines, the last of them perhaps torn
  decoded,   \* decoded messages pending on the projector's subscription
  ended,     \* history: how the decoder ended with each message
  taken      \* history: what the projector made of each decoded message

flowVars == <<traffic, store, life, received, raw, hand, file, decoded, ended, taken>>
allVars == <<vars, flowVars>>

HasLane(d) == Feed[d] # "cap"

Idle == [step |-> "idle"]

FlowInit ==
  /\ Init
  /\ traffic \in Traffics
  /\ store \in BOOLEAN
  /\ life = 1
  /\ received = 0
  /\ raw = << >>
  /\ hand = Idle
  /\ file = << >>
  /\ decoded = << >>
  /\ ended = {}
  /\ taken = {}

-----------------------------------------------------------------------------
(* The codec of a document's feed.                                         *)

\* The documents that an input publishes, that parse, that have a record, and so on.
Published == {d \in Documents : Feed[d] = "sapient" => SapientPublishes(Body[d])}

Parses ==
  {d \in Documents :
     CASE Feed[d] = "cap" -> CapParses(Body[d])
       [] Feed[d] = "adsb" -> OpenSkyParses(Body[d])
       [] Feed[d] = "cot" -> CotParses(Body[d])
       [] Feed[d] = "sapient" -> SapientParses(Body[d])}

\* The record of a message that does not parse has no time of the message.
RecordEncodes ==
  {d \in Documents :
     d \in Parses => CASE Feed[d] = "cap" -> CapRecordEncodes(ToAlert(Body[d]))
                       [] Feed[d] = "adsb" -> OpenSkyRecordEncodes(Body[d])
                       [] Feed[d] = "cot" -> CotRecordEncodes(Unmarshal(Body[d]))
                       [] Feed[d] = "sapient" -> SapientRecordEncodes(Body[d])}

\* Only what parses is encoded, and only what is encoded is accepted or refused.
PayloadEncodes ==
  {d \in Parses :
     CASE Feed[d] = "cap" -> CapPayloadEncodes(ToAlert(Body[d]))
       [] Feed[d] = "adsb" -> OpenSkyPayloadEncodes(Body[d])
       [] Feed[d] = "cot" -> CotPayloadEncodes(Unmarshal(Body[d]))
       [] Feed[d] = "sapient" -> SapientPayloadEncodes(Body[d])}

Accepts ==
  {d \in Parses :
     CASE Feed[d] = "cap" -> CapAccepts(ToAlert(Body[d]))
       [] Feed[d] = "adsb" -> OpenSkyAccepts(Body[d])
       [] Feed[d] = "cot" -> CotAccepts(Unmarshal(Body[d]))
       [] Feed[d] = "sapient" -> SapientAccepts(Body[d])}

Sound(d) ==
  CASE Feed[d] = "cap" -> CapSound(Body[d])
    [] Feed[d] = "adsb" -> OpenSkySound(Body[d])
    [] Feed[d] = "cot" -> CotSound(Body[d])
    [] Feed[d] = "sapient" -> SapientSound(Body[d])

-----------------------------------------------------------------------------
(* The decoder.                                                            *)

Line == [torn |-> FALSE, life |-> life, ref |-> hand.ref, doc |-> hand.doc]
TornLine == [torn |-> TRUE]

Ends(how) ==
  /\ hand' = Idle
  /\ ended' = ended \cup {[life |-> life, n |-> received, ref |-> hand.ref, doc |-> hand.doc, as |-> how]}

\* An input publishes what it received.  A message that the bus loses is none here.
Arrive(d) ==
  /\ d \in traffic
  /\ d \in Published
  /\ Len(raw) < MaxPending
  /\ raw' = Append(raw, d)
  /\ UNCHANGED <<vars, traffic, store, life, received, hand, file, decoded, ended, taken>>

\* Fault: the handler is called while it is at work.
TakeConcurrently ==
  /\ raw # << >>
  /\ received < MaxTaken[traffic]
  /\ received' = received + 1
  /\ raw' = Tail(raw)
  /\ hand' = [step |-> "taken", doc |-> Head(raw), ref |-> 0]
  /\ UNCHANGED <<vars, traffic, store, life, file, decoded, ended, taken>>

\* The subscription calls the handler, one message after the other.
Take ==
  /\ raw # << >>
  /\ hand = Idle
  /\ received < MaxTaken[traffic]
  /\ received' = received + 1
  /\ raw' = Tail(raw)
  /\ hand' = [step |-> "taken", doc |-> Head(raw), ref |-> 0]
  /\ UNCHANGED <<vars, traffic, store, life, file, decoded, ended, taken>>

\* Fault: what does not parse is not captured.
CaptureParsed ==
  /\ hand.step = "taken"
  /\ HasLane(hand.doc)
  /\ IF hand.doc \in Parses /\ Size[hand.doc] <= MaxBytes
       THEN /\ Capture(Size[hand.doc])
            /\ hand' = [hand EXCEPT !.step = "captured", !.ref = next + 1]
            /\ UNCHANGED ended
       ELSE /\ Ends(IF hand.doc \in Parses THEN "oversize" ELSE "malformed")
            /\ UNCHANGED vars
  /\ UNCHANGED <<traffic, store, life, received, raw, file, decoded, taken>>

\* The raw lane takes the message before anything is known of it, unless it is too long.
CaptureRaw ==
  /\ hand.step = "taken"
  /\ HasLane(hand.doc)
  /\ IF Size[hand.doc] <= MaxBytes
       THEN /\ Capture(Size[hand.doc])
            /\ hand' = [hand EXCEPT !.step = "captured", !.ref = next + 1]
            /\ UNCHANGED ended
       ELSE Ends("oversize") /\ UNCHANGED vars
  /\ UNCHANGED <<traffic, store, life, received, raw, file, decoded, taken>>

\* Fault: the reference of an alert is its identifier, without the time it was received.
RecordAlertByName ==
  /\ hand.step = "taken"
  /\ ~HasLane(hand.doc)
  /\ IF hand.doc \in Parses
       THEN hand' = [hand EXCEPT !.step = "captured"] /\ UNCHANGED ended
       ELSE Ends("malformed")
  /\ UNCHANGED <<vars, traffic, store, life, received, raw, file, decoded, taken>>

\* CAP: what does not parse leaves no trace but the error.
RecordAlert ==
  /\ hand.step = "taken"
  /\ ~HasLane(hand.doc)
  /\ IF hand.doc \in Parses
       THEN hand' = [hand EXCEPT !.step = "captured", !.ref = received] /\ UNCHANGED ended
       ELSE Ends("malformed")
  /\ UNCHANGED <<vars, traffic, store, life, received, raw, file, decoded, taken>>

\* The lane evicts and returns.
LaneStep == (Evict \/ Return) /\ UNCHANGED flowVars

\* The message is in the file, or there is none: what does not parse ends here.
Appended == IF hand.doc \in Parses THEN hand' = [hand EXCEPT !.step = "kept"] /\ UNCHANGED ended
            ELSE Ends("malformed")

AppendReplay ==
  /\ hand.step = "captured"
  /\ ~locked
  /\ store => hand.doc \in RecordEncodes
  /\ file' = IF store THEN Append(file, Line) ELSE file
  /\ Appended
  /\ UNCHANGED <<vars, traffic, store, life, received, raw, decoded, taken>>

\* The directory, the file or the write fails; a write may have left half a line.  A
\* record that cannot be encoded fails before the write.
AppendFails ==
  /\ hand.step = "captured"
  /\ ~locked
  /\ store
  /\ file' \in {file} \cup (IF hand.doc \in RecordEncodes THEN {Append(file, TornLine)} ELSE {})
  /\ Ends("unkept")
  /\ UNCHANGED <<vars, traffic, store, life, received, raw, decoded, taken>>

\* Fault: the decoded message is published before its line is in the file.
PublishFirst(lost) ==
  /\ hand.step \in {"captured", "kept"}
  /\ ~locked
  /\ hand.doc \in Parses
  /\ hand.doc \in PayloadEncodes
  /\ Len(decoded) < MaxPending
  /\ decoded' = IF lost THEN decoded
                ELSE Append(decoded, [life |-> life, ref |-> hand.ref, doc |-> hand.doc])
  /\ Ends("published")
  /\ UNCHANGED <<vars, traffic, store, life, received, raw, file, taken>>

\* The decoded message is encoded and published; the bus may lose it.
PublishDecoded(lost) ==
  /\ hand.step = "kept"
  /\ hand.doc \in PayloadEncodes
  /\ Len(decoded) < MaxPending
  /\ decoded' = IF lost THEN decoded
                ELSE Append(decoded, [life |-> life, ref |-> hand.ref, doc |-> hand.doc])
  /\ Ends("published")
  /\ UNCHANGED <<vars, traffic, store, life, received, raw, file, taken>>

\* It cannot be encoded, or the bus refuses it.
PublishFails ==
  /\ hand.step = "kept"
  /\ Ends("unpublished")
  /\ UNCHANGED <<vars, traffic, store, life, received, raw, file, decoded, taken>>

\* Who takes the decoded messages validates them once more.
Project ==
  /\ decoded # << >>
  /\ decoded' = Tail(decoded)
  /\ taken' = taken \cup {[of |-> Head(decoded), accepted |-> Head(decoded).doc \in Accepts]}
  /\ UNCHANGED <<vars, traffic, store, life, received, raw, hand, file, ended>>

\* The process ends, perhaps within the write of a line, and starts again: with an empty
\* lane that counts from one, and the file it left.
Restart ==
  /\ life < MaxLives
  /\ life' = life + 1
  /\ next' = 0 /\ totalBytes' = 0 /\ records' = << >> /\ locked' = FALSE
  /\ upTo' = [n \in 0 .. 0 |-> 0]
  /\ raw' = << >> /\ hand' = Idle /\ decoded' = << >>
  /\ file' \in {file} \cup (IF store /\ hand.step = "captured" /\ ~locked /\ hand.doc \in RecordEncodes
                              THEN {Append(file, Line), Append(file, TornLine)} ELSE {})
  /\ UNCHANGED <<traffic, store, received, ended, taken>>

FlowNext ==
  \/ \E d \in traffic : Arrive(d)
  \/ Take
  \/ CaptureRaw \/ RecordAlert
  \/ LaneStep
  \/ AppendReplay \/ AppendFails
  \/ \E lost \in BOOLEAN : PublishDecoded(lost)
  \/ PublishFails
  \/ Project
  \/ Restart

FlowSpec == FlowInit /\ [][FlowNext]_allVars

-----------------------------------------------------------------------------
Steps == {"idle", "taken", "captured", "kept"}
Outcomes == {"published", "unpublished", "unkept", "malformed", "oversize"}
Sources == {"cap", "adsb", "cot", "sapient"}

\* Everything has its type; the lane is at work only while a message is being captured,
\* and no message of CAP is ever in it.
FlowTypeOK ==
  /\ store \in BOOLEAN
  /\ life \in 1 .. MaxLives
  /\ received \in 0 .. MaxCaptures /\ next <= received
  /\ raw \in Seq(Documents) /\ Len(raw) <= MaxPending
  /\ hand.step \in Steps
  /\ hand # Idle => hand.doc \in Documents /\ hand.ref \in 0 .. received
  /\ locked => hand.step = "captured" /\ HasLane(hand.doc)
  /\ Len(decoded) <= MaxPending
  /\ \A e \in ended : e.as \in Outcomes

Lines == {file[i] : i \in {j \in DOMAIN file : ~file[j].torn}}
Decoded == {decoded[i] : i \in DOMAIN decoded} \cup {t.of : t \in taken}

IsLineOf(l, m) == l.life = m.life /\ l.ref = m.ref /\ l.doc = m.doc

\* With a replay store attached whatever was published is in the file, whole and under the
\* reference it was published with: the process may end at any point, and an append fail.
PublishedIsKept == store => \A m \in Decoded : \E l \in Lines : IsLineOf(l, m)

\* With a replay store attached a message that an ADS-B, CoT or SAPIENT decoder refused as
\* malformed is in the file, although nothing of it is published.
MalformedIsKept ==
  store => \A e \in ended :
    e.as = "malformed" /\ HasLane(e.doc) => \E l \in Lines : IsLineOf(l, e)

\* Within one life of the process a reference stands for one message: the lines of the
\* file are in the order of their references, and whatever was decoded under a reference
\* came from the message that the file has under it.
RefsAgree ==
  /\ \A i, j \in DOMAIN file :
       i < j /\ ~file[i].torn /\ ~file[j].torn /\ file[i].life = file[j].life =>
         file[i].ref < file[j].ref
  /\ \A m \in Decoded : \A l \in Lines : l.life = m.life /\ l.ref = m.ref => l.doc = m.doc

\* What a projector accepts is sound for the picture: what its parser lets pass (numbers
\* that are none, times out of reach) does not get through the encoding after it.
ProjectedIsSound == \A t \in taken : t.accepted => Sound(t.of.doc)

\* A snapshot without aircraft, and a SAPIENT message at Go's zero time, are published
\* although their payloads are refused.
PublishedInVain(d) ==
  \/ Feed[d] = "adsb" /\ Body[d].states.rows = << >>
  \/ Feed[d] = "sapient" /\ ClassOf(Body[d].message, "timestamp") = "zero"

\* Whatever a decoder publishes is accepted by those it is published for, two kinds of
\* messages excepted.
PublishedIsAccepted == \A t \in taken : t.accepted \/ PublishedInVain(t.of.doc)

-----------------------------------------------------------------------------
\* The references of this life go up to this one: of CAP the clock, until the message in
\* hand has been parsed, of the others the lane's.
UsedUpTo ==
  IF \E d \in traffic : ~HasLane(d)
    THEN IF hand.step = "taken" THEN received - 1 ELSE received
    ELSE next

DecodedMessage == [life : Nat, ref : Nat, doc : traffic]
WholeLine == [torn : {FALSE}, life : Nat, ref : Nat, doc : traffic]
TakenMessage == [of : DecodedMessage, accepted : BOOLEAN]

FlowTypes ==
  /\ FlowTypeOK
  /\ traffic \in Traffics
  /\ received \in Nat
  /\ raw \in Seq(traffic)
  /\ hand = Idle \/ hand \in [step : {"taken", "captured", "kept"}, doc : traffic, ref : Nat]
  /\ file \in Seq(WholeLine \cup {TornLine})
  /\ decoded \in Seq(DecodedMessage)
  /\ taken \in SUBSET TakenMessage

\* The reference in hand is the newest, and until it is in the file nobody else's.
RefInv ==
  /\ hand.step = "taken" => next < received
  /\ hand.step \in {"captured", "kept"} => hand.ref = UsedUpTo
  /\ \A u \in Lines \cup Decoded :
       /\ u.life <= life
       /\ u.life = life => u.ref <= UsedUpTo
       /\ u.life = life /\ hand.step = "captured" => u.ref < hand.ref
  /\ \A m \in Decoded : m.life = life /\ hand.step = "kept" => m.ref < hand.ref
  /\ \A l \in Lines : l.life = life /\ hand.step = "kept" /\ l.ref = hand.ref => l.doc = hand.doc

\* What is about to be published is in the file, was parsed, and whatever was published
\* could be encoded.
KeptInv ==
  /\ hand.step = "kept" =>
       /\ hand.doc \in Parses
       /\ store => \E l \in Lines : l.life = life /\ l.ref = hand.ref /\ l.doc = hand.doc
  /\ \A m \in Decoded : m.doc \in Parses /\ m.doc \in PayloadEncodes
  /\ \A t \in taken : t.accepted = (t.of.doc \in Accepts)

\* The inductive invariant of FeedFlowProofs, beside the lane's.
FlowInv ==
  /\ IInv /\ FlowTypes /\ RefInv /\ KeptInv
  /\ PublishedIsKept /\ MalformedIsKept /\ RefsAgree
=============================================================================
