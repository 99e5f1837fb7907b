----------------------------- MODULE MavlinkLane -----------------------------
(***************************************************************************)
(* MAVLink datagrams on their way through the hosted components: the UDP   *)
(* input publishes what it reads, the decoder parses it and publishes the  *)
(* datagram again under the header of the packet it found, and the         *)
(* projector parses the published datagram a second time.                  *)
(*                                                                         *)
(* Decoder and projector each keep one stream parser for all datagrams, so *)
(* what a datagram leaves behind is in front of the next one.  Both insist *)
(* on exactly one packet per datagram.  The two subjects deliver in order  *)
(* and may lose a message.                                                 *)
(***************************************************************************)
EXTENDS MavlinkFraming, SequencesExt

CONSTANTS
  Frames,            \* the frames that vehicles send
  Datagrams,         \* the datagrams that reach the socket
  MaxDatagramBytes,  \* 4096 by default in the code
  MaxQueue,          \* bound: messages under way on each subject
  MaxDatagrams       \* bound: datagrams of one behaviour

\* b is one frame, whole and with the checksum of its bytes.
IsFrame(b) ==
  /\ b # << >> /\ b[1] \in {STXV1, STXV2}
  /\ Complete(b) /\ Len(b) = TotalLength(b)
  /\ ChecksumMatches(b)

ASSUME LaneAssumption ==
  /\ Frames \subseteq Seq(Byte) /\ \A f \in Frames : IsFrame(f)
  /\ Datagrams \subseteq Seq(Byte) \ {<< >>}
  /\ {MaxDatagramBytes, MaxQueue, MaxDatagrams} \subseteq Nat \ {0}

VARIABLES
  raw,         \* raw subject: datagrams for the decoder
  decoded,     \* decoded subject: for the projector
  decoderHeld,   \* the buffer of the decoder's parser
  projectorHeld, \* the buffer of the projector's parser
  handled,     \* history: the bytes of the datagrams the decoder has handled
  projected,   \* history: packets projected, with the message they are projected for
  refusals,    \* history: messages the projector refused
  gap,         \* history: a datagram or message never reached the projector
  missed,      \* history: bytes of the frames in one datagram each that the decoder
               \*   refused since it last accepted one or read another datagram
  overlap,     \* history: since then, what was left over and the beginning of such a frame
               \*   came to pass for a frame
  received     \* history: datagrams read from the socket

laneVars == <<raw, decoded, decoderHeld, projectorHeld, handled, projected, refusals, gap,
              missed, overlap, received>>

\* A decoded message: a datagram and the header of the packet the decoder found.
Message == [frame : Seq(Byte) \ {<< >>}, packet : Seq(Byte)]

LaneInit ==
  /\ raw = << >> /\ decoded = << >>
  /\ decoderHeld = << >> /\ projectorHeld = << >>
  /\ handled = << >> /\ projected = << >>
  /\ refusals = 0 /\ missed = 0 /\ received = 0
  /\ gap = FALSE /\ overlap = FALSE

\* Fault: the last byte that was read is left out.
ReadShort(d) == SubSeq(d, 1, Min({Len(d) - 1, MaxDatagramBytes}))

\* The socket cuts a datagram that is longer than the read buffer.
Read(d) == SubSeq(d, 1, Min({Len(d), MaxDatagramBytes}))

Receive(d) ==
  /\ received < MaxDatagrams
  /\ Len(raw) < MaxQueue
  /\ raw' = Append(raw, Read(d))
  /\ received' = received + 1
  /\ UNCHANGED <<decoded, decoderHeld, projectorHeld, handled, projected, refusals, gap, missed,
                 overlap>>

\* A call of Parse with frame on a parser whose buffer holds held: the packets it
\* returns and what the buffer holds afterwards.
Parse(held, frame) ==
  LET p == Parsed[held \o frame]
  IN [packets |-> p.frames,
      held |-> IF Len(p.rest) > MaxBufferedBytes THEN << >> ELSE p.rest]

\* By accident, a frame begins in held and ends inside of frame.
Overlaps(held, frame) ==
  \E i \in 1 .. Len(held), k \in 1 .. Len(frame) - 1 :
    IsFrame(SubSeq(held \o frame, i, Len(held) + k))

\* The decoder handles the head of the raw subject with the packets it finds and
\* the bytes it keeps: it refuses it unless it completes exactly one packet.
Answer(packets, held) ==
  LET frame == Head(raw)
      one == Len(packets) = 1
  IN /\ Len(decoded) < MaxQueue
     /\ raw' = Tail(raw)
     /\ decoderHeld' = held
     /\ handled' = handled \o frame
     /\ decoded' = IF one THEN Append(decoded, [frame |-> frame, packet |-> packets[1]]) ELSE decoded
     /\ gap' = (gap \/ ~one)
     /\ missed' = IF frame \in Frames /\ ~one THEN missed + Len(frame) ELSE 0
     /\ overlap' = (missed' > 0 /\ (overlap \/ Overlaps(decoderHeld, frame)))
     /\ UNCHANGED <<projectorHeld, projected, refusals, received>>

\* Fault: the decoder keeps the bytes of a datagram that it refuses.
DecodeKeeps ==
  /\ raw # << >>
  /\ LET p == Parse(decoderHeld, Head(raw))
     IN Answer(p.packets,
               IF Len(p.packets) = 1 THEN p.held ELSE decoderHeld \o Head(raw))

Decode ==
  /\ raw # << >>
  /\ LET p == Parse(decoderHeld, Head(raw)) IN Answer(p.packets, p.held)

\* The projector handles a message with the packets it finds and the bytes it
\* keeps: the packet goes by the reference and time of its message.
Handle(m, packets, held) ==
  /\ decoded' = Tail(decoded)
  /\ projectorHeld' = held
  /\ projected' = IF Len(packets) = 1
                  THEN Append(projected, [packet |-> packets[1], message |-> m])
                  ELSE projected
  /\ refusals' = refusals + IF Len(packets) = 1 THEN 0 ELSE 1
  /\ UNCHANGED <<raw, decoderHeld, handled, gap, missed, overlap, received>>

\* Fault: the projector does not take off its buffer what it has read.
ProjectAgain ==
  /\ decoded # << >>
  /\ LET m == Head(decoded)
         p == Parse(projectorHeld, m.frame)
     IN Handle(m, IF p.packets = << >> THEN << >> ELSE <<Head(p.packets)>>,
               projectorHeld \o m.frame)

\* Fault: the projector parses every message with a parser of its own.
ProjectAlone ==
  /\ decoded # << >>
  /\ LET m == Head(decoded)
     IN Handle(m, Parse(<< >>, m.frame).packets, << >>)

Project ==
  /\ decoded # << >>
  /\ LET m == Head(decoded)
         p == Parse(projectorHeld, m.frame)
     IN Handle(m, p.packets, p.held)

\* Publishing fails, or the subscriber is not served.
LoseRaw ==
  /\ raw # << >>
  /\ raw' = Tail(raw)
  /\ UNCHANGED <<decoded, decoderHeld, projectorHeld, handled, projected, refusals, gap,
                 missed, overlap, received>>

LoseDecoded ==
  /\ decoded # << >>
  /\ decoded' = Tail(decoded)
  /\ gap' = TRUE
  /\ UNCHANGED <<raw, decoderHeld, projectorHeld, handled, projected, refusals, missed, overlap,
                 received>>

LaneNext ==
  \/ \E d \in Datagrams : Receive(d)
  \/ Decode \/ Project \/ LoseRaw \/ LoseDecoded

LaneSpec == LaneInit /\ [][LaneNext]_laneVars

-----------------------------------------------------------------------------
(* Properties                                                              *)

\* The types of the variables; no message is empty, which is what Validate asks.
LaneTypeOK ==
  /\ raw \in Seq(Seq(Byte) \ {<< >>}) /\ decoded \in Seq(Message)
  /\ decoderHeld \in Seq(Byte) /\ projectorHeld \in Seq(Byte) /\ handled \in Seq(Byte)
  /\ projected \in Seq([packet : Seq(Byte), message : Message])
  /\ refusals \in Nat /\ missed \in Nat /\ received \in 0 .. MaxDatagrams
  /\ gap \in BOOLEAN /\ overlap \in BOOLEAN

\* The place of the first b in stream after place `from`.
NextPlace(stream, from, b) ==
  LET places == {k \in from + 1 .. Len(stream) : stream[k] = b}
  IN IF places = {} THEN Len(stream) + 1 ELSE Min(places)

\* The places of bytes in stream, each the first behind the one before.
Places(stream, bytes) ==
  LET place[i \in 0 .. Len(bytes)] ==
        IF i = 0 THEN 0 ELSE NextPlace(stream, place[i - 1], bytes[i])
  IN place

\* The bytes of all packets projected, end to end.
Output == FlattenSeq([i \in DOMAIN projected |-> projected[i].packet])

\* Whatever is corrupted, cut or lost on the way, every packet projected is a frame
\* with its own checksum, and the bytes of all packets projected, end to end, are
\* found in that order among the bytes received: no byte is projected twice or early,
\* so no packet is (HandleRawPayload and Packet parse the same datagrams with two
\* parsers, of which the second does not see them all).
ProjectedOnceInOrder ==
  /\ \A i \in DOMAIN projected : IsFrame(projected[i].packet)
  /\ Places(handled, Output)[Len(Output)] <= Len(handled)

\* As long as the decoder has refused no datagram and no decoded message was lost,
\* the projector's parser follows the decoder's, also over frames that are cut in
\* two: it refuses nothing and projects under each message the packet that the
\* message names (Packet sets the reference and time of the message).
InStep ==
  ~gap => /\ refusals = 0
          /\ \A i \in DOMAIN projected : projected[i].packet = projected[i].message.packet

\* What a damaged datagram leaves behind costs a bounded number of the whole frames
\* that follow: fewer bytes than the longest frame announces, and the datagram that
\* completes them (Parse gives up a wrong start byte once its frame is complete).
\* Only an accident, leftovers that pass for a frame together with the beginning of
\* one that was sent, leaves new leftovers behind.
Recovers ==
  missed > 0 /\ ~overlap =>
    \E longest \in Byte, f \in Frames :
      missed < HeaderSizeV2 + longest + ChecksumSize + SignatureSize + Len(f)

\* governed-feed-fusion/spec.md:168-171: "WHEN a QA, provenance, or replay workflow needs
\* the native payload THEN the governed projection includes a cop.provenance.source_ref":
\* the raw record that a projected packet refers to holds that packet.
ReferenceHoldsPacket ==
  \A i \in DOMAIN projected :
    projected[i].packet \in SubSeqs(projected[i].message.frame)
=============================================================================
