---------------------------- MODULE MavlinkParser ----------------------------
(***************************************************************************)
(* The stream parser of the MAVLink codec (parser.go, Parse).              *)
(*                                                                         *)
(* A call appends its data to the buffer and then loops: it passes over    *)
(* what cannot start a frame, waits when the frame the buffer starts with  *)
(* is incomplete, gives up one byte when its checksum is wrong, and takes  *)
(* it otherwise.  What is left stays in the buffer for the next call.      *)
(*                                                                         *)
(* Every pass of the loop is a step.  Nothing runs beside a call: each     *)
(* parser belongs to the one goroutine of its subscription or listener.    *)
(***************************************************************************)
EXTENDS MavlinkFraming

CONSTANTS
  MaxChunk,    \* bound: bytes of one call
  MaxStream    \* bound: bytes of all calls

ASSUME BoundAssumption == MaxChunk \in Nat /\ MaxStream \in Nat

VARIABLES
  buffer,     \* bytes not yet decided
  calling,    \* a call is in its loop
  packets,    \* the frames the running, or the last, call has found
  stats,      \* the parser's counters
  stream,     \* history: the bytes of all calls
  frames,     \* history: every frame found, with the bytes of the stream before it
  framed      \* history: the length of all frames found together

vars == <<buffer, calling, packets, stats, stream, frames, framed>>

Init ==
  /\ buffer = << >>
  /\ calling = FALSE
  /\ packets = << >>
  /\ stats = [total |-> 0, valid |-> 0, invalid |-> 0, checksum |-> 0]
  /\ stream = << >>
  /\ frames = << >>
  /\ framed = 0

Call(data) ==
  /\ ~calling
  /\ Len(stream) + Len(data) <= MaxStream
  /\ calling' = TRUE
  /\ buffer' = buffer \o data
  /\ stream' = stream \o data
  /\ packets' = << >>
  /\ UNCHANGED <<stats, frames, framed>>

\* The call returns with rest in the buffer, emptied when it is too long.
Return(rest, passed) ==
  LET overflow == IF Len(rest) > MaxBufferedBytes THEN Len(rest) ELSE 0
  IN /\ calling' = FALSE
     /\ buffer' = Drop(rest, overflow)
     /\ stats' = [stats EXCEPT !.invalid = @ + passed + overflow,
                               !.total = @ + Len(packets)]
     /\ UNCHANGED <<packets, stream, frames, framed>>

\* Fault: the bytes of a buffer without a start byte are not counted.
NoSyncUncounted == calling /\ Syncs(buffer) = {} /\ Return(<< >>, 0)

\* Nothing in the buffer can start a frame.
NoSync ==
  /\ calling
  /\ Syncs(buffer) = {}
  /\ Return(<< >>, Len(buffer))

Resync ==
  /\ calling
  /\ Syncs(buffer) # {}
  /\ SyncOffset(buffer) > 0
  /\ buffer' = Drop(buffer, SyncOffset(buffer))
  /\ stats' = [stats EXCEPT !.invalid = @ + SyncOffset(buffer)]
  /\ UNCHANGED <<calling, packets, stream, frames, framed>>

Synced == calling /\ Syncs(buffer) # {} /\ SyncOffset(buffer) = 0

Incomplete ==
  /\ Synced
  /\ ~Complete(buffer)
  /\ Return(buffer, 0)

\* Fault: a frame with a wrong checksum is passed over as a whole.
MismatchSkipsFrame ==
  /\ Synced
  /\ Complete(buffer)
  /\ ~ChecksumMatches(buffer)
  /\ buffer' = Drop(buffer, TotalLength(buffer))
  /\ stats' = [stats EXCEPT !.invalid = @ + 1, !.checksum = @ + 1]
  /\ UNCHANGED <<calling, packets, stream, frames, framed>>

Mismatch ==
  /\ Synced
  /\ Complete(buffer)
  /\ ~ChecksumMatches(buffer)
  /\ buffer' = Drop(buffer, 1)
  /\ stats' = [stats EXCEPT !.invalid = @ + 1, !.checksum = @ + 1]
  /\ UNCHANGED <<calling, packets, stream, frames, framed>>

\* The frame the buffer starts with is found; the buffer continues at rest.
Found(rest) ==
  /\ Synced
  /\ Complete(buffer)
  /\ ChecksumMatches(buffer)
  /\ packets' = Append(packets, Frame(buffer))
  /\ frames' = Append(frames, [at |-> Len(stream) - Len(buffer), bytes |-> Frame(buffer)])
  /\ framed' = framed + TotalLength(buffer)
  /\ buffer' = rest
  /\ UNCHANGED stream

\* Fault: the signature of a frame stays in the buffer.
TakeUnsigned ==
  /\ Found(Drop(buffer, ChecksumOffset(buffer) + ChecksumSize))
  /\ stats' = [stats EXCEPT !.valid = @ + 1]
  /\ UNCHANGED calling

Take ==
  /\ Found(Drop(buffer, TotalLength(buffer)))
  /\ stats' = [stats EXCEPT !.valid = @ + 1]
  /\ UNCHANGED calling

Chunks == UNION {[1 .. n -> Byte] : n \in 0 .. MaxChunk}

Next ==
  \/ \E data \in Chunks : Call(data)
  \/ NoSync \/ Resync \/ Incomplete \/ Mismatch \/ Take

Spec == Init /\ [][Next]_vars

-----------------------------------------------------------------------------
(* Properties                                                              *)

\* The types of the variables; the counters count.
TypeOK ==
  /\ buffer \in Seq(Byte)
  /\ calling \in BOOLEAN
  /\ packets \in Seq(Seq(Byte))
  /\ stats \in [total : Nat, valid : Nat, invalid : Nat, checksum : Nat]
  /\ stream \in Seq(Byte)
  /\ frames \in Seq([at : Nat, bytes : Seq(Byte)])
  /\ framed \in Nat

\* No byte is lost, read twice or counted twice: after any number of calls,
\* cut wherever the transport cut them, every byte ever received is in a frame
\* that was found, counted as invalid, or still in the buffer (Parse: the
\* counter moves by what each branch takes off the buffer).
BytesAccounted == Len(stream) = framed + stats.invalid + Len(buffer)

\* The buffer is the end of the stream: what is left of earlier datagrams is
\* followed by the later ones without a gap (Parse: append, then only prefixes
\* are taken off).
BufferIsTail ==
  \A k \in DOMAIN buffer : buffer[k] = stream[Len(stream) - Len(buffer) + k]

\* Between two calls the buffer is empty or starts with a frame that is really
\* incomplete: no call returns while it could still find a frame or resynchronise
\* (Parse: the loop ends only on no start byte or an incomplete frame).
HeldIsIncomplete ==
  ~calling => buffer = << >> \/ (buffer[1] \in {STXV1, STXV2} /\ ~Complete(buffer))

\* The limit on the buffer is never what empties it: a call that ends with an
\* incomplete frame holds less than one longest frame, which the limit admits
\* (Parse: maxBufferedBytes is 4096, a frame has at most 280 bytes).
NoOverflow == Synced /\ ~Complete(buffer) => Len(buffer) <= MaxBufferedBytes

\* How the stream is cut into calls does not matter: between two calls, the
\* frames found so far, the counters and the buffer are what one call with
\* the whole stream would have left, whatever start bytes lie inside frames or
\* between them (TestParserHandlesSplitBuffers tries one cut of one frame).
CutsDoNotMatter ==
  ~calling =>
    LET whole == Parsed[stream]
    IN /\ [i \in DOMAIN frames |-> frames[i].bytes] = whole.frames
       /\ stats.invalid = whole.passed
       /\ stats.checksum = whole.mismatches
       /\ buffer = whole.rest

\* Frames are found in the order of the stream, do not overlap, and are bytes of
\* the stream: a resynchronisation inside a frame never finds it a second time.
InStreamOrder ==
  /\ \A i \in DOMAIN frames : \A k \in DOMAIN frames[i].bytes :
       frames[i].bytes[k] = stream[frames[i].at + k]
  /\ \A i, j \in DOMAIN frames :
       i < j => frames[i].at + Len(frames[i].bytes) <= frames[j].at
=============================================================================
