--------------------------- MODULE MavlinkFraming ---------------------------
(***************************************************************************)
(* MAVLink frames in a buffer of bytes (pkg/adapters/mavlink/parser.go).   *)
(*                                                                         *)
(* A frame starts with one of two start bytes, which decide the length of  *)
(* its header; the second byte is the length of the payload, which a       *)
(* checksum and, if the third byte of a version 2 frame says so, a         *)
(* signature follow.  Start bytes are ordinary values anywhere else, so a   *)
(* frame is found only by trying.                                          *)
(*                                                                         *)
(* The sizes and the checksum are parameters: the models use short frames. *)
(***************************************************************************)
EXTENDS Integers, Sequences, FiniteSetsExt

CONSTANTS
  Byte,                        \* 0 .. 255 in the code
  STXV1, STXV2,                \* the start bytes
  HeaderSizeV1, HeaderSizeV2,  \* 6 and 10 in the code
  ChecksumSize,                \* 2 in the code
  SignatureSize,               \* 13 in the code
  Checksum(_),                 \* of the bytes before it: the start byte only says
                               \*   which of them are the message id, whose extra it takes
  MaxBufferedBytes             \* 4096 in the code

ASSUME ByteAssumption ==
  /\ Byte \subseteq Nat
  /\ STXV1 \in Byte /\ STXV2 \in Byte /\ STXV1 # STXV2

\* Each header holds the fields that are read from it: the length, and the
\* flags of version 2.
ASSUME SizeAssumption ==
  /\ HeaderSizeV1 \in Nat /\ HeaderSizeV1 >= 2
  /\ HeaderSizeV2 \in Nat /\ HeaderSizeV2 >= 3
  /\ HeaderSizeV1 <= HeaderSizeV2
  /\ ChecksumSize \in Nat /\ SignatureSize \in Nat /\ MaxBufferedBytes \in Nat

\* The longest frame fits in the buffer.
ASSUME LimitAssumption ==
  \A longest \in Byte :
    HeaderSizeV2 + longest + ChecksumSize + SignatureSize <= MaxBufferedBytes

-----------------------------------------------------------------------------
\* What is left of b without its first n bytes.
Drop(b, n) == SubSeq(b, n + 1, Len(b))

Syncs(b) == {i \in DOMAIN b : b[i] \in {STXV1, STXV2}}

\* The bytes in front of the first start byte, none being there counts all.
SyncOffset(b) == IF Syncs(b) = {} THEN Len(b) ELSE Min(Syncs(b)) - 1

HeaderSize(b) == IF b[1] = STXV1 THEN HeaderSizeV1 ELSE HeaderSizeV2

\* incompatFlags & 0x01
Signed(b) == b[1] = STXV2 /\ b[3] % 2 = 1

ChecksumOffset(b) == HeaderSize(b) + b[2]

TotalLength(b) ==
  ChecksumOffset(b) + ChecksumSize + IF Signed(b) THEN SignatureSize ELSE 0

\* Of a buffer that starts with a start byte: the frame that it announces is there.
Complete(b) == Len(b) >= HeaderSize(b) /\ Len(b) >= TotalLength(b)

ChecksumMatches(b) ==
  SubSeq(b, ChecksumOffset(b) + 1, ChecksumOffset(b) + ChecksumSize)
    = Checksum(SubSeq(b, 1, ChecksumOffset(b)))

Frame(b) == SubSeq(b, 1, TotalLength(b))

\* What a parser does with the bytes b in its buffer, as a function of b: the
\* frames it finds, how many bytes it passes over, how many of those for a
\* checksum, and the bytes it keeps for the next call.
Parsed[b \in Seq(Byte)] ==
  LET r == Drop(b, SyncOffset(b))
      after(n, frames, passed, mismatches) ==
        LET later == Parsed[Drop(r, n)]
        IN [frames |-> frames \o later.frames,
            passed |-> SyncOffset(b) + passed + later.passed,
            mismatches |-> mismatches + later.mismatches,
            rest |-> later.rest]
  IN IF r = << >> \/ ~Complete(r)
       THEN [frames |-> << >>, passed |-> SyncOffset(b), mismatches |-> 0, rest |-> r]
     ELSE IF ChecksumMatches(r) THEN after(TotalLength(r), <<Frame(r)>>, 0, 0)
     ELSE after(1, << >>, 1, 1)
=============================================================================
