--------------------------- MODULE MCMavlinkParser ---------------------------
(* Short frames for TLC: headers of two and three bytes, a checksum and a    *)
(* signature of one byte each, and four byte values, two of which start a    *)
(* frame and are lengths and checksums as well.                              *)
EXTENDS MavlinkParser, Folds

MCByte == 0 .. 3

\* The sum of the bytes after the start byte, kept to one byte.
MCChecksum(b) == <<MapThenFoldSet(+, 0, LAMBDA i : b[i], LAMBDA S : CHOOSE i \in S : TRUE, 2 .. Len(b)) % 4>>
=============================================================================
