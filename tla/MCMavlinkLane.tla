---------------------------- MODULE MCMavlinkLane ----------------------------
(* Short frames for TLC, two of whose byte values start a frame.  Each of   *)
(* the two frames has a checksum of its own.  Two prefixes of what damage   *)
(* and frames make have one that the next frame happens to supply, the     *)
(* second behind the first in one datagram; all others have one that is    *)
(* never sent.                                                              *)
EXTENDS MavlinkLane

MCByte == 0 .. 6

MCChecksum(b) ==
  CASE b = <<1, 0>> -> <<4>>
    [] b = <<2, 2, 0, 2, 1>> -> <<5>>
    [] b = <<1, 3, 1, 0, 4>> -> <<2>>
    [] b = <<2, 0, 2>> -> <<1>>
    [] OTHER -> <<6>>

Heartbeat == <<1, 0, 4>>

\* Version 2, with both start bytes in its payload.
Position == <<2, 2, 0, 2, 1, 5>>

MCFrames == {Heartbeat, Position}

\* The read buffer holds all of these but the last, which is cut inside Position.
MCMaxDatagramBytes == 7

MCDatagrams ==
  {Heartbeat, Position,
   <<0>>,                                          \* no start byte
   <<1, 3>>,                                       \* a start byte that starts nothing
   <<1, 0, 5>>,                                    \* a damaged heartbeat
   SubSeq(Position, 1, 4), SubSeq(Position, 5, 6),
   Heartbeat \o Heartbeat,
   Heartbeat \o Position}
=============================================================================
