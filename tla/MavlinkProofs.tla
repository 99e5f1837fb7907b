---------------------------- MODULE MavlinkProofs ----------------------------
(***************************************************************************)
(* The MAVLink stream parser, for every frame layout, every checksum and   *)
(* every way the transport cuts the stream; and the two parsers that the   *)
(* datagrams pass one after the other, for all datagrams: that the second  *)
(* follows the first, that damage costs a bounded number of frames, and    *)
(* that every packet comes out once and in order.                          *)
(***************************************************************************)
EXTENDS MavlinkParser, MavlinkLane, SequenceTheorems, WellFoundedInduction, TLAPS

\* A non-empty set of naturals has a least element, the one Min chooses.
LEMMA MinExists ==
  ASSUME NEW T, T \subseteq Nat, T # {}
  PROVE  Min(T) \in T /\ \A j \in T : Min(T) <= j
<1> DEFINE R == OpToRel(<, Nat)
<1>1. IsWellFoundedOn(R, Nat)
  BY NatLessThanWellFounded
<1>2. \A x, y \in Nat : y < x => <<y, x>> \in R
  BY DEF OpToRel
<1> HIDE DEF R
<1>3. PICK x \in T : \A y \in T : ~ (<<y, x>> \in R)
  BY <1>1, WFMin
<1>4. ASSUME NEW y \in T PROVE x <= y
  <2>1. x \in Nat /\ y \in Nat
    OBVIOUS
  <2>2. ~ (y < x)
    BY <1>2, <1>3, <2>1
  <2> QED
    BY <2>1, <2>2
<1> QED
  BY <1>4 DEF Min

\* Sums and differences of lengths, apart from the sequences they are the lengths of.
LEMMA Within ==
  ASSUME NEW at \in Nat, NEW l \in Nat, NEW k \in 1 .. l,
         NEW s \in Nat, NEW h \in Nat, NEW d \in Nat, at + l <= s - h
  PROVE  at + k \in 1 .. s + d /\ at + k <= s
  OBVIOUS

LEMMA Balance ==
  ASSUME NEW f \in Nat, NEW i \in Nat, NEW l \in Nat, NEW n \in Nat
  PROVE  f + i + l = f + (i + n) + (l - n)
  OBVIOUS

LEMMA Regroup ==
  ASSUME NEW n \in Nat, NEW o \in Nat, NEW l \in Nat, NEW k \in 1 .. l - n - o
  PROVE  /\ o + k \in 1 .. l - n
         /\ n + (o + k) = n + o + k
         /\ k \in 1 .. l - (n + o)
  OBVIOUS

\* What is left of a sequence is a sequence, as much shorter.
LEMMA DropProperties ==
  ASSUME NEW S, NEW b \in Seq(S), NEW n \in 0 .. Len(b)
  PROVE  /\ Drop(b, n) \in Seq(S)
         /\ Len(Drop(b, n)) = Len(b) - n
         /\ \A k \in 1 .. Len(b) - n : Drop(b, n)[k] = b[n + k]
<1>1. Len(b) \in Nat /\ n + 1 \in 1 .. Len(b) + 1
  BY LenProperties
<1> QED
  BY <1>1, SubSeqProperties DEF Drop

\* The offset of the first start byte lies in the buffer if there is one.
LEMMA SyncProperties ==
  ASSUME NEW b \in Seq(Byte), Syncs(b) # {}
  PROVE  /\ SyncOffset(b) \in 0 .. Len(b) - 1
         /\ b[SyncOffset(b) + 1] \in {STXV1, STXV2}
<1>1. Len(b) \in Nat /\ DOMAIN b = 1 .. Len(b)
  BY LenProperties
<1>2. Syncs(b) \subseteq 1 .. Len(b)
  BY <1>1 DEF Syncs
<1>3. Min(Syncs(b)) \in Syncs(b)
  BY <1>2, MinExists
<1> QED
  BY <1>1, <1>2, <1>3 DEF SyncOffset, Syncs

\* A complete frame is a non-empty prefix of the buffer.
LEMMA FrameProperties ==
  ASSUME NEW b \in Seq(Byte), Complete(b), b # << >>
  PROVE  /\ TotalLength(b) \in 1 .. Len(b)
         /\ Frame(b) \in Seq(Byte)
         /\ Len(Frame(b)) = TotalLength(b)
         /\ \A k \in 1 .. TotalLength(b) : Frame(b)[k] = b[k]
<1> USE ByteAssumption, SizeAssumption
<1>1. Len(b) \in Nat /\ \A k \in 1 .. Len(b) : b[k] \in Byte
  BY LenProperties
<1>2. HeaderSize(b) \in Nat /\ HeaderSize(b) >= 2
  BY DEF HeaderSize
<1>3. b[2] \in Nat
  <2>1. Len(b) >= HeaderSize(b)
    BY DEF Complete
  <2>2. 2 \in 1 .. Len(b)
    BY <1>1, <1>2, <2>1
  <2> QED
    BY <1>1, <2>2
<1>4. TotalLength(b) \in Nat /\ TotalLength(b) >= 2
  <2>1. ChecksumOffset(b) \in Nat /\ ChecksumOffset(b) >= 2
    BY <1>2, <1>3 DEF ChecksumOffset
  <2>2. (IF Signed(b) THEN SignatureSize ELSE 0) \in Nat
    OBVIOUS
  <2> QED
    BY <2>1, <2>2 DEF TotalLength
<1>5. TotalLength(b) \in 1 .. Len(b)
  BY <1>1, <1>4 DEF Complete
<1> QED
  BY <1>1, <1>5, SubSeqProperties DEF Frame

-----------------------------------------------------------------------------
\* The frames found so far end before the buffer begins.
Behind ==
  \A i \in DOMAIN frames :
    frames[i].at + Len(frames[i].bytes) <= Len(stream) - Len(buffer)

IInv ==
  /\ TypeOK
  /\ BytesAccounted
  /\ BufferIsTail
  /\ HeldIsIncomplete
  /\ InStreamOrder
  /\ Behind

LEMMA InitInv == Init => IInv
<1> SUFFICES ASSUME Init PROVE IInv
  OBVIOUS
<1>1. /\ buffer = << >> /\ stream = << >> /\ frames = << >> /\ packets = << >>
      /\ DOMAIN frames = {} /\ DOMAIN buffer = {} /\ Len(buffer) = 0 /\ Len(stream) = 0
  BY DEF Init
<1>2. TypeOK
  <2>1. stats \in [total : Nat, valid : Nat, invalid : Nat, checksum : Nat]
    BY DEF Init
  <2>2. << >> \in Seq(Byte) /\ << >> \in Seq(Seq(Byte))
        /\ << >> \in Seq([at : Nat, bytes : Seq(Byte)])
    BY EmptySeq
  <2> QED
    BY <1>1, <2>1, <2>2 DEF Init, TypeOK
<1>3. BytesAccounted
  BY <1>1 DEF Init, BytesAccounted
<1>4. BufferIsTail /\ HeldIsIncomplete /\ InStreamOrder /\ Behind
  BY <1>1 DEF BufferIsTail, HeldIsIncomplete, InStreamOrder, Behind
<1> QED
  BY <1>2, <1>3, <1>4 DEF IInv

\* Taking n bytes off the buffer, the frames and the stream unchanged, keeps the
\* buffer the end of the stream and the frames in front of it.
LEMMA DropKeeps ==
  ASSUME IInv, NEW n \in 0 .. Len(buffer), buffer' = Drop(buffer, n),
         UNCHANGED <<stream, frames>>
  PROVE  /\ buffer' \in Seq(Byte)
         /\ Len(buffer') = Len(buffer) - n
         /\ BufferIsTail' /\ InStreamOrder' /\ Behind'
<1>1. buffer \in Seq(Byte) /\ stream \in Seq(Byte) /\ frames \in Seq([at : Nat, bytes : Seq(Byte)])
  BY DEF IInv, TypeOK
<1>2. /\ Len(buffer) \in Nat /\ DOMAIN buffer = 1 .. Len(buffer)
      /\ Len(stream) \in Nat /\ DOMAIN frames = 1 .. Len(frames)
  BY <1>1, LenProperties
<1>3. /\ buffer' \in Seq(Byte) /\ Len(buffer') = Len(buffer) - n
      /\ \A k \in 1 .. Len(buffer) - n : buffer'[k] = buffer[n + k]
  BY <1>1, DropProperties
<1>4. BufferIsTail'
  <2> SUFFICES ASSUME NEW k \in 1 .. Len(buffer')
               PROVE  buffer'[k] = stream[Len(stream) - Len(buffer') + k]
    BY <1>3, LenProperties DEF BufferIsTail
  <2>1. n + k \in 1 .. Len(buffer) /\ buffer'[k] = buffer[n + k]
    BY <1>2, <1>3
  <2>2. buffer[n + k] = stream[Len(stream) - Len(buffer) + (n + k)]
    BY <1>2, <2>1 DEF IInv, BufferIsTail
  <2>3. Len(stream) - Len(buffer) + (n + k) = Len(stream) - Len(buffer') + k
    BY <1>2, <1>3
  <2> QED
    BY <2>1, <2>2, <2>3
<1>5. InStreamOrder'
  BY DEF IInv, InStreamOrder
<1>6. Behind'
  <2> SUFFICES ASSUME NEW i \in DOMAIN frames
               PROVE  frames[i].at + Len(frames[i].bytes) <= Len(stream) - Len(buffer')
    BY DEF Behind
  <2>1. frames[i] \in [at : Nat, bytes : Seq(Byte)]
    BY <1>1, <1>2, ElementOfSeq
  <2>3. frames[i].at \in Nat /\ Len(frames[i].bytes) \in Nat
    BY <2>1, LenProperties
  <2>2. frames[i].at + Len(frames[i].bytes) <= Len(stream) - Len(buffer)
    BY DEF IInv, Behind
  <2> QED
    BY <1>2, <1>3, <2>2, <2>3, SMTT(30)
<1> QED
  BY <1>3, <1>4, <1>5, <1>6

\* The end of a call: an empty buffer, or an incomplete frame at its start.
LEMMA ReturnInv ==
  ASSUME IInv, calling,
         NEW n \in 0 .. Len(buffer),
         Drop(buffer, n) = << >> \/ (Synced /\ ~Complete(buffer) /\ n = 0),
         Return(Drop(buffer, n), n)
  PROVE  IInv'
<1> DEFINE rest == Drop(buffer, n)
           overflow == IF Len(rest) > MaxBufferedBytes THEN Len(rest) ELSE 0
<1> USE SizeAssumption
<1>1. buffer \in Seq(Byte) /\ Len(buffer) \in Nat /\ DOMAIN buffer = 1 .. Len(buffer)
      /\ stats \in [total : Nat, valid : Nat, invalid : Nat, checksum : Nat]
      /\ Len(packets) \in Nat
  BY LenProperties, SMTT(30) DEF IInv, TypeOK
<1>2. rest \in Seq(Byte) /\ Len(rest) = Len(buffer) - n
      /\ \A k \in 1 .. Len(buffer) - n : rest[k] = buffer[n + k]
  BY <1>1, DropProperties
<1>3. overflow \in 0 .. Len(rest) /\ n + overflow \in 0 .. Len(buffer)
  BY <1>1, <1>2
<1>4. buffer' = Drop(rest, overflow) /\ UNCHANGED <<packets, stream, frames, framed>>
      /\ calling' = FALSE
      /\ stats' = [stats EXCEPT !.invalid = @ + n + overflow, !.total = @ + Len(packets)]
  BY DEF Return
<1>a. overflow = 0 \/ overflow = Len(rest)
  OBVIOUS
<1>b. overflow \in Nat /\ n \in Nat /\ Len(rest) \in Nat
  BY <1>1, <1>2, <1>3
<1> HIDE DEF overflow, rest
<1>5. buffer' = Drop(buffer, n + overflow)
  <2> DEFINE whole == Drop(buffer, n + overflow)
  <2>1. /\ buffer' \in Seq(Byte) /\ Len(buffer') = Len(buffer) - n - overflow
        /\ \A k \in 1 .. Len(buffer) - n - overflow : buffer'[k] = rest[overflow + k]
    <3>1. buffer' \in Seq(Byte) /\ Len(buffer') = Len(rest) - overflow
          /\ \A k \in 1 .. Len(rest) - overflow : buffer'[k] = rest[overflow + k]
      <4>1. rest \in Seq(Byte) /\ overflow \in 0 .. Len(rest) /\ buffer' = Drop(rest, overflow)
        BY <1>2, <1>3, <1>4
      <4> QED
        BY <4>1, DropProperties
    <3>2. Len(rest) - overflow = Len(buffer) - n - overflow
      BY <1>2
    <3> QED
      BY <3>1, <3>2
  <2>2. /\ whole \in Seq(Byte) /\ Len(whole) = Len(buffer) - (n + overflow)
        /\ \A k \in 1 .. Len(buffer) - (n + overflow) : whole[k] = buffer[n + overflow + k]
    BY <1>1, <1>3, DropProperties
  <2>3. ASSUME NEW k \in 1 .. Len(buffer')
        PROVE  buffer'[k] = whole[k]
    <3>0. k \in 1 .. Len(buffer) - n - overflow
      BY <2>1
    <3>1. /\ overflow + k \in 1 .. Len(buffer) - n
          /\ n + (overflow + k) = n + overflow + k
          /\ k \in 1 .. Len(buffer) - (n + overflow)
      BY <1>1, <1>b, <3>0, Regroup
    <3>2. rest[overflow + k] = buffer[n + (overflow + k)]
      BY <1>2, <3>1
    <3> QED
      BY <2>1, <2>2, <3>0, <3>1, <3>2
  <2>4. Len(buffer') = Len(whole)
    <3>1. Len(buffer) - n - overflow = Len(buffer) - (n + overflow)
      BY <1>1, <1>b
    <3> QED
      BY <2>1, <2>2, <3>1
  <2> QED
    BY <2>1, <2>2, <2>3, <2>4, SeqEqual
<1>6. /\ buffer' \in Seq(Byte) /\ Len(buffer') = Len(buffer) - (n + overflow)
      /\ BufferIsTail' /\ InStreamOrder' /\ Behind'
  BY <1>3, <1>4, <1>5, DropKeeps
<1>7. TypeOK' /\ stats'.invalid = stats.invalid + n + overflow
  <2>1. /\ stats.invalid \in Nat /\ stats.total \in Nat
        /\ stats.invalid + n + overflow \in Nat /\ stats.total + Len(packets) \in Nat
    BY <1>1, <1>b
  <2>2. /\ stats' \in [total : Nat, valid : Nat, invalid : Nat, checksum : Nat]
        /\ stats'.invalid = stats.invalid + n + overflow
    BY <1>1, <1>4, <2>1
  <2> QED
    BY <1>4, <1>6, <2>2 DEF IInv, TypeOK
<1>8. BytesAccounted'
  <2>1. /\ Len(stream) = framed + stats.invalid + Len(buffer)
        /\ framed \in Nat /\ stats.invalid \in Nat
    BY DEF IInv, BytesAccounted, TypeOK
  <2>2. framed + (stats.invalid + n + overflow) + (Len(buffer) - (n + overflow)) = Len(stream)
    <3>1. Len(buffer) \in Nat /\ n + overflow \in Nat
      BY <1>1, <1>b
    <3>2. framed + stats.invalid + Len(buffer)
            = framed + (stats.invalid + (n + overflow)) + (Len(buffer) - (n + overflow))
      BY <2>1, <3>1, Balance
    <3>3. stats.invalid + (n + overflow) = stats.invalid + n + overflow
      BY <1>b, <2>1
    <3> QED
      BY <2>1, <3>2, <3>3
  <2>3. stream' = stream /\ framed' = framed
    BY <1>4
  <2> QED
    BY <1>6, <1>7, <2>2, <2>3 DEF BytesAccounted
<1>9. HeldIsIncomplete'
  <2>1. CASE overflow = Len(rest)
    <3>1. Len(buffer') = 0
      BY <1>1, <1>2, <1>6, <1>b, <2>1
    <3>2. buffer' = << >>
      BY <1>6, <3>1, EmptySeq
    <3> QED
      BY <3>2 DEF HeldIsIncomplete
  <2>2. CASE overflow = 0 /\ rest = << >>
    <3>1. Len(rest) = 0
      BY <2>2
    <3> QED
      BY <2>1, <2>2, <3>1
  <2>3. CASE overflow = 0 /\ Synced /\ ~Complete(buffer) /\ n = 0
    <3>1. n + overflow = 0
      BY <2>3
    <3>2. buffer' = SubSeq(buffer, 1, Len(buffer))
      BY <1>5, <3>1 DEF Drop
    <3>3. buffer' = buffer
      BY <1>1, <3>2, SubSeqFull
    <3>4. buffer[1] \in {STXV1, STXV2}
      BY <1>1, <2>3, SyncProperties DEF Synced
    <3> QED
      BY <2>3, <3>3, <3>4 DEF HeldIsIncomplete
  <2> QED
    BY <1>a, <2>1, <2>2, <2>3 DEF rest
<1> QED
  BY <1>6, <1>7, <1>8, <1>9 DEF IInv

-----------------------------------------------------------------------------
LEMMA CallInv ==
  ASSUME IInv, NEW data \in Chunks, Call(data)
  PROVE  IInv'
<1> USE BoundAssumption
<1>1. data \in Seq(Byte)
  <2>1. PICK m \in 0 .. MaxChunk : data \in [1 .. m -> Byte]
    BY DEF Chunks
  <2>2. m \in Nat
    BY <2>1
  <2> QED
    BY <2>1, <2>2
<1>2. /\ buffer \in Seq(Byte) /\ stream \in Seq(Byte)
      /\ frames \in Seq([at : Nat, bytes : Seq(Byte)])
  BY DEF IInv, TypeOK
<1>3. /\ Len(buffer) \in Nat /\ DOMAIN buffer = 1 .. Len(buffer)
      /\ Len(stream) \in Nat /\ DOMAIN frames = 1 .. Len(frames)
      /\ Len(data) \in Nat /\ DOMAIN data = 1 .. Len(data)
  BY <1>1, <1>2, LenProperties
<1>4. /\ buffer' = buffer \o data /\ stream' = stream \o data /\ calling'
      /\ UNCHANGED <<stats, frames, framed>> /\ packets' = << >>
  BY DEF Call
<1>5. /\ buffer' \in Seq(Byte) /\ Len(buffer') = Len(buffer) + Len(data)
      /\ stream' \in Seq(Byte) /\ Len(stream') = Len(stream) + Len(data)
  BY <1>1, <1>2, <1>4, ConcatProperties
<1>6. /\ \A k \in 1 .. Len(buffer') :
            buffer'[k] = IF k <= Len(buffer) THEN buffer[k] ELSE data[k - Len(buffer)]
      /\ \A k \in 1 .. Len(stream') :
            stream'[k] = IF k <= Len(stream) THEN stream[k] ELSE data[k - Len(stream)]
  BY <1>1, <1>2, <1>3, <1>4, <1>5, ConcatProperties
<1>7. TypeOK'
  <2>1. << >> \in Seq(Seq(Byte))
    BY EmptySeq
  <2> QED
    BY <1>4, <1>5, <2>1 DEF IInv, TypeOK
<1>8. Len(buffer) <= Len(stream)
  <2>1. Len(stream) = framed + stats.invalid + Len(buffer) /\ framed \in Nat /\ stats.invalid \in Nat
    BY DEF IInv, BytesAccounted, TypeOK
  <2> QED
    BY <1>3, <2>1
<1>9. BytesAccounted'
  <2>1. /\ Len(stream) = framed + stats.invalid + Len(buffer)
        /\ framed \in Nat /\ stats.invalid \in Nat
    BY DEF IInv, BytesAccounted, TypeOK
  <2> QED
    BY <1>3, <1>4, <1>5, <2>1 DEF BytesAccounted
<1>10. BufferIsTail'
  <2> SUFFICES ASSUME NEW k \in 1 .. Len(buffer')
               PROVE  buffer'[k] = stream'[Len(stream') - Len(buffer') + k]
    BY <1>5, LenProperties DEF BufferIsTail
  <2>1. /\ Len(stream') - Len(buffer') + k = Len(stream) - Len(buffer) + k
        /\ Len(stream) - Len(buffer) + k \in 1 .. Len(stream')
    BY <1>3, <1>5, <1>8
  <2>2. CASE k <= Len(buffer)
    <3>1. buffer'[k] = buffer[k]
      BY <1>6, <2>2
    <3>2. k \in 1 .. Len(buffer) /\ Len(stream) - Len(buffer) + k <= Len(stream)
      BY <1>3, <1>5, <1>8, <2>2
    <3>3. buffer[k] = stream[Len(stream) - Len(buffer) + k]
      BY <1>3, <3>2 DEF IInv, BufferIsTail
    <3>4. stream'[Len(stream) - Len(buffer) + k] = stream[Len(stream) - Len(buffer) + k]
      BY <1>6, <2>1, <3>2
    <3> QED
      BY <2>1, <3>1, <3>3, <3>4
  <2>3. CASE ~(k <= Len(buffer))
    <3>1. buffer'[k] = data[k - Len(buffer)]
      BY <1>6, <2>3
    <3>2. ~(Len(stream) - Len(buffer) + k <= Len(stream))
      BY <1>3, <1>5, <2>3
    <3>3. (Len(stream) - Len(buffer) + k) - Len(stream) = k - Len(buffer)
      BY <1>3, <1>5
    <3>4. stream'[Len(stream) - Len(buffer) + k] = data[k - Len(buffer)]
      BY <1>6, <2>1, <3>2, <3>3
    <3> QED
      BY <2>1, <3>1, <3>4
  <2> QED
    BY <2>2, <2>3
<1>11. InStreamOrder' /\ Behind'
  <2>1. ASSUME NEW i \in 1 .. Len(frames)
        PROVE  /\ frames[i].at \in Nat /\ Len(frames[i].bytes) \in Nat
               /\ DOMAIN frames[i].bytes = 1 .. Len(frames[i].bytes)
               /\ frames[i].at + Len(frames[i].bytes) <= Len(stream) - Len(buffer)
    <3>1. frames[i] \in [at : Nat, bytes : Seq(Byte)]
      BY <1>2, ElementOfSeq
    <3>2. frames[i].at + Len(frames[i].bytes) <= Len(stream) - Len(buffer)
      BY <1>3 DEF IInv, Behind
    <3> QED
      BY <3>1, <3>2, LenProperties
  <2>2. ASSUME NEW i \in 1 .. Len(frames), NEW k \in 1 .. Len(frames[i].bytes)
        PROVE  frames[i].bytes[k] = stream'[frames[i].at + k]
    <3>0. Len(stream) \in Nat /\ Len(buffer) \in Nat /\ Len(data) \in Nat
      BY <1>3
    <3>b. /\ frames[i].at \in Nat /\ Len(frames[i].bytes) \in Nat
          /\ frames[i].at + Len(frames[i].bytes) <= Len(stream) - Len(buffer)
      BY <2>1
    <3>a. frames[i].at + k \in 1 .. Len(stream) + Len(data) /\ frames[i].at + k <= Len(stream)
      BY <3>0, <3>b, Within, SMTT(30)
    <3>1. frames[i].at + k \in 1 .. Len(stream') /\ frames[i].at + k <= Len(stream)
      BY <1>5, <3>a
    <3>2. stream'[frames[i].at + k] = stream[frames[i].at + k]
      BY <1>6, <3>1
    <3>3. frames[i].bytes[k] = stream[frames[i].at + k]
      BY <1>3, <2>1 DEF IInv, InStreamOrder
    <3> QED
      BY <3>2, <3>3
  <2>3. InStreamOrder'
    <3>1. frames' = frames /\ DOMAIN frames = 1 .. Len(frames)
      BY <1>3, <1>4
    <3>2. \A i \in 1 .. Len(frames) : DOMAIN frames[i].bytes = 1 .. Len(frames[i].bytes)
      BY <2>1
    <3>3. \A i \in DOMAIN frames : \A k \in DOMAIN frames[i].bytes :
            frames[i].bytes[k] = stream'[frames[i].at + k]
      BY <2>2, <3>1, <3>2
    <3>4. \A i, j \in DOMAIN frames :
            i < j => frames[i].at + Len(frames[i].bytes) <= frames[j].at
      BY DEF IInv, InStreamOrder
    <3> QED
      BY <3>1, <3>3, <3>4 DEF InStreamOrder
  <2>4. Len(stream') - Len(buffer') = Len(stream) - Len(buffer)
    BY <1>3, <1>5
  <2>5. Behind'
    BY <1>3, <1>4, <2>1, <2>4 DEF Behind
  <2> QED
    BY <2>3, <2>5
<1> QED
  BY <1>4, <1>7, <1>9, <1>10, <1>11 DEF IInv, HeldIsIncomplete

LEMMA NoSyncInv ==
  ASSUME IInv, NoSync
  PROVE  IInv'
<1>1. buffer \in Seq(Byte) /\ Len(buffer) \in Nat
  BY LenProperties DEF IInv, TypeOK
<1>2. /\ Drop(buffer, Len(buffer)) \in Seq(Byte)
      /\ Len(Drop(buffer, Len(buffer))) = Len(buffer) - Len(buffer)
  BY <1>1, DropProperties
<1>3. Drop(buffer, Len(buffer)) = << >>
  BY <1>1, <1>2, EmptySeq
<1>4. Return(Drop(buffer, Len(buffer)), Len(buffer)) /\ calling
  BY <1>3 DEF NoSync
<1>5. Len(buffer) \in 0 .. Len(buffer)
  BY <1>1
<1> QED
  BY <1>3, <1>4, <1>5, ReturnInv

LEMMA IncompleteInv ==
  ASSUME IInv, Incomplete
  PROVE  IInv'
<1>1. buffer \in Seq(Byte) /\ Len(buffer) \in Nat
  BY LenProperties DEF IInv, TypeOK
<1>2. Drop(buffer, 0) = buffer
  BY <1>1, SubSeqFull DEF Drop
<1>3. Return(Drop(buffer, 0), 0) /\ calling /\ Synced /\ ~Complete(buffer)
  BY <1>2 DEF Incomplete, Synced
<1>4. 0 \in 0 .. Len(buffer)
  BY <1>1
<1> QED
  BY <1>3, <1>4, ReturnInv

\* Passing over n bytes that are counted as invalid.
LEMMA PassInv ==
  ASSUME IInv, calling, NEW n \in 0 .. Len(buffer),
         buffer' = Drop(buffer, n),
         NEW c \in Nat,
         stats' = [stats EXCEPT !.invalid = @ + n, !.checksum = c],
         UNCHANGED <<calling, packets, stream, frames, framed>>
  PROVE  IInv'
<1>1. /\ buffer \in Seq(Byte) /\ Len(buffer) \in Nat /\ n \in Nat
      /\ stats \in [total : Nat, valid : Nat, invalid : Nat, checksum : Nat]
      /\ stats.invalid \in Nat /\ framed \in Nat
  BY LenProperties DEF IInv, TypeOK
<1>2. /\ buffer' \in Seq(Byte) /\ Len(buffer') = Len(buffer) - n
      /\ BufferIsTail' /\ InStreamOrder' /\ Behind'
  BY DropKeeps
<1>3. /\ stats' \in [total : Nat, valid : Nat, invalid : Nat, checksum : Nat]
      /\ stats'.invalid = stats.invalid + n
  <2>1. stats.invalid + n \in Nat
    BY <1>1
  <2> QED
    BY <1>1, <2>1
<1>4. TypeOK'
  BY <1>2, <1>3 DEF IInv, TypeOK
<1>5. BytesAccounted'
  <2>1. Len(stream) = framed + stats.invalid + Len(buffer)
    BY DEF IInv, BytesAccounted
  <2>2. framed + stats.invalid + Len(buffer)
          = framed + (stats.invalid + n) + (Len(buffer) - n)
    BY <1>1, Balance
  <2> QED
    BY <1>2, <1>3, <2>1, <2>2 DEF BytesAccounted
<1> QED
  BY <1>2, <1>4, <1>5 DEF IInv, HeldIsIncomplete

LEMMA ResyncInv ==
  ASSUME IInv, Resync
  PROVE  IInv'
<1>1. /\ buffer \in Seq(Byte) /\ Len(buffer) \in Nat
      /\ stats \in [total : Nat, valid : Nat, invalid : Nat, checksum : Nat]
  BY LenProperties DEF IInv, TypeOK
<1>2. SyncOffset(buffer) \in 0 .. Len(buffer) - 1
  BY <1>1, SyncProperties DEF Resync
<1>3. SyncOffset(buffer) \in 0 .. Len(buffer)
  BY <1>1, <1>2
<1>4. stats' = [stats EXCEPT !.invalid = @ + SyncOffset(buffer), !.checksum = stats.checksum]
  BY <1>1 DEF Resync
<1>5. stats.checksum \in Nat
  BY <1>1
<1> QED
  BY <1>3, <1>4, <1>5, PassInv DEF Resync

LEMMA MismatchInv ==
  ASSUME IInv, Mismatch
  PROVE  IInv'
<1>1. /\ buffer \in Seq(Byte) /\ Len(buffer) \in Nat
      /\ stats \in [total : Nat, valid : Nat, invalid : Nat, checksum : Nat]
  BY LenProperties DEF IInv, TypeOK
<1>2. SyncOffset(buffer) \in 0 .. Len(buffer) - 1
  BY <1>1, SyncProperties DEF Mismatch, Synced
<1>3. 1 \in 0 .. Len(buffer)
  BY <1>1, <1>2
<1>4. stats.checksum + 1 \in Nat
  BY <1>1
<1>5. stats' = [stats EXCEPT !.invalid = @ + 1, !.checksum = stats.checksum + 1]
  BY DEF Mismatch
<1> QED
  BY <1>3, <1>4, <1>5, PassInv DEF Mismatch, Synced

LEMMA TakeInv ==
  ASSUME IInv, Take
  PROVE  IInv'
<1> DEFINE n == TotalLength(buffer)
           f == [at |-> Len(stream) - Len(buffer), bytes |-> Frame(buffer)]
<1>1. /\ buffer \in Seq(Byte) /\ Len(buffer) \in Nat /\ DOMAIN buffer = 1 .. Len(buffer)
      /\ stream \in Seq(Byte) /\ Len(stream) \in Nat
      /\ packets \in Seq(Seq(Byte)) /\ framed \in Nat
      /\ frames \in Seq([at : Nat, bytes : Seq(Byte)])
      /\ stats \in [total : Nat, valid : Nat, invalid : Nat, checksum : Nat]
      /\ Len(frames) \in Nat /\ DOMAIN frames = 1 .. Len(frames)
  BY LenProperties DEF IInv, TypeOK
<1>2. /\ Synced /\ Complete(buffer) /\ calling' /\ stream' = stream
      /\ buffer' = Drop(buffer, n) /\ framed' = framed + n
      /\ frames' = Append(frames, f) /\ packets' = Append(packets, Frame(buffer))
      /\ stats' = [stats EXCEPT !.valid = @ + 1]
  BY DEF Take, Found, Synced
<1>3. buffer # << >>
  <2>1. SyncOffset(buffer) \in 0 .. Len(buffer) - 1
    BY <1>1, <1>2, SyncProperties DEF Synced
  <2>2. Len(buffer) # 0
    BY <1>1, <2>1
  <2> QED
    BY <2>2
<1>4. /\ n \in 1 .. Len(buffer) /\ Frame(buffer) \in Seq(Byte) /\ Len(Frame(buffer)) = n
      /\ \A k \in 1 .. n : Frame(buffer)[k] = buffer[k]
      /\ DOMAIN Frame(buffer) = 1 .. n
  BY <1>1, <1>2, <1>3, FrameProperties, LenProperties
<1> HIDE DEF n
<1>5. /\ Len(stream) = framed + stats.invalid + Len(buffer) /\ stats.invalid \in Nat
      /\ Len(stream) - Len(buffer) \in Nat
  <2>1. Len(stream) = framed + stats.invalid + Len(buffer) /\ stats.invalid \in Nat
    BY <1>1 DEF IInv, BytesAccounted
  <2> QED
    BY <1>1, <2>1, SMTT(30)
<1>6. /\ buffer' \in Seq(Byte) /\ Len(buffer') = Len(buffer) - n
      /\ \A k \in 1 .. Len(buffer) - n : buffer'[k] = buffer[n + k]
  <2>1. n \in 0 .. Len(buffer)
    BY <1>1, <1>4
  <2> QED
    BY <1>1, <1>2, <2>1, DropProperties
<1>7. /\ f \in [at : Nat, bytes : Seq(Byte)]
      /\ f.at = Len(stream) - Len(buffer) /\ f.bytes = Frame(buffer)
  BY <1>4, <1>5
<1> HIDE DEF f
<1>8. /\ frames' \in Seq([at : Nat, bytes : Seq(Byte)]) /\ Len(frames') = Len(frames) + 1
      /\ \A i \in 1 .. Len(frames) : frames'[i] = frames[i]
      /\ frames'[Len(frames) + 1] = f
      /\ DOMAIN frames' = 1 .. Len(frames) + 1
  BY <1>1, <1>2, <1>7, AppendProperties, LenProperties
<1>9. TypeOK'
  <2>1. packets' \in Seq(Seq(Byte))
    BY <1>1, <1>2, <1>4, AppendProperties
  <2>2. stats' \in [total : Nat, valid : Nat, invalid : Nat, checksum : Nat]
    <3>1. stats.valid + 1 \in Nat
      BY <1>1
    <3> QED
      BY <1>1, <1>2, <3>1
  <2>3. framed' \in Nat
    <3>1. framed \in Nat /\ n \in Nat
      BY <1>1, <1>4
    <3>2. framed' = framed + n
      BY <1>2
    <3> QED
      BY <3>1, <3>2
  <2>4. stream' \in Seq(Byte) /\ calling' \in BOOLEAN
    BY <1>2 DEF IInv, TypeOK
  <2> QED
    BY <1>6, <1>8, <2>1, <2>2, <2>3, <2>4 DEF TypeOK
<1>10. BytesAccounted'
  <2>1. stats'.invalid = stats.invalid
    BY <1>1, <1>2
  <2> QED
    <3>1. n \in Nat
      BY <1>4
    <3>2. framed + n + stats.invalid + (Len(buffer) - n) = Len(stream)
      BY <1>1, <1>5, <3>1, SMTT(30)
    <3> QED
      BY <1>2, <1>6, <2>1, <3>2 DEF BytesAccounted
<1>11. BufferIsTail'
  <2> SUFFICES ASSUME NEW k \in 1 .. Len(buffer')
               PROVE  buffer'[k] = stream[Len(stream) - Len(buffer') + k]
    BY <1>2, <1>6, LenProperties DEF BufferIsTail
  <2>1. n + k \in 1 .. Len(buffer) /\ buffer'[k] = buffer[n + k]
    BY <1>1, <1>4, <1>6
  <2>2. buffer[n + k] = stream[Len(stream) - Len(buffer) + (n + k)]
    BY <1>1, <2>1 DEF IInv, BufferIsTail
  <2>3. Len(stream) - Len(buffer) + (n + k) = Len(stream) - Len(buffer') + k
    BY <1>1, <1>4, <1>6
  <2> QED
    BY <2>1, <2>2, <2>3
<1>12. ASSUME NEW i \in 1 .. Len(frames)
       PROVE  /\ frames[i].at \in Nat /\ Len(frames[i].bytes) \in Nat
              /\ frames[i].at + Len(frames[i].bytes) <= Len(stream) - Len(buffer)
  <2>1. frames[i] \in [at : Nat, bytes : Seq(Byte)]
    BY <1>1, ElementOfSeq
  <2>2. frames[i].at + Len(frames[i].bytes) <= Len(stream) - Len(buffer)
    BY <1>1 DEF IInv, Behind
  <2> QED
    BY <2>1, <2>2, LenProperties
<1>13. Len(stream) - Len(buffer') = f.at + n
  BY <1>1, <1>4, <1>6, <1>7
<1>14. Behind'
  <2> SUFFICES ASSUME NEW i \in 1 .. Len(frames) + 1
               PROVE  frames'[i].at + Len(frames'[i].bytes) <= Len(stream) - Len(buffer')
    BY <1>2, <1>8 DEF Behind
  <2>1. CASE i \in 1 .. Len(frames)
    <3>1. /\ frames'[i] = frames[i] /\ n \in Nat
          /\ frames[i].at \in Nat /\ Len(frames[i].bytes) \in Nat
          /\ frames[i].at + Len(frames[i].bytes) <= Len(stream) - Len(buffer)
      <4>1. frames'[i] = frames[i]
        BY <1>8, <2>1
      <4> QED
        BY <1>4, <1>12, <2>1, <4>1
    <3>2. Len(stream) - Len(buffer') = Len(stream) - Len(buffer) + n
      BY <1>1, <1>6, <3>1
    <3>3. Len(stream) - Len(buffer) \in Int
      BY <1>1
    <3>4. frames[i].at + Len(frames[i].bytes) <= Len(stream) - Len(buffer) + n
      BY <3>1, <3>3
    <3> QED
      BY <3>1, <3>2, <3>4
  <2>2. CASE i = Len(frames) + 1
    <3>1. frames'[i].at = f.at /\ Len(frames'[i].bytes) = n
      BY <1>4, <1>7, <1>8, <2>2
    <3>2. f.at + n \in Nat
      BY <1>4, <1>7
    <3> QED
      BY <1>13, <3>1, <3>2
  <2> QED
    BY <1>1, <2>1, <2>2
<1>15. InStreamOrder'
  <2>1. ASSUME NEW i \in 1 .. Len(frames) + 1, NEW k \in DOMAIN frames'[i].bytes
        PROVE  frames'[i].bytes[k] = stream[frames'[i].at + k]
    <3>1. CASE i \in 1 .. Len(frames)
      <4>1. frames'[i] = frames[i] /\ k \in DOMAIN frames[i].bytes /\ i \in DOMAIN frames
        BY <1>1, <1>8, <3>1
      <4>2. frames[i].bytes[k] = stream[frames[i].at + k]
        BY <4>1 DEF IInv, InStreamOrder
      <4> QED
        BY <4>1, <4>2
    <3>2. CASE i = Len(frames) + 1
      <4>a. frames'[i].bytes = Frame(buffer)
        BY <1>7, <1>8, <3>2
      <4>b. k \in 1 .. n /\ frames'[i].bytes[k] = buffer[k]
        BY <1>4, <4>a
      <4>1. k \in 1 .. n /\ frames'[i].bytes[k] = buffer[k] /\ k \in 1 .. Len(buffer)
        BY <1>1, <1>4, <4>b
      <4>2. buffer[k] = stream[Len(stream) - Len(buffer) + k]
        BY <1>1, <4>1 DEF IInv, BufferIsTail
      <4> QED
        BY <1>7, <1>8, <3>2, <4>1, <4>2
    <3> QED
      BY <1>1, <3>1, <3>2
  <2>2. ASSUME NEW i \in 1 .. Len(frames) + 1, NEW j \in 1 .. Len(frames) + 1, i < j
        PROVE  frames'[i].at + Len(frames'[i].bytes) <= frames'[j].at
    <3>1. i \in 1 .. Len(frames)
      BY <1>1, <2>2
    <3>2. CASE j \in 1 .. Len(frames)
      BY <1>1, <1>8, <2>2, <3>1, <3>2 DEF IInv, InStreamOrder
    <3>3. CASE j = Len(frames) + 1
      BY <1>7, <1>8, <1>12, <3>1, <3>3
    <3> QED
      BY <1>1, <3>2, <3>3, SMTT(30)
  <2> QED
    BY <1>2, <1>8, <2>1, <2>2 DEF InStreamOrder
<1> QED
  BY <1>2, <1>9, <1>10, <1>11, <1>14, <1>15 DEF IInv, HeldIsIncomplete

LEMMA NextInv == IInv /\ [Next]_vars => IInv'
<1> SUFFICES ASSUME IInv, [Next]_vars PROVE IInv'
  OBVIOUS
<1>1. CASE \E data \in Chunks : Call(data)
  BY <1>1, CallInv
<1>2. CASE NoSync
  BY <1>2, NoSyncInv
<1>3. CASE Resync
  BY <1>3, ResyncInv
<1>4. CASE Incomplete
  BY <1>4, IncompleteInv
<1>5. CASE Mismatch
  BY <1>5, MismatchInv
<1>6. CASE Take
  BY <1>6, TakeInv
<1>7. CASE UNCHANGED vars
  BY <1>7 DEF vars, IInv, TypeOK, BytesAccounted, BufferIsTail, HeldIsIncomplete,
              InStreamOrder, Behind
<1> QED
  BY <1>1, <1>2, <1>3, <1>4, <1>5, <1>6, <1>7 DEF Next

THEOREM InvariantHolds == Spec => []IInv
BY InitInv, NextInv, PTL DEF Spec

\* The variables keep their types.
THEOREM ParserTypes == Spec => []TypeOK
<1>1. IInv => TypeOK
  BY DEF IInv
<1> QED
  BY <1>1, InvariantHolds, PTL

\* Every byte received is in a frame found, counted as invalid, or buffered,
\* for every stream and every way it is cut into calls of Parse.
THEOREM BytesAreAccounted == Spec => []BytesAccounted
<1>1. IInv => BytesAccounted
  BY DEF IInv
<1> QED
  BY <1>1, InvariantHolds, PTL

\* Parse returns with an empty buffer or an incomplete frame at its start.
THEOREM ParseEndsIncomplete == Spec => []HeldIsIncomplete
<1>1. IInv => HeldIsIncomplete
  BY DEF IInv
<1> QED
  BY <1>1, InvariantHolds, PTL

\* The frames Parse returns are disjoint parts of the stream, in its order.
THEOREM FramesInStreamOrder == Spec => []InStreamOrder
<1>1. IInv => InStreamOrder
  BY DEF IInv
<1> QED
  BY <1>1, InvariantHolds, PTL

\* What does not make up the frame that it announces is shorter than the longest frame.
LEMMA IncompleteIsShort ==
  ASSUME NEW b \in Seq(Byte), b # << >>, b[1] \in {STXV1, STXV2}, ~Complete(b)
  PROVE  \E longest \in Byte :
           Len(b) < HeaderSizeV2 + longest + ChecksumSize + SignatureSize
<1> USE ByteAssumption, SizeAssumption
<1>1. Len(b) \in Nat /\ HeaderSize(b) \in Nat /\ HeaderSize(b) >= 2 /\ HeaderSize(b) <= HeaderSizeV2
  BY LenProperties DEF HeaderSize
<1>2. CASE Len(b) < HeaderSize(b)
  <2>1. STXV1 \in Byte /\ STXV1 \in Nat
    OBVIOUS
  <2>2. Len(b) < HeaderSizeV2 + STXV1 + ChecksumSize + SignatureSize
    BY <1>1, <1>2, <2>1
  <2> QED
    BY <2>1, <2>2
<1>3. CASE ~(Len(b) < HeaderSize(b))
  <2>1. 2 \in 1 .. Len(b)
    BY <1>1, <1>3
  <2>2. b[2] \in Byte /\ b[2] \in Nat
    BY <2>1, ElementOfSeq
  <2>3. TotalLength(b) \in Nat
        /\ TotalLength(b) <= HeaderSizeV2 + b[2] + ChecksumSize + SignatureSize
    <3>1. ChecksumOffset(b) \in Nat /\ ChecksumOffset(b) <= HeaderSizeV2 + b[2]
      BY <1>1, <2>2 DEF ChecksumOffset
    <3>2. PICK n \in Nat : n = (IF Signed(b) THEN SignatureSize ELSE 0) /\ n <= SignatureSize
      OBVIOUS
    <3>3. TotalLength(b) = ChecksumOffset(b) + ChecksumSize + n
      BY <3>2 DEF TotalLength
    <3>4. PICK o \in Nat, p \in Nat : o = ChecksumOffset(b) /\ p = b[2] /\ o <= HeaderSizeV2 + p
      BY <2>2, <3>1
    <3>5. o + ChecksumSize + n \in Nat
          /\ o + ChecksumSize + n <= HeaderSizeV2 + p + ChecksumSize + SignatureSize
      <4>1. PICK h \in Nat, c \in Nat, s \in Nat :
              h = HeaderSizeV2 /\ c = ChecksumSize /\ s = SignatureSize
        OBVIOUS
      <4>2. o <= h + p /\ n <= s
        BY <3>2, <3>4, <4>1
      <4>3. o + c + n \in Nat /\ o + c + n <= h + p + c + s
        BY <4>2
      <4> QED
        BY <4>1, <4>3
    <3> QED
      BY <3>3, <3>4, <3>5
  <2>4. Len(b) < TotalLength(b)
    BY <1>1, <1>3, <2>3 DEF Complete
  <2>5. Len(b) < HeaderSizeV2 + b[2] + ChecksumSize + SignatureSize
    BY <1>1, <2>2, <2>3, <2>4
  <2> QED
    BY <2>2, <2>5
<1> QED
  BY <1>2, <1>3

LEMMA IncompleteFits == IInv => NoOverflow
<1>1. ASSUME IInv, Synced, ~Complete(buffer)
      PROVE  Len(buffer) <= MaxBufferedBytes
  <2>1. buffer \in Seq(Byte) /\ Len(buffer) \in Nat
    BY <1>1, LenProperties DEF IInv, TypeOK
  <2>2. PICK longest \in Byte :
          Len(buffer) < HeaderSizeV2 + longest + ChecksumSize + SignatureSize
    <3>1. SyncOffset(buffer) = 0 /\ 0 \in 0 .. Len(buffer) - 1 /\ buffer[0 + 1] \in {STXV1, STXV2}
      BY <1>1, <2>1, SyncProperties DEF Synced
    <3>2. buffer # << >> /\ buffer[1] \in {STXV1, STXV2}
      <4>1. Len(buffer) > 0 /\ Len(<< >>) = 0
        BY <2>1, <3>1
      <4> QED
        BY <3>1, <4>1
    <3> QED
      BY <1>1, <2>1, <3>2, IncompleteIsShort
  <2>3. PICK n \in Nat :
          n = HeaderSizeV2 + longest + ChecksumSize + SignatureSize /\ n <= MaxBufferedBytes
    BY ByteAssumption, SizeAssumption, LimitAssumption
  <2> QED
    BY <2>1, <2>2, <2>3, SizeAssumption
<1> QED
  BY <1>1 DEF NoOverflow

\* maxBufferedBytes never empties the buffer of Parse: what an incomplete frame
\* leaves is shorter than the longest frame.
THEOREM LimitIsNeverReached == Spec => []NoOverflow
BY IncompleteFits, InvariantHolds, PTL

-----------------------------------------------------------------------------
(* What Parsed computes                                                    *)

\* The bytes from the first start byte on.
After(b) == Drop(b, SyncOffset(b))

\* They are none, or the beginning of a frame.
Ends(b) == After(b) = << >> \/ ~Complete(After(b))

\* The outcome q of the bytes that follow, with what came before them.
WithEarlier(fs, passed, mismatches, q) ==
  [frames |-> fs \o q.frames,
   passed |-> passed + q.passed,
   mismatches |-> mismatches + q.mismatches,
   rest |-> q.rest]

Kept(b) ==
  [frames |-> << >>, passed |-> SyncOffset(b), mismatches |-> 0, rest |-> After(b)]

\* The outcome for b when f holds the outcomes for what is shorter.
Outcome(f, b) ==
  IF Ends(b) THEN Kept(b)
  ELSE IF ChecksumMatches(After(b))
    THEN WithEarlier(<<Frame(After(b))>>, SyncOffset(b) + 0, 0, f[Drop(After(b), TotalLength(After(b)))])
  ELSE WithEarlier(<< >>, SyncOffset(b) + 1, 1, f[Drop(After(b), 1)])

\* The offset is the number of bytes before the first start byte.
LEMMA SyncOffsetIs ==
  ASSUME NEW b \in Seq(Byte)
  PROVE  /\ SyncOffset(b) \in 0 .. Len(b)
         /\ \A k \in 1 .. SyncOffset(b) : b[k] \notin {STXV1, STXV2}
         /\ SyncOffset(b) < Len(b) => b[SyncOffset(b) + 1] \in {STXV1, STXV2}
<1>1. Len(b) \in Nat /\ DOMAIN b = 1 .. Len(b)
  BY LenProperties
<1>2. CASE Syncs(b) = {}
  BY <1>1, <1>2 DEF SyncOffset, Syncs
<1>3. CASE Syncs(b) # {}
  <2>1. Syncs(b) \subseteq 1 .. Len(b)
    BY <1>1 DEF Syncs
  <2>2. Min(Syncs(b)) \in Syncs(b) /\ \A j \in Syncs(b) : Min(Syncs(b)) <= j
    BY <1>3, <2>1, MinExists
  <2>3. SyncOffset(b) = Min(Syncs(b)) - 1
    BY <1>3 DEF SyncOffset
  <2>4. ASSUME NEW k \in 1 .. SyncOffset(b)
        PROVE  b[k] \notin {STXV1, STXV2}
    <3>1. k \in 1 .. Len(b) /\ ~(Min(Syncs(b)) <= k)
      BY <1>1, <2>1, <2>2, <2>3
    <3>2. k \notin Syncs(b)
      BY <2>2, <3>1
    <3> QED
      BY <1>1, <3>1, <3>2 DEF Syncs
  <2> QED
    BY <1>1, <1>3, <2>1, <2>2, <2>3, <2>4, SyncProperties
<1> QED
  BY <1>2, <1>3

LEMMA SyncOffsetUnique ==
  ASSUME NEW b \in Seq(Byte), NEW n \in 0 .. Len(b),
         \A k \in 1 .. n : b[k] \notin {STXV1, STXV2},
         n < Len(b) => b[n + 1] \in {STXV1, STXV2}
  PROVE  SyncOffset(b) = n
<1>1. Len(b) \in Nat
  BY LenProperties
<1>2. SyncOffset(b) \in 0 .. Len(b)
  BY SyncOffsetIs
<1>3. CASE SyncOffset(b) < n
  <2>1. SyncOffset(b) + 1 \in 1 .. n /\ SyncOffset(b) < Len(b)
    BY <1>1, <1>2, <1>3
  <2> QED
    BY <2>1, SyncOffsetIs
<1>4. CASE n < SyncOffset(b)
  <2>1. n + 1 \in 1 .. SyncOffset(b) /\ n < Len(b)
    BY <1>1, <1>2, <1>4
  <2> QED
    BY <2>1, SyncOffsetIs
<1> QED
  BY <1>1, <1>2, <1>3, <1>4

LEMMA AfterProperties ==
  ASSUME NEW b \in Seq(Byte)
  PROVE  /\ After(b) \in Seq(Byte)
         /\ Len(After(b)) = Len(b) - SyncOffset(b)
  BY SyncOffsetIs, DropProperties DEF After

\* A pass that does not end takes at least one byte off.
LEMMA LaterIsShorter ==
  ASSUME NEW b \in Seq(Byte), ~Ends(b), NEW n \in {TotalLength(After(b)), 1}
  PROVE  /\ n \in 1 .. Len(After(b))
         /\ Drop(After(b), n) \in Seq(Byte)
         /\ Len(Drop(After(b), n)) \in Nat
         /\ Len(Drop(After(b), n)) < Len(b)
<1> DEFINE r == After(b)
<1>1. r \in Seq(Byte) /\ Len(r) = Len(b) - SyncOffset(b) /\ r # << >> /\ Complete(r)
  BY AfterProperties DEF Ends
<1>2. Len(r) \in Nat \ {0} /\ Len(b) \in Nat /\ SyncOffset(b) \in 0 .. Len(b)
  BY <1>1, EmptySeq, LenProperties, SyncOffsetIs
<1>3. TotalLength(r) \in 1 .. Len(r)
  BY <1>1, FrameProperties
<1>4. n \in 1 .. Len(r)
  BY <1>2, <1>3
<1> HIDE DEF r
<1>5. Drop(r, n) \in Seq(Byte) /\ Len(Drop(r, n)) = Len(r) - n
  <2>1. n \in 0 .. Len(r)
    BY <1>2, <1>4
  <2> QED
    BY <1>1, <2>1, DropProperties
<1> QED
  BY <1>1, <1>2, <1>4, <1>5 DEF r

\* The outcome for b looks only at outcomes for what is shorter.
LEMMA OutcomeLooksAtShorter ==
  ASSUME NEW b \in Seq(Byte), NEW f, NEW g,
         \A c \in Seq(Byte) : Len(c) < Len(b) => f[c] = g[c]
  PROVE  Outcome(f, b) = Outcome(g, b)
<1>1. CASE Ends(b)
  BY <1>1 DEF Outcome
<1>2. CASE ~Ends(b)
  <2>1. ASSUME NEW n \in {TotalLength(After(b)), 1}
        PROVE  f[Drop(After(b), n)] = g[Drop(After(b), n)]
    BY <1>2, LaterIsShorter
  <2> QED
    BY <1>2, <2>1 DEF Outcome
<1> QED
  BY <1>1, <1>2

-----------------------------------------------------------------------------
(* Parsed exists: what solves the equation up to each length, together.    *)

Short(n) == {b \in Seq(Byte) : Len(b) <= n}

Solves(f, n) == f = [b \in Short(n) |-> Outcome(f, b)]

\* Every non-empty set of sequences of bytes has a shortest one.
LEMMA ShortestExists ==
  ASSUME NEW T \in SUBSET Seq(Byte), T # {}
  PROVE  \E b \in T : \A c \in Seq(Byte) : Len(c) < Len(b) => c \notin T
<1> DEFINE L == {Len(b) : b \in T}
<1>1. L \subseteq Nat /\ L # {}
  BY LenProperties
<1>2. Min(L) \in L /\ \A l \in L : Min(L) <= l
  BY <1>1, MinExists
<1>3. PICK b \in T : Len(b) = Min(L)
  BY <1>2
<1>4. ASSUME NEW c \in T, Len(c) < Len(b)
      PROVE  FALSE
  <2>1. Len(b) <= Len(c)
    BY <1>2, <1>3
  <2>2. Len(b) \in Nat /\ Len(c) \in Nat
    BY LenProperties
  <2> QED
    BY <1>4, <2>1, <2>2
<1> QED
  BY <1>4

LEMMA SolutionsAgree ==
  ASSUME NEW m \in Nat, NEW n \in Nat, NEW f, NEW g, Solves(f, m), Solves(g, n),
         NEW b \in Short(m), b \in Short(n)
  PROVE  f[b] = g[b]
<1> DEFINE T == {c \in Seq(Byte) : c \in Short(m) /\ c \in Short(n) /\ f[c] # g[c]}
<1> SUFFICES ASSUME T # {} PROVE FALSE
  BY DEF Short
<1>1. PICK c \in T : \A d \in Seq(Byte) : Len(d) < Len(c) => d \notin T
  BY ShortestExists
<1>2. ASSUME NEW d \in Seq(Byte), Len(d) < Len(c)
      PROVE  f[d] = g[d]
  <2>1. Len(c) \in Nat /\ Len(d) \in Nat /\ Len(c) <= m /\ Len(c) <= n
    BY LenProperties DEF Short
  <2>2. d \in Short(m) /\ d \in Short(n)
    BY <1>2, <2>1 DEF Short
  <2> QED
    BY <1>1, <1>2, <2>2
<1>3. Outcome(f, c) = Outcome(g, c)
  BY <1>2, OutcomeLooksAtShorter
<1>4. f[c] = Outcome(f, c)
  <2>1. c \in Short(m)
    OBVIOUS
  <2> QED
    BY <2>1 DEF Solves
<1>5. g[c] = Outcome(g, c)
  <2>1. c \in Short(n)
    OBVIOUS
  <2> QED
    BY <2>1 DEF Solves
<1> QED
  BY <1>3, <1>4, <1>5

LEMMA SolutionsExist == \A n \in Nat : \E f : Solves(f, n)
<1> DEFINE T == {n \in Nat : ~ \E f : Solves(f, n)}
<1> SUFFICES ASSUME T # {} PROVE FALSE
  OBVIOUS
<1>1. Min(T) \in T /\ \A j \in T : Min(T) <= j
  BY MinExists
<1> DEFINE n == Min(T)
<1>2. n \in Nat /\ \A f : ~ Solves(f, n)
  BY <1>1
<1> HIDE DEF n, T
<1>3. PICK h : n # 0 => Solves(h, n - 1)
  <2>1. CASE n = 0
    BY <2>1
  <2>2. CASE n # 0
    <3>1. n - 1 \in Nat /\ ~(n <= n - 1)
      BY <1>2, <2>2
    <3>2. n - 1 \notin T
      BY <1>1, <3>1 DEF n
    <3> QED
      BY <3>1, <3>2 DEF T
  <2> QED
    BY <2>1, <2>2
<1> DEFINE g == [b \in Short(n) |-> Outcome(h, b)]
<1>4. ASSUME NEW b \in Short(n)
      PROVE  Outcome(h, b) = Outcome(g, b)
  <2>1. b \in Seq(Byte) /\ Len(b) \in Nat /\ Len(b) <= n
    BY LenProperties DEF Short
  <2>2. ASSUME NEW c \in Seq(Byte), Len(c) < Len(b)
        PROVE  h[c] = g[c]
    <3>1. Len(c) \in Nat /\ n # 0 /\ Len(c) <= n - 1 /\ Len(c) <= n
      BY <1>2, <2>1, <2>2, LenProperties
    <3>2. c \in Short(n - 1) /\ c \in Short(n)
      BY <3>1 DEF Short
    <3>3. h = [x \in Short(n - 1) |-> Outcome(h, x)]
      BY <1>3, <3>1 DEF Solves
    <3>4. h[c] = Outcome(h, c)
      BY <3>2, <3>3
    <3> QED
      BY <3>2, <3>4
  <2> HIDE DEF g
  <2> QED
    BY <2>1, <2>2, OutcomeLooksAtShorter
<1>5. Solves(g, n)
  <2> SUFFICES [b \in Short(n) |-> Outcome(h, b)] = [b \in Short(n) |-> Outcome(g, b)]
    BY DEF Solves
  <2> HIDE DEF g
  <2> QED
    BY <1>4
<1> QED
  BY <1>2, <1>5

\* Parsed is what its definition says.
LEMMA ParsedEquation == Parsed = [b \in Seq(Byte) |-> Outcome(Parsed, b)]
<1> DEFINE G(n) == CHOOSE f : Solves(f, n)
           F == [b \in Seq(Byte) |-> G(Len(b))[b]]
<1>1. \A n \in Nat : Solves(G(n), n)
  BY SolutionsExist
<1> HIDE DEF G
<1>2. ASSUME NEW b \in Seq(Byte)
      PROVE  G(Len(b))[b] = Outcome(F, b)
  <2>1. Len(b) \in Nat /\ b \in Short(Len(b)) /\ Solves(G(Len(b)), Len(b))
    BY <1>1, LenProperties DEF Short
  <2>2. ASSUME NEW c \in Seq(Byte), Len(c) < Len(b)
        PROVE  G(Len(b))[c] = F[c]
    <3>1. Len(c) \in Nat /\ c \in Short(Len(c)) /\ Solves(G(Len(c)), Len(c))
      BY <1>1, LenProperties DEF Short
    <3>2. c \in Short(Len(b))
      BY <2>1, <2>2, <3>1 DEF Short
    <3>3. G(Len(b))[c] = G(Len(c))[c]
      BY <2>1, <3>1, <3>2, SolutionsAgree
    <3> QED
      BY <3>3
  <2> HIDE DEF F
  <2>3. Outcome(G(Len(b)), b) = Outcome(F, b)
    BY <2>2, OutcomeLooksAtShorter
  <2>4. G(Len(b))[b] = Outcome(G(Len(b)), b)
    BY <2>1 DEF Solves
  <2> QED
    BY <2>3, <2>4
<1>3. F = [b \in Seq(Byte) |-> Outcome(F, b)]
  <2> SUFFICES [b \in Seq(Byte) |-> G(Len(b))[b]] = [b \in Seq(Byte) |-> Outcome(F, b)]
    OBVIOUS
  <2> HIDE DEF F
  <2> QED
    BY <1>2
<1> HIDE DEF F
<1>4. \E f : f = [b \in Seq(Byte) |-> Outcome(f, b)]
  BY <1>3
<1>5. Parsed = CHOOSE f : f = [b \in Seq(Byte) |-> Outcome(f, b)]
  BY DEF Parsed, Outcome, Ends, After, WithEarlier, Kept
<1> QED
  BY <1>4, <1>5

Outcomes == [frames : Seq(Seq(Byte)), passed : Nat, mismatches : Nat, rest : Seq(Byte)]

LEMMA ParsedIs ==
  ASSUME NEW b \in Seq(Byte)
  PROVE  Parsed[b] = Outcome(Parsed, b)
<1>1. DOMAIN Parsed = Seq(Byte)
  BY ParsedEquation, Zenon
<1> QED
  BY ParsedEquation, Zenon

\* Prepending what came earlier keeps the types.
LEMMA WithEarlierType ==
  ASSUME NEW fs \in Seq(Seq(Byte)), NEW p \in Nat, NEW m \in Nat, NEW q \in Outcomes
  PROVE  WithEarlier(fs, p, m, q) \in Outcomes
<1>1. /\ q.frames \in Seq(Seq(Byte)) /\ q.passed \in Nat /\ q.mismatches \in Nat
      /\ q.rest \in Seq(Byte)
  BY DEF Outcomes
<1>2. fs \o q.frames \in Seq(Seq(Byte)) /\ p + q.passed \in Nat /\ m + q.mismatches \in Nat
  BY <1>1, ConcatProperties, SMTT(30)
<1> QED
  BY <1>1, <1>2 DEF WithEarlier, Outcomes

\* The outcome for every sequence of bytes has the types of a parser's variables.
LEMMA ParsedType == \A b \in Seq(Byte) : Parsed[b] \in Outcomes
<1> DEFINE T == {b \in Seq(Byte) : Parsed[b] \notin Outcomes}
<1> SUFFICES ASSUME T # {} PROVE FALSE
  OBVIOUS
<1>1. PICK b \in T : \A c \in Seq(Byte) : Len(c) < Len(b) => c \notin T
  BY ShortestExists
<1>2. b \in Seq(Byte) /\ Parsed[b] \notin Outcomes
  BY <1>1
<1>3. \A c \in Seq(Byte) : Len(c) < Len(b) => Parsed[c] \in Outcomes
  BY <1>1
<1> HIDE DEF T
<1>4. /\ After(b) \in Seq(Byte) /\ SyncOffset(b) \in Nat
      /\ SyncOffset(b) + 0 \in Nat /\ SyncOffset(b) + 1 \in Nat
  <2>1. After(b) \in Seq(Byte) /\ SyncOffset(b) \in 0 .. Len(b) /\ Len(b) \in Nat
    BY <1>2, AfterProperties, SyncOffsetIs, LenProperties
  <2> QED
    BY <2>1
<1>5. << >> \in Seq(Seq(Byte))
  BY EmptySeq
<1>6. CASE Ends(b)
  <2>1. Kept(b) \in Outcomes
    BY <1>4, <1>5 DEF Kept, Outcomes
  <2> QED
    BY <1>2, <1>6, <2>1, ParsedIs DEF Outcome
<1>7. CASE ~Ends(b)
  <2>1. ASSUME NEW n \in {TotalLength(After(b)), 1}
        PROVE  Parsed[Drop(After(b), n)] \in Outcomes
    BY <1>2, <1>3, <1>7, LaterIsShorter
  <2>2. <<Frame(After(b))>> \in Seq(Seq(Byte))
    <3>1. Frame(After(b)) \in Seq(Byte)
      BY <1>4, <1>7, FrameProperties DEF Ends
    <3> QED
      BY <3>1
  <2>3. CASE ChecksumMatches(After(b))
    <3>1. Parsed[b] = WithEarlier(<<Frame(After(b))>>, SyncOffset(b) + 0, 0,
                                  Parsed[Drop(After(b), TotalLength(After(b)))])
      BY <1>2, <1>7, <2>3, ParsedIs DEF Outcome
    <3> QED
      BY <1>2, <1>4, <2>1, <2>2, <3>1, WithEarlierType
  <2>4. CASE ~ChecksumMatches(After(b))
    <3>1. Parsed[b] = WithEarlier(<< >>, SyncOffset(b) + 1, 1, Parsed[Drop(After(b), 1)])
      BY <1>2, <1>7, <2>4, ParsedIs DEF Outcome
    <3>2. PICK e \in Seq(Seq(Byte)), s \in Nat, m \in Nat, q \in Outcomes :
            /\ e = << >> /\ s = SyncOffset(b) + 1 /\ m = 1
            /\ q = Parsed[Drop(After(b), 1)]
      BY <1>4, <1>5, <2>1
    <3>3. WithEarlier(e, s, m, q) \in Outcomes
      BY WithEarlierType
    <3> QED
      BY <1>2, <3>1, <3>2, <3>3
  <2> QED
    BY <2>3, <2>4
<1> QED
  BY <1>6, <1>7

\* Two outcomes one after the other, and none.
LEMMA WithEarlierTwice ==
  ASSUME NEW fs \in Seq(Seq(Byte)), NEW p \in Nat, NEW m \in Nat,
         NEW gs \in Seq(Seq(Byte)), NEW r \in Nat, NEW n \in Nat, NEW q \in Outcomes
  PROVE  WithEarlier(fs, p, m, WithEarlier(gs, r, n, q)) = WithEarlier(fs \o gs, p + r, m + n, q)
<1>1. /\ q.frames \in Seq(Seq(Byte)) /\ q.passed \in Nat /\ q.mismatches \in Nat
  BY DEF Outcomes
<1>2. fs \o (gs \o q.frames) = (fs \o gs) \o q.frames
  <2>1. PICK hs \in Seq(Seq(Byte)) : hs = q.frames
    BY <1>1
  <2>2. (fs \o gs) \o hs = fs \o (gs \o hs)
    BY ConcatAssociative, SMTT(30)
  <2> QED
    BY <2>1, <2>2
<1>3. p + (r + q.passed) = (p + r) + q.passed /\ m + (n + q.mismatches) = (m + n) + q.mismatches
  BY <1>1, SMTT(30)
<1> QED
  BY <1>2, <1>3 DEF WithEarlier

\* Bytes that are passed over for want of a start byte only count.
PassOver(n, q) == WithEarlier(<< >>, n, 0, q)

LEMMA PassedOver ==
  ASSUME NEW p \in Nat, NEW gs \in Seq(Seq(Byte)), NEW r \in Nat, NEW n \in Nat,
         NEW q \in Outcomes
  PROVE  PassOver(p, WithEarlier(gs, r, n, q)) = WithEarlier(gs, p + r, n, q)
<1>1. PICK z \in Nat, e \in Seq(Seq(Byte)) : z = 0 /\ e = << >>
  BY EmptySeq
<1>2. e \o gs = gs /\ z + n = n
  BY <1>1, ConcatEmptySeq
<1>3. WithEarlier(e, p, z, WithEarlier(gs, r, n, q)) = WithEarlier(e \o gs, p + r, z + n, q)
  BY WithEarlierTwice
<1> QED
  BY <1>1, <1>2, <1>3 DEF PassOver

LEMMA WithNothingEarlier ==
  ASSUME NEW q \in Outcomes
  PROVE  WithEarlier(<< >>, 0, 0, q) = q
<1>1. /\ q.frames \in Seq(Seq(Byte)) /\ q.passed \in Nat /\ q.mismatches \in Nat
      /\ q = [frames |-> q.frames, passed |-> q.passed, mismatches |-> q.mismatches, rest |-> q.rest]
  BY DEF Outcomes
<1>2. << >> \o q.frames = q.frames
  BY <1>1, ConcatEmptySeq
<1> QED
  BY <1>1, <1>2 DEF WithEarlier

-----------------------------------------------------------------------------
(* One pass of the loop, with more bytes behind the buffer                 *)

\* Taking bytes off the front does not touch what follows the buffer.
LEMMA DropOfConcat ==
  ASSUME NEW b \in Seq(Byte), NEW d \in Seq(Byte), NEW n \in 0 .. Len(b)
  PROVE  Drop(b \o d, n) = Drop(b, n) \o d
<1>1. /\ Len(b) \in Nat /\ Len(d) \in Nat /\ b \o d \in Seq(Byte)
      /\ Len(b \o d) = Len(b) + Len(d)
  BY ConcatProperties, LenProperties
<1>2. n \in 0 .. Len(b \o d) /\ n \in Nat
  BY <1>1
<1>3. /\ Drop(b \o d, n) \in Seq(Byte) /\ Len(Drop(b \o d, n)) = Len(b) + Len(d) - n
      /\ \A k \in 1 .. Len(b) + Len(d) - n : Drop(b \o d, n)[k] = (b \o d)[n + k]
  <2>1. PICK e \in Seq(Byte) : e = b \o d /\ Len(e) = Len(b) + Len(d)
    BY <1>1
  <2>2. /\ Drop(e, n) \in Seq(Byte) /\ Len(Drop(e, n)) = Len(e) - n
        /\ \A k \in 1 .. Len(e) - n : Drop(e, n)[k] = e[n + k]
    BY <1>2, <2>1, DropProperties
  <2> QED
    BY <2>1, <2>2
<1>4. /\ Drop(b, n) \in Seq(Byte) /\ Len(Drop(b, n)) = Len(b) - n
      /\ \A k \in 1 .. Len(b) - n : Drop(b, n)[k] = b[n + k]
  BY DropProperties
<1>5. /\ Drop(b, n) \o d \in Seq(Byte) /\ Len(Drop(b, n) \o d) = Len(b) - n + Len(d)
      /\ \A k \in 1 .. Len(b) - n + Len(d) :
           (Drop(b, n) \o d)[k] = IF k <= Len(b) - n THEN Drop(b, n)[k] ELSE d[k - (Len(b) - n)]
  <2>1. PICK e \in Seq(Byte) : e = Drop(b, n) /\ Len(e) = Len(b) - n
    BY <1>4
  <2>2. /\ e \o d \in Seq(Byte) /\ Len(e \o d) = Len(e) + Len(d)
        /\ \A k \in 1 .. Len(e) + Len(d) : (e \o d)[k] = IF k <= Len(e) THEN e[k] ELSE d[k - Len(e)]
    BY ConcatProperties
  <2> QED
    BY <2>1, <2>2
<1>6. ASSUME NEW k \in 1 .. Len(b) + Len(d) - n
      PROVE  Drop(b \o d, n)[k] = (Drop(b, n) \o d)[k]
  <2>1. /\ n + k \in 1 .. Len(b) + Len(d) /\ k \in 1 .. Len(b) - n + Len(d)
        /\ n + k - Len(b) = k - (Len(b) - n) /\ (n + k <= Len(b) <=> k <= Len(b) - n)
    BY <1>1, <1>2
  <2>2. (b \o d)[n + k] = IF n + k <= Len(b) THEN b[n + k] ELSE d[n + k - Len(b)]
    BY <2>1, ConcatProperties
  <2>3. ASSUME k <= Len(b) - n PROVE Drop(b, n)[k] = b[n + k]
    <3>1. k \in 1 .. Len(b) - n
      BY <1>1, <1>2, <2>3
    <3> QED
      BY <1>4, <3>1
  <2> QED
    BY <1>3, <1>5, <2>1, <2>2, <2>3
<1> QED
  <2>1. Len(b) + Len(d) - n = Len(b) - n + Len(d)
    BY <1>1, <1>2
  <2> QED
    BY <1>3, <1>5, <1>6, <2>1, SeqEqual

LEMMA DropTwice ==
  ASSUME NEW b \in Seq(Byte), NEW n \in Nat, NEW m \in Nat, n + m <= Len(b)
  PROVE  Drop(Drop(b, n), m) = Drop(b, n + m)
<1>1. Len(b) \in Nat
  BY LenProperties
<1>2. n \in 0 .. Len(b) /\ n + m \in 0 .. Len(b)
  BY <1>1
<1>3. PICK r \in Seq(Byte) : /\ r = Drop(b, n) /\ Len(r) = Len(b) - n
                             /\ \A k \in 1 .. Len(b) - n : r[k] = b[n + k]
  <2>1. /\ Drop(b, n) \in Seq(Byte) /\ Len(Drop(b, n)) = Len(b) - n
        /\ \A k \in 1 .. Len(b) - n : Drop(b, n)[k] = b[n + k]
    BY <1>2, DropProperties
  <2> QED
    BY <2>1
<1>4. m \in 0 .. Len(r)
  BY <1>1, <1>2, <1>3
<1>5. /\ Drop(r, m) \in Seq(Byte) /\ Len(Drop(r, m)) = Len(r) - m
      /\ \A k \in 1 .. Len(r) - m : Drop(r, m)[k] = r[m + k]
  BY <1>4, DropProperties
<1>6. /\ Drop(b, n + m) \in Seq(Byte) /\ Len(Drop(b, n + m)) = Len(b) - (n + m)
      /\ \A k \in 1 .. Len(b) - (n + m) : Drop(b, n + m)[k] = b[n + m + k]
  BY <1>2, DropProperties
<1>7. Len(r) - m = Len(b) - (n + m)
  BY <1>1, <1>3
<1>8. ASSUME NEW k \in 1 .. Len(r) - m
      PROVE  Drop(r, m)[k] = Drop(b, n + m)[k]
  <2>1. m + k \in 1 .. Len(b) - n /\ n + (m + k) = n + m + k /\ k \in 1 .. Len(b) - (n + m)
    BY <1>1, <1>3
  <2>2. r[m + k] = b[n + (m + k)]
    BY <1>3, <2>1
  <2> QED
    BY <1>5, <1>6, <2>1, <2>2
<1>9. Drop(r, m) = Drop(b, n + m)
  BY <1>5, <1>6, <1>7, <1>8, SeqEqual
<1> QED
  BY <1>3, <1>9

LEMMA DropNone ==
  ASSUME NEW b \in Seq(Byte)
  PROVE  Drop(b, 0) = b
  BY SubSeqFull DEF Drop

LEMMA DropAll ==
  ASSUME NEW b \in Seq(Byte)
  PROVE  Drop(b, Len(b)) = << >>
<1>1. Len(b) \in 0 .. Len(b)
  BY LenProperties
<1>2. Drop(b, Len(b)) \in Seq(Byte) /\ Len(Drop(b, Len(b))) = Len(b) - Len(b)
  BY <1>1, DropProperties
<1>3. Len(Drop(b, Len(b))) = 0
  BY <1>2, LenProperties
<1> QED
  BY <1>2, <1>3, EmptySeq

\* Passing over bytes in front of the first start byte only counts them.
LEMMA Skip ==
  ASSUME NEW b \in Seq(Byte), NEW n \in 0 .. SyncOffset(b)
  PROVE  Parsed[b] = PassOver(n, Parsed[Drop(b, n)])
<1> DEFINE c == Drop(b, n)
           s == SyncOffset(b)
<1>1. /\ s \in 0 .. Len(b) /\ Len(b) \in Nat /\ n \in 0 .. Len(b) /\ s \in Nat /\ n \in Nat
      /\ s - n \in Nat
  BY SyncOffsetIs, LenProperties
<1>2. /\ c \in Seq(Byte) /\ Len(c) = Len(b) - n
      /\ \A k \in 1 .. Len(b) - n : c[k] = b[n + k]
  BY <1>1, DropProperties
<1> HIDE DEF c, s
<1>3. SyncOffset(c) = s - n
  <2>1. s - n \in 0 .. Len(c)
    BY <1>1, <1>2
  <2>2. ASSUME NEW k \in 1 .. s - n
        PROVE  c[k] \notin {STXV1, STXV2}
    <3>1. n + k \in 1 .. s /\ k \in 1 .. Len(b) - n
      BY <1>1
    <3> QED
      BY <1>2, <3>1, SyncOffsetIs DEF s
  <2>3. ASSUME s - n < Len(c)
        PROVE  c[s - n + 1] \in {STXV1, STXV2}
    <3>1. s < Len(b) /\ s - n + 1 \in 1 .. Len(b) - n /\ n + (s - n + 1) = s + 1
      BY <1>1, <1>2, <2>3
    <3>2. c[s - n + 1] = b[n + (s - n + 1)]
      BY <1>2, <3>1
    <3>3. b[s + 1] \in {STXV1, STXV2}
      BY <3>1, SyncOffsetIs DEF s
    <3> QED
      BY <3>1, <3>2, <3>3
  <2> QED
    BY <1>2, <2>1, <2>2, <2>3, SyncOffsetUnique
<1>4. After(c) = After(b)
  <2>1. n + (s - n) = s /\ n + (s - n) <= Len(b)
    BY <1>1
  <2>2. Drop(Drop(b, n), s - n) = Drop(b, n + (s - n))
    BY <1>1, <2>1, DropTwice
  <2> QED
    BY <1>3, <2>1, <2>2 DEF After, c, s
<1>5. Parsed[b] = Outcome(Parsed, b) /\ Parsed[c] = Outcome(Parsed, c)
  BY <1>2, ParsedIs
<1>6. CASE Ends(b)
  <2>1. Parsed[b] = Kept(b) /\ Parsed[c] = Kept(c)
    BY <1>4, <1>5, <1>6 DEF Outcome, Ends
  <2>2. Parsed[c] = [frames |-> << >>, passed |-> s - n, mismatches |-> 0, rest |-> After(b)]
    BY <1>3, <1>4, <2>1 DEF Kept
  <2>3. Parsed[b] = [frames |-> << >>, passed |-> s, mismatches |-> 0, rest |-> After(b)]
    BY <2>1 DEF Kept, s
  <2>4. n + (s - n) = s /\ << >> \o << >> = << >>
    <3>1. n + (s - n) = s
      BY <1>1
    <3>2. << >> \in Seq(Byte)
      BY EmptySeq
    <3> QED
      BY <3>1, <3>2, ConcatEmptySeq
  <2>5. PassOver(n, Parsed[c])
          = [frames |-> << >> \o << >>, passed |-> n + (s - n), mismatches |-> 0 + 0,
             rest |-> After(b)]
    BY <2>2 DEF PassOver, WithEarlier
  <2> QED
    BY <2>3, <2>4, <2>5 DEF c
<1>7. CASE ~Ends(b)
  <2> DEFINE r == After(b)
  <2>1. ~Ends(c)
    BY <1>4, <1>7 DEF Ends
  <2>2. << >> \in Seq(Seq(Byte)) /\ <<Frame(r)>> \in Seq(Seq(Byte))
    <3>1. r \in Seq(Byte)
      BY AfterProperties
    <3>2. Frame(r) \in Seq(Byte)
      BY <1>7, <3>1, FrameProperties DEF Ends
    <3> QED
      BY <3>2, EmptySeq
  <2>3. ASSUME NEW m \in {TotalLength(r), 1}
        PROVE  Parsed[Drop(r, m)] \in Outcomes
    BY <1>7, LaterIsShorter, ParsedType
  <2>4. CASE ChecksumMatches(r)
    <3> DEFINE q == Parsed[Drop(r, TotalLength(r))]
    <3>1. /\ Parsed[b] = WithEarlier(<<Frame(r)>>, s + 0, 0, q)
          /\ Parsed[c] = WithEarlier(<<Frame(r)>>, s - n + 0, 0, q)
      BY <1>3, <1>4, <1>5, <1>7, <2>1, <2>4 DEF Outcome, s
    <3>2. q \in Outcomes
      BY <2>3
    <3> HIDE DEF q, r
    <3>3. PICK i \in Nat, m \in Nat : i = s - n + 0 /\ m = 0
      BY <1>1
    <3>4. PassOver(n, WithEarlier(<<Frame(r)>>, i, m, q))
            = WithEarlier(<<Frame(r)>>, n + i, m, q)
      <4>1. PICK e \in Seq(Seq(Byte)) : e = <<Frame(r)>>
        BY <2>2 DEF r
      <4>2. PassOver(n, WithEarlier(e, i, m, q)) = WithEarlier(e, n + i, m, q)
        BY <1>1, <3>2, PassedOver
      <4> QED
        BY <4>1, <4>2
    <3>5. n + i = s + 0
      BY <1>1, <3>3
    <3> QED
      BY <3>1, <3>3, <3>4, <3>5 DEF c
  <2>5. CASE ~ChecksumMatches(r)
    <3> DEFINE q == Parsed[Drop(r, 1)]
    <3>1. /\ Parsed[b] = WithEarlier(<< >>, s + 1, 1, q)
          /\ Parsed[c] = WithEarlier(<< >>, s - n + 1, 1, q)
      BY <1>3, <1>4, <1>5, <1>7, <2>1, <2>5 DEF Outcome, s
    <3>2. q \in Outcomes
      BY <2>3
    <3> HIDE DEF q, r
    <3>3. PICK i \in Nat, m \in Nat : i = s - n + 1 /\ m = 1
      BY <1>1
    <3>4. PassOver(n, WithEarlier(<< >>, i, m, q)) = WithEarlier(<< >>, n + i, m, q)
      <4>1. PICK e \in Seq(Seq(Byte)) : e = << >>
        BY <2>2
      <4>2. PassOver(n, WithEarlier(e, i, m, q)) = WithEarlier(e, n + i, m, q)
        BY <1>1, <3>2, PassedOver
      <4> QED
        BY <4>1, <4>2
    <3>5. n + i = s + 1
      BY <1>1, <3>3
    <3> QED
      BY <3>1, <3>3, <3>4, <3>5 DEF c
  <2> QED
    BY <2>4, <2>5
<1> QED
  BY <1>6, <1>7

\* What lies in a buffer is the same when more follows it.
LEMMA PartOfConcat ==
  ASSUME NEW b \in Seq(Byte), NEW d \in Seq(Byte), NEW m \in Nat, NEW n \in Nat,
         1 <= m, n <= Len(b)
  PROVE  SubSeq(b \o d, m, n) = SubSeq(b, m, n)
<1>1. Len(b) \in Nat
  BY LenProperties
<1>2. CASE n < m
  <2>1. m \in Int /\ n \in Int
    OBVIOUS
  <2> QED
    BY <1>2, <2>1, SubSeqEmpty
<1>3. CASE m <= n
  <2>1. m \in 1 .. Len(b) /\ n \in 1 .. Len(b)
    BY <1>1, <1>3
  <2> QED
    BY <2>1, SubSeqOfConcat1
<1> QED
  BY <1>2, <1>3

\* A frame that is complete is the same frame whatever follows it.
LEMMA FrameOfConcat ==
  ASSUME NEW b \in Seq(Byte), NEW d \in Seq(Byte), b # << >>, b[1] \in {STXV1, STXV2},
         Complete(b)
  PROVE  /\ Complete(b \o d)
         /\ TotalLength(b \o d) = TotalLength(b)
         /\ Frame(b \o d) = Frame(b)
         /\ ChecksumMatches(b \o d) <=> ChecksumMatches(b)
<1> USE ByteAssumption, SizeAssumption
<1> DEFINE c == b \o d
<1>1. /\ Len(b) \in Nat /\ Len(d) \in Nat /\ c \in Seq(Byte) /\ Len(c) = Len(b) + Len(d)
      /\ \A k \in 1 .. Len(b) : b[k] \in Byte
  BY ConcatProperties, LenProperties
<1>2. ASSUME NEW k \in 1 .. Len(b)
      PROVE  c[k] = b[k]
  <2>1. k \in 1 .. Len(b) + Len(d) /\ k <= Len(b)
    BY <1>1
  <2> QED
    BY <2>1, ConcatProperties
<1>3. /\ HeaderSize(b) \in Nat /\ HeaderSize(b) >= 2 /\ Len(b) >= HeaderSize(b)
      /\ b[1] = STXV2 => HeaderSize(b) >= 3
  BY DEF Complete, HeaderSize
<1>4. 1 \in 1 .. Len(b) /\ 2 \in 1 .. Len(b) /\ b[2] \in Nat
  <2>1. 1 \in 1 .. Len(b) /\ 2 \in 1 .. Len(b)
    BY <1>1, <1>3
  <2>2. b[2] \in Byte
    BY <1>1, <2>1
  <2> QED
    BY <2>1, <2>2
<1>5. b[1] = STXV2 => 3 \in 1 .. Len(b)
  BY <1>1, <1>3
<1> HIDE DEF c
<1>6. c[1] = b[1] /\ c[2] = b[2] /\ (b[1] = STXV2 => c[3] = b[3])
  BY <1>2, <1>4, <1>5
<1>7. HeaderSize(c) = HeaderSize(b) /\ (Signed(c) <=> Signed(b))
  BY <1>6 DEF HeaderSize, Signed
<1>8. ChecksumOffset(c) = ChecksumOffset(b) /\ TotalLength(c) = TotalLength(b)
  BY <1>6, <1>7 DEF ChecksumOffset, TotalLength
<1>9. TotalLength(b) \in 1 .. Len(b)
  BY FrameProperties
<1>10. /\ ChecksumOffset(b) \in Nat
       /\ ChecksumOffset(b) + 1 \in Nat /\ 1 <= ChecksumOffset(b) + 1
       /\ ChecksumOffset(b) + ChecksumSize \in Nat
       /\ ChecksumOffset(b) <= Len(b) /\ ChecksumOffset(b) + ChecksumSize <= Len(b)
  <2>1. ChecksumOffset(b) \in Nat
    BY <1>3, <1>4 DEF ChecksumOffset
  <2>2. (IF Signed(b) THEN SignatureSize ELSE 0) \in Nat
    OBVIOUS
  <2>3. TotalLength(b) >= ChecksumOffset(b) + ChecksumSize
    BY <2>1, <2>2 DEF TotalLength
  <2> QED
    BY <1>1, <1>9, <2>1, <2>3, SMTT(30)
<1>11. Complete(c)
  <2>1. Len(c) >= HeaderSize(b)
    BY <1>1, <1>3
  <2>2. Len(c) >= TotalLength(b)
    BY <1>1, <1>9
  <2> QED
    BY <1>7, <1>8, <2>1, <2>2 DEF Complete
<1>12. Frame(c) = Frame(b)
  <2>1. PICK n \in Nat : n = TotalLength(b) /\ n <= Len(b)
    BY <1>1, <1>9
  <2>2. SubSeq(c, 1, n) = SubSeq(b, 1, n)
    BY <2>1, PartOfConcat DEF c
  <2> QED
    BY <1>8, <2>1, <2>2 DEF Frame
<1>13. ChecksumMatches(c) <=> ChecksumMatches(b)
  <2>1. SubSeq(c, 1, ChecksumOffset(b)) = SubSeq(b, 1, ChecksumOffset(b))
    BY <1>10, PartOfConcat, SMTT(30) DEF c
  <2>2. PICK m \in Nat, n \in Nat : /\ m = ChecksumOffset(b) + 1 /\ 1 <= m
                                    /\ n = ChecksumOffset(b) + ChecksumSize /\ n <= Len(b)
    BY <1>10
  <2>3. SubSeq(c, m, n) = SubSeq(b, m, n)
    <3>1. 1 <= m /\ n <= Len(b)
      BY <2>2
    <3> QED
      BY <3>1, PartOfConcat DEF c
  <2> QED
    BY <1>8, <2>1, <2>2, <2>3 DEF ChecksumMatches
<1> QED
  BY <1>8, <1>11, <1>12, <1>13 DEF c

\* Bytes that cannot start a frame cannot when more follows them.
LEMMA SkipOfConcat ==
  ASSUME NEW b \in Seq(Byte), NEW d \in Seq(Byte)
  PROVE  Parsed[b \o d] = PassOver(SyncOffset(b), Parsed[Drop(b, SyncOffset(b)) \o d])
<1> DEFINE n == SyncOffset(b)
<1>1. n \in 0 .. Len(b) /\ Len(b) \in Nat /\ Len(d) \in Nat
  BY SyncOffsetIs, LenProperties
<1>2. PICK c \in Seq(Byte) : /\ c = b \o d /\ Len(c) = Len(b) + Len(d)
                             /\ \A k \in 1 .. Len(b) + Len(d) : k <= Len(b) => c[k] = b[k]
  BY ConcatProperties
<1>3. n \in 0 .. SyncOffset(c)
  <2>1. SyncOffset(c) \in 0 .. Len(c)
    BY SyncOffsetIs
  <2>2. ASSUME SyncOffset(c) < n
        PROVE  FALSE
    <3> DEFINE k == SyncOffset(c) + 1
    <3>1. k \in 1 .. n /\ k \in 1 .. Len(b) + Len(d) /\ k <= Len(b) /\ SyncOffset(c) < Len(c)
      BY <1>1, <1>2, <2>1, <2>2
    <3>2. c[k] \in {STXV1, STXV2}
      BY <3>1, SyncOffsetIs
    <3> HIDE DEF k
    <3>3. c[k] = b[k]
      BY <1>2, <3>1
    <3> QED
      BY <3>1, <3>2, <3>3, SyncOffsetIs
  <2> QED
    BY <1>1, <1>2, <2>1, <2>2
<1>4. Parsed[c] = PassOver(n, Parsed[Drop(c, n)])
  BY <1>3, Skip
<1>5. Drop(c, n) = Drop(b, n) \o d
  BY <1>1, <1>2, DropOfConcat
<1> QED
  BY <1>2, <1>4, <1>5

\* A pass that finds a frame, or gives up a start byte, does the same when more
\* follows the buffer.
LEMMA PassOfConcat ==
  ASSUME NEW b \in Seq(Byte), NEW d \in Seq(Byte), Syncs(b) # {}, SyncOffset(b) = 0, Complete(b)
  PROVE  Parsed[b \o d] =
           IF ChecksumMatches(b)
             THEN WithEarlier(<<Frame(b)>>, 0, 0, Parsed[Drop(b, TotalLength(b)) \o d])
           ELSE WithEarlier(<< >>, 1, 1, Parsed[Drop(b, 1) \o d])
<1>1. Len(b) \in Nat /\ Len(d) \in Nat
  BY LenProperties
<1>2. Len(b) > 0 /\ b # << >> /\ b[1] \in {STXV1, STXV2}
  <2>1. SyncOffset(b) \in 0 .. Len(b) - 1 /\ b[1] \in {STXV1, STXV2}
    BY SyncProperties
  <2>2. Len(b) > 0
    BY <1>1, <2>1
  <2>3. Len(<< >>) = 0
    OBVIOUS
  <2> QED
    BY <2>1, <2>2, <2>3
<1>3. PICK c \in Seq(Byte) : /\ c = b \o d /\ Len(c) = Len(b) + Len(d)
                             /\ \A k \in 1 .. Len(b) + Len(d) : k <= Len(b) => c[k] = b[k]
  BY ConcatProperties, ZenonT(60)
<1>4. c # << >> /\ c[1] = b[1] /\ 0 \in 0 .. Len(c) /\ 0 < Len(c)
  <2>1. 1 \in 1 .. Len(b) + Len(d) /\ 1 <= Len(b) /\ Len(c) > 0 /\ Len(c) \in Nat
    BY <1>1, <1>2, <1>3
  <2>2. Len(<< >>) = 0
    OBVIOUS
  <2> QED
    BY <1>3, <2>1, <2>2
<1>5. SyncOffset(c) = 0
  BY <1>2, <1>4, SyncOffsetUnique
<1>6. After(c) = c
  BY <1>5, DropNone DEF After
<1>7. /\ Complete(c) /\ TotalLength(c) = TotalLength(b) /\ Frame(c) = Frame(b)
      /\ ChecksumMatches(c) <=> ChecksumMatches(b)
  BY <1>2, <1>3, FrameOfConcat
<1>8. ~Ends(c)
  BY <1>4, <1>6, <1>7 DEF Ends
<1>9. ASSUME NEW n \in {TotalLength(b), 1}
      PROVE  Drop(c, n) = Drop(b, n) \o d
  <2>1. TotalLength(b) \in 1 .. Len(b)
    BY <1>2, FrameProperties
  <2>2. n \in 0 .. Len(b)
    BY <1>1, <1>2, <2>1
  <2> QED
    BY <1>3, <2>2, DropOfConcat
<1>10. Parsed[c] = Outcome(Parsed, c)
  BY ParsedIs
<1>11. Parsed[c] = IF ChecksumMatches(c)
                     THEN WithEarlier(<<Frame(c)>>, 0 + 0, 0, Parsed[Drop(c, TotalLength(c))])
                   ELSE WithEarlier(<< >>, 0 + 1, 1, Parsed[Drop(c, 1)])
  BY <1>5, <1>6, <1>8, <1>10 DEF Outcome
<1>12. /\ Drop(c, TotalLength(b)) = Drop(b, TotalLength(b)) \o d
       /\ Drop(c, 1) = Drop(b, 1) \o d
  BY <1>9
<1>13. 0 + 0 = 0 /\ 0 + 1 = 1
  OBVIOUS
<1> QED
  BY <1>3, <1>7, <1>11, <1>12, <1>13

-----------------------------------------------------------------------------
(* How the stream is cut does not matter                                   *)

FoundBytes == [i \in DOMAIN frames |-> frames[i].bytes]

\* Whatever follows, the whole stream has the outcome of what is in the buffer,
\* with what the parser has found and counted so far.
Resumes ==
  \A d \in Seq(Byte) :
    Parsed[stream \o d]
      = WithEarlier(FoundBytes, stats.invalid, stats.checksum, Parsed[buffer \o d])

LEMMA FoundBytesType ==
  ASSUME TypeOK
  PROVE  FoundBytes \in Seq(Seq(Byte)) /\ Len(FoundBytes) = Len(frames)
<1>1. frames \in Seq([at : Nat, bytes : Seq(Byte)]) /\ Len(frames) \in Nat
      /\ DOMAIN frames = 1 .. Len(frames)
  BY LenProperties DEF TypeOK
<1>2. ASSUME NEW i \in 1 .. Len(frames)
      PROVE  frames[i].bytes \in Seq(Byte)
  <2>1. frames[i] \in [at : Nat, bytes : Seq(Byte)]
    BY <1>1, ElementOfSeq
  <2> QED
    BY <2>1
<1>3. FoundBytes = [i \in 1 .. Len(frames) |-> frames[i].bytes]
  BY <1>1 DEF FoundBytes
<1>4. FoundBytes \in [1 .. Len(frames) -> Seq(Byte)]
  BY <1>2, <1>3
<1> QED
  BY <1>1, <1>3, <1>4, SMTT(30)

LEMMA InitResumes == Init => Resumes
<1> SUFFICES ASSUME Init, NEW d \in Seq(Byte)
             PROVE  Parsed[stream \o d]
                      = WithEarlier(FoundBytes, stats.invalid, stats.checksum, Parsed[buffer \o d])
  BY DEF Resumes
<1>1. /\ stream \o d = d /\ buffer \o d = d
  BY ConcatEmptySeq DEF Init
<1>2. FoundBytes = << >> /\ stats.invalid = 0 /\ stats.checksum = 0
  BY DEF Init, FoundBytes
<1>3. Parsed[d] \in Outcomes
  BY ParsedType
<1> QED
  BY <1>1, <1>2, <1>3, WithNothingEarlier

\* A step that takes n bytes off the buffer, and counts and finds what the outcome
\* of the buffer has in front of the outcome of what is left.
LEMMA PassResumes ==
  ASSUME TypeOK, Resumes, NEW b, b \in Seq(Byte), buffer' = b, stream' = stream,
         NEW fs \in Seq(Seq(Byte)), NEW p \in Nat, NEW m \in Nat,
         \A d \in Seq(Byte) : Parsed[buffer \o d] = WithEarlier(fs, p, m, Parsed[b \o d]),
         FoundBytes' = FoundBytes \o fs,
         stats'.invalid = stats.invalid + p, stats'.checksum = stats.checksum + m
  PROVE  Resumes'
<1> SUFFICES ASSUME NEW d \in Seq(Byte)
             PROVE  Parsed[stream \o d]
                      = WithEarlier(FoundBytes', stats'.invalid, stats'.checksum, Parsed[b \o d])
  BY DEF Resumes
<1>1. FoundBytes \in Seq(Seq(Byte)) /\ stats.invalid \in Nat /\ stats.checksum \in Nat
  BY FoundBytesType DEF TypeOK
<1>2. PICK gs \in Seq(Seq(Byte)), r \in Nat, n \in Nat :
        gs = FoundBytes /\ r = stats.invalid /\ n = stats.checksum
  BY <1>1
<1>3. b \o d \in Seq(Byte)
  BY ConcatProperties
<1>4. PICK q \in Outcomes : q = Parsed[b \o d]
  BY <1>3, ParsedType
<1>5. Parsed[stream \o d] = WithEarlier(gs, r, n, WithEarlier(fs, p, m, q))
  BY <1>2, <1>4 DEF Resumes
<1>6. WithEarlier(gs, r, n, WithEarlier(fs, p, m, q)) = WithEarlier(gs \o fs, r + p, n + m, q)
  BY WithEarlierTwice, SMTT(30)
<1> QED
  BY <1>2, <1>4, <1>5, <1>6


LEMMA NextResumes ==
  ASSUME IInv, NoOverflow, Resumes, [Next]_vars
  PROVE  Resumes'
<1> USE DEF IInv
<1>1. /\ buffer \in Seq(Byte) /\ stream \in Seq(Byte) /\ Len(buffer) \in Nat
      /\ SyncOffset(buffer) \in 0 .. Len(buffer)
      /\ stats \in [total : Nat, valid : Nat, invalid : Nat, checksum : Nat]
      /\ frames \in Seq([at : Nat, bytes : Seq(Byte)])
  BY LenProperties, SyncOffsetIs DEF TypeOK
<1>2. << >> \in Seq(Seq(Byte)) /\ FoundBytes \in Seq(Seq(Byte)) /\ FoundBytes \o << >> = FoundBytes
  BY EmptySeq, FoundBytesType, ConcatEmptySeq
<1>3. ASSUME NEW n \in 0 .. Len(buffer), NEW d \in Seq(Byte)
      PROVE  Drop(buffer, n) \in Seq(Byte)
  BY <1>1, DropProperties
<1>4. CASE \E data \in Chunks : Call(data)
  <2>1. PICK data \in Chunks : Call(data)
    BY <1>4
  <2>2. data \in Seq(Byte)
    <3>1. PICK m \in 0 .. MaxChunk : data \in [1 .. m -> Byte]
      BY DEF Chunks
    <3>2. m \in Nat
      BY <3>1, BoundAssumption
    <3> QED
      BY <3>1, <3>2
  <2> SUFFICES ASSUME NEW d \in Seq(Byte)
               PROVE  Parsed[stream' \o d]
                        = WithEarlier(FoundBytes', stats'.invalid, stats'.checksum, Parsed[buffer' \o d])
    BY DEF Resumes
  <2>3. /\ buffer' = buffer \o data /\ stream' = stream \o data
        /\ stats' = stats /\ FoundBytes' = FoundBytes
    BY <2>1 DEF Call, FoundBytes
  <2>4. data \o d \in Seq(Byte)
    BY <2>2, ConcatProperties
  <2>5. stream' \o d = stream \o (data \o d) /\ buffer' \o d = buffer \o (data \o d)
    <3>1. PICK s \in Seq(Byte), b \in Seq(Byte), e \in Seq(Byte) : s = stream /\ b = buffer /\ e = data
      BY <1>1, <2>2
    <3>2. (s \o e) \o d = s \o (e \o d)
      BY ConcatAssociative, SMTT(30)
    <3>3. (b \o e) \o d = b \o (e \o d)
      BY ConcatAssociative, SMTT(30)
    <3> QED
      BY <2>3, <3>1, <3>2, <3>3
  <2>6. Parsed[stream \o (data \o d)]
          = WithEarlier(FoundBytes, stats.invalid, stats.checksum, Parsed[buffer \o (data \o d)])
    BY <2>4 DEF Resumes
  <2> QED
    BY <2>3, <2>5, <2>6
<1>5. CASE NoSync \/ Resync
  <2> DEFINE n == SyncOffset(buffer)
             b == Drop(buffer, n)
  <2>1. /\ buffer' = b /\ stream' = stream /\ frames' = frames
        /\ stats'.invalid = stats.invalid + n /\ stats'.checksum = stats.checksum + 0
    <3>1. CASE Resync
      BY <1>1, <3>1 DEF Resync
    <3>2. CASE NoSync
      <4>1. n = Len(buffer)
        BY <3>2 DEF NoSync, SyncOffset
      <4>2. b = << >>
        BY <1>1, <4>1, DropAll
      <4>3. Drop(<< >>, 0) = << >>
        BY EmptySeq, DropNone
      <4>4. ~(Len(<< >>) > MaxBufferedBytes)
        BY SizeAssumption, EmptySeq
      <4> QED
        BY <1>1, <3>2, <4>1, <4>2, <4>3, <4>4 DEF NoSync, Return
    <3> QED
      BY <1>5, <3>1, <3>2
  <2>2. b \in Seq(Byte) /\ n \in Nat
    BY <1>1, <1>3
  <2>3. \A d \in Seq(Byte) : Parsed[buffer \o d] = WithEarlier(<< >>, n, 0, Parsed[b \o d])
    BY <1>1, SkipOfConcat DEF PassOver
  <2>4. FoundBytes' = FoundBytes \o << >>
    BY <1>2, <2>1 DEF FoundBytes
  <2> HIDE DEF b, n
  <2> QED
    BY <1>2, <2>1, <2>2, <2>3, <2>4, PassResumes
<1>6. CASE Incomplete
  <2>1. Synced /\ ~Complete(buffer) /\ Return(buffer, 0)
    BY <1>6 DEF Incomplete
  <2>2. ~(Len(buffer) > MaxBufferedBytes)
    BY <1>1, <2>1, SizeAssumption DEF NoOverflow
  <2>3. /\ buffer' = buffer /\ stream' = stream /\ FoundBytes' = FoundBytes
        /\ stats'.invalid = stats.invalid /\ stats'.checksum = stats.checksum
    <3>1. Drop(buffer, 0) = buffer
      BY <1>1, DropNone
    <3> QED
      BY <1>1, <2>1, <2>2, <3>1 DEF Return, FoundBytes
  <2> QED
    BY <2>3 DEF Resumes
<1>7. CASE Mismatch
  <2>1. /\ Syncs(buffer) # {} /\ SyncOffset(buffer) = 0 /\ Complete(buffer)
        /\ ~ChecksumMatches(buffer)
        /\ buffer' = Drop(buffer, 1) /\ stream' = stream /\ frames' = frames
        /\ stats'.invalid = stats.invalid + 1 /\ stats'.checksum = stats.checksum + 1
    BY <1>1, <1>7 DEF Mismatch, Synced
  <2>2. 1 \in 0 .. Len(buffer)
    <3>1. SyncOffset(buffer) \in 0 .. Len(buffer) - 1
      BY <1>1, <2>1, SyncProperties
    <3> QED
      BY <1>1, <3>1
  <2>3. PICK b \in Seq(Byte) : b = Drop(buffer, 1)
    BY <1>1, <2>2, DropProperties
  <2>4. \A d \in Seq(Byte) : Parsed[buffer \o d] = WithEarlier(<< >>, 1, 1, Parsed[b \o d])
    BY <1>1, <2>1, <2>3, PassOfConcat
  <2>5. FoundBytes' = FoundBytes \o << >>
    BY <1>2, <2>1 DEF FoundBytes
  <2>6. PICK fs \in Seq(Seq(Byte)), p \in Nat : fs = << >> /\ p = 1
    BY <1>2
  <2>7. \A d \in Seq(Byte) : Parsed[buffer \o d] = WithEarlier(fs, p, p, Parsed[b \o d])
    BY <2>4, <2>6
  <2>8. /\ FoundBytes' = FoundBytes \o fs
        /\ stats'.invalid = stats.invalid + p /\ stats'.checksum = stats.checksum + p
        /\ buffer' = b /\ stream' = stream
    BY <2>1, <2>3, <2>5, <2>6
  <2> QED
    BY <2>7, <2>8, PassResumes
<1>8. CASE Take
  <2> DEFINE f == [at |-> Len(stream) - Len(buffer), bytes |-> Frame(buffer)]
  <2>1. /\ Syncs(buffer) # {} /\ SyncOffset(buffer) = 0 /\ Complete(buffer)
        /\ ChecksumMatches(buffer)
        /\ buffer' = Drop(buffer, TotalLength(buffer)) /\ stream' = stream
        /\ frames' = Append(frames, f)
        /\ stats'.invalid = stats.invalid + 0 /\ stats'.checksum = stats.checksum + 0
    BY <1>1, <1>8 DEF Take, Found, Synced
  <2>2. buffer # << >>
    <3>1. SyncOffset(buffer) \in 0 .. Len(buffer) - 1
      BY <1>1, <2>1, SyncProperties
    <3>2. Len(buffer) # 0
      BY <1>1, <3>1
    <3> QED
      BY <3>2
  <2>3. /\ TotalLength(buffer) \in 1 .. Len(buffer) /\ Frame(buffer) \in Seq(Byte)
        /\ TotalLength(buffer) \in 0 .. Len(buffer)
    BY <1>1, <2>1, <2>2, FrameProperties
  <2>4. PICK b \in Seq(Byte) : b = Drop(buffer, TotalLength(buffer))
    BY <1>1, <2>3, DropProperties
  <2>5. \A d \in Seq(Byte) :
          Parsed[buffer \o d] = WithEarlier(<<Frame(buffer)>>, 0, 0, Parsed[b \o d])
    BY <1>1, <2>1, <2>4, PassOfConcat
  <2>6. <<Frame(buffer)>> \in Seq(Seq(Byte))
    BY <2>3
  <2>7. FoundBytes' = FoundBytes \o <<Frame(buffer)>>
    <3>1. Len(stream) - Len(buffer) \in Nat
      <4>1. Len(stream) = framed + stats.invalid + Len(buffer) /\ framed \in Nat
        BY DEF BytesAccounted, TypeOK
      <4> QED
        BY <1>1, <4>1
    <3>2. f \in [at : Nat, bytes : Seq(Byte)] /\ f.bytes = Frame(buffer)
      BY <2>3, <3>1
    <3> HIDE DEF f
    <3>3. /\ Len(frames) \in Nat /\ DOMAIN frames = 1 .. Len(frames)
          /\ frames' \in Seq([at : Nat, bytes : Seq(Byte)])
          /\ DOMAIN frames' = 1 .. Len(frames) + 1
          /\ \A i \in 1 .. Len(frames) : frames'[i] = frames[i]
          /\ frames'[Len(frames) + 1] = f
      BY <1>1, <2>1, <3>2, AppendProperties, LenProperties
    <3>4. PICK gs \in Seq(Seq(Byte)) : gs = FoundBytes /\ Len(gs) = Len(frames)
      BY FoundBytesType
    <3>5. gs \o <<Frame(buffer)>> = Append(gs, Frame(buffer))
      BY <2>3, AppendIsConcat
    <3>6. PICK hs \in Seq(Seq(Byte)) :
            /\ hs = Append(gs, Frame(buffer)) /\ Len(hs) = Len(frames) + 1
            /\ \A i \in 1 .. Len(frames) : hs[i] = gs[i]
            /\ hs[Len(frames) + 1] = Frame(buffer)
      <4>1. PICK e \in Seq(Byte) : e = Frame(buffer)
        BY <2>3
      <4>2. /\ Append(gs, e) \in Seq(Seq(Byte)) /\ Len(Append(gs, e)) = Len(gs) + 1
            /\ \A i \in 1 .. Len(gs) : Append(gs, e)[i] = gs[i]
            /\ Append(gs, e)[Len(gs) + 1] = e
        BY AppendProperties
      <4> QED
        BY <3>4, <4>1, <4>2
    <3>7. FoundBytes' = [i \in 1 .. Len(frames) + 1 |-> frames'[i].bytes]
      BY <3>3 DEF FoundBytes
    <3>8. ASSUME NEW i \in 1 .. Len(frames) + 1
          PROVE  frames'[i].bytes = hs[i]
      <4>1. CASE i \in 1 .. Len(frames)
        <5>1. gs[i] = frames[i].bytes
          BY <3>3, <3>4, <4>1 DEF FoundBytes
        <5> QED
          BY <3>3, <3>6, <4>1, <5>1
      <4>2. CASE i = Len(frames) + 1
        BY <3>2, <3>3, <3>6, <4>2
      <4> QED
        BY <3>3, <4>1, <4>2
    <3>9. hs = [i \in 1 .. Len(frames) + 1 |-> hs[i]]
      <4>1. hs \in [1 .. Len(hs) -> Seq(Byte)]
        BY LenProperties
      <4> QED
        BY <3>6, <4>1
    <3> QED
      BY <3>4, <3>5, <3>6, <3>7, <3>8, <3>9
  <2> HIDE DEF f
  <2>8. PICK fs \in Seq(Seq(Byte)), p \in Nat : fs = <<Frame(buffer)>> /\ p = 0
    BY <2>6
  <2>9. \A d \in Seq(Byte) : Parsed[buffer \o d] = WithEarlier(fs, p, p, Parsed[b \o d])
    BY <2>5, <2>8
  <2>10. /\ FoundBytes' = FoundBytes \o fs
         /\ stats'.invalid = stats.invalid + p /\ stats'.checksum = stats.checksum + p
         /\ buffer' = b /\ stream' = stream
    BY <2>1, <2>4, <2>7, <2>8
  <2> QED
    BY <2>9, <2>10, PassResumes
<1>9. CASE UNCHANGED vars
  BY <1>9 DEF vars, Resumes, FoundBytes
<1> QED
  BY <1>4, <1>5, <1>6, <1>7, <1>8, <1>9 DEF Next

\* An incomplete frame, or nothing, is its own outcome.
LEMMA HeldIsKept ==
  ASSUME TypeOK, HeldIsIncomplete, ~calling
  PROVE  Parsed[buffer] = [frames |-> << >>, passed |-> 0, mismatches |-> 0, rest |-> buffer]
<1>1. buffer \in Seq(Byte) /\ Len(buffer) \in Nat
  BY LenProperties DEF TypeOK
<1>2. buffer = << >> \/ (buffer[1] \in {STXV1, STXV2} /\ ~Complete(buffer))
  BY DEF HeldIsIncomplete
<1>3. SyncOffset(buffer) = 0
  <2>1. CASE buffer = << >>
    <3>1. Len(buffer) = 0
      BY <2>1
    <3>2. SyncOffset(buffer) \in 0 .. Len(buffer)
      BY <1>1, SyncOffsetIs
    <3> QED
      BY <3>1, <3>2
  <2>2. CASE buffer # << >>
    <3>1. PICK n \in 0 .. Len(buffer) : n = 0
      BY <1>1
    <3>2. buffer[n + 1] \in {STXV1, STXV2} /\ \A k \in 1 .. n : buffer[k] \notin {STXV1, STXV2}
      BY <1>2, <2>2, <3>1
    <3>3. SyncOffset(buffer) = n
      BY <1>1, <3>2, SyncOffsetUnique
    <3> QED
      BY <3>1, <3>3
  <2> QED
    BY <2>1, <2>2
<1>4. After(buffer) = buffer
  BY <1>1, <1>3, DropNone DEF After
<1>5. Ends(buffer)
  BY <1>2, <1>4 DEF Ends
<1> QED
  BY <1>1, <1>3, <1>4, <1>5, ParsedIs DEF Outcome, Kept

\* However the transport cuts a stream into calls of Parse, the frames found, the
\* counters and the buffer are those of one call with the whole stream.
THEOREM CutsDoNotChangeTheOutcome == Spec => []CutsDoNotMatter
<1>1. Init => IInv /\ Resumes
  BY InitInv, InitResumes
<1>2. IInv /\ Resumes /\ [Next]_vars => (IInv /\ Resumes)'
  BY IncompleteFits, NextInv, NextResumes
<1>3. IInv /\ Resumes => CutsDoNotMatter
  <2> SUFFICES ASSUME IInv, Resumes, ~calling
               PROVE  /\ FoundBytes = Parsed[stream].frames
                      /\ stats.invalid = Parsed[stream].passed
                      /\ stats.checksum = Parsed[stream].mismatches
                      /\ buffer = Parsed[stream].rest
    BY DEF CutsDoNotMatter, FoundBytes
  <2>1. /\ stream \in Seq(Byte) /\ buffer \in Seq(Byte) /\ << >> \in Seq(Byte)
        /\ stats.invalid \in Nat /\ stats.checksum \in Nat
        /\ FoundBytes \in Seq(Seq(Byte))
    BY FoundBytesType, EmptySeq DEF IInv, TypeOK
  <2>2. stream \o << >> = stream /\ buffer \o << >> = buffer /\ FoundBytes \o << >> = FoundBytes
    BY <2>1, ConcatEmptySeq
  <2>3. Parsed[stream] = WithEarlier(FoundBytes, stats.invalid, stats.checksum, Parsed[buffer])
    BY <2>1, <2>2 DEF Resumes
  <2>4. Parsed[buffer] = [frames |-> << >>, passed |-> 0, mismatches |-> 0, rest |-> buffer]
    BY HeldIsKept DEF IInv
  <2>5. stats.invalid + 0 = stats.invalid /\ stats.checksum + 0 = stats.checksum
    BY <2>1
  <2>6. PICK q : /\ q = Parsed[buffer] /\ q.frames = << >> /\ q.passed = 0 /\ q.mismatches = 0
                 /\ q.rest = buffer
    BY <2>4
  <2>7. Parsed[stream] = [frames |-> FoundBytes \o q.frames, passed |-> stats.invalid + q.passed,
                          mismatches |-> stats.checksum + q.mismatches, rest |-> q.rest]
    BY <2>3, <2>6 DEF WithEarlier
  <2> QED
    BY <2>2, <2>5, <2>6, <2>7
<1> QED
  BY <1>1, <1>2, <1>3, PTL DEF Spec

-----------------------------------------------------------------------------
(* What one pass finds, gives up and keeps                                  *)

\* A sequence is its first bytes and what is left of it.
LEMMA SplitAt ==
  ASSUME NEW b \in Seq(Byte), NEW n \in 0 .. Len(b)
  PROVE  /\ SubSeq(b, 1, n) \in Seq(Byte) /\ Len(SubSeq(b, 1, n)) = n
         /\ b = SubSeq(b, 1, n) \o Drop(b, n)
<1>1. Len(b) \in Nat /\ n \in Nat /\ n <= Len(b)
  BY LenProperties
<1>2. PICK one \in 1 .. Len(b) + 1, all \in Nat : one = 1 /\ all = Len(b)
  BY <1>1
<1>3. SubSeq(b, one, n) \in Seq(Byte) /\ Len(SubSeq(b, one, n)) = n
  <2>1. \A i \in one .. n : b[i] \in Byte
    <3> SUFFICES ASSUME NEW i \in one .. n PROVE b[i] \in Byte
      OBVIOUS
    <3>1. i \in 1 .. Len(b)
      BY <1>1, <1>2
    <3> QED
      BY <3>1, ElementOfSeq
  <2>2. one \in Int /\ n \in Int
    BY <1>1, <1>2
  <2>3. /\ SubSeq(b, one, n) \in Seq(Byte)
        /\ Len(SubSeq(b, one, n)) = IF one <= n THEN n - one + 1 ELSE 0
    BY <2>1, <2>2, SubSeqProperties
  <2> QED
    BY <1>1, <1>2, <2>3
<1>4. SubSeq(b, one, n) \o SubSeq(b, n + 1, all) = SubSeq(b, one, all)
  <2>1. n \in one - 1 .. Len(b) /\ all \in n .. Len(b)
    BY <1>1, <1>2
  <2> QED
    BY <2>1, ConcatAdjacentSubSeq
<1>5. SubSeq(b, 1, Len(b)) = b
  BY SubSeqFull
<1> QED
  BY <1>2, <1>3, <1>4, <1>5 DEF Drop

\* The frame at the start of a buffer is one by itself.
LEMMA FrameIsFrame ==
  ASSUME NEW b \in Seq(Byte), b # << >>, b[1] \in {STXV1, STXV2}, Complete(b), ChecksumMatches(b)
  PROVE  IsFrame(Frame(b))
<1> USE ByteAssumption, SizeAssumption
<1> DEFINE f == Frame(b)
           l == TotalLength(b)
           n == ChecksumOffset(b)
<1>1. /\ Len(b) \in Nat /\ l \in 1 .. Len(b) /\ f \in Seq(Byte) /\ Len(f) = l
      /\ \A k \in 1 .. l : f[k] = b[k]
  BY FrameProperties, LenProperties
<1>2. /\ HeaderSize(b) \in Nat /\ HeaderSize(b) >= 2 /\ Len(b) >= HeaderSize(b)
      /\ b[1] = STXV2 => HeaderSize(b) >= 3
  BY DEF Complete, HeaderSize
<1>3. b[2] \in Nat
  <2>1. 2 \in 1 .. Len(b)
    BY <1>1, <1>2
  <2>2. b[2] \in Byte
    BY <2>1, ElementOfSeq
  <2> QED
    BY <2>2
<1>4. /\ n \in Nat /\ n >= HeaderSize(b) /\ n + ChecksumSize <= l /\ n <= l /\ l >= HeaderSize(b)
      /\ n + 1 \in Nat /\ n + ChecksumSize \in Nat
  <2>1. n \in Nat /\ n >= HeaderSize(b)
    BY <1>2, <1>3 DEF ChecksumOffset
  <2>2. (IF Signed(b) THEN SignatureSize ELSE 0) \in Nat
    OBVIOUS
  <2>3. l >= n + ChecksumSize /\ l \in Nat
    BY <1>1, <2>1, <2>2 DEF TotalLength
  <2> QED
    BY <1>2, <2>1, <2>3, SMTT(30)
<1> HIDE DEF f, l, n
<1>5. f[1] = b[1] /\ f[2] = b[2] /\ (b[1] = STXV2 => f[3] = b[3])
  <2>1. 1 \in 1 .. l /\ 2 \in 1 .. l /\ (b[1] = STXV2 => 3 \in 1 .. l)
    BY <1>1, <1>2, <1>4
  <2> QED
    BY <1>1, <2>1
<1>6. HeaderSize(f) = HeaderSize(b) /\ (Signed(f) <=> Signed(b))
  BY <1>5 DEF HeaderSize, Signed
<1>7. ChecksumOffset(f) = n /\ TotalLength(f) = l
  BY <1>5, <1>6 DEF ChecksumOffset, TotalLength, n, l
<1>8. Complete(f) /\ f # << >>
  <2>1. Len(f) >= HeaderSize(f) /\ Len(f) >= TotalLength(f) /\ Len(f) > 0
    BY <1>1, <1>4, <1>6, <1>7
  <2>2. Len(<< >>) = 0
    OBVIOUS
  <2> QED
    BY <2>1, <2>2 DEF Complete
<1>9. ASSUME NEW i \in Nat, NEW j \in Nat, 1 <= i, j <= l
      PROVE  SubSeq(f, i, j) = SubSeq(b, i, j)
  <2>1. PICK d \in Seq(Byte) : b = f \o d
    <3>1. l \in 0 .. Len(b)
      BY <1>1
    <3>2. b = SubSeq(b, 1, l) \o Drop(b, l) /\ Drop(b, l) \in Seq(Byte)
      BY <3>1, SplitAt, DropProperties
    <3> QED
      BY <3>2 DEF f, l, Frame
  <2>2. j <= Len(f)
    BY <1>1, <1>9
  <2> QED
    BY <1>1, <1>9, <2>1, <2>2, PartOfConcat
<1>10. ChecksumMatches(f)
  <2>1. SubSeq(f, 1, n) = SubSeq(b, 1, n)
    <3>1. PICK one \in Nat : one = 1
      OBVIOUS
    <3>2. SubSeq(f, one, n) = SubSeq(b, one, n)
      BY <1>4, <1>9, <3>1
    <3> QED
      BY <3>1, <3>2
  <2>2. SubSeq(f, n + 1, n + ChecksumSize) = SubSeq(b, n + 1, n + ChecksumSize)
    <3>1. PICK i \in Nat, j \in Nat : i = n + 1 /\ j = n + ChecksumSize /\ 1 <= i /\ j <= l
      BY <1>4
    <3>2. SubSeq(f, i, j) = SubSeq(b, i, j)
      BY <1>9, <3>1
    <3> QED
      BY <3>1, <3>2
  <2> QED
    BY <1>7, <2>1, <2>2 DEF ChecksumMatches, n
<1> QED
  BY <1>1, <1>5, <1>7, <1>8, <1>10 DEF IsFrame, f

\* The bytes from the first start byte on are none or begin with it.
LEMMA AfterStarts ==
  ASSUME NEW b \in Seq(Byte), After(b) # << >>
  PROVE  /\ SyncOffset(b) < Len(b)
         /\ After(b)[1] \in {STXV1, STXV2}
<1>1. /\ After(b) \in Seq(Byte) /\ Len(After(b)) = Len(b) - SyncOffset(b)
      /\ SyncOffset(b) \in 0 .. Len(b) /\ Len(b) \in Nat
  BY AfterProperties, SyncOffsetIs, LenProperties
<1>2. Len(After(b)) > 0
  BY <1>1, EmptySeq
<1>3. SyncOffset(b) < Len(b) /\ 1 \in 1 .. Len(b) - SyncOffset(b)
  BY <1>1, <1>2
<1>4. After(b)[1] = b[SyncOffset(b) + 1]
  <2>1. \A k \in 1 .. Len(b) - SyncOffset(b) : Drop(b, SyncOffset(b))[k] = b[SyncOffset(b) + k]
    BY <1>1, DropProperties
  <2> QED
    BY <1>3, <2>1 DEF After
<1> QED
  BY <1>3, <1>4, SyncOffsetIs

\* A part of what is left of a sequence is a part of the sequence.
LEMMA PartOfDrop ==
  ASSUME NEW b \in Seq(Byte), NEW n \in 0 .. Len(b),
         NEW i \in 1 .. Len(b) - n, NEW j \in 1 .. Len(b) - n
  PROVE  SubSeq(Drop(b, n), i, j) = SubSeq(b, n + i, n + j)
<1>1. Len(b) \in Nat /\ n \in Nat
  BY LenProperties
<1>2. PICK f \in 1 .. Len(b), l \in 1 .. Len(b) : f = n + 1 /\ l = Len(b)
  BY <1>1
<1>3. i \in 1 .. l - f + 1 /\ j \in 1 .. l - f + 1 /\ f + i - 1 = n + i /\ f + j - 1 = n + j
  BY <1>1, <1>2
<1>4. SubSeq(SubSeq(b, f, l), i, j) = SubSeq(b, f + i - 1, f + j - 1)
  BY <1>3, SubSeqOfSubSeq
<1> QED
  BY <1>2, <1>3, <1>4 DEF Drop

\* What one pass of the loop does with the bytes b: it finds nothing more to do, or
\* the frame that ends after n bytes, or gives up a start byte.
Stops(b) ==
  /\ Parsed[b].frames = << >> /\ Parsed[b].rest = After(b)
  /\ After(b) = << >> \/ (After(b)[1] \in {STXV1, STXV2} /\ ~Complete(After(b)))

Takes(b, n) ==
  /\ n \in SyncOffset(b) + 1 .. Len(b)
  /\ SubSeq(b, SyncOffset(b) + 1, n) \in Seq(Byte) /\ IsFrame(SubSeq(b, SyncOffset(b) + 1, n))
  /\ Parsed[b].frames = <<SubSeq(b, SyncOffset(b) + 1, n)>> \o Parsed[Drop(b, n)].frames
  /\ Parsed[b].rest = Parsed[Drop(b, n)].rest

GivesUp(b, n) ==
  /\ n = SyncOffset(b) + 1 /\ n <= Len(b)
  /\ Parsed[b].frames = Parsed[Drop(b, n)].frames
  /\ Parsed[b].rest = Parsed[Drop(b, n)].rest

LEMMA PassCases ==
  ASSUME NEW b \in Seq(Byte)
  PROVE  Stops(b) \/ \E n \in 1 .. Len(b) : Takes(b, n) \/ GivesUp(b, n)
<1> DEFINE r == After(b)
           s == SyncOffset(b)
<1>1. /\ r \in Seq(Byte) /\ Len(r) = Len(b) - s /\ s \in 0 .. Len(b) /\ Len(b) \in Nat /\ s \in Nat
      /\ Parsed[b] = Outcome(Parsed, b)
  BY AfterProperties, SyncOffsetIs, LenProperties, ParsedIs
<1>2. CASE Ends(b)
  <2>1. Parsed[b] = Kept(b)
    BY <1>1, <1>2 DEF Outcome
  <2> QED
    BY <1>2, <2>1, AfterStarts DEF Stops, Kept, Ends
<1>3. CASE ~Ends(b)
  <2>1. r # << >> /\ Complete(r) /\ r[1] \in {STXV1, STXV2}
    BY <1>3, AfterStarts DEF Ends
  <2>2. TotalLength(r) \in 1 .. Len(r)
    BY <1>1, <2>1, FrameProperties
  <2>3. ASSUME NEW m \in 1 .. Len(r)
        PROVE  /\ Drop(r, m) = Drop(b, s + m) /\ Drop(b, s + m) \in Seq(Byte)
               /\ SubSeq(r, 1, m) = SubSeq(b, s + 1, s + m)
               /\ s + m \in 1 .. Len(b) /\ s + m \in s + 1 .. Len(b)
    <3>1. /\ m \in Nat /\ s + m <= Len(b) /\ s + m \in 0 .. Len(b)
          /\ s + m \in 1 .. Len(b) /\ s + m \in s + 1 .. Len(b)
      BY <1>1
    <3>2. Drop(Drop(b, s), m) = Drop(b, s + m)
      BY <1>1, <3>1, DropTwice
    <3>3. PICK one \in 1 .. Len(b) - s : one = 1
      BY <1>1
    <3>4. SubSeq(Drop(b, s), one, m) = SubSeq(b, s + one, s + m)
      BY <1>1, PartOfDrop
    <3> QED
      BY <3>1, <3>2, <3>3, <3>4, DropProperties DEF After
  <2> HIDE DEF r
  <2>4. CASE ChecksumMatches(r)
    <3> DEFINE l == TotalLength(r)
               q == Parsed[Drop(b, s + l)]
    <3>1. Parsed[b] = WithEarlier(<<Frame(r)>>, s + 0, 0, Parsed[Drop(r, l)])
      BY <1>1, <1>3, <2>4 DEF Outcome, r
    <3>2. Frame(r) = SubSeq(b, s + 1, s + l) /\ Drop(r, l) = Drop(b, s + l)
      BY <2>2, <2>3 DEF Frame
    <3>3. IsFrame(SubSeq(b, s + 1, s + l)) /\ SubSeq(b, s + 1, s + l) \in Seq(Byte)
      BY <1>1, <2>1, <2>4, <3>2, FrameIsFrame, FrameProperties
    <3>4. Parsed[b].frames = <<SubSeq(b, s + 1, s + l)>> \o q.frames /\ Parsed[b].rest = q.rest
      BY <3>1, <3>2 DEF WithEarlier
    <3>5. Takes(b, s + l) /\ s + l \in 1 .. Len(b)
      BY <2>2, <2>3, <3>3, <3>4 DEF Takes
    <3> QED
      BY <3>5
  <2>5. CASE ~ChecksumMatches(r)
    <3>1. Parsed[b] = WithEarlier(<< >>, s + 1, 1, Parsed[Drop(r, 1)])
      BY <1>1, <1>3, <2>5 DEF Outcome, r
    <3>2. /\ Drop(r, 1) = Drop(b, s + 1) /\ Drop(b, s + 1) \in Seq(Byte)
          /\ s + 1 \in 1 .. Len(b) /\ s + 1 <= Len(b)
      <4>1. PICK m \in 1 .. Len(r) : m = 1
        BY <1>1, <2>2
      <4> QED
        BY <1>1, <2>3, <4>1
    <3>3. PICK q \in Outcomes : q = Parsed[Drop(b, s + 1)]
      BY <3>2, ParsedType
    <3>4. << >> \o q.frames = q.frames
      <4>1. q.frames \in Seq(Seq(Byte))
        BY DEF Outcomes
      <4> QED
        BY <4>1, ConcatEmptySeq
    <3>5. Parsed[b].frames = q.frames /\ Parsed[b].rest = q.rest
      BY <3>1, <3>2, <3>3, <3>4 DEF WithEarlier
    <3>6. GivesUp(b, s + 1)
      BY <3>2, <3>3, <3>5 DEF GivesUp
    <3> QED
      BY <3>2, <3>6
  <2> QED
    BY <2>4, <2>5
<1> QED
  BY <1>2, <1>3

\* What is left is a sequence, shorter than b.
LEMMA DropIsShorter ==
  ASSUME NEW b \in Seq(Byte), NEW n \in 1 .. Len(b)
  PROVE  /\ Drop(b, n) \in Seq(Byte) /\ Len(Drop(b, n)) = Len(b) - n
         /\ Len(Drop(b, n)) < Len(b) /\ Parsed[Drop(b, n)] \in Outcomes
<1>1. n \in 0 .. Len(b) /\ Len(b) \in Nat
  BY LenProperties
<1>2. Drop(b, n) \in Seq(Byte) /\ Len(Drop(b, n)) = Len(b) - n
  BY <1>1, DropProperties
<1> QED
  BY <1>1, <1>2, ParsedType

\* What a parser keeps is nothing or the beginning of a frame.
LEMMA RestIsIncomplete ==
  ASSUME NEW b \in Seq(Byte), Parsed[b].rest # << >>
  PROVE  Parsed[b].rest[1] \in {STXV1, STXV2} /\ ~Complete(Parsed[b].rest)
<1> DEFINE Bad(c) == LET r == Parsed[c].rest
                     IN r # << >> /\ ~(r[1] \in {STXV1, STXV2} /\ ~Complete(r))
           T == {c \in Seq(Byte) : Bad(c)}
<1> SUFFICES ASSUME T # {} PROVE FALSE
  OBVIOUS
<1>1. PICK c \in T : \A d \in Seq(Byte) : Len(d) < Len(c) => d \notin T
  BY ShortestExists
<1>2. c \in Seq(Byte) /\ Bad(c)
  BY <1>1
<1>3. \A d \in Seq(Byte) : Len(d) < Len(c) => ~Bad(d)
  BY <1>1
<1>4. ~Stops(c)
  BY <1>2 DEF Stops
<1>5. PICK n \in 1 .. Len(c) : Takes(c, n) \/ GivesUp(c, n)
  BY <1>2, <1>4, PassCases
<1>6. Parsed[c].rest = Parsed[Drop(c, n)].rest
  BY <1>5 DEF Takes, GivesUp
<1>7. ~Bad(Drop(c, n))
  <2> HIDE DEF Bad
  <2> QED
    BY <1>2, <1>3, DropIsShorter
<1> QED
  BY <1>2, <1>6, <1>7

\* Every frame found is one.
LEMMA FoundAreFrames ==
  ASSUME NEW b \in Seq(Byte), NEW i \in 1 .. Len(Parsed[b].frames)
  PROVE  IsFrame(Parsed[b].frames[i])
<1> DEFINE Good(c) == \A k \in 1 .. Len(Parsed[c].frames) : IsFrame(Parsed[c].frames[k])
           T == {c \in Seq(Byte) : ~Good(c)}
<1> SUFFICES ASSUME T # {} PROVE FALSE
  OBVIOUS
<1>1. PICK c \in T : \A d \in Seq(Byte) : Len(d) < Len(c) => d \notin T
  BY ShortestExists
<1>2. c \in Seq(Byte) /\ ~Good(c)
  BY <1>1
<1>3. \A d \in Seq(Byte) : Len(d) < Len(c) => Good(d)
  BY <1>1
<1> HIDE DEF T
<1>4. ~Stops(c)
  <2>1. Stops(c) => Len(Parsed[c].frames) = 0
    BY DEF Stops
  <2> QED
    BY <1>2, <2>1
<1>5. PICK n \in 1 .. Len(c) : Takes(c, n) \/ GivesUp(c, n)
  BY <1>2, <1>4, PassCases
<1>6. Good(Drop(c, n)) /\ Parsed[Drop(c, n)] \in Outcomes
  <2> HIDE DEF Good
  <2> QED
    BY <1>2, <1>3, DropIsShorter
<1>7. PICK gs \in Seq(Seq(Byte)) : gs = Parsed[Drop(c, n)].frames
  BY <1>6 DEF Outcomes
<1>8. CASE GivesUp(c, n)
  BY <1>2, <1>6, <1>8 DEF GivesUp
<1>9. CASE Takes(c, n)
  <2> DEFINE f == SubSeq(c, SyncOffset(c) + 1, n)
  <2>1. f \in Seq(Byte) /\ IsFrame(f) /\ Parsed[c].frames = <<f>> \o gs
    BY <1>7, <1>9 DEF Takes
  <2> HIDE DEF f
  <2>2. PICK fs \in Seq(Seq(Byte)) : fs = <<f>> /\ Len(fs) = 1 /\ fs[1] = f
    <3>1. <<f>> \in Seq(Seq(Byte)) /\ Len(<<f>>) = 1 /\ <<f>>[1] = f
      BY <2>1
    <3> QED
      BY <3>1
  <2>4. /\ Len(fs \o gs) = Len(fs) + Len(gs)
        /\ \A k \in 1 .. Len(fs) + Len(gs) :
             (fs \o gs)[k] = IF k <= Len(fs) THEN fs[k] ELSE gs[k - Len(fs)]
    BY ConcatProperties, SMTT(30)
  <2>5. ASSUME NEW k \in 1 .. Len(Parsed[c].frames)
        PROVE  IsFrame(Parsed[c].frames[k])
    <3>1. Parsed[c].frames = fs \o gs /\ Len(fs) = 1 /\ Len(gs) \in Nat
      BY <2>1, <2>2, LenProperties
    <3>2. CASE k = 1
      <4>1. k \in 1 .. Len(fs) + Len(gs) /\ k <= Len(fs)
        BY <3>1, <3>2
      <4> QED
        BY <2>1, <2>2, <2>4, <3>1, <3>2, <4>1
    <3>3. CASE k # 1
      <4>1. PICK m \in 1 .. Len(gs) : m = k - 1
        BY <2>4, <3>1, <3>3
      <4>2. (fs \o gs)[k] = gs[m]
        BY <2>4, <3>1, <3>3, <4>1
      <4> QED
        BY <1>6, <1>7, <3>1, <4>2
    <3> QED
      BY <3>2, <3>3
  <2> QED
    BY <1>2, <2>5
<1> QED
  BY <1>5, <1>8, <1>9

LEMMA NothingIsNothing == Parsed[<< >>].frames = << >> /\ Parsed[<< >>].rest = << >>
<1>1. PICK e \in Seq(Byte) : e = << >> /\ Len(e) = 0
  BY EmptySeq
<1>2. After(e) = e
  <2>1. SyncOffset(e) \in 0 .. Len(e)
    BY SyncOffsetIs
  <2>2. SyncOffset(e) = 0
    BY <1>1, <2>1
  <2> QED
    BY <2>2, DropNone DEF After
<1>3. Parsed[e] = Kept(e)
  BY <1>1, <1>2, ParsedIs DEF Outcome, Ends
<1> QED
  BY <1>1, <1>2, <1>3 DEF Kept

\* One frame is found, and nothing is left.
LEMMA OneFrame ==
  ASSUME NEW f \in Seq(Byte), IsFrame(f)
  PROVE  /\ Parsed[f].frames = <<f>> /\ Parsed[f].rest = << >>
         /\ Len(f) \in Nat \ {0}
<1>1. /\ Len(f) \in Nat \ {0} /\ f # << >> /\ f[1] \in {STXV1, STXV2} /\ Complete(f)
      /\ Len(f) = TotalLength(f) /\ ChecksumMatches(f)
  BY EmptySeq DEF IsFrame
<1>2. PICK n \in 0 .. Len(f) : n = 0
  BY <1>1
<1>3. SyncOffset(f) = 0
  <2>1. f[n + 1] \in {STXV1, STXV2} /\ \A k \in 1 .. n : f[k] \notin {STXV1, STXV2}
    BY <1>1, <1>2
  <2> QED
    BY <1>2, <2>1, SyncOffsetUnique
<1>4. After(f) = f
  BY <1>3, DropNone DEF After
<1>5. ~Ends(f) /\ Frame(f) = f /\ Drop(f, TotalLength(f)) = << >>
  BY <1>1, <1>4, SubSeqFull, DropAll DEF Ends, Frame
<1>6. Parsed[f] = WithEarlier(<<f>>, SyncOffset(f) + 0, 0, Parsed[<< >>])
  BY <1>1, <1>4, <1>5, ParsedIs DEF Outcome
<1>7. <<f>> \o << >> = <<f>>
  <2>1. <<f>> \in Seq(Seq(Byte))
    OBVIOUS
  <2> QED
    BY <2>1, ConcatEmptySeq
<1> QED
  BY <1>1, <1>6, <1>7, NothingIsNothing DEF WithEarlier

\* What is kept of x and d is what is kept of d behind what is kept of x.
LEMMA RestOfConcat ==
  ASSUME NEW x \in Seq(Byte), NEW d \in Seq(Byte)
  PROVE  Parsed[x \o d].rest = Parsed[Parsed[x].rest \o d].rest
<1> DEFINE Good(c) == Parsed[c \o d].rest = Parsed[Parsed[c].rest \o d].rest
           T == {c \in Seq(Byte) : ~Good(c)}
<1> SUFFICES ASSUME T # {} PROVE FALSE
  OBVIOUS
<1>1. PICK c \in T : \A e \in Seq(Byte) : Len(e) < Len(c) => e \notin T
  BY ShortestExists
<1>2. c \in Seq(Byte) /\ ~Good(c)
  BY <1>1
<1>3. \A e \in Seq(Byte) : Len(e) < Len(c) => Good(e)
  BY <1>1
<1> HIDE DEF T
<1> DEFINE r == After(c)
<1>4. Parsed[c \o d].rest = Parsed[r \o d].rest
  <2>1. Parsed[c \o d] = PassOver(SyncOffset(c), Parsed[r \o d])
    BY <1>2, SkipOfConcat DEF After
  <2> QED
    BY <2>1 DEF PassOver, WithEarlier
<1>5. Parsed[c] = Outcome(Parsed, c)
  BY <1>2, ParsedIs
<1>6. ~Ends(c)
  <2> SUFFICES ASSUME Ends(c) PROVE FALSE
    OBVIOUS
  <2>1. Parsed[c].rest = r
    BY <1>5 DEF Outcome, Kept
  <2> QED
    BY <1>2, <1>4, <2>1
<1>7. /\ r \in Seq(Byte) /\ r # << >> /\ r[1] \in {STXV1, STXV2} /\ Complete(r)
      /\ Len(r) \in Nat \ {0}
  <2>1. r \in Seq(Byte) /\ r # << >>
    BY <1>2, <1>6, AfterProperties DEF Ends
  <2>2. Len(r) \in Nat \ {0}
    BY <2>1, EmptySeq
  <2> QED
    BY <1>2, <1>6, <2>1, <2>2, AfterStarts DEF Ends
<1>8. Syncs(r) # {} /\ SyncOffset(r) = 0
  <2>1. 1 \in DOMAIN r
    BY <1>7, LenProperties
  <2>2. Syncs(r) # {}
    BY <1>7, <2>1 DEF Syncs
  <2>3. PICK n \in 0 .. Len(r) : n = 0
    BY <1>7
  <2>4. r[n + 1] \in {STXV1, STXV2} /\ \A k \in 1 .. n : r[k] \notin {STXV1, STXV2}
    BY <1>7, <2>3
  <2>5. SyncOffset(r) = n
    BY <1>7, <2>4, SyncOffsetUnique
  <2> QED
    BY <2>2, <2>3, <2>5
<1>9. \E n \in {TotalLength(r), 1} : /\ Parsed[r \o d].rest = Parsed[Drop(r, n) \o d].rest
                                     /\ Parsed[c].rest = Parsed[Drop(r, n)].rest
  <2> HIDE DEF r
  <2>1. Parsed[r \o d] = IF ChecksumMatches(r)
                           THEN WithEarlier(<<Frame(r)>>, 0, 0, Parsed[Drop(r, TotalLength(r)) \o d])
                         ELSE WithEarlier(<< >>, 1, 1, Parsed[Drop(r, 1) \o d])
    BY <1>7, <1>8, PassOfConcat
  <2>2. Parsed[c] = IF ChecksumMatches(r)
                      THEN WithEarlier(<<Frame(r)>>, SyncOffset(c) + 0, 0, Parsed[Drop(r, TotalLength(r))])
                    ELSE WithEarlier(<< >>, SyncOffset(c) + 1, 1, Parsed[Drop(r, 1)])
    BY <1>5, <1>6 DEF Outcome, r
  <2>3. CASE ChecksumMatches(r)
    BY <2>1, <2>2, <2>3 DEF WithEarlier
  <2>4. CASE ~ChecksumMatches(r)
    BY <2>1, <2>2, <2>4 DEF WithEarlier
  <2> QED
    BY <2>3, <2>4
<1>10. PICK n \in {TotalLength(r), 1} : /\ Parsed[r \o d].rest = Parsed[Drop(r, n) \o d].rest
                                        /\ Parsed[c].rest = Parsed[Drop(r, n)].rest
  BY <1>9
<1>11. Good(Drop(r, n))
  <2> HIDE DEF Good
  <2> QED
    BY <1>2, <1>3, <1>6, <1>10, LaterIsShorter
<1> QED
  BY <1>2, <1>4, <1>10, <1>11

-----------------------------------------------------------------------------
(* The two parsers of the lane                                             *)

\* A call of Parse returns frames and keeps bytes.
LEMMA ParseType ==
  ASSUME NEW held \in Seq(Byte), NEW frame \in Seq(Byte)
  PROVE  /\ Parse(held, frame).packets \in Seq(Seq(Byte))
         /\ Parse(held, frame).held \in Seq(Byte)
<1>1. held \o frame \in Seq(Byte)
  BY ConcatProperties
<1>2. PICK p \in Outcomes : p = Parsed[held \o frame]
  BY <1>1, ParsedType
<1>3. p.frames \in Seq(Seq(Byte)) /\ p.rest \in Seq(Byte) /\ << >> \in Seq(Byte)
  BY EmptySeq DEF Outcomes
<1>4. Parse(held, frame) = [packets |-> p.frames,
                            held |-> IF Len(p.rest) > MaxBufferedBytes THEN << >> ELSE p.rest]
  BY <1>2 DEF Parse
<1> QED
  BY <1>3, <1>4

\* The socket cuts a datagram, but leaves something of it.
LEMMA ReadType ==
  ASSUME NEW d \in Seq(Byte) \ {<< >>}
  PROVE  Read(d) \in Seq(Byte) \ {<< >>}
<1> DEFINE T == {Len(d), MaxDatagramBytes}
<1>1. Len(d) \in Nat /\ Len(d) > 0
  BY EmptySeq
<1>2. MaxDatagramBytes \in Nat /\ MaxDatagramBytes > 0
  BY LaneAssumption
<1>3. Min(T) \in T /\ \A j \in T : Min(T) <= j
  BY <1>1, <1>2, MinExists
<1>4. PICK n \in Nat : n = Min(T) /\ 0 < n /\ n <= Len(d)
  BY <1>1, <1>2, <1>3
<1>5. \A i \in 1 .. n : d[i] \in Byte
  <2> SUFFICES ASSUME NEW i \in 1 .. n PROVE d[i] \in Byte
    OBVIOUS
  <2>1. i \in 1 .. Len(d)
    BY <1>1, <1>4
  <2> QED
    BY <2>1, ElementOfSeq
<1>6. SubSeq(d, 1, n) \in Seq(Byte) /\ Len(SubSeq(d, 1, n)) = n
  <2>1. PICK m \in Int : m = 1
    OBVIOUS
  <2>2. \A i \in m .. n : d[i] \in Byte
    BY <1>5, <2>1
  <2>3. /\ SubSeq(d, m, n) \in Seq(Byte)
        /\ Len(SubSeq(d, m, n)) = IF m <= n THEN n - m + 1 ELSE 0
    BY <2>2, SubSeqProperties
  <2>4. 1 <= n /\ n - 1 + 1 = n
    BY <1>4
  <2> QED
    BY <2>1, <2>3, <2>4
<1>7. SubSeq(d, 1, n) # << >>
  <2>1. Len(<< >>) = 0
    OBVIOUS
  <2> QED
    BY <1>4, <1>6, <2>1
<1> QED
  BY <1>4, <1>6, <1>7 DEF Read

\* What the two parsers hold, one after the other: the projector's buffer, and what
\* it will be after each decoded message under way, the last of which is what the
\* decoder's buffer is.  Each message completes the packet that it names.
Chain(H) ==
  /\ H \in [0 .. Len(decoded) -> Seq(Byte)]
  /\ H[0] = projectorHeld
  /\ H[Len(decoded)] = decoderHeld
  /\ \A i \in 1 .. Len(decoded) :
       /\ Parse(H[i - 1], decoded[i].frame).packets = <<decoded[i].packet>>
       /\ Parse(H[i - 1], decoded[i].frame).held = H[i]

Follows == ~gap => \E H : Chain(H)

LaneInv == LaneTypeOK /\ InStep /\ Follows

LEMMA LaneInitInv == LaneInit => LaneInv
<1> SUFFICES ASSUME LaneInit PROVE LaneInv
  OBVIOUS
<1> USE DEF LaneInit
<1>1. LaneTypeOK
  <2>1. /\ << >> \in Seq(Seq(Byte) \ {<< >>}) /\ << >> \in Seq(Message) /\ << >> \in Seq(Byte)
        /\ << >> \in Seq([packet : Seq(Byte), message : Message])
    BY EmptySeq
  <2>2. 0 \in Nat /\ 0 \in 0 .. MaxDatagrams
    BY LaneAssumption
  <2> QED
    BY <2>1, <2>2 DEF LaneTypeOK
<1>2. InStep
  BY DEF InStep
<1>3. Follows
  <2> DEFINE H == [i \in 0 .. Len(decoded) |-> << >>]
  <2>1. Len(decoded) = 0 /\ << >> \in Seq(Byte)
    BY EmptySeq
  <2>2. Chain(H)
    BY <2>1 DEF Chain
  <2> QED
    BY <2>2 DEF Follows
<1> QED
  BY <1>1, <1>2, <1>3 DEF LaneInv

LEMMA ReceiveInv ==
  ASSUME LaneInv, NEW d \in Datagrams, Receive(d)
  PROVE  LaneInv'
<1> USE DEF LaneInv, Receive
<1>1. Read(d) \in Seq(Byte) \ {<< >>}
  BY LaneAssumption, ReadType
<1>2. raw' \in Seq(Seq(Byte) \ {<< >>})
  BY <1>1, AppendProperties DEF LaneTypeOK
<1>3. received' \in 0 .. MaxDatagrams
  BY LaneAssumption DEF LaneTypeOK
<1>4. LaneTypeOK'
  BY <1>2, <1>3 DEF LaneTypeOK
<1>5. InStep' /\ Follows'
  BY DEF InStep, Follows, Chain
<1> QED
  BY <1>4, <1>5

LEMMA DecodeInv ==
  ASSUME LaneInv, Decode
  PROVE  LaneInv'
<1> USE DEF LaneInv
<1> DEFINE frame == Head(raw)
           p == Parse(decoderHeld, frame)
           m == [frame |-> frame, packet |-> p.packets[1]]
           one == Len(p.packets) = 1
<1>1. /\ frame \in Seq(Byte) \ {<< >>} /\ raw' \in Seq(Seq(Byte) \ {<< >>})
      /\ decoderHeld \in Seq(Byte) /\ raw' = Tail(raw)
  BY HeadTailProperties DEF Decode, Answer, LaneTypeOK
<1>2. p.packets \in Seq(Seq(Byte)) /\ p.held \in Seq(Byte)
  BY <1>1, ParseType
<1>3. one => m \in Message /\ p.packets = <<m.packet>>
  <2> SUFFICES ASSUME one PROVE m \in Message /\ p.packets = <<m.packet>>
    OBVIOUS
  <2>1. PICK s \in Seq(Seq(Byte)) : s = p.packets
    BY <1>2
  <2>2. Len(s) = 1
    BY <2>1
  <2>3. s[1] \in Seq(Byte) /\ s = <<s[1]>>
    <3>1. 1 \in 1 .. Len(s)
      BY <2>2
    <3>2. s[1] \in Seq(Byte)
      BY <3>1, ElementOfSeq
    <3>3. <<s[1]>> \in Seq(Seq(Byte)) /\ Len(<<s[1]>>) = 1
      BY <3>2
    <3>4. \A i \in 1 .. Len(s) : s[i] = <<s[1]>>[i]
      BY <2>2
    <3> QED
      BY <2>2, <3>2, <3>3, <3>4, SeqEqual
  <2> QED
    BY <1>1, <2>1, <2>3 DEF Message
<1>4. /\ decoderHeld' = p.held
      /\ handled' = handled \o frame
      /\ decoded' = IF one THEN Append(decoded, m) ELSE decoded
      /\ gap' = (gap \/ ~one)
      /\ missed' = IF frame \in Frames /\ ~one THEN missed + Len(frame) ELSE 0
      /\ overlap' = (missed' > 0 /\ (overlap \/ Overlaps(decoderHeld, frame)))
      /\ UNCHANGED <<projectorHeld, projected, refusals, received>>
  BY DEF Decode, Answer
<1>5. decoded \in Seq(Message) /\ Len(decoded) \in Nat
  BY LenProperties DEF LaneTypeOK
<1> HIDE DEF frame, p, m, one
<1>6. LaneTypeOK'
  <2>1. decoded' \in Seq(Message)
    BY <1>3, <1>4, <1>5, AppendProperties
  <2>2. handled' \in Seq(Byte)
    BY <1>1, <1>4, ConcatProperties DEF LaneTypeOK
  <2>3. missed' \in Nat
    <3>1. Len(frame) \in Nat
      BY <1>1, LenProperties
    <3> QED
      BY <1>4, <3>1 DEF LaneTypeOK
  <2>4. gap' \in BOOLEAN /\ overlap' \in BOOLEAN
    BY <1>4 DEF LaneTypeOK
  <2> QED
    BY <1>1, <1>2, <1>4, <2>1, <2>2, <2>3, <2>4 DEF LaneTypeOK
<1>7. InStep'
  BY <1>4 DEF InStep
<1>8. Follows'
  <2> SUFFICES ASSUME ~gap' PROVE \E H : Chain(H)'
    BY DEF Follows
  <2>1. ~gap /\ one
    BY <1>4
  <2>2. PICK H : Chain(H)
    BY <2>1 DEF Follows
  <2> DEFINE n == Len(decoded)
  <2>3. /\ decoded' \in Seq(Message) /\ Len(decoded') = n + 1
        /\ \A i \in 1 .. n : decoded'[i] = decoded[i]
        /\ decoded'[n + 1] = m
    BY <1>3, <1>4, <1>5, <2>1, AppendProperties
  <2>4. /\ H \in [0 .. n -> Seq(Byte)] /\ H[0] = projectorHeld /\ H[n] = decoderHeld
        /\ \A i \in 1 .. n : /\ Parse(H[i - 1], decoded[i].frame).packets = <<decoded[i].packet>>
                             /\ Parse(H[i - 1], decoded[i].frame).held = H[i]
    BY <2>2 DEF Chain
  <2> HIDE DEF n
  <2>5. n \in Nat
    BY <1>5 DEF n
  <2>6. PICK G : /\ G \in [0 .. n + 1 -> Seq(Byte)] /\ G[n + 1] = p.held
                 /\ \A i \in 0 .. n : G[i] = H[i]
    <3> DEFINE F == [i \in 0 .. n + 1 |-> IF i = n + 1 THEN p.held ELSE H[i]]
    <3>1. /\ F \in [0 .. n + 1 -> Seq(Byte)] /\ F[n + 1] = p.held
          /\ \A i \in 0 .. n : F[i] = H[i]
      BY <1>2, <2>4, <2>5
    <3> QED
      BY <3>1
  <2>7. G[0] = projectorHeld'
    <3>1. 0 \in 0 .. n
      BY <2>5
    <3> QED
      BY <1>4, <2>4, <2>6, <3>1
  <2>8. ASSUME NEW i \in 1 .. n + 1
        PROVE  /\ Parse(G[i - 1], decoded'[i].frame).packets = <<decoded'[i].packet>>
               /\ Parse(G[i - 1], decoded'[i].frame).held = G[i]
    <3>1. CASE i \in 1 .. n
      <4>1. i - 1 \in 0 .. n /\ i \in 0 .. n
        BY <2>5, <3>1
      <4>2. G[i - 1] = H[i - 1] /\ G[i] = H[i] /\ decoded'[i] = decoded[i]
        BY <2>3, <2>6, <3>1, <4>1
      <4> QED
        BY <2>4, <3>1, <4>2
    <3>2. CASE i = n + 1
      <4>1. i - 1 = n /\ n \in 0 .. n
        BY <2>5, <3>2
      <4>2. G[i - 1] = decoderHeld /\ G[i] = p.held /\ decoded'[i] = m
        BY <2>3, <2>4, <2>6, <3>2, <4>1
      <4>3. m.frame = frame
        BY DEF m
      <4> QED
        BY <1>3, <2>1, <4>2, <4>3 DEF p
    <3> QED
      BY <2>5, <3>1, <3>2
  <2>9. Chain(G)'
    BY <1>4, <2>3, <2>6, <2>7, <2>8 DEF Chain
  <2> QED
    BY <2>9
<1> QED
  BY <1>6, <1>7, <1>8

LEMMA ProjectInv ==
  ASSUME LaneInv, Project
  PROVE  LaneInv'
<1> USE DEF LaneInv
<1> DEFINE m == Head(decoded)
           p == Parse(projectorHeld, m.frame)
           one == Len(p.packets) = 1
           q == [packet |-> p.packets[1], message |-> m]
<1>1. /\ decoded # << >> /\ decoded \in Seq(Message) /\ m \in Message
      /\ decoded' = Tail(decoded) /\ decoded' \in Seq(Message)
      /\ Len(decoded') = Len(decoded) - 1 /\ Len(decoded) \in Nat \ {0}
      /\ \A i \in 1 .. Len(decoded') : decoded'[i] = decoded[i + 1]
      /\ m = decoded[1]
  <2>1. decoded # << >> /\ decoded \in Seq(Message) /\ decoded' = Tail(decoded)
    BY DEF Project, Handle, LaneTypeOK
  <2> QED
    BY <2>1, HeadTailProperties, EmptySeq
<1>2. m.frame \in Seq(Byte) /\ projectorHeld \in Seq(Byte)
  BY <1>1 DEF Message, LaneTypeOK
<1>3. p.packets \in Seq(Seq(Byte)) /\ p.held \in Seq(Byte)
  BY <1>2, ParseType
<1>4. /\ projectorHeld' = p.held
      /\ projected' = IF one THEN Append(projected, q) ELSE projected
      /\ refusals' = refusals + IF one THEN 0 ELSE 1
      /\ UNCHANGED <<raw, decoderHeld, handled, gap, missed, overlap, received>>
  BY DEF Project, Handle
<1>5. one => q \in [packet : Seq(Byte), message : Message]
  <2> SUFFICES ASSUME one PROVE p.packets[1] \in Seq(Byte)
    BY <1>1
  <2>1. PICK s \in Seq(Seq(Byte)) : s = p.packets
    BY <1>3
  <2>2. Len(s) = 1
    BY <2>1
  <2>3. 1 \in 1 .. Len(s)
    BY <2>2
  <2> QED
    BY <2>1, <2>3, ElementOfSeq
<1>6. /\ projected \in Seq([packet : Seq(Byte), message : Message])
      /\ Len(projected) \in Nat /\ DOMAIN projected = 1 .. Len(projected)
  BY LenProperties DEF LaneTypeOK
<1>7. q.packet = p.packets[1] /\ q.message = m
  OBVIOUS
<1> HIDE DEF m, p, one, q
<1>8. LaneTypeOK'
  <2>1. projected' \in Seq([packet : Seq(Byte), message : Message])
    BY <1>4, <1>5, <1>6, AppendProperties
  <2>2. refusals' \in Nat
    BY <1>4 DEF LaneTypeOK
  <2> QED
    BY <1>1, <1>3, <1>4, <2>1, <2>2 DEF LaneTypeOK
<1>9. ASSUME ~gap'
      PROVE  /\ refusals' = 0
             /\ \A i \in DOMAIN projected' : projected'[i].packet = projected'[i].message.packet
             /\ \E H : Chain(H)'
  <2>1. ~gap
    BY <1>4, <1>9
  <2>2. PICK H : Chain(H)
    BY <2>1 DEF Follows
  <2> DEFINE n == Len(decoded)
  <2>3. /\ H \in [0 .. n -> Seq(Byte)] /\ H[0] = projectorHeld /\ H[n] = decoderHeld
        /\ \A i \in 1 .. n : /\ Parse(H[i - 1], decoded[i].frame).packets = <<decoded[i].packet>>
                             /\ Parse(H[i - 1], decoded[i].frame).held = H[i]
    BY <2>2 DEF Chain
  <2>4. n \in Nat \ {0} /\ Len(decoded') = n - 1
    BY <1>1
  <2> HIDE DEF n
  <2>5. p.packets = <<m.packet>> /\ p.held = H[1]
    <3>1. 1 \in 1 .. n /\ 1 - 1 = 0
      BY <2>4
    <3> QED
      BY <1>1, <2>3, <3>1 DEF p
  <2>6. one /\ q.packet = m.packet
    BY <1>7, <2>5 DEF one
  <2>7. refusals' = 0
    BY <1>4, <2>1, <2>6 DEF InStep
  <2>8. \A i \in DOMAIN projected' : projected'[i].packet = projected'[i].message.packet
    <3>1. /\ projected' \in Seq([packet : Seq(Byte), message : Message])
          /\ DOMAIN projected' = 1 .. Len(projected) + 1
          /\ \A i \in 1 .. Len(projected) : projected'[i] = projected[i]
          /\ projected'[Len(projected) + 1] = q
      BY <1>4, <1>5, <1>6, <2>6, AppendProperties, LenProperties
    <3> SUFFICES ASSUME NEW i \in 1 .. Len(projected) + 1
                 PROVE  projected'[i].packet = projected'[i].message.packet
      BY <3>1
    <3>2. CASE i \in 1 .. Len(projected)
      BY <1>6, <2>1, <3>1, <3>2 DEF InStep
    <3>3. CASE i = Len(projected) + 1
      BY <1>7, <2>6, <3>1, <3>3
    <3> QED
      BY <1>6, <3>2, <3>3
  <2>9. PICK G : /\ G \in [0 .. n - 1 -> Seq(Byte)]
                 /\ \A i \in 0 .. n - 1 : G[i] = H[i + 1]
    <3> DEFINE F == [i \in 0 .. n - 1 |-> H[i + 1]]
    <3>1. \A i \in 0 .. n - 1 : i + 1 \in 0 .. n
      BY <2>4
    <3>2. /\ F \in [0 .. n - 1 -> Seq(Byte)]
          /\ \A i \in 0 .. n - 1 : F[i] = H[i + 1]
      BY <2>3, <3>1
    <3> QED
      BY <3>2
  <2>10. G[0] = projectorHeld' /\ G[n - 1] = decoderHeld'
    <3>1. 0 \in 0 .. n - 1 /\ n - 1 \in 0 .. n - 1 /\ 0 + 1 = 1 /\ n - 1 + 1 = n
      BY <2>4
    <3> QED
      BY <1>4, <2>3, <2>5, <2>9, <3>1
  <2>11. ASSUME NEW i \in 1 .. n - 1
         PROVE  /\ Parse(G[i - 1], decoded'[i].frame).packets = <<decoded'[i].packet>>
                /\ Parse(G[i - 1], decoded'[i].frame).held = G[i]
    <3>1. /\ i + 1 \in 1 .. n /\ i - 1 \in 0 .. n - 1 /\ i \in 0 .. n - 1
          /\ i - 1 + 1 = i /\ i + 1 - 1 = i
      BY <2>4
    <3>2. G[i - 1] = H[i] /\ G[i] = H[i + 1] /\ decoded'[i] = decoded[i + 1]
      BY <1>1, <2>4, <2>9, <3>1
    <3>3. /\ Parse(H[i], decoded[i + 1].frame).packets = <<decoded[i + 1].packet>>
          /\ Parse(H[i], decoded[i + 1].frame).held = H[i + 1]
      <4>1. PICK j \in 1 .. n : j = i + 1 /\ j - 1 = i
        BY <3>1
      <4>2. /\ Parse(H[j - 1], decoded[j].frame).packets = <<decoded[j].packet>>
            /\ Parse(H[j - 1], decoded[j].frame).held = H[j]
        BY <2>3
      <4> QED
        BY <4>1, <4>2
    <3> QED
      BY <3>2, <3>3
  <2>12. Chain(G)'
    BY <2>4, <2>9, <2>10, <2>11 DEF Chain
  <2> QED
    BY <2>7, <2>8, <2>12
<1> QED
  BY <1>8, <1>9 DEF InStep, Follows

LEMMA LoseInv ==
  ASSUME LaneInv, LoseRaw \/ LoseDecoded
  PROVE  LaneInv'
<1> USE DEF LaneInv
<1>1. CASE LoseRaw
  <2>1. raw' \in Seq(Seq(Byte) \ {<< >>})
    BY <1>1, HeadTailProperties DEF LoseRaw, LaneTypeOK
  <2>2. LaneTypeOK'
    BY <1>1, <2>1 DEF LoseRaw, LaneTypeOK
  <2> QED
    BY <1>1, <2>2 DEF LoseRaw, InStep, Follows, Chain
<1>2. CASE LoseDecoded
  <2>1. decoded' \in Seq(Message)
    BY <1>2, HeadTailProperties DEF LoseDecoded, LaneTypeOK
  <2>2. LaneTypeOK'
    BY <1>2, <2>1 DEF LoseDecoded, LaneTypeOK
  <2> QED
    BY <1>2, <2>2 DEF LoseDecoded, InStep, Follows
<1> QED
  BY <1>1, <1>2

LEMMA LaneNextInv == LaneInv /\ [LaneNext]_laneVars => LaneInv'
<1> SUFFICES ASSUME LaneInv, [LaneNext]_laneVars PROVE LaneInv'
  OBVIOUS
<1>1. CASE \E d \in Datagrams : Receive(d)
  BY <1>1, ReceiveInv
<1>2. CASE Decode
  BY <1>2, DecodeInv
<1>3. CASE Project
  BY <1>3, ProjectInv
<1>4. CASE LoseRaw \/ LoseDecoded
  BY <1>4, LoseInv
<1>5. CASE UNCHANGED laneVars
  BY <1>5 DEF laneVars, LaneInv, LaneTypeOK, InStep, Follows, Chain
<1> QED
  BY <1>1, <1>2, <1>3, <1>4, <1>5 DEF LaneNext

THEOREM LaneInvariant == LaneSpec => []LaneInv
BY LaneInitInv, LaneNextInv, PTL DEF LaneSpec

\* The variables of the lane keep their types: no message is empty.
THEOREM LaneTypes == LaneSpec => []LaneTypeOK
<1>1. LaneInv => LaneTypeOK
  BY DEF LaneInv
<1> QED
  BY <1>1, LaneInvariant, PTL

\* While the projector misses nothing that the decoder has parsed, its parser
\* follows the decoder's: it refuses nothing, and the packet it finds in a message
\* is the one that the message names.
THEOREM ProjectorFollowsDecoder == LaneSpec => []InStep
<1>1. LaneInv => InStep
  BY DEF LaneInv
<1> QED
  BY <1>1, LaneInvariant, PTL

-----------------------------------------------------------------------------
(* What a damaged datagram leaves behind                                   *)

\* A parser that begins at byte n + 1 of b keeps nothing.
Clean(b, n) == Parsed[Drop(b, n)].rest = << >>

\* Of b, the first c bytes are damage and whole frames follow: a parser that begins
\* there keeps nothing, nor does one that begins where an accidental frame ends.
Leftover(b, c) ==
  /\ Clean(b, c)
  /\ \A i \in 1 .. c, j \in c + 1 .. Len(b) : IsFrame(SubSeq(b, i, j)) => Clean(b, j)

\* Whole frames that follow change nothing.
LEMMA CleanConcat ==
  ASSUME NEW b \in Seq(Byte), NEW f \in Seq(Byte), IsFrame(f),
         NEW n \in 0 .. Len(b), Clean(b, n)
  PROVE  Clean(b \o f, n)
<1>1. Drop(b \o f, n) = Drop(b, n) \o f /\ Drop(b, n) \in Seq(Byte)
  BY DropOfConcat, DropProperties
<1>2. Parsed[Drop(b, n) \o f].rest = Parsed[<< >> \o f].rest
  BY <1>1, RestOfConcat DEF Clean
<1>3. << >> \o f = f
  BY ConcatEmptySeq
<1> QED
  BY <1>1, <1>2, <1>3, OneFrame DEF Clean

LEMMA LeftoverConcat ==
  ASSUME NEW b \in Seq(Byte), NEW f \in Seq(Byte), IsFrame(f), ~Overlaps(b, f),
         NEW c \in 1 .. Len(b), Leftover(b, c)
  PROVE  Leftover(b \o f, c)
<1>1. /\ Len(b) \in Nat /\ Len(f) \in Nat \ {0} /\ b \o f \in Seq(Byte)
      /\ Len(b \o f) = Len(b) + Len(f)
  BY ConcatProperties, LenProperties, OneFrame
<1>2. Clean(b \o f, c)
  <2>1. c \in 0 .. Len(b)
    BY <1>1
  <2> QED
    BY <2>1, CleanConcat DEF Leftover
<1>3. ASSUME NEW i \in 1 .. c, NEW j \in c + 1 .. Len(b \o f), IsFrame(SubSeq(b \o f, i, j))
      PROVE  Clean(b \o f, j)
  <2>1. j \in c + 1 .. Len(b) + Len(f) /\ i \in Nat /\ 1 <= i /\ j \in Nat /\ i \in 1 .. Len(b)
    BY <1>1
  <2>2. CASE j <= Len(b)
    <3>1. SubSeq(b \o f, i, j) = SubSeq(b, i, j)
      BY <2>1, <2>2, PartOfConcat
    <3>2. j \in c + 1 .. Len(b) /\ j \in 0 .. Len(b)
      BY <2>1, <2>2
    <3>3. Clean(b, j)
      BY <1>3, <3>1, <3>2 DEF Leftover
    <3> QED
      BY <3>2, <3>3, CleanConcat
  <2>3. CASE Len(b) < j /\ j < Len(b) + Len(f)
    <3>1. PICK k \in 1 .. Len(f) - 1 : Len(b) + k = j
      <4>1. j - Len(b) \in 1 .. Len(f) - 1 /\ Len(b) + (j - Len(b)) = j
        BY <1>1, <2>1, <2>3
      <4> QED
        BY <4>1
    <3> QED
      BY <1>3, <2>1, <3>1 DEF Overlaps
  <2>4. CASE j = Len(b) + Len(f)
    BY <1>1, <2>4, DropAll, NothingIsNothing DEF Clean
  <2> QED
    BY <1>1, <2>1, <2>2, <2>3, <2>4
<1> QED
  BY <1>2, <1>3 DEF Leftover

\* Taking damage off the front leaves the rest of it.
LEMMA LeftoverDrop ==
  ASSUME NEW b \in Seq(Byte), NEW c \in 0 .. Len(b), Leftover(b, c), NEW n \in 0 .. c
  PROVE  Leftover(Drop(b, n), c - n)
<1>1. /\ Len(b) \in Nat /\ c \in Nat /\ n \in Nat /\ n \in 0 .. Len(b) /\ c - n \in Nat
      /\ Drop(b, n) \in Seq(Byte) /\ Len(Drop(b, n)) = Len(b) - n
  <2>1. Len(b) \in Nat /\ c \in Nat /\ n \in Nat /\ n \in 0 .. Len(b) /\ c - n \in Nat
    BY LenProperties
  <2> QED
    BY <2>1, DropProperties
<1>2. ASSUME NEW k \in Nat, n + k <= Len(b), Clean(b, n + k)
      PROVE  Clean(Drop(b, n), k)
  BY <1>1, <1>2, DropTwice DEF Clean
<1>3. Clean(Drop(b, n), c - n)
  <2>1. PICK k \in Nat : k = c - n /\ n + k = c /\ n + k <= Len(b)
    BY <1>1
  <2> QED
    BY <1>2, <2>1 DEF Leftover
<1>4. ASSUME NEW i \in 1 .. c - n, NEW j \in c - n + 1 .. Len(Drop(b, n)),
             IsFrame(SubSeq(Drop(b, n), i, j))
      PROVE  Clean(Drop(b, n), j)
  <2>1. /\ i \in 1 .. Len(b) - n /\ j \in 1 .. Len(b) - n /\ j \in Nat
        /\ n + i \in 1 .. c /\ n + j \in c + 1 .. Len(b) /\ n + j <= Len(b)
    BY <1>1
  <2>2. SubSeq(Drop(b, n), i, j) = SubSeq(b, n + i, n + j)
    BY <1>1, <2>1, PartOfDrop
  <2>3. Clean(b, n + j)
    BY <1>4, <2>1, <2>2 DEF Leftover
  <2> QED
    BY <1>2, <2>1, <2>3
<1> QED
  BY <1>3, <1>4 DEF Leftover

\* What a parser keeps of damage and whole frames begins in the damage.
LEMMA LeftoverParsed ==
  ASSUME NEW b \in Seq(Byte), NEW c \in 0 .. Len(b), Leftover(b, c)
  PROVE  Parsed[b].rest = << >> \/ \E n \in 0 .. c - 1 : Parsed[b].rest = Drop(b, n)
<1> DEFINE Good(d, k) == \/ Parsed[d].rest = << >>
                         \/ \E n \in 0 .. k - 1 : Parsed[d].rest = Drop(d, n)
           AllGood(d) == \A k \in 0 .. Len(d) : Leftover(d, k) => Good(d, k)
           T == {d \in Seq(Byte) : ~AllGood(d)}
<1> SUFFICES ASSUME T # {} PROVE FALSE
  OBVIOUS
<1>1. PICK d \in T : \A e \in Seq(Byte) : Len(e) < Len(d) => e \notin T
  BY ShortestExists
<1>2. d \in Seq(Byte) /\ ~AllGood(d)
  BY <1>1
<1>3. \A e \in Seq(Byte) : Len(e) < Len(d) => AllGood(e)
  BY <1>1
<1> HIDE DEF T
<1>4. PICK k \in 0 .. Len(d) : Leftover(d, k) /\ ~Good(d, k)
  BY <1>2
<1> DEFINE s == SyncOffset(d)
<1>5. /\ s \in 0 .. Len(d) /\ Len(d) \in Nat /\ k \in Nat /\ s \in Nat
  BY <1>2, SyncOffsetIs, LenProperties
<1>6. s < k
  <2> SUFFICES ASSUME ~(s < k) PROVE FALSE
    OBVIOUS
  <2>1. k \in 0 .. SyncOffset(d)
    BY <1>5
  <2>2. Parsed[d] = PassOver(k, Parsed[Drop(d, k)])
    BY <1>2, <2>1, Skip
  <2>3. Parsed[d].rest = << >>
    BY <1>4, <2>2 DEF PassOver, WithEarlier, Leftover, Clean
  <2> QED
    BY <1>4, <2>3
<1>7. ~Stops(d)
  <2> SUFFICES ASSUME Stops(d) PROVE FALSE
    OBVIOUS
  <2>1. Parsed[d].rest = Drop(d, s) /\ s \in 0 .. k - 1
    BY <1>5, <1>6 DEF Stops, After
  <2> QED
    BY <1>4, <2>1
<1>8. PICK n \in 1 .. Len(d) : Takes(d, n) \/ GivesUp(d, n)
  BY <1>2, <1>7, PassCases
<1>9. Parsed[d].rest = Parsed[Drop(d, n)].rest
  BY <1>8 DEF Takes, GivesUp
<1>10. CASE n <= k
  <2> DEFINE e == Drop(d, n)
  <2>1. e \in Seq(Byte) /\ Len(e) = Len(d) - n /\ Len(e) < Len(d)
    BY <1>2, DropIsShorter
  <2>2. PICK j \in 0 .. Len(e) : j = k - n
    BY <1>5, <1>10, <2>1
  <2>3. Leftover(e, j)
    <3>1. n \in 0 .. k
      BY <1>5, <1>10
    <3> QED
      BY <1>2, <1>4, <2>2, <3>1, LeftoverDrop
  <2>4. Good(e, j)
    <3> HIDE DEF Good, e
    <3> QED
      BY <1>3, <2>1, <2>3
  <2>5. CASE Parsed[e].rest = << >>
    BY <1>4, <1>9, <2>5
  <2>6. CASE \E m \in 0 .. j - 1 : Parsed[e].rest = Drop(e, m)
    <3>1. PICK m \in 0 .. j - 1 : Parsed[e].rest = Drop(e, m)
      BY <2>6
    <3>2. n \in Nat /\ m \in Nat /\ n + m <= Len(d) /\ n + m \in 0 .. k - 1
      BY <1>5, <1>10, <2>2
    <3>3. Drop(e, m) = Drop(d, n + m)
      BY <1>2, <3>2, DropTwice
    <3> QED
      BY <1>4, <1>9, <3>1, <3>2, <3>3
  <2> QED
    BY <2>4, <2>5, <2>6
<1>11. CASE ~(n <= k)
  <2>1. ~GivesUp(d, n)
    BY <1>5, <1>6, <1>11 DEF GivesUp
  <2>2. IsFrame(SubSeq(d, s + 1, n))
    BY <1>8, <2>1 DEF Takes
  <2>3. s + 1 \in 1 .. k /\ n \in k + 1 .. Len(d)
    BY <1>5, <1>6, <1>11
  <2>4. Clean(d, n)
    BY <1>4, <2>2, <2>3 DEF Leftover
  <2> QED
    BY <1>4, <1>9, <2>4 DEF Clean
<1> QED
  BY <1>10, <1>11

-----------------------------------------------------------------------------
(* The decoder recovers                                                    *)

Bounded(n) ==
  \E longest \in Byte : n < HeaderSizeV2 + longest + ChecksumSize + SignatureSize

\* What the decoder holds is shorter than a frame; unless an accident happened, it
\* is damage, and behind it the frames that the decoder missed.
RecoversInv ==
  /\ Recovers
  /\ decoderHeld # << >> => Bounded(Len(decoderHeld))
  /\ decoderHeld # << >> /\ ~overlap =>
       \E c \in 1 .. Len(decoderHeld) : /\ c + missed = Len(decoderHeld)
                                       /\ Leftover(decoderHeld, c)

LEMMA DecodeRecovers ==
  ASSUME LaneTypeOK, RecoversInv, Decode
  PROVE  RecoversInv'
<1> DEFINE frame == Head(raw)
           b == decoderHeld \o frame
           one == Len(Parsed[b].frames) = 1
<1>1. /\ frame \in Seq(Byte) \ {<< >>} /\ decoderHeld \in Seq(Byte) /\ missed \in Nat
      /\ overlap \in BOOLEAN
  BY HeadTailProperties DEF Decode, LaneTypeOK
<1>2. /\ b \in Seq(Byte) /\ Len(b) = Len(decoderHeld) + Len(frame)
      /\ Len(b) \in Nat /\ Len(decoderHeld) \in Nat /\ Len(frame) \in Nat \ {0}
  BY <1>1, ConcatProperties, LenProperties, EmptySeq
<1>3. /\ decoderHeld' = << >> \/ decoderHeld' = Parsed[b].rest
      /\ missed' = IF frame \in Frames /\ ~one THEN missed + Len(frame) ELSE 0
      /\ overlap' = (missed' > 0 /\ (overlap \/ Overlaps(decoderHeld, frame)))
  BY DEF Decode, Answer, Parse
<1> HIDE DEF frame, b, one
<1>4. decoderHeld' # << >> => Bounded(Len(decoderHeld'))
  <2> SUFFICES ASSUME decoderHeld' # << >> PROVE Bounded(Len(decoderHeld'))
    OBVIOUS
  <2>1. PICK r \in Seq(Byte) : r = decoderHeld' /\ r = Parsed[b].rest /\ r # << >>
    <3>1. Parsed[b] \in Outcomes /\ decoderHeld' = Parsed[b].rest
      BY <1>2, <1>3, ParsedType
    <3> QED
      BY <3>1 DEF Outcomes
  <2>2. r[1] \in {STXV1, STXV2} /\ ~Complete(r)
    BY <1>2, <2>1, RestIsIncomplete
  <2> QED
    BY <2>1, <2>2, IncompleteIsShort DEF Bounded
<1>5. CASE frame \in Frames /\ ~one
  <2>1. IsFrame(frame) /\ missed' = missed + Len(frame) /\ missed' > 0
    BY <1>1, <1>2, <1>3, <1>5, LaneAssumption
  <2>2. decoderHeld # << >>
    <3> SUFFICES ASSUME decoderHeld = << >> PROVE FALSE
      OBVIOUS
    <3>1. b = frame
      BY <1>1, ConcatEmptySeq DEF b
    <3>2. Len(<<frame>>) = 1
      OBVIOUS
    <3> QED
      BY <1>1, <1>5, <2>1, <3>1, <3>2, OneFrame DEF one
  <2> SUFFICES ASSUME ~overlap'
               PROVE  /\ Recovers'
                      /\ decoderHeld' # << >> =>
                           \E c \in 1 .. Len(decoderHeld') : /\ c + missed' = Len(decoderHeld')
                                                            /\ Leftover(decoderHeld', c)
    BY <1>4 DEF RecoversInv, Recovers
  <2>3. ~overlap /\ ~Overlaps(decoderHeld, frame)
    BY <1>3, <2>1
  <2>4. PICK c \in 1 .. Len(decoderHeld) : c + missed = Len(decoderHeld) /\ Leftover(decoderHeld, c)
    BY <2>2, <2>3 DEF RecoversInv
  <2>5. Recovers'
    <3>1. PICK longest \in Byte :
            Len(decoderHeld) < HeaderSizeV2 + longest + ChecksumSize + SignatureSize
      BY <2>2 DEF RecoversInv, Bounded
    <3>2. PICK m \in Nat : m = HeaderSizeV2 + longest + ChecksumSize + SignatureSize
      BY ByteAssumption, SizeAssumption
    <3>3. missed' < m + Len(frame)
      BY <1>1, <1>2, <2>1, <2>4, <3>1, <3>2
    <3> QED
      BY <1>5, <3>2, <3>3 DEF Recovers
  <2>6. ASSUME decoderHeld' # << >>
        PROVE  \E i \in 1 .. Len(decoderHeld') : /\ i + missed' = Len(decoderHeld')
                                                /\ Leftover(decoderHeld', i)
    <3>1. Leftover(b, c) /\ c \in 0 .. Len(b)
      BY <1>1, <1>2, <2>1, <2>3, <2>4, LeftoverConcat DEF b
    <3>2. PICK n \in 0 .. c - 1 : decoderHeld' = Drop(b, n)
      BY <1>2, <1>3, <2>6, <3>1, LeftoverParsed
    <3>3. n \in 0 .. c /\ n \in 0 .. Len(b)
      BY <1>2, <2>4
    <3>4. Leftover(Drop(b, n), c - n)
      BY <1>2, <3>1, <3>3, LeftoverDrop
    <3>5. Len(Drop(b, n)) = Len(b) - n
      BY <1>2, <3>3, DropProperties
    <3>6. c - n \in 1 .. Len(b) - n /\ c - n + (missed + Len(frame)) = Len(b) - n
      <4>1. PICK h \in Nat, l \in Nat, m \in Nat :
              h = Len(decoderHeld) /\ l = Len(frame) /\ m = missed /\ c + m = h /\ Len(b) = h + l
        BY <1>1, <1>2, <2>4
      <4>2. c - n \in 1 .. h + l - n /\ c - n + (m + l) = h + l - n
        BY <2>4, <4>1
      <4> QED
        BY <4>1, <4>2
    <3> QED
      BY <2>1, <3>2, <3>4, <3>5, <3>6
  <2> QED
    BY <2>5, <2>6
<1>6. CASE ~(frame \in Frames /\ ~one)
  <2>1. missed' = 0
    BY <1>3, <1>6
  <2>2. Recovers'
    BY <2>1, SMTT(30) DEF Recovers
  <2>3. ASSUME decoderHeld' # << >>
        PROVE  \E c \in 1 .. Len(decoderHeld') : /\ c + missed' = Len(decoderHeld')
                                                /\ Leftover(decoderHeld', c)
    <3>1. PICK r \in Seq(Byte) : r = decoderHeld' /\ r # << >>
      <4>1. Parsed[b] \in Outcomes
        BY <1>2, ParsedType
      <4> QED
        BY <1>3, <2>3, <4>1 DEF Outcomes
    <3>2. Len(r) \in 1 .. Len(r) /\ Len(r) + 0 = Len(r) /\ Len(r) + 1 .. Len(r) = {}
      <4>1. Len(r) \in Nat \ {0}
        BY <3>1, EmptySeq
      <4> QED
        BY <4>1
    <3>3. Leftover(r, Len(r))
      BY <3>2, DropAll, NothingIsNothing DEF Leftover, Clean
    <3> QED
      BY <2>1, <3>1, <3>2, <3>3
  <2> QED
    BY <1>4, <2>2, <2>3 DEF RecoversInv
<1> QED
  BY <1>5, <1>6

\* What a damaged datagram leaves behind costs fewer bytes of the whole frames that
\* follow than the longest frame has, and the frame that completes them.
THEOREM DecoderRecovers == LaneSpec => []Recovers
<1>1. LaneInit => RecoversInv
  BY DEF LaneInit, RecoversInv, Recovers
<1>2. LaneTypeOK /\ RecoversInv /\ [LaneNext]_laneVars => RecoversInv'
  <2> SUFFICES ASSUME LaneTypeOK, RecoversInv, [LaneNext]_laneVars PROVE RecoversInv'
    OBVIOUS
  <2>1. CASE Decode
    BY <2>1, DecodeRecovers
  <2>2. CASE ~Decode
    <3>1. UNCHANGED <<decoderHeld, missed, overlap>>
      BY <2>2 DEF LaneNext, Receive, Project, Handle, LoseRaw, LoseDecoded, laneVars
    <3> QED
      BY <3>1 DEF RecoversInv, Recovers, Bounded, Leftover, Clean
  <2> QED
    BY <2>1, <2>2
<1>3. RecoversInv => Recovers
  BY DEF RecoversInv
<1> QED
  BY <1>1, <1>2, <1>3, LaneTypes, PTL DEF LaneSpec

-----------------------------------------------------------------------------
(* Recursive definitions                                                   *)

\* A value for each number from m to n, each made from the one before.
Iteration(f, S, a, step, m, n) ==
  /\ f \in [m .. n -> S] /\ f[m] = a
  /\ \A i \in m + 1 .. n : f[i] = step[i][f[i - 1]]

LEMMA IterationExists ==
  ASSUME NEW S, NEW a, NEW step, NEW m, NEW n,
         m \in Nat, n \in Nat, m <= n, a \in S, step \in [m + 1 .. n -> [S -> S]]
  PROVE  \E f : Iteration(f, S, a, step, m, n)
<1> USE DEF Iteration
<1> DEFINE Iterates(f, k) == Iteration(f, S, a, step, m, k)
           T == {k \in m .. n : ~ \E f : Iterates(f, k)}
<1> SUFFICES ASSUME ~ \E f : Iterates(f, n) PROVE FALSE
  OBVIOUS
<1>0. n \in T
  OBVIOUS
<1>1. Min(T) \in T /\ \A j \in T : Min(T) <= j
  <2>1. T \subseteq Nat
    OBVIOUS
  <2> QED
    BY <1>0, <2>1, MinExists
<1> DEFINE k == Min(T)
<1>2. k \in m .. n /\ (\A f : ~ Iterates(f, k)) /\ \A j \in m .. n : j < k => \E f : Iterates(f, j)
  <2>1. k \in m .. n /\ \A f : ~ Iterates(f, k)
    BY <1>1
  <2>2. ASSUME NEW j \in m .. n, j < k, ~ \E f : Iterates(f, j)
        PROVE  FALSE
    <3>1. j \in T
      BY <2>2
    <3>2. k <= j
      BY <1>1, <3>1
    <3>3. k \in Nat /\ j \in Nat
      BY <2>1
    <3> QED
      BY <2>2, <3>2, <3>3
  <2> QED
    BY <2>1, <2>2
<1> HIDE DEF T, k
<1>3. k # m
  <2> SUFFICES ASSUME k = m PROVE FALSE
    OBVIOUS
  <2> DEFINE f == [i \in m .. k |-> a]
  <2>1. m \in m .. k /\ m + 1 .. k = {}
    OBVIOUS
  <2>2. f \in [m .. k -> S] /\ f[m] = a
    BY <2>1
  <2>3. Iterates(f, k)
    BY <2>1, <2>2
  <2> QED
    BY <1>2, <2>3
<1>4. k \in Nat /\ k - 1 \in m .. n /\ k - 1 < k /\ k \in m + 1 .. n
  BY <1>2, <1>3
<1>5. PICK f : Iterates(f, k - 1)
  BY <1>2, <1>4
<1> DEFINE v == step[k][f[k - 1]]
           g == [i \in m .. k |-> IF i = k THEN v ELSE f[i]]
<1>6. f \in [m .. k - 1 -> S] /\ f[m] = a /\ f[k - 1] \in S
      /\ \A i \in m + 1 .. k - 1 : f[i] = step[i][f[i - 1]]
  <2>1. k - 1 \in m .. k - 1
    BY <1>4
  <2> QED
    BY <1>5, <2>1
<1>7. v \in S
  BY <1>4, <1>6
<1> HIDE DEF v
<1>8. \A i \in m .. k : i # k => i \in m .. k - 1
  BY <1>4
<1>9. g \in [m .. k -> S] /\ g[k] = v /\ \A i \in m .. k - 1 : g[i] = f[i]
  <2>1. \A i \in m .. k : (IF i = k THEN v ELSE f[i]) \in S
    BY <1>6, <1>7, <1>8
  <2>2. k \in m .. k /\ \A i \in m .. k - 1 : i \in m .. k /\ i # k
    BY <1>4
  <2> QED
    BY <2>1, <2>2
<1> HIDE DEF g
<1>10. g[m] = a
  <2>1. m \in m .. k - 1
    BY <1>4
  <2> QED
    BY <1>6, <1>9, <2>1
<1>11. ASSUME NEW i \in m + 1 .. k
       PROVE  g[i] = step[i][g[i - 1]]
  <2>1. i - 1 \in m .. k - 1
    BY <1>4
  <2>2. g[i - 1] = f[i - 1]
    BY <1>9, <2>1
  <2>3. CASE i = k
    BY <1>9, <2>2, <2>3 DEF v
  <2>4. CASE i # k
    <3>1. i \in m + 1 .. k - 1 /\ i \in m .. k - 1
      BY <1>4, <2>4
    <3> QED
      BY <1>6, <1>9, <2>2, <3>1
  <2> QED
    BY <2>3, <2>4
<1>12. Iterates(g, k)
  BY <1>9, <1>10, <1>11
<1> QED
  BY <1>2, <1>12

\* A sequence of sequences end to end.
LEMMA FlattenIs ==
  ASSUME NEW s \in Seq(Seq(Byte)), s # << >>
  PROVE  \E f \in [1 .. Len(s) -> Seq(Byte)] :
           /\ f[1] = s[1] /\ \A i \in 2 .. Len(s) : f[i] = f[i - 1] \o s[i]
           /\ FlattenSeq(s) = f[Len(s)]
<1>1. Len(s) \in Nat \ {0} /\ \A i \in 1 .. Len(s) : s[i] \in Seq(Byte)
  BY EmptySeq, ElementOfSeq
<1> DEFINE Solves1(f) == f = [i \in 1 .. Len(s) |-> IF i = 1 THEN s[i] ELSE f[i - 1] \o s[i]]
<1>2. \E f : Solves1(f)
  <2> DEFINE step == [i \in 2 .. Len(s) |-> [x \in Seq(Byte) |-> x \o s[i]]]
  <2>1. step \in [2 .. Len(s) -> [Seq(Byte) -> Seq(Byte)]]
    <3>1. ASSUME NEW i \in 2 .. Len(s), NEW x \in Seq(Byte)
          PROVE  x \o s[i] \in Seq(Byte)
      <4>1. s[i] \in Seq(Byte)
        BY <1>1
      <4> QED
        BY <4>1, ConcatProperties
    <3> QED
      BY <3>1
  <2>2. \A i \in 2 .. Len(s), x \in Seq(Byte) : step[i][x] = x \o s[i]
    OBVIOUS
  <2> HIDE DEF step
  <2>3. PICK m \in Nat, n \in Nat, a \in Seq(Byte) :
          m = 1 /\ n = Len(s) /\ a = s[1] /\ m <= n /\ m + 1 = 2
    BY <1>1
  <2>4. PICK f \in [m .. n -> Seq(Byte)] :
          f[m] = a /\ \A i \in m + 1 .. n : f[i] = step[i][f[i - 1]]
    <3>1. step \in [m + 1 .. n -> [Seq(Byte) -> Seq(Byte)]]
      BY <2>1, <2>3
    <3>2. \E f : Iteration(f, Seq(Byte), a, step, m, n)
      BY <2>3, <3>1, IterationExists
    <3> QED
      BY <3>2 DEF Iteration
  <2>5. ASSUME NEW i \in 1 .. Len(s)
        PROVE  f[i] = IF i = 1 THEN s[i] ELSE f[i - 1] \o s[i]
    <3>1. CASE i = 1
      BY <2>3, <2>4, <3>1
    <3>2. CASE i # 1
      <4>1. i \in m + 1 .. n /\ i \in 2 .. Len(s) /\ i - 1 \in m .. n
        BY <1>1, <2>3, <3>2
      <4>2. f[i] = step[i][f[i - 1]] /\ f[i - 1] \in Seq(Byte)
        BY <2>4, <4>1
      <4>3. step[i][f[i - 1]] = f[i - 1] \o s[i]
        BY <2>2, <4>1, <4>2
      <4> QED
        BY <3>2, <4>2, <4>3
    <3> QED
      BY <3>1, <3>2
  <2>6. f = [i \in 1 .. Len(s) |-> f[i]]
    BY <2>3, <2>4
  <2>7. Solves1(f)
    BY <2>5, <2>6
  <2> QED
    BY <2>7
<1> DEFINE F == CHOOSE f : Solves1(f)
<1>3. Solves1(F)
  BY <1>2
<1>4. FlattenSeq(s) = F[Len(s)]
  BY <1>1 DEF FlattenSeq
<1> HIDE DEF F
<1>5. /\ DOMAIN F = 1 .. Len(s) /\ F[1] = s[1]
      /\ \A i \in 2 .. Len(s) : F[i] = F[i - 1] \o s[i]
  <2>1. \A i \in 1 .. Len(s) : F[i] = IF i = 1 THEN s[i] ELSE F[i - 1] \o s[i]
    BY <1>3
  <2>2. 1 \in 1 .. Len(s) /\ \A i \in 2 .. Len(s) : i \in 1 .. Len(s) /\ i # 1
    BY <1>1
  <2> QED
    BY <1>3, <2>1, <2>2
<1>6. \A i \in 1 .. Len(s) : F[i] \in Seq(Byte)
  <2> DEFINE T == {i \in 1 .. Len(s) : F[i] \notin Seq(Byte)}
  <2> SUFFICES ASSUME T # {} PROVE FALSE
    OBVIOUS
  <2>1. T \subseteq Nat
    OBVIOUS
  <2>2. Min(T) \in T /\ \A j \in T : Min(T) <= j
    BY <2>1, MinExists
  <2>3. PICK i \in T : \A j \in T : i <= j
    BY <2>2
  <2>4. i # 1
    BY <1>1, <1>5
  <2>5. i \in 2 .. Len(s) /\ i - 1 \in 1 .. Len(s) /\ ~(i <= i - 1)
    BY <1>1, <2>4
  <2>6. F[i - 1] \in Seq(Byte)
    BY <2>3, <2>5
  <2>7. s[i] \in Seq(Byte)
    BY <1>1
  <2>8. F[i] = F[i - 1] \o s[i] /\ F[i - 1] \o s[i] \in Seq(Byte)
    BY <1>5, <2>5, <2>6, <2>7, ConcatProperties
  <2> QED
    BY <2>8
<1>7. F = [i \in 1 .. Len(s) |-> F[i]]
  BY <1>3
<1>8. F \in [1 .. Len(s) -> Seq(Byte)]
  BY <1>6, <1>7
<1> QED
  BY <1>4, <1>5, <1>8

LEMMA FlattenType ==
  ASSUME NEW s \in Seq(Seq(Byte))
  PROVE  FlattenSeq(s) \in Seq(Byte)
<1>1. CASE s = << >>
  BY <1>1, EmptySeq DEF FlattenSeq
<1>2. CASE s # << >>
  <2>1. PICK f \in [1 .. Len(s) -> Seq(Byte)] : FlattenSeq(s) = f[Len(s)]
    BY <1>2, FlattenIs
  <2>2. Len(s) \in 1 .. Len(s)
    <3>1. Len(s) \in Nat \ {0}
      BY <1>2, EmptySeq
    <3> QED
      BY <3>1
  <2> QED
    BY <2>1, <2>2
<1> QED
  BY <1>1, <1>2

LEMMA FlattenAppend ==
  ASSUME NEW s \in Seq(Seq(Byte)), NEW x \in Seq(Byte)
  PROVE  FlattenSeq(Append(s, x)) = FlattenSeq(s) \o x
<1>1. PICK t \in Seq(Seq(Byte)) : /\ t = Append(s, x) /\ t # << >> /\ Len(t) = Len(s) + 1
                                  /\ \A i \in 1 .. Len(s) : t[i] = s[i]
                                  /\ t[Len(s) + 1] = x
  BY AppendProperties
<1>2. PICK g \in [1 .. Len(t) -> Seq(Byte)] :
        /\ g[1] = t[1] /\ \A i \in 2 .. Len(t) : g[i] = g[i - 1] \o t[i]
        /\ FlattenSeq(t) = g[Len(t)]
  BY <1>1, FlattenIs
<1>3. Len(s) \in Nat
  BY LenProperties
<1>4. CASE s = << >>
  <2>1. Len(s) = 0 /\ FlattenSeq(s) = << >>
    BY <1>4 DEF FlattenSeq
  <2>2. << >> \o x = x
    BY ConcatEmptySeq
  <2>3. FlattenSeq(t) = t[1] /\ t[1] = x
    BY <1>1, <1>2, <2>1
  <2> QED
    BY <1>1, <2>1, <2>2, <2>3
<1>5. CASE s # << >>
  <2>1. PICK f \in [1 .. Len(s) -> Seq(Byte)] :
          /\ f[1] = s[1] /\ \A i \in 2 .. Len(s) : f[i] = f[i - 1] \o s[i]
          /\ FlattenSeq(s) = f[Len(s)]
    BY <1>5, FlattenIs
  <2>2. Len(s) \in Nat \ {0}
    BY <1>5, EmptySeq
  <2>3. \A i \in 1 .. Len(s) : g[i] = f[i]
    <3> DEFINE T == {i \in 1 .. Len(s) : g[i] # f[i]}
    <3> SUFFICES ASSUME T # {} PROVE FALSE
      OBVIOUS
    <3>1. T \subseteq Nat
      OBVIOUS
    <3>2. Min(T) \in T /\ \A j \in T : Min(T) <= j
      BY <3>1, MinExists
    <3>3. PICK i \in T : \A j \in T : i <= j
      BY <3>2
    <3>4. i # 1
      BY <1>1, <1>2, <2>1, <2>2
    <3>5. i \in 2 .. Len(s) /\ i \in 2 .. Len(t) /\ i - 1 \in 1 .. Len(s) /\ ~(i <= i - 1)
      BY <1>1, <2>2, <3>4
    <3>6. g[i - 1] = f[i - 1] /\ t[i] = s[i]
      BY <1>1, <3>3, <3>5
    <3> QED
      BY <1>2, <2>1, <3>5, <3>6
  <2>4. /\ Len(t) \in 2 .. Len(t) /\ Len(t) - 1 = Len(s) /\ Len(s) \in 1 .. Len(s)
    BY <1>1, <2>2
  <2>5. g[Len(t)] = g[Len(s)] \o x
    BY <1>1, <1>2, <2>4, ZenonT(60)
  <2> QED
    BY <1>1, <1>2, <2>1, <2>3, <2>4, <2>5
<1> QED
  BY <1>4, <1>5

-----------------------------------------------------------------------------
(* Bytes found in their order                                              *)

\* The bytes x, in their order and each once, among the bytes y.
Among(x, y) ==
  \E g \in [1 .. Len(x) -> 1 .. Len(y)] :
    /\ \A i, j \in 1 .. Len(x) : i < j => g[i] < g[j]
    /\ \A i \in 1 .. Len(x) : x[i] = y[g[i]]

LEMMA AmongItself ==
  ASSUME NEW x \in Seq(Byte)
  PROVE  Among(x, x)
<1> DEFINE g == [i \in 1 .. Len(x) |-> i]
<1>1. /\ g \in [1 .. Len(x) -> 1 .. Len(x)]
      /\ \A i, j \in 1 .. Len(x) : i < j => g[i] < g[j]
      /\ \A i \in 1 .. Len(x) : x[i] = x[g[i]]
  OBVIOUS
<1> QED
  BY <1>1 DEF Among

LEMMA NoneAmong ==
  ASSUME NEW y \in Seq(Byte)
  PROVE  Among(<< >>, y)
<1> DEFINE g == [i \in 1 .. 0 |-> i]
<1>1. Len(<< >>) = 0 /\ 1 .. 0 = {}
  OBVIOUS
<1>2. g \in [1 .. 0 -> 1 .. Len(y)]
  BY <1>1
<1> QED
  BY <1>1, <1>2 DEF Among

LEMMA AmongAmong ==
  ASSUME NEW x \in Seq(Byte), NEW y \in Seq(Byte), NEW z \in Seq(Byte), Among(x, y), Among(y, z)
  PROVE  Among(x, z)
<1>1. PICK g \in [1 .. Len(x) -> 1 .. Len(y)] :
        /\ \A i, j \in 1 .. Len(x) : i < j => g[i] < g[j]
        /\ \A i \in 1 .. Len(x) : x[i] = y[g[i]]
  BY DEF Among
<1>2. PICK h \in [1 .. Len(y) -> 1 .. Len(z)] :
        /\ \A i, j \in 1 .. Len(y) : i < j => h[i] < h[j]
        /\ \A i \in 1 .. Len(y) : y[i] = z[h[i]]
  BY DEF Among
<1> DEFINE f == [i \in 1 .. Len(x) |-> h[g[i]]]
<1>3. f \in [1 .. Len(x) -> 1 .. Len(z)]
  OBVIOUS
<1>4. \A i, j \in 1 .. Len(x) : i < j => f[i] < f[j]
  BY <1>1, <1>2
<1>5. \A i \in 1 .. Len(x) : x[i] = z[f[i]]
  BY <1>1, <1>2
<1> QED
  BY <1>3, <1>4, <1>5 DEF Among

LEMMA AmongConcat ==
  ASSUME NEW x \in Seq(Byte), NEW y \in Seq(Byte), Among(x, y),
         NEW v \in Seq(Byte), NEW w \in Seq(Byte), Among(v, w)
  PROVE  Among(x \o v, y \o w)
<1>1. PICK g \in [1 .. Len(x) -> 1 .. Len(y)] :
        /\ \A i, j \in 1 .. Len(x) : i < j => g[i] < g[j]
        /\ \A i \in 1 .. Len(x) : x[i] = y[g[i]]
  BY DEF Among
<1>2. PICK h \in [1 .. Len(v) -> 1 .. Len(w)] :
        /\ \A i, j \in 1 .. Len(v) : i < j => h[i] < h[j]
        /\ \A i \in 1 .. Len(v) : v[i] = w[h[i]]
  BY DEF Among
<1>3. PICK s \in Seq(Byte) :
        /\ s = x \o v /\ Len(s) = Len(x) + Len(v)
        /\ \A i \in 1 .. Len(x) + Len(v) : s[i] = IF i <= Len(x) THEN x[i] ELSE v[i - Len(x)]
  <2>1. /\ x \o v \in Seq(Byte) /\ Len(x \o v) = Len(x) + Len(v)
        /\ \A i \in 1 .. Len(x) + Len(v) :
             (x \o v)[i] = IF i <= Len(x) THEN x[i] ELSE v[i - Len(x)]
    BY ConcatProperties
  <2> QED
    BY <2>1
<1>4. PICK t \in Seq(Byte) :
        /\ t = y \o w /\ Len(t) = Len(y) + Len(w)
        /\ \A i \in 1 .. Len(y) + Len(w) : t[i] = IF i <= Len(y) THEN y[i] ELSE w[i - Len(y)]
  <2>1. /\ y \o w \in Seq(Byte) /\ Len(y \o w) = Len(y) + Len(w)
        /\ \A i \in 1 .. Len(y) + Len(w) :
             (y \o w)[i] = IF i <= Len(y) THEN y[i] ELSE w[i - Len(y)]
    BY ConcatProperties
  <2> QED
    BY <2>1
<1>5. Len(x) \in Nat /\ Len(v) \in Nat /\ Len(y) \in Nat /\ Len(w) \in Nat
  BY LenProperties
<1> DEFINE f == [i \in 1 .. Len(s) |-> IF i <= Len(x) THEN g[i] ELSE Len(y) + h[i - Len(x)]]
<1>6. /\ f = [i \in 1 .. Len(s) |-> f[i]]
      /\ \A i \in 1 .. Len(s) : f[i] = IF i <= Len(x) THEN g[i] ELSE Len(y) + h[i - Len(x)]
  OBVIOUS
<1> HIDE DEF f
<1>7. ASSUME NEW i \in 1 .. Len(s), i <= Len(x)
      PROVE  i \in 1 .. Len(x) /\ f[i] = g[i] /\ g[i] \in 1 .. Len(y)
  <2>1. i \in 1 .. Len(x)
    BY <1>3, <1>5, <1>7
  <2> QED
    BY <1>6, <1>7, <2>1
<1>8. ASSUME NEW i \in 1 .. Len(s), ~(i <= Len(x))
      PROVE  /\ i - Len(x) \in 1 .. Len(v) /\ f[i] = Len(y) + h[i - Len(x)]
             /\ h[i - Len(x)] \in 1 .. Len(w)
  <2>1. i - Len(x) \in 1 .. Len(v)
    BY <1>3, <1>5, <1>8
  <2> QED
    BY <1>6, <1>8, <2>1
<1>9. ASSUME NEW i \in 1 .. Len(s)
      PROVE  f[i] \in 1 .. Len(t)
  <2>1. CASE i <= Len(x)
    <3>1. f[i] \in 1 .. Len(y)
      BY <1>7, <2>1
    <3> QED
      BY <1>4, <1>5, <3>1
  <2>2. CASE ~(i <= Len(x))
    <3>1. f[i] = Len(y) + h[i - Len(x)] /\ h[i - Len(x)] \in 1 .. Len(w)
      BY <1>8, <2>2
    <3> QED
      BY <1>4, <1>5, <3>1
  <2> QED
    BY <2>1, <2>2
<1>10. f \in [1 .. Len(s) -> 1 .. Len(t)]
  BY <1>6, <1>9
<1>11. ASSUME NEW i \in 1 .. Len(s), NEW j \in 1 .. Len(s), i < j
       PROVE  f[i] < f[j]
  <2>1. CASE j <= Len(x)
    <3>1. i <= Len(x)
      BY <1>3, <1>5, <1>11, <2>1
    <3> QED
      BY <1>1, <1>7, <1>11, <2>1, <3>1
  <2>2. CASE i <= Len(x) /\ ~(j <= Len(x))
    <3>1. f[i] \in 1 .. Len(y) /\ f[j] = Len(y) + h[j - Len(x)] /\ h[j - Len(x)] \in 1 .. Len(w)
      BY <1>7, <1>8, <2>2
    <3> QED
      BY <1>5, <3>1
  <2>3. CASE ~(i <= Len(x))
    <3>1. ~(j <= Len(x)) /\ i - Len(x) < j - Len(x)
      BY <1>3, <1>5, <1>11, <2>3
    <3>2. PICK k \in 1 .. Len(v), l \in 1 .. Len(v) :
            /\ k = i - Len(x) /\ l = j - Len(x) /\ k < l
            /\ f[i] = Len(y) + h[k] /\ f[j] = Len(y) + h[l]
      BY <1>8, <2>3, <3>1
    <3>3. h[k] < h[l] /\ h[k] \in 1 .. Len(w) /\ h[l] \in 1 .. Len(w)
      BY <1>2, <3>2
    <3> QED
      BY <1>5, <3>2, <3>3
  <2> QED
    BY <2>1, <2>2, <2>3
<1>12. ASSUME NEW i \in 1 .. Len(s)
       PROVE  s[i] = t[f[i]]
  <2>1. CASE i <= Len(x)
    <3>1. f[i] \in 1 .. Len(y) + Len(w) /\ f[i] <= Len(y) /\ f[i] = g[i] /\ i \in 1 .. Len(x)
      BY <1>5, <1>7, <2>1
    <3>2. t[f[i]] = y[f[i]]
      BY <1>4, <3>1
    <3>3. s[i] = x[i]
      BY <1>3, <2>1
    <3> QED
      BY <1>1, <3>1, <3>2, <3>3
  <2>2. CASE ~(i <= Len(x))
    <3>1. PICK k \in 1 .. Len(v) : k = i - Len(x) /\ f[i] = Len(y) + h[k] /\ h[k] \in 1 .. Len(w)
      BY <1>8, <2>2
    <3>2. f[i] \in 1 .. Len(y) + Len(w) /\ ~(f[i] <= Len(y)) /\ f[i] - Len(y) = h[k]
      BY <1>5, <3>1
    <3>3. t[f[i]] = w[h[k]]
      BY <1>4, <3>2
    <3>4. s[i] = v[k]
      BY <1>3, <2>2, <3>1
    <3> QED
      BY <1>2, <3>3, <3>4
  <2> QED
    BY <2>1, <2>2
<1>13. Among(s, t)
  BY <1>10, <1>11, <1>12 DEF Among
<1> QED
  BY <1>3, <1>4, <1>13

\* Bytes before or behind do not matter.
LEMMA AmongMore ==
  ASSUME NEW x \in Seq(Byte), NEW y \in Seq(Byte), Among(x, y), NEW w \in Seq(Byte)
  PROVE  Among(x, y \o w) /\ Among(x, w \o y)
<1>1. PICK e \in Seq(Byte) : e = << >> /\ Among(e, w)
  BY EmptySeq, NoneAmong
<1>2. Among(x \o e, y \o w) /\ Among(e \o x, w \o y)
  BY <1>1, AmongConcat
<1>3. x \o e = x /\ e \o x = x
  BY <1>1, ConcatEmptySeq
<1> QED
  BY <1>2, <1>3

\* Places finds them all.
LEMMA NextPlaceType ==
  ASSUME NEW y \in Seq(Byte), NEW k \in Nat, NEW b
  PROVE  /\ NextPlace(y, k, b) \in Nat
         /\ \A n \in k + 1 .. Len(y) : y[n] = b => NextPlace(y, k, b) <= n
<1> DEFINE T == {n \in k + 1 .. Len(y) : y[n] = b}
<1>1. Len(y) \in Nat /\ T \subseteq Nat
  BY LenProperties
<1>2. NextPlace(y, k, b) = IF T = {} THEN Len(y) + 1 ELSE Min(T)
  BY DEF NextPlace
<1>3. \A n \in k + 1 .. Len(y) : y[n] = b => n \in T
  OBVIOUS
<1> HIDE DEF T
<1>4. CASE T = {}
  BY <1>1, <1>2, <1>3, <1>4
<1>5. CASE T # {}
  <2>1. Min(T) \in T /\ \A n \in T : Min(T) <= n
    BY <1>1, <1>5, MinExists
  <2> QED
    BY <1>1, <1>2, <1>3, <1>5, <2>1
<1> QED
  BY <1>4, <1>5

LEMMA PlacesIs ==
  ASSUME NEW y \in Seq(Byte), NEW x \in Seq(Byte)
  PROVE  \E p \in [0 .. Len(x) -> Nat] :
           /\ Places(y, x) = p /\ p[0] = 0
           /\ \A i \in 1 .. Len(x) : p[i] = NextPlace(y, p[i - 1], x[i])
<1>1. Len(x) \in Nat
  BY LenProperties
<1> DEFINE Solved(f) == f = [i \in 0 .. Len(x) |-> IF i = 0 THEN 0 ELSE NextPlace(y, f[i - 1], x[i])]
<1>2. \E f : Solved(f) /\ f \in [0 .. Len(x) -> Nat]
  <2> DEFINE step == [i \in 1 .. Len(x) |-> [k \in Nat |-> NextPlace(y, k, x[i])]]
  <2>1. step \in [1 .. Len(x) -> [Nat -> Nat]]
    BY NextPlaceType
  <2>2. \A i \in 1 .. Len(x), k \in Nat : step[i][k] = NextPlace(y, k, x[i])
    OBVIOUS
  <2> HIDE DEF step
  <2>3. PICK m \in Nat, n \in Nat : m = 0 /\ n = Len(x) /\ m <= n /\ m + 1 = 1
    BY <1>1
  <2>4. \E f : Iteration(f, Nat, m, step, m, n)
    <3>1. step \in [m + 1 .. n -> [Nat -> Nat]]
      BY <2>1, <2>3
    <3> QED
      BY <2>3, <3>1, IterationExists
  <2>5. PICK f \in [m .. n -> Nat] :
          f[m] = m /\ \A i \in m + 1 .. n : f[i] = step[i][f[i - 1]]
    BY <2>4 DEF Iteration
  <2>6. ASSUME NEW i \in 0 .. Len(x)
        PROVE  f[i] = IF i = 0 THEN 0 ELSE NextPlace(y, f[i - 1], x[i])
    <3>1. CASE i = 0
      BY <2>3, <2>5, <3>1
    <3>2. CASE i # 0
      <4>1. i \in m + 1 .. n /\ i \in 1 .. Len(x) /\ i - 1 \in m .. n
        BY <1>1, <2>3, <3>2
      <4>2. f[i] = step[i][f[i - 1]] /\ f[i - 1] \in Nat
        BY <2>5, <4>1
      <4>3. step[i][f[i - 1]] = NextPlace(y, f[i - 1], x[i])
        BY <2>2, <4>1, <4>2
      <4> QED
        BY <3>2, <4>2, <4>3
    <3> QED
      BY <3>1, <3>2
  <2>7. f = [i \in 0 .. Len(x) |-> f[i]] /\ f \in [0 .. Len(x) -> Nat]
    BY <2>3, <2>5
  <2>8. Solved(f)
    BY <2>6, <2>7
  <2> QED
    BY <2>7, <2>8
<1> DEFINE P == CHOOSE f : Solved(f)
<1>3. Solved(P)
  BY <1>2
<1>4. Places(y, x) = P
  BY DEF Places
<1> HIDE DEF P
<1>5. /\ DOMAIN P = 0 .. Len(x) /\ P[0] = 0
      /\ \A i \in 1 .. Len(x) : P[i] = NextPlace(y, P[i - 1], x[i])
  <2>1. \A i \in 0 .. Len(x) : P[i] = IF i = 0 THEN 0 ELSE NextPlace(y, P[i - 1], x[i])
    BY <1>3
  <2>2. 0 \in 0 .. Len(x) /\ \A i \in 1 .. Len(x) : i \in 0 .. Len(x) /\ i # 0
    BY <1>1
  <2> QED
    BY <1>3, <2>1, <2>2
<1>6. \A i \in 0 .. Len(x) : P[i] \in Nat
  <2> DEFINE T == {i \in 0 .. Len(x) : P[i] \notin Nat}
  <2> SUFFICES ASSUME T # {} PROVE FALSE
    OBVIOUS
  <2>1. T \subseteq Nat
    OBVIOUS
  <2>2. Min(T) \in T /\ \A j \in T : Min(T) <= j
    BY <2>1, MinExists
  <2>3. PICK i \in T : \A j \in T : i <= j
    BY <2>2
  <2>4. i # 0
    BY <1>5
  <2>5. i \in 1 .. Len(x) /\ i - 1 \in 0 .. Len(x) /\ ~(i <= i - 1)
    BY <1>1, <2>4
  <2>6. P[i - 1] \in Nat
    BY <2>3, <2>5
  <2>7. P[i] \in Nat
    BY <1>5, <2>5, <2>6, NextPlaceType
  <2> QED
    BY <2>7
<1>7. P = [i \in 0 .. Len(x) |-> P[i]]
  BY <1>3
<1>8. P \in [0 .. Len(x) -> Nat]
  BY <1>6, <1>7
<1> QED
  BY <1>4, <1>5, <1>8

LEMMA AmongIsFound ==
  ASSUME NEW x \in Seq(Byte), NEW y \in Seq(Byte), Among(x, y)
  PROVE  Places(y, x)[Len(x)] <= Len(y)
<1>1. PICK g \in [1 .. Len(x) -> 1 .. Len(y)] :
        /\ \A i, j \in 1 .. Len(x) : i < j => g[i] < g[j]
        /\ \A i \in 1 .. Len(x) : x[i] = y[g[i]]
  BY DEF Among
<1>2. PICK p \in [0 .. Len(x) -> Nat] :
        /\ Places(y, x) = p /\ p[0] = 0
        /\ \A i \in 1 .. Len(x) : p[i] = NextPlace(y, p[i - 1], x[i])
  BY PlacesIs
<1>3. Len(x) \in Nat /\ Len(y) \in Nat
  BY LenProperties
<1>4. \A i \in 1 .. Len(x) : p[i] <= g[i]
  <2> DEFINE T == {i \in 1 .. Len(x) : ~(p[i] <= g[i])}
  <2> SUFFICES ASSUME T # {} PROVE FALSE
    OBVIOUS
  <2>1. T \subseteq Nat
    OBVIOUS
  <2>2. Min(T) \in T /\ \A j \in T : Min(T) <= j
    BY <2>1, MinExists
  <2>3. PICK i \in T : \A j \in T : i <= j
    BY <2>2
  <2>4. i \in 1 .. Len(x) /\ g[i] \in 1 .. Len(y) /\ i - 1 \in 0 .. Len(x) /\ p[i - 1] \in Nat
    <3>1. i \in 1 .. Len(x)
      OBVIOUS
    <3>2. i - 1 \in 0 .. Len(x)
      BY <1>3, <3>1
    <3> QED
      BY <3>1, <3>2
  <2>5. p[i - 1] < g[i]
    <3>1. CASE i = 1
      BY <1>2, <2>4, <3>1
    <3>2. CASE i # 1
      <4>1. i - 1 \in 1 .. Len(x) /\ i - 1 < i /\ ~(i <= i - 1)
        BY <2>4, <3>2
      <4>2. p[i - 1] <= g[i - 1] /\ g[i - 1] < g[i] /\ g[i - 1] \in 1 .. Len(y)
        BY <1>1, <2>3, <2>4, <4>1
      <4> QED
        BY <2>4, <4>2
    <3> QED
      BY <3>1, <3>2
  <2>6. g[i] \in p[i - 1] + 1 .. Len(y) /\ y[g[i]] = x[i]
    BY <1>1, <1>3, <2>4, <2>5
  <2>7. p[i] <= g[i]
    <3>1. PICK k \in Nat, b \in Byte : k = p[i - 1] /\ b = x[i]
      BY <2>4, ElementOfSeq
    <3>2. NextPlace(y, k, b) <= g[i]
      BY <2>6, <3>1, NextPlaceType
    <3> QED
      BY <1>2, <2>4, <3>1, <3>2
  <2> QED
    BY <2>3, <2>7
<1>5. CASE Len(x) = 0
  BY <1>2, <1>3, <1>5
<1>6. CASE Len(x) # 0
  <2>1. Len(x) \in 1 .. Len(x)
    BY <1>3, <1>6
  <2>2. p[Len(x)] <= g[Len(x)] /\ g[Len(x)] \in 1 .. Len(y) /\ p[Len(x)] \in Nat
    BY <1>4, <2>1
  <2> QED
    BY <1>2, <1>3, <2>2
<1> QED
  BY <1>5, <1>6

\* What a parser keeps is among the bytes it has read, and behind the frame that it
\* found if there is only one.
LEMMA ParsedAmong ==
  ASSUME NEW b \in Seq(Byte)
  PROVE  /\ Among(Parsed[b].rest, b)
         /\ \A f \in Seq(Byte) : Parsed[b].frames = <<f>> => Among(f \o Parsed[b].rest, b)
<1> DEFINE Good(c) ==
             /\ Among(Parsed[c].rest, c)
             /\ \A f \in Seq(Byte) : Parsed[c].frames = <<f>> => Among(f \o Parsed[c].rest, c)
           T == {c \in Seq(Byte) : ~Good(c)}
<1> SUFFICES ASSUME T # {} PROVE FALSE
  OBVIOUS
<1>1. PICK c \in T : \A d \in Seq(Byte) : Len(d) < Len(c) => d \notin T
  BY ShortestExists
<1>2. c \in Seq(Byte) /\ ~Good(c)
  BY <1>1
<1>3. \A d \in Seq(Byte) : Len(d) < Len(c) => Good(d)
  BY <1>1
<1> HIDE DEF T
<1> DEFINE s == SyncOffset(c)
<1>4. s \in 0 .. Len(c) /\ Len(c) \in Nat
  BY <1>2, SyncOffsetIs, LenProperties
<1>5. ASSUME NEW n \in 0 .. Len(c), NEW x \in Seq(Byte), Among(x, Drop(c, n))
      PROVE  Among(x, c)
  <2>1. /\ SubSeq(c, 1, n) \in Seq(Byte) /\ Drop(c, n) \in Seq(Byte)
        /\ c = SubSeq(c, 1, n) \o Drop(c, n)
    BY <1>2, SplitAt, DropProperties
  <2>2. Among(x, SubSeq(c, 1, n) \o Drop(c, n))
    BY <1>5, <2>1, AmongMore
  <2> QED
    BY <2>1, <2>2
<1>6. ~Stops(c)
  <2> SUFFICES ASSUME Stops(c) PROVE FALSE
    OBVIOUS
  <2>1. Parsed[c].rest = Drop(c, s) /\ Drop(c, s) \in Seq(Byte)
    BY <1>2, <1>4, DropProperties DEF Stops, After
  <2>2. Among(Drop(c, s), c)
    BY <1>4, <1>5, <2>1, AmongItself
  <2>3. ASSUME NEW f, Parsed[c].frames = <<f>>
        PROVE  FALSE
    <3>1. << >> = <<f>>
      BY <2>3 DEF Stops
    <3>2. Len(<< >>) = 0 /\ Len(<<f>>) = 1
      OBVIOUS
    <3> QED
      BY <3>1, <3>2
  <2> QED
    BY <1>2, <2>1, <2>2, <2>3
<1>7. PICK n \in 1 .. Len(c) : Takes(c, n) \/ GivesUp(c, n)
  BY <1>2, <1>6, PassCases
<1> DEFINE d == Drop(c, n)
           q == Parsed[d]
<1>8. n \in 0 .. Len(c) /\ d \in Seq(Byte) /\ Len(d) < Len(c) /\ q \in Outcomes
  BY <1>2, <1>4, DropIsShorter
<1>9. q.frames \in Seq(Seq(Byte)) /\ q.rest \in Seq(Byte)
  BY <1>8 DEF Outcomes
<1>10. Parsed[c].rest = q.rest
  BY <1>7 DEF Takes, GivesUp
<1>11. Good(d)
  <2> HIDE DEF Good, d
  <2> QED
    BY <1>3, <1>8
<1> HIDE DEF d, q
<1>12. Among(q.rest, d)
  BY <1>11 DEF q
<1>13. Among(Parsed[c].rest, c)
  BY <1>5, <1>8, <1>9, <1>10, <1>12 DEF d
<1>14. ASSUME NEW f \in Seq(Byte), Parsed[c].frames = <<f>>
       PROVE  Among(f \o q.rest, c)
  <2>1. CASE GivesUp(c, n)
    <3>1. q.frames = <<f>>
      BY <1>14, <2>1 DEF GivesUp, q, d
    <3>2. Among(f \o q.rest, d) /\ f \o q.rest \in Seq(Byte)
      BY <1>9, <1>11, <3>1, ConcatProperties DEF q
    <3> QED
      BY <1>5, <1>8, <3>2 DEF d
  <2>2. CASE Takes(c, n)
    <3> DEFINE g == SubSeq(c, s + 1, n)
    <3>1. /\ g \in Seq(Byte) /\ Parsed[c].frames = <<g>> \o q.frames
          /\ n \in s + 1 .. Len(c)
      BY <2>2 DEF Takes, q, d
    <3>2. f = g
      <4> HIDE DEF g
      <4>1. PICK gs \in Seq(Seq(Byte)), hs \in Seq(Seq(Byte)) :
              gs = <<g>> /\ hs = q.frames /\ Len(gs) = 1 /\ gs[1] = g
        <5>1. <<g>> \in Seq(Seq(Byte)) /\ Len(<<g>>) = 1 /\ <<g>>[1] = g
          BY <3>1
        <5> QED
          BY <1>9, <5>1
      <4>2. \A i \in 1 .. Len(gs) + Len(hs) :
              (gs \o hs)[i] = IF i <= Len(gs) THEN gs[i] ELSE hs[i - Len(gs)]
        BY ConcatProperties, SMTT(30)
      <4>3. PICK one \in 1 .. Len(gs) + Len(hs) : one = 1 /\ one <= Len(gs)
        BY <4>1, LenProperties
      <4>4. (gs \o hs)[one] = g
        BY <4>1, <4>2, <4>3
      <4>5. gs \o hs = <<f>> /\ <<f>>[1] = f
        BY <1>14, <3>1, <4>1
      <4> QED
        BY <4>3, <4>4, <4>5
    <3>3. Drop(c, s) = g \o d
      <4>1. PICK m \in 1 .. Len(c) + 1, all \in Nat : m = s + 1 /\ all = Len(c)
        BY <1>4
      <4>2. n \in m - 1 .. Len(c) /\ all \in n .. Len(c)
        BY <1>4, <3>1, <4>1
      <4>3. SubSeq(c, m, n) \o SubSeq(c, n + 1, all) = SubSeq(c, m, all)
        BY <1>2, <4>2, ConcatAdjacentSubSeq
      <4> QED
        BY <4>1, <4>3 DEF Drop, d
    <3> HIDE DEF g
    <3>4. Among(g \o q.rest, g \o d) /\ g \o q.rest \in Seq(Byte)
      BY <1>8, <1>9, <1>12, <3>1, AmongItself, AmongConcat, ConcatProperties
    <3> QED
      BY <1>4, <1>5, <3>2, <3>3, <3>4
  <2> QED
    BY <1>7, <2>1, <2>2
<1> QED
  BY <1>2, <1>10, <1>13, <1>14

-----------------------------------------------------------------------------
(* Every packet once and in order                                          *)

\* What is ahead of the projector: the bytes of the packets projected and of its
\* buffer, then those of each decoded message under way, are in this order among
\* the bytes that the decoder has handled.
Line(H) ==
  /\ H \in [0 .. Len(decoded) -> Seq(Byte)]
  /\ Among(Output \o projectorHeld, H[0])
  /\ \A i \in 1 .. Len(decoded) : Among(H[i - 1] \o decoded[i].frame, H[i])
  /\ Among(H[Len(decoded)], handled)

OrderInv ==
  /\ \A i \in DOMAIN projected : IsFrame(projected[i].packet)
  /\ \E H : Line(H)

PacketsOf(s) == [i \in DOMAIN s |-> s[i].packet]

LEMMA PacketsType ==
  ASSUME NEW s \in Seq([packet : Seq(Byte), message : Message])
  PROVE  PacketsOf(s) \in Seq(Seq(Byte)) /\ Len(PacketsOf(s)) = Len(s)
<1>1. Len(s) \in Nat /\ DOMAIN s = 1 .. Len(s)
  BY LenProperties
<1>2. ASSUME NEW i \in 1 .. Len(s)
      PROVE  s[i].packet \in Seq(Byte)
  <2>1. s[i] \in [packet : Seq(Byte), message : Message]
    BY ElementOfSeq
  <2> QED
    BY <2>1
<1>3. PacketsOf(s) = [i \in 1 .. Len(s) |-> s[i].packet]
  BY <1>1 DEF PacketsOf
<1>4. PacketsOf(s) \in [1 .. Len(s) -> Seq(Byte)]
  BY <1>2, <1>3
<1> QED
  BY <1>1, <1>3, <1>4, SMTT(30)

LEMMA OutputType ==
  ASSUME LaneTypeOK
  PROVE  Output \in Seq(Byte)
<1>1. PacketsOf(projected) \in Seq(Seq(Byte))
  BY PacketsType DEF LaneTypeOK
<1> QED
  BY <1>1, FlattenType DEF Output, PacketsOf

LEMMA OutputAppend ==
  ASSUME LaneTypeOK, NEW q \in [packet : Seq(Byte), message : Message],
         projected' = Append(projected, q)
  PROVE  Output' = Output \o q.packet
<1>1. PICK s \in Seq([packet : Seq(Byte), message : Message]) : s = projected
  BY DEF LaneTypeOK
<1>2. PICK t \in Seq([packet : Seq(Byte), message : Message]) :
        t = Append(s, q) /\ Len(t) = Len(s) + 1 /\ t[Len(s) + 1] = q
        /\ \A i \in 1 .. Len(s) : t[i] = s[i]
  <2>1. /\ Append(s, q) \in Seq([packet : Seq(Byte), message : Message])
        /\ Len(Append(s, q)) = Len(s) + 1 /\ Append(s, q)[Len(s) + 1] = q
        /\ \A i \in 1 .. Len(s) : Append(s, q)[i] = s[i]
    BY AppendProperties
  <2> QED
    BY <2>1
<1>3. PICK x \in Seq(Byte) : x = q.packet
  OBVIOUS
<1>4. PICK u \in Seq(Seq(Byte)), v \in Seq(Seq(Byte)) :
        u = PacketsOf(s) /\ v = PacketsOf(t) /\ Len(u) = Len(s) /\ Len(v) = Len(t)
  BY PacketsType
<1>5. /\ \A i \in 1 .. Len(s) : u[i] = s[i].packet
      /\ \A i \in 1 .. Len(t) : v[i] = t[i].packet
  <2>1. DOMAIN s = 1 .. Len(s) /\ DOMAIN t = 1 .. Len(t)
    BY LenProperties
  <2> QED
    BY <1>4, <2>1 DEF PacketsOf
<1>6. /\ Append(u, x) \in Seq(Seq(Byte)) /\ Len(Append(u, x)) = Len(u) + 1
      /\ Append(u, x)[Len(u) + 1] = x /\ \A i \in 1 .. Len(u) : Append(u, x)[i] = u[i]
  BY AppendProperties
<1>7. Len(s) \in Nat
  BY LenProperties
<1>8. ASSUME NEW i \in 1 .. Len(v)
      PROVE  v[i] = Append(u, x)[i]
  <2>1. i \in 1 .. Len(t) /\ (i \in 1 .. Len(s) \/ i = Len(s) + 1)
    BY <1>2, <1>4, <1>7
  <2>2. CASE i \in 1 .. Len(s)
    BY <1>2, <1>4, <1>5, <1>6, <2>1, <2>2
  <2>3. CASE i = Len(s) + 1
    BY <1>2, <1>3, <1>4, <1>5, <1>6, <2>1, <2>3
  <2> QED
    BY <2>1, <2>2, <2>3
<1>9. v = Append(u, x)
  <2>1. PICK w \in Seq(Seq(Byte)) : w = Append(u, x) /\ Len(w) = Len(u) + 1
    BY <1>6
  <2>2. Len(v) = Len(w) /\ \A i \in 1 .. Len(v) : v[i] = w[i]
    BY <1>2, <1>4, <1>8, <2>1
  <2>3. v = w
    BY <2>2, SeqEqual, SMTT(30)
  <2> QED
    BY <2>1, <2>3
<1>10. FlattenSeq(v) = FlattenSeq(u) \o x
  BY <1>9, FlattenAppend
<1>11. Output = FlattenSeq(u) /\ Output' = FlattenSeq(v)
  BY <1>1, <1>2, <1>4 DEF Output, PacketsOf
<1> QED
  BY <1>3, <1>10, <1>11

LEMMA DecodeOrder ==
  ASSUME LaneTypeOK, OrderInv, Decode
  PROVE  OrderInv'
<1> DEFINE frame == Head(raw)
           n == Len(decoded)
<1>1. /\ frame \in Seq(Byte) \ {<< >>} /\ handled' = handled \o frame /\ handled \in Seq(Byte)
      /\ decoded \in Seq(Message) /\ UNCHANGED <<projectorHeld, projected>>
  BY HeadTailProperties DEF Decode, Answer, LaneTypeOK
<1>2. \/ decoded' = decoded
      \/ \E x : decoded' = Append(decoded, [frame |-> frame, packet |-> x[1]]) /\ Len(x) = 1
                /\ x \in Seq(Seq(Byte))
  <2>1. Parse(decoderHeld, frame).packets \in Seq(Seq(Byte))
    BY <1>1, ParseType DEF LaneTypeOK
  <2> QED
    BY <2>1 DEF Decode, Answer
<1> HIDE DEF frame
<1>3. PICK H : Line(H)
  BY DEF OrderInv
<1>4. /\ H \in [0 .. n -> Seq(Byte)] /\ Among(Output \o projectorHeld, H[0])
      /\ \A i \in 1 .. n : Among(H[i - 1] \o decoded[i].frame, H[i])
      /\ Among(H[n], handled)
  BY <1>3 DEF Line
<1>5. n \in Nat /\ H[n] \in Seq(Byte)
  <2>1. n \in Nat
    BY <1>1, LenProperties
  <2> QED
    BY <1>4, <2>1
<1>6. Output' = Output
  BY <1>1 DEF Output
<1>7. \A i \in DOMAIN projected' : IsFrame(projected'[i].packet)
  BY <1>1 DEF OrderInv
<1>8. CASE decoded' = decoded
  <2>1. Among(H[n], handled')
    BY <1>1, <1>4, <1>5, AmongMore
  <2>2. Line(H)'
    BY <1>1, <1>4, <1>6, <1>8, <2>1 DEF Line
  <2> QED
    BY <1>7, <2>2 DEF OrderInv
<1>9. CASE \E x : decoded' = Append(decoded, [frame |-> frame, packet |-> x[1]]) /\ Len(x) = 1
                 /\ x \in Seq(Seq(Byte))
  <2>1. PICK m \in Message : decoded' = Append(decoded, m) /\ m.frame = frame
    <3>1. PICK x \in Seq(Seq(Byte)) :
            decoded' = Append(decoded, [frame |-> frame, packet |-> x[1]]) /\ Len(x) = 1
      BY <1>9
    <3>2. 1 \in 1 .. Len(x)
      BY <3>1
    <3>3. x[1] \in Seq(Byte)
      BY <3>2, ElementOfSeq
    <3>4. [frame |-> frame, packet |-> x[1]] \in Message
      BY <1>1, <3>3 DEF Message
    <3> QED
      BY <3>1, <3>4
  <2>2. /\ Len(decoded') = n + 1 /\ decoded'[n + 1] = m
        /\ \A i \in 1 .. n : decoded'[i] = decoded[i]
    BY <1>1, <2>1, AppendProperties
  <2> HIDE DEF n
  <2>3. PICK G : /\ G \in [0 .. n + 1 -> Seq(Byte)] /\ G[n + 1] = H[n] \o frame
                 /\ \A i \in 0 .. n : G[i] = H[i]
    <3> DEFINE y == H[n] \o frame
               F == [i \in 0 .. n + 1 |-> IF i = n + 1 THEN y ELSE H[i]]
    <3>1. y \in Seq(Byte)
      BY <1>1, <1>5, ConcatProperties
    <3> HIDE DEF y
    <3>2. /\ F \in [0 .. n + 1 -> Seq(Byte)] /\ F[n + 1] = y /\ \A i \in 0 .. n : F[i] = H[i]
      BY <1>4, <1>5, <3>1
    <3> QED
      BY <3>2 DEF y
  <2>4. Among(G[n + 1], handled')
    BY <1>1, <1>4, <1>5, <2>3, AmongItself, AmongConcat
  <2>5. ASSUME NEW i \in 1 .. n + 1
        PROVE  Among(G[i - 1] \o decoded'[i].frame, G[i])
    <3>1. CASE i \in 1 .. n
      <4>1. i - 1 \in 0 .. n /\ i \in 0 .. n
        BY <1>5, <3>1
      <4>2. G[i - 1] = H[i - 1] /\ G[i] = H[i] /\ decoded'[i] = decoded[i]
        BY <2>2, <2>3, <3>1, <4>1
      <4> QED
        BY <1>4, <3>1, <4>2
    <3>2. CASE i = n + 1
      <4>1. i - 1 = n /\ n \in 0 .. n
        BY <1>5, <3>2
      <4>2. G[i - 1] = H[n] /\ G[i] = H[n] \o frame /\ decoded'[i].frame = frame
        BY <2>1, <2>2, <2>3, <3>2, <4>1
      <4>3. H[n] \o frame \in Seq(Byte)
        BY <1>1, <1>5, ConcatProperties
      <4> QED
        BY <4>2, <4>3, AmongItself
    <3> QED
      BY <1>5, <3>1, <3>2
  <2>6. Among(Output' \o projectorHeld', G[0])
    <3>1. 0 \in 0 .. n
      BY <1>5
    <3> QED
      BY <1>1, <1>4, <1>6, <2>3, <3>1
  <2>7. Line(G)'
    BY <2>2, <2>3, <2>4, <2>5, <2>6 DEF Line
  <2> QED
    BY <1>7, <2>7 DEF OrderInv
<1> QED
  BY <1>2, <1>8, <1>9

\* The line moves up by one message when what comes out of it is among what went in.
LEMMA LineMovesUp ==
  ASSUME LaneTypeOK, NEW H, Line(H), decoded # << >>, decoded' = Tail(decoded), handled' = handled,
         Among(Output' \o projectorHeld', H[1])
  PROVE  \E G : Line(G)'
<1> DEFINE n == Len(decoded)
<1>1. /\ n \in Nat \ {0} /\ Len(decoded') = n - 1
      /\ \A i \in 1 .. n - 1 : decoded'[i] = decoded[i + 1]
  <2>1. decoded \in Seq(Message)
    BY DEF LaneTypeOK
  <2>2. Len(decoded') = n - 1 /\ \A i \in 1 .. Len(decoded') : decoded'[i] = decoded[i + 1]
    BY <2>1, HeadTailProperties
  <2> QED
    BY <2>1, <2>2, EmptySeq
<1>2. /\ H \in [0 .. n -> Seq(Byte)]
      /\ \A i \in 1 .. n : Among(H[i - 1] \o decoded[i].frame, H[i])
      /\ Among(H[n], handled)
  BY DEF Line
<1> HIDE DEF n
<1>3. PICK G : /\ G \in [0 .. n - 1 -> Seq(Byte)]
               /\ \A i \in 0 .. n - 1 : G[i] = H[i + 1]
  <2> DEFINE F == [i \in 0 .. n - 1 |-> H[i + 1]]
  <2>1. \A i \in 0 .. n - 1 : i + 1 \in 0 .. n
    BY <1>1
  <2>2. /\ F \in [0 .. n - 1 -> Seq(Byte)]
        /\ \A i \in 0 .. n - 1 : F[i] = H[i + 1]
    BY <1>2, <2>1
  <2> QED
    BY <2>2
<1>4. G[0] = H[1] /\ G[n - 1] = H[n]
  <2>1. 0 \in 0 .. n - 1 /\ n - 1 \in 0 .. n - 1 /\ 0 + 1 = 1 /\ n - 1 + 1 = n
    BY <1>1
  <2> QED
    BY <1>3, <2>1
<1>5. ASSUME NEW i \in 1 .. n - 1
      PROVE  Among(G[i - 1] \o decoded'[i].frame, G[i])
  <2>1. PICK j \in 1 .. n : j = i + 1 /\ j - 1 = i /\ i - 1 \in 0 .. n - 1 /\ i \in 0 .. n - 1
                           /\ i - 1 + 1 = i
    BY <1>1
  <2>2. G[i - 1] = H[j - 1] /\ G[i] = H[j] /\ decoded'[i] = decoded[j]
    BY <1>1, <1>3, <2>1
  <2> QED
    BY <1>2, <2>2
<1>6. Line(G)'
  BY <1>1, <1>2, <1>3, <1>4, <1>5 DEF Line
<1> QED
  BY <1>6

\* The first message and what is before it are among what is behind it.
LEMMA LineBegins ==
  ASSUME LaneTypeOK, NEW H, Line(H), decoded # << >>
  PROVE  /\ Output \o projectorHeld \in Seq(Byte) /\ Head(decoded) \in Message
         /\ H[0] \in Seq(Byte) /\ H[1] \in Seq(Byte)
         /\ Among((Output \o projectorHeld) \o Head(decoded).frame, H[1])
<1> DEFINE m == Head(decoded)
<1>1. decoded \in Seq(Message) /\ m \in Message /\ m = decoded[1] /\ Len(decoded) \in Nat \ {0}
  <2>1. decoded \in Seq(Message)
    BY DEF LaneTypeOK
  <2> QED
    BY <2>1, HeadTailProperties, EmptySeq
<1>2. PICK n \in Nat \ {0} : n = Len(decoded)
  BY <1>1
<1>3. /\ H \in [0 .. n -> Seq(Byte)] /\ Among(Output \o projectorHeld, H[0])
      /\ \A i \in 1 .. n : Among(H[i - 1] \o decoded[i].frame, H[i])
  BY <1>2 DEF Line
<1>4. 0 \in 0 .. n /\ 1 \in 0 .. n /\ 1 \in 1 .. n /\ 1 - 1 = 0
  BY <1>2
<1>5. H[0] \in Seq(Byte) /\ H[1] \in Seq(Byte) /\ Among(H[0] \o m.frame, H[1])
  BY <1>1, <1>3, <1>4
<1>6. Output \o projectorHeld \in Seq(Byte) /\ m.frame \in Seq(Byte)
  BY <1>1, OutputType, ConcatProperties DEF LaneTypeOK, Message
<1> HIDE DEF m
<1>7. PICK x \in Seq(Byte), f \in Seq(Byte), h \in Seq(Byte) :
        x = Output \o projectorHeld /\ f = m.frame /\ h = H[0] /\ Among(x, h)
  BY <1>3, <1>5, <1>6
<1>8. Among(x \o f, h \o f) /\ x \o f \in Seq(Byte) /\ h \o f \in Seq(Byte)
  BY <1>7, AmongItself, AmongConcat, ConcatProperties
<1>9. Among(x \o f, H[1])
  BY <1>5, <1>7, <1>8, AmongAmong
<1> QED
  BY <1>1, <1>5, <1>6, <1>7, <1>9 DEF m

LEMMA ProjectOrder ==
  ASSUME LaneTypeOK, OrderInv, Project
  PROVE  OrderInv'
<1> DEFINE m == Head(decoded)
           b == projectorHeld \o m.frame
           q == Parsed[b]
           one == Len(q.frames) = 1
           entry == [packet |-> q.frames[1], message |-> m]
<1>1. PICK H : Line(H)
  BY DEF OrderInv
<1>2. /\ decoded # << >> /\ decoded' = Tail(decoded) /\ handled' = handled
      /\ projectorHeld' = << >> \/ projectorHeld' = q.rest
      /\ projected' = IF one THEN Append(projected, entry) ELSE projected
  BY DEF Project, Handle, Parse
<1>3. /\ m \in Message /\ m.frame \in Seq(Byte) /\ projectorHeld \in Seq(Byte) /\ Output \in Seq(Byte)
      /\ H[1] \in Seq(Byte) /\ Among((Output \o projectorHeld) \o m.frame, H[1])
  <2>1. m \in Message
    BY <1>1, <1>2, LineBegins
  <2>2. H[1] \in Seq(Byte) /\ Among((Output \o projectorHeld) \o m.frame, H[1])
    BY <1>1, <1>2, LineBegins
  <2> QED
    BY <2>1, <2>2, OutputType DEF Message, LaneTypeOK
<1> HIDE DEF m
<1>4. b \in Seq(Byte) /\ Among(Output \o b, H[1]) /\ Output \o b \in Seq(Byte)
  <2>1. PICK x \in Seq(Byte), y \in Seq(Byte), z \in Seq(Byte) :
          x = Output /\ y = projectorHeld /\ z = m.frame
    BY <1>3
  <2>2. (x \o y) \o z = x \o (y \o z)
    BY ConcatAssociative
  <2>3. y \o z \in Seq(Byte)
    BY ConcatProperties
  <2>4. x \o (y \o z) \in Seq(Byte)
    BY <2>3, ConcatProperties
  <2> QED
    BY <1>3, <2>1, <2>2, <2>3, <2>4
<1> HIDE DEF b
<1>5. q.frames \in Seq(Seq(Byte)) /\ q.rest \in Seq(Byte) /\ Among(q.rest, b)
  BY <1>4, ParsedType, ParsedAmong DEF Outcomes
<1>6. projectorHeld' \in Seq(Byte) /\ Among(projectorHeld', q.rest)
  BY <1>2, <1>5, EmptySeq, NoneAmong, AmongItself
<1>7. ASSUME NEW x \in Seq(Byte), Among(x, b)
      PROVE  Among(Output \o x, H[1])
  <2>1. Among(Output \o x, Output \o b) /\ Output \o x \in Seq(Byte)
    BY <1>3, <1>4, <1>7, AmongItself, AmongConcat, ConcatProperties
  <2> QED
    BY <1>3, <1>4, <2>1, AmongAmong
<1>8. CASE one
  <2>1. PICK f \in Seq(Byte) : q.frames = <<f>> /\ f = q.frames[1] /\ IsFrame(f)
    <3>1. PICK s \in Seq(Seq(Byte)) : s = q.frames
      BY <1>5
    <3>2. Len(s) = 1
      BY <1>8, <3>1
    <3>3. 1 \in 1 .. Len(s)
      BY <3>2
    <3>4. s[1] \in Seq(Byte)
      BY <3>3, ElementOfSeq
    <3>5. <<s[1]>> \in Seq(Seq(Byte)) /\ Len(<<s[1]>>) = 1 /\ \A i \in 1 .. Len(s) : s[i] = <<s[1]>>[i]
      BY <3>2, <3>4
    <3>6. s = <<s[1]>>
      BY <3>2, <3>5, SeqEqual
    <3>7. IsFrame(s[1])
      <4>1. PICK i \in 1 .. Len(s) : i = 1
        BY <3>3
      <4>2. IsFrame(Parsed[b].frames[i])
        BY <1>4, <3>1, FoundAreFrames
      <4> QED
        BY <3>1, <4>1, <4>2
    <3> QED
      BY <3>1, <3>4, <3>6, <3>7
  <2>2. entry \in [packet : Seq(Byte), message : Message] /\ entry.packet = f
    BY <1>3, <2>1
  <2>3. projected' = Append(projected, entry)
    BY <1>2, <1>8
  <2> HIDE DEF entry
  <2>4. Output' = Output \o f
    BY <2>2, <2>3, OutputAppend
  <2>5. \A i \in DOMAIN projected' : IsFrame(projected'[i].packet)
    <3>1. /\ projected \in Seq([packet : Seq(Byte), message : Message]) /\ Len(projected) \in Nat
          /\ DOMAIN projected = 1 .. Len(projected)
      BY LenProperties DEF LaneTypeOK
    <3>2. /\ projected' \in Seq([packet : Seq(Byte), message : Message])
          /\ DOMAIN projected' = 1 .. Len(projected) + 1
          /\ \A i \in 1 .. Len(projected) : projected'[i] = projected[i]
          /\ projected'[Len(projected) + 1] = entry
      BY <2>2, <2>3, <3>1, AppendProperties, LenProperties
    <3> SUFFICES ASSUME NEW i \in 1 .. Len(projected) + 1
                 PROVE  IsFrame(projected'[i].packet)
      BY <3>2
    <3>3. CASE i \in 1 .. Len(projected)
      BY <3>1, <3>2, <3>3 DEF OrderInv
    <3>4. CASE i = Len(projected) + 1
      BY <2>1, <2>2, <3>2, <3>4
    <3> QED
      BY <3>1, <3>3, <3>4
  <2>6. Among(f \o q.rest, b) /\ f \o q.rest \in Seq(Byte)
    BY <1>4, <1>5, <2>1, ParsedAmong, ConcatProperties
  <2>7. Among(f \o projectorHeld', b) /\ f \o projectorHeld' \in Seq(Byte)
    <3>1. PICK v \in Seq(Byte), w \in Seq(Byte) :
            v = projectorHeld' /\ w = q.rest /\ Among(v, w) /\ Among(f \o w, b)
      BY <1>5, <1>6, <2>6
    <3>2. Among(f \o v, f \o w) /\ f \o v \in Seq(Byte) /\ f \o w \in Seq(Byte)
      BY <3>1, AmongItself, AmongConcat, ConcatProperties
    <3>3. Among(f \o v, b)
      BY <1>4, <3>1, <3>2, AmongAmong
    <3> QED
      BY <3>1, <3>2, <3>3
  <2>8. Among(Output' \o projectorHeld', H[1])
    <3>1. PICK x \in Seq(Byte), z \in Seq(Byte) : x = Output /\ z = projectorHeld'
      BY <1>3, <1>6
    <3>2. (x \o f) \o z = x \o (f \o z)
      BY ConcatAssociative
    <3> QED
      BY <1>7, <2>4, <2>7, <3>1, <3>2
  <2>9. \E G : Line(G)'
    BY <1>1, <1>2, <2>8, LineMovesUp
  <2> QED
    BY <2>5, <2>9 DEF OrderInv
<1>9. CASE ~one
  <2>1. projected' = projected
    BY <1>2, <1>9
  <2>2. Output' = Output
    BY <2>1 DEF Output
  <2>3. Among(projectorHeld', b)
    BY <1>4, <1>5, <1>6, AmongAmong
  <2>4. Among(Output' \o projectorHeld', H[1])
    BY <1>6, <1>7, <2>2, <2>3
  <2>5. \E G : Line(G)'
    BY <1>1, <1>2, <2>4, LineMovesUp
  <2> QED
    BY <2>1, <2>5 DEF OrderInv
<1> QED
  BY <1>8, <1>9

LEMMA LoseOrder ==
  ASSUME LaneTypeOK, OrderInv, LoseDecoded
  PROVE  OrderInv'
<1>1. PICK H : Line(H)
  BY DEF OrderInv
<1>2. /\ decoded # << >> /\ decoded' = Tail(decoded) /\ handled' = handled
      /\ projectorHeld' = projectorHeld /\ projected' = projected
  BY DEF LoseDecoded
<1>3. Output' = Output
  BY <1>2 DEF Output
<1>4. Among(Output \o projectorHeld, H[1])
  <2>1. PICK x \in Seq(Byte), f \in Seq(Byte), h \in Seq(Byte) :
          x = Output \o projectorHeld /\ f = Head(decoded).frame /\ h = H[1] /\ Among(x \o f, h)
    <3>1. Head(decoded) \in Message /\ Output \o projectorHeld \in Seq(Byte) /\ H[1] \in Seq(Byte)
      BY <1>1, <1>2, LineBegins
    <3>2. Among((Output \o projectorHeld) \o Head(decoded).frame, H[1])
      BY <1>1, <1>2, LineBegins
    <3>3. Head(decoded).frame \in Seq(Byte)
      BY <3>1 DEF Message
    <3> QED
      BY <3>1, <3>2, <3>3
  <2>2. Among(x, x \o f) /\ x \o f \in Seq(Byte)
    BY AmongItself, AmongMore, ConcatProperties
  <2>3. Among(x, h)
    BY <2>1, <2>2, AmongAmong
  <2> QED
    BY <2>1, <2>3
<1>5. \E G : Line(G)'
  BY <1>1, <1>2, <1>3, <1>4, LineMovesUp
<1> QED
  BY <1>2, <1>5 DEF OrderInv

\* Whatever is corrupted, cut or lost on the way, every packet projected is a frame
\* with its own checksum, and the bytes of all packets projected are in this order
\* among the bytes that the decoder has read.
THEOREM PacketsOnceInOrder == LaneSpec => []ProjectedOnceInOrder
<1>1. LaneInit => OrderInv
  <2> SUFFICES ASSUME LaneInit PROVE OrderInv
    OBVIOUS
  <2>1. /\ decoded = << >> /\ projectorHeld = << >> /\ handled = << >> /\ projected = << >>
        /\ << >> \in Seq(Byte) /\ Len(<< >>) = 0
    BY EmptySeq DEF LaneInit
  <2>2. Output = << >>
    <3>1. [i \in DOMAIN projected |-> projected[i].packet] = << >>
      BY <2>1
    <3> QED
      BY <2>1, <3>1 DEF Output, FlattenSeq
  <2>3. PICK e \in Seq(Byte) : e = << >> /\ Among(e, e) /\ e \o e = e
    BY <2>1, AmongItself, ConcatEmptySeq
  <2>4. PICK H : H = [i \in 0 .. 0 |-> e]
    OBVIOUS
  <2>5. H \in [0 .. 0 -> Seq(Byte)] /\ H[0] = e
    BY <2>4
  <2>6. Line(H)
    BY <2>1, <2>2, <2>3, <2>5 DEF Line
  <2> QED
    BY <2>1, <2>6 DEF OrderInv
<1>2. LaneTypeOK /\ OrderInv /\ [LaneNext]_laneVars => OrderInv'
  <2> SUFFICES ASSUME LaneTypeOK, OrderInv, [LaneNext]_laneVars PROVE OrderInv'
    OBVIOUS
  <2>1. CASE Decode
    BY <2>1, DecodeOrder
  <2>2. CASE Project
    BY <2>2, ProjectOrder
  <2>3. CASE LoseDecoded
    BY <2>3, LoseOrder
  <2>4. CASE (\E d \in Datagrams : Receive(d)) \/ LoseRaw \/ UNCHANGED laneVars
    <3>1. UNCHANGED <<decoded, projectorHeld, handled, projected>>
      BY <2>4 DEF Receive, LoseRaw, laneVars
    <3> QED
      BY <3>1 DEF OrderInv, Line, Output
  <2> QED
    BY <2>1, <2>2, <2>3, <2>4 DEF LaneNext
<1>3. LaneTypeOK /\ OrderInv => ProjectedOnceInOrder
  <2> SUFFICES ASSUME LaneTypeOK, OrderInv
               PROVE  Places(handled, Output)[Len(Output)] <= Len(handled)
    BY DEF OrderInv, ProjectedOnceInOrder
  <2>1. PICK H : Line(H)
    BY DEF OrderInv
  <2>2. /\ H \in [0 .. Len(decoded) -> Seq(Byte)] /\ handled \in Seq(Byte) /\ decoded \in Seq(Message)
        /\ projectorHeld \in Seq(Byte) /\ Output \in Seq(Byte)
    BY <2>1, OutputType DEF Line, LaneTypeOK
  <2>3. PICK n \in Nat : n = Len(decoded)
    BY <2>2, LenProperties
  <2>4. \A k \in 0 .. n : Among(Output, H[k])
    <3> DEFINE T == {k \in 0 .. n : ~Among(Output, H[k])}
    <3> SUFFICES ASSUME T # {} PROVE FALSE
      OBVIOUS
    <3>1. T \subseteq Nat
      OBVIOUS
    <3>2. Min(T) \in T /\ \A j \in T : Min(T) <= j
      BY <3>1, MinExists
    <3>3. PICK k \in 0 .. n : ~Among(Output, H[k]) /\ \A j \in T : k <= j
      BY <3>2
    <3>4. H[k] \in Seq(Byte)
      BY <2>2, <2>3
    <3>5. CASE k = 0
      <4>1. Among(Output \o projectorHeld, H[k]) /\ Output \o projectorHeld \in Seq(Byte)
        BY <2>1, <2>2, <3>5, ConcatProperties DEF Line
      <4>2. Among(Output, Output \o projectorHeld)
        BY <2>2, AmongItself, AmongMore
      <4> QED
        BY <2>2, <3>3, <3>4, <4>1, <4>2, AmongAmong
    <3>6. CASE k # 0
      <4>1. k \in 1 .. n /\ k - 1 \in 0 .. n /\ ~(k <= k - 1)
        BY <3>6
      <4>2. Among(Output, H[k - 1]) /\ H[k - 1] \in Seq(Byte)
        BY <2>2, <2>3, <3>3, <4>1
      <4>3. decoded[k].frame \in Seq(Byte)
        <5>1. decoded[k] \in Message
          BY <2>2, <2>3, <4>1, ElementOfSeq
        <5> QED
          BY <5>1 DEF Message
      <4>4. Among(H[k - 1] \o decoded[k].frame, H[k])
        BY <2>1, <2>3, <4>1 DEF Line
      <4>5. PICK x \in Seq(Byte), f \in Seq(Byte) :
              x = H[k - 1] /\ f = decoded[k].frame /\ Among(Output, x) /\ Among(x \o f, H[k])
        BY <4>2, <4>3, <4>4
      <4>6. Among(Output, x \o f) /\ x \o f \in Seq(Byte)
        BY <2>2, <4>5, AmongMore, ConcatProperties
      <4> QED
        BY <2>2, <3>3, <3>4, <4>5, <4>6, AmongAmong
    <3> QED
      BY <3>5, <3>6
  <2>5. n \in 0 .. n
    BY <2>3
  <2>6. Among(Output, H[n]) /\ Among(H[n], handled) /\ H[n] \in Seq(Byte)
    BY <2>1, <2>2, <2>3, <2>4, <2>5 DEF Line
  <2>7. Among(Output, handled)
    BY <2>2, <2>6, AmongAmong
  <2> QED
    BY <2>2, <2>7, AmongIsFound
<1> QED
  BY <1>1, <1>2, <1>3, LaneTypes, PTL DEF LaneSpec
=============================================================================
