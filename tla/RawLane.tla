------------------------------- MODULE RawLane -------------------------------
(***************************************************************************)
(* The bounded lane of raw feed records (pkg/adapters/*/raw_lane.go): every *)
(* captured frame gets the next reference and is appended; from the front   *)
(* records are evicted until the lane is within both of its limits.         *)
(*                                                                         *)
(* The lane's mutex is held from the append to the end of the eviction;    *)
(* Get and Snapshot copy out of an unlocked lane and change nothing.       *)
(***************************************************************************)
EXTENDS Integers, Sequences

CONSTANTS
  Frames,       \* lengths of the frames offered to the lane
  MaxRecords,   \* capacity in records, after NewRawLane's defaulting
  MaxBytes,     \* capacity in bytes, after NewRawLane's defaulting
  MaxCaptures   \* bound: captures per behaviour

ASSUME LaneAssumption ==
  /\ Frames \subseteq Nat
  /\ MaxRecords \in Nat \ {0}
  /\ MaxBytes \in Nat \ {0}
  /\ MaxCaptures \in Nat

VARIABLES
  next,        \* the sequence number of the newest reference
  totalBytes,  \* the lane's account of what it holds
  records,     \* the retained records, oldest first
  locked,      \* a Capture is between its append and its return
  upTo         \* history: upTo[n] is the length of the first n frames together

vars == <<next, totalBytes, records, locked, upTo>>

Init ==
  /\ next = 0
  /\ totalBytes = 0
  /\ records = << >>
  /\ locked = FALSE
  /\ upTo = [n \in 0 .. 0 |-> 0]

\* The record gets the next reference and is appended, under the lock.
Store(size) ==
  /\ next' = next + 1
  /\ records' = Append(records, [ref |-> next + 1, size |-> size])
  /\ totalBytes' = totalBytes + size
  /\ upTo' = [n \in 0 .. next + 1 |-> IF n <= next THEN upTo[n] ELSE upTo[next] + size]
  /\ locked' = TRUE

\* An empty frame, or one longer than the lane, is refused before the lock.
Capture(size) ==
  /\ ~locked
  /\ next < MaxCaptures
  /\ size # 0
  /\ size <= MaxBytes
  /\ Store(size)

\* Fault: a lane that is exactly full counts as overfull.
OverfullWhenFull == Len(records) >= MaxRecords \/ totalBytes > MaxBytes

Overfull == Len(records) > MaxRecords \/ totalBytes > MaxBytes

\* Fault: the newest record goes instead of the oldest.
EvictNewest ==
  /\ locked
  /\ Overfull
  /\ totalBytes' = totalBytes - records[Len(records)].size
  /\ records' = SubSeq(records, 1, Len(records) - 1)
  /\ UNCHANGED <<next, locked, upTo>>

\* One turn of evict's loop.
Evict ==
  /\ locked
  /\ Overfull
  /\ totalBytes' = totalBytes - records[1].size
  /\ records' = Tail(records)
  /\ UNCHANGED <<next, locked, upTo>>

Return ==
  /\ locked
  /\ ~Overfull
  /\ locked' = FALSE
  /\ UNCHANGED <<next, totalBytes, records, upTo>>

Next == (\E size \in Frames : Capture(size)) \/ Evict \/ Return

Spec == Init /\ [][Next]_vars

-----------------------------------------------------------------------------
Record == [ref : Nat \ {0}, size : Nat \ {0}]

TypeOK ==
  /\ next \in 0 .. MaxCaptures
  /\ totalBytes \in Int
  /\ records \in Seq(Record)
  /\ locked \in BOOLEAN
  /\ upTo \in [0 .. next -> Nat]

\* The number of the last frame that was evicted, or zero.
Evicted == next - Len(records)

\* The lane holds exactly the newest frames, oldest first: no reference is
\* skipped, repeated or out of order, and each has the length it came with.
Newest ==
  /\ Len(records) <= next
  /\ \A i \in 1 .. Len(records) :
       /\ records[i].ref = Evicted + i
       /\ records[i].size = upTo[Evicted + i] - upTo[Evicted + i - 1]

\* What Capture has just returned a reference to is in the lane when it
\* returns: eviction never reaches the new record, nor an empty lane.
NewestRetained ==
  next > 0 => /\ records # << >>
              /\ records[Len(records)].ref = next

\* Outside of Capture the lane is within both limits, in records and in the
\* bytes it really holds, whatever its account says.
WithinLimits ==
  ~locked => /\ Len(records) <= MaxRecords
             /\ upTo[next] - upTo[Evicted] <= MaxBytes

\* Nothing is evicted without need: whenever eviction went past frame n, the
\* frames from n to some later one exceeded a limit of the lane.
EvictedForNeed ==
  \A n \in 1 .. Evicted : \E m \in n .. next :
    m - n + 1 > MaxRecords \/ upTo[m] - upTo[n - 1] > MaxBytes

\* The account is the length of what is held.
Accounted == totalBytes = upTo[next] - upTo[Evicted]

\* Every captured frame fits in the lane by itself.
FrameFits ==
  \A n \in 1 .. next : upTo[n] - upTo[n - 1] \in 1 .. MaxBytes

\* The inductive invariant of FeedFlowProofs.
IInv ==
  /\ TypeOK /\ Newest /\ Accounted /\ FrameFits
  /\ NewestRetained /\ EvictedForNeed
  /\ ~locked => ~Overfull
=============================================================================
