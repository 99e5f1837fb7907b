----------------------------- MODULE FeedPoller -----------------------------
(***************************************************************************)
(* The HTTP pollers of CAP and ADS-B (internal/components/{cap,adsb},      *)
(* HTTPPollerComponent): on every tick the loop asks the provider for what *)
(* changed since the validator it keeps, publishes a full answer on the    *)
(* bus and only then keeps the answer's validator.  Without validators,    *)
(* and in the SAPIENT input, which sends none, every answer is published.  *)
(*                                                                         *)
(* Start and Stop may be called again and again, and the caller's context  *)
(* may end.  A Stop whose timeout ends before the loop does leaves the     *)
(* loop behind: the next Stop reports success without looking at it, and   *)
(* the next Start runs another beside it, on the same configuration.       *)
(***************************************************************************)
EXTENDS Integers, FiniteSets

CONSTANTS
  MaxVersion,  \* bound: how often the provider's content changes
  MaxStarts    \* bound: how often the component is started

ASSUME PollerAssumption == MaxVersion \in Nat \ {0} /\ MaxStarts \in Nat \ {0}

Loops == 1 .. MaxStarts
Versions == 1 .. MaxVersion
NoTag == 0
Most == MaxStarts + 1

VARIABLES
  version,     \* the provider's content; its validator, if any, changes with it
  tagged,      \* the provider's answers have validators
  state,       \* the component's lifecycle state
  current,     \* the last started loop, to which cancel and done belong
  loop,        \* loop[l]: where the goroutine of loop l is
  cancelled,   \* cancelled[l]: its context has ended
  sentTag,     \* sentTag[l]: the validator of its request
  body,        \* body[l]: the content of its last full answer
  etag,        \* the validator the component keeps
  published,   \* published[v]: raw messages of content v, counted up to Most
  signal,      \* signal[l]: the buffered done channel of loop l holds its value
  waiting,     \* the loop whose done channel Stop waits for, 0 for none
  quiet,       \* the last Stop reported success and no Start followed
  abandoned,   \* history: loops whose Stop reported a timeout
  overlaps     \* history: how often a loop was started beside one still running

provider == <<version, tagged>>
loops == <<loop, cancelled, sentTag, body>>
calls == <<state, current, waiting, quiet, abandoned, overlaps>>
vars == <<provider, loops, calls, etag, published, signal>>

Alive == {l \in Loops : loop[l] \notin {"none", "ended"}}

Init ==
  /\ version = 1
  /\ tagged \in BOOLEAN
  /\ state = "created"
  /\ current = 0
  /\ loop = [l \in Loops |-> "none"]
  /\ cancelled = [l \in Loops |-> FALSE]
  /\ sentTag = [l \in Loops |-> NoTag]
  /\ body = [l \in Loops |-> 0]
  /\ etag = NoTag
  /\ published = [v \in Versions |-> 0]
  /\ signal = [l \in Loops |-> FALSE]
  /\ waiting = 0
  /\ quiet = FALSE
  /\ abandoned = {}
  /\ overlaps = 0

\* The provider (external) has new content.
Change ==
  /\ version < MaxVersion
  /\ version' = version + 1
  /\ UNCHANGED <<tagged, loops, calls, etag, published, signal>>

-----------------------------------------------------------------------------
(* The lifecycle calls, one at a time.                                     *)

Start ==
  /\ state # "started"
  /\ waiting = 0
  /\ current < MaxStarts
  /\ state' = "started"
  /\ current' = current + 1
  /\ loop' = [loop EXCEPT ![current + 1] = "wait"]
  /\ overlaps' = IF Alive = {} THEN overlaps ELSE overlaps + 1
  /\ quiet' = FALSE
  /\ UNCHANGED <<provider, cancelled, sentTag, body, etag, published, signal, waiting, abandoned>>

\* The context that was given to Start ends, as Close does before it stops anything.
CancelContext ==
  /\ state = "started"
  /\ cancelled' = [cancelled EXCEPT ![current] = TRUE]
  /\ UNCHANGED <<provider, loop, sentTag, body, calls, etag, published, signal>>

Stop ==
  /\ state = "started"
  /\ state' = "stopped"
  /\ cancelled' = [cancelled EXCEPT ![current] = TRUE]
  /\ waiting' = current
  /\ UNCHANGED <<provider, current, loop, sentTag, body, etag, published, signal, quiet,
                 abandoned, overlaps>>

\* In any other state Stop reports success at once, whatever still runs.
StopNotStarted ==
  /\ state # "started" /\ waiting = 0
  /\ quiet' = TRUE
  /\ UNCHANGED <<provider, loops, state, current, waiting, etag, published, signal,
                 abandoned, overlaps>>

\* Fault: Stop does not wait for the loop.
StopReturnsAtOnce ==
  /\ waiting # 0
  /\ waiting' = 0
  /\ quiet' = TRUE
  /\ UNCHANGED <<provider, loops, state, current, etag, published, signal, abandoned, overlaps>>

StopReturns ==
  /\ waiting # 0
  /\ signal[waiting]
  /\ signal' = [signal EXCEPT ![waiting] = FALSE]
  /\ waiting' = 0
  /\ quiet' = TRUE
  /\ UNCHANGED <<provider, loops, state, current, etag, published, abandoned, overlaps>>

StopTimesOut ==
  /\ waiting # 0
  /\ waiting' = 0
  /\ abandoned' = abandoned \cup {waiting}
  /\ UNCHANGED <<provider, loops, state, current, etag, published, signal, quiet, overlaps>>

-----------------------------------------------------------------------------
(* A loop.  Everything outside of its own fields is shared with the others. *)

AtLoop(l, from, to) == loop[l] = from /\ loop' = [loop EXCEPT ![l] = to]

\* What an answer with content v brings as its validator.
Validator(v) == IF tagged THEN v ELSE NoTag

\* A tick: PollOnce reads the validator it will send.
Ask(l) ==
  /\ AtLoop(l, "wait", "asked")
  /\ sentTag' = [sentTag EXCEPT ![l] = etag]
  /\ UNCHANGED <<provider, cancelled, body, calls, etag, published, signal>>

\* 304 Not Modified: contact without new data.
NotModified(l) ==
  /\ tagged
  /\ sentTag[l] = version
  /\ ~cancelled[l]
  /\ AtLoop(l, "asked", "wait")
  /\ UNCHANGED <<provider, cancelled, sentTag, body, calls, etag, published, signal>>

\* Fault: the validator is kept as soon as the answer is there.
FullTagged(l) ==
  /\ ~tagged \/ sentTag[l] # version
  /\ ~cancelled[l]
  /\ AtLoop(l, "asked", "answered")
  /\ body' = [body EXCEPT ![l] = version]
  /\ etag' = Validator(version)
  /\ UNCHANGED <<provider, cancelled, sentTag, calls, published, signal>>

\* A full answer, within the limits of readLimited and Validate.
Full(l) ==
  /\ ~tagged \/ sentTag[l] # version
  /\ ~cancelled[l]
  /\ AtLoop(l, "asked", "answered")
  /\ body' = [body EXCEPT ![l] = version]
  /\ UNCHANGED <<provider, cancelled, sentTag, calls, etag, published, signal>>

Answer(l) == NotModified(l) \/ Full(l)

\* The request fails, or its answer has another status or an unusable body.
AskFails(l) ==
  /\ AtLoop(l, "asked", "wait")
  /\ UNCHANGED <<provider, cancelled, sentTag, body, calls, etag, published, signal>>

\* The bus takes the raw message; its context does not stop it any more.
Publish(l) ==
  /\ AtLoop(l, "answered", "published")
  /\ published' = [published EXCEPT ![body[l]] = IF @ = Most THEN Most ELSE @ + 1]
  /\ UNCHANGED <<provider, cancelled, sentTag, body, calls, etag, signal>>

PublishFails(l) ==
  /\ AtLoop(l, "answered", "wait")
  /\ UNCHANGED <<provider, cancelled, sentTag, body, calls, etag, published, signal>>

\* Fault: the validator that was sent is kept instead of the new one.
KeepSent(l) ==
  /\ AtLoop(l, "published", "wait")
  /\ etag' = sentTag[l]
  /\ UNCHANGED <<provider, cancelled, sentTag, body, calls, published, signal>>

\* Only now is the answer's validator kept, if it has one.
Keep(l) ==
  /\ AtLoop(l, "published", "wait")
  /\ etag' = Validator(body[l])
  /\ UNCHANGED <<provider, cancelled, sentTag, body, calls, published, signal>>

\* The goroutine sends the loop's result into c.done.  The field is read without
\* the lock at any time of the goroutine's life, so it may be the channel of a later
\* start; a full channel blocks the goroutine.
End(l) ==
  /\ cancelled[l]
  /\ AtLoop(l, "wait", "ended")
  /\ \E c \in l .. current :
       ~signal[c] /\ signal' = [signal EXCEPT ![c] = TRUE]
  /\ UNCHANGED <<provider, cancelled, sentTag, body, calls, etag, published>>

-----------------------------------------------------------------------------
LoopStep(l) ==
  \/ Ask(l) \/ Answer(l) \/ AskFails(l) \/ Publish(l) \/ PublishFails(l) \/ Keep(l) \/ End(l)

Next ==
  \/ Change \/ Start \/ CancelContext
  \/ Stop \/ StopNotStarted \/ StopReturns \/ StopTimesOut
  \/ \E l \in Loops : LoopStep(l)

\* The ticker fires and the goroutine runs.  The environment may fail for a while
\* but not for ever: a request asked again and again is once answered, a message
\* published again and again is once taken.
Fairness ==
  \A l \in Loops :
    WF_vars(Ask(l)) /\ WF_vars(Keep(l)) /\ SF_vars(Answer(l)) /\ SF_vars(Publish(l))

Spec == Init /\ [][Next]_vars
FairSpec == Spec /\ Fairness

-----------------------------------------------------------------------------
TypeOK ==
  /\ version \in Versions
  /\ tagged \in BOOLEAN
  /\ state \in {"created", "started", "stopped"}
  /\ current \in 0 .. MaxStarts
  /\ state = "started" => current # 0
  /\ loop \in [Loops -> {"none", "wait", "asked", "answered", "published", "ended"}]
  /\ cancelled \in [Loops -> BOOLEAN]
  /\ sentTag \in [Loops -> 0 .. MaxVersion]
  /\ body \in [Loops -> 0 .. MaxVersion]
  /\ \A l \in Loops : loop[l] \in {"answered", "published"} => body[l] # 0
  /\ etag \in 0 .. MaxVersion
  /\ published \in [Versions -> 0 .. Most]
  /\ signal \in [Loops -> BOOLEAN]
  /\ waiting \in 0 .. MaxStarts
  /\ quiet \in BOOLEAN /\ abandoned \subseteq Loops /\ overlaps \in Nat

\* Whatever validator is kept or under way, its content was published: a 304 never
\* stands for content that was not, also after failed polls and with two loops.
TagsArePublished ==
  \A v \in Versions :
    v = etag \/ (\E l \in Alive : v = sentTag[l]) => published[v] > 0

\* The documents' "304 without duplicate publish": with validators, a content is
\* published once, over failures and restarts, and once more at most for each Start
\* beside a loop that still ran (a poll that began before such a Start may publish, or
\* put back an older validator, behind the new loop's back).
PublishedOnce == tagged => \A v \in Versions : published[v] <= 1 + overlaps

\* A Stop that reports success leaves no poll loop behind unknown to the caller: no more
\* loops are alive than Stops have reported that they gave up on one, none if none has,
\* also when a loop answers for another one or nothing was started; and they
\* are the same loops unless a Start came over one of them.
StopIsQuiet ==
  quiet => /\ Cardinality(Alive) <= Cardinality(abandoned)
           /\ overlaps = 0 => Alive \subseteq abandoned

\* Content that stays is published at last, over failed requests and failed
\* publishes, as long as the poller is left running.
ContentArrives ==
  <>[](state = "started" /\ ~cancelled[current]) => <>[](published[version] > 0)

-----------------------------------------------------------------------------
(* The inductive invariant of FeedPollerProofs.                            *)

\* Loops are started in turn, and a later one only when the ones before are cancelled;
\* unless two overlapped only the last can be alive, and a done channel holds the value
\* of its own loop.
LoopOrder ==
  /\ \A l \in Loops : l > current => loop[l] = "none"
  /\ \A l \in Loops : l < current \/ (l = current /\ state # "started") => cancelled[l]
  /\ waiting # 0 => waiting = current /\ state = "stopped"
  /\ quiet => waiting = 0 /\ state # "started"
  /\ overlaps = 0 => /\ Alive \subseteq {current}
                     /\ \A l \in Loops : signal[l] => loop[l] = "ended"
                     /\ state = "started" \/ waiting # 0 \/ Alive \subseteq abandoned

\* The Stops whose outcome is known: of all loops but one, if it is started or waited for.
Busy == IF state = "started" \/ waiting # 0 THEN 1 ELSE 0

\* Values that no Stop has taken yet.
Signalled == {l \in Loops : signal[l]}

\* Each Stop that waited and reported success took the value of a loop that had ended.
LoopsAccounted ==
  /\ \A l \in abandoned : l <= current /\ (l = current => Busy = 0)
  /\ Cardinality(Alive) + Cardinality(Signalled) = Cardinality(abandoned) + Busy

\* Validators only ever stand for content that was published.
TagInv ==
  /\ etag = NoTag \/ published[etag] > 0
  /\ \A l \in Loops : /\ sentTag[l] = NoTag \/ published[sentTag[l]] > 0
                      /\ loop[l] = "published" => published[body[l]] > 0

\* Nothing that was seen is newer than the provider's content.
VersionOrder ==
  etag <= version /\ \A l \in Loops : body[l] <= version /\ sentTag[l] <= version

\* A poll of l that has its answer adds a message of content v: it publishes v itself, or
\* keeps the validator of something older, so that v is fetched again.
Owes(l, v) ==
  \/ loop[l] = "answered" /\ body[l] = v
  \/ loop[l] \in {"answered", "published"} /\ body[l] < v /\ version <= v

\* The last loop, or the next when that has ended, publishes v if nobody interferes.
Fetches(v) ==
  IF current # 0 /\ loop[current] \in {"answered", "published"} THEN Owes(current, v)
  ELSE version <= v /\ (etag < v \/ (current # 0 /\ loop[current] = "asked" /\ sentTag[current] < v))

\* The loops before the last that add a message of v.
Behind(v) == {l \in 1 .. current - 1 : Owes(l, v)}

\* What is published of v and what is still to come.
PublishesAccounted ==
  tagged => \A v \in Versions :
    published[v] + Cardinality(Behind(v)) + (IF Fetches(v) THEN 1 ELSE 0) <= 1 + overlaps

IInv ==
  /\ TypeOK /\ LoopOrder /\ LoopsAccounted /\ TagInv /\ VersionOrder
  /\ PublishesAccounted
=============================================================================
