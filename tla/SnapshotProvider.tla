-------------------------- MODULE SnapshotProvider --------------------------
(***************************************************************************)
(* GraphProvider.Snapshot (internal/api/cop/graph_provider.go): how the    *)
(* COP snapshot is put together from many separate reads of the governed   *)
(* graph while the projectors go on writing it.                            *)
(*                                                                         *)
(* Discovery reads one prefix after another, each page by page; families   *)
(* it finds nothing of are read by their configured identifiers; when      *)
(* nothing at all was read, the fixture is served if there is one.  Every  *)
(* read may fail, by an error answer or by its timeout.                    *)
(***************************************************************************)
EXTENDS Integers, Sequences, FiniteSets

CONSTANTS
  Targets,    \* the prefixes of discoveryTargets, in order: [family, ids]
  Seeds,      \* the configured identifiers, in order: [family, id]
  Modes,      \* how the provider may be set up: [discovery, fallback], whether prefix
              \* discovery is enabled and whether a fixture provider is configured
  Limit       \* entities taken from one prefix, after queryPrefix's defaulting

Values(seq) == {seq[i] : i \in DOMAIN seq}
Entities == UNION {Values(Targets[t].ids) : t \in DOMAIN Targets}
              \cup {Seeds[s].id : s \in DOMAIN Seeds}

ASSUME ProviderAssumption ==
  /\ Modes \subseteq [discovery : BOOLEAN, fallback : BOOLEAN]
  /\ Limit \in Nat \ {0}

\* The graph has one key for an entity, so that a prefix lists it once.
ASSUME ListAssumption ==
  /\ Targets \in Seq(Values(Targets)) /\ Seeds \in Seq(Values(Seeds))
  /\ \A t \in DOMAIN Targets :
       LET ids == Targets[t].ids
       IN /\ ids \in Seq(Values(ids))
          /\ \A i, j \in DOMAIN ids : ids[i] = ids[j] => i = j

VARIABLES
  mode,        \* how this provider is set up
  exists,      \* the graph: the entities born so far
  pc,          \* "idle", "prefixes", "seeds", "done"
  target,      \* the prefix being read
  cursor,      \* its continuation cursor, 0 for none
  remaining,   \* how many more entities are taken from it
  found,       \* the entities of its pages so far
  seed,        \* the configured identifier to read next
  discovered,  \* families of which discovery found an entity
  diagnostics, \* what discovery reports of each prefix
  failedSeeds, \* the identifiers whose read failed
  read,        \* the entities read: assetsByID, tracksByID, ... together
  result,      \* what the call returned
  atStart      \* history: the entities that existed when the call began

position == <<target, cursor, remaining, found>>
vars == <<mode, exists, pc, target, cursor, remaining, found, seed, discovered,
          diagnostics, failedSeeds, read, result, atStart>>

NotRead == [count |-> 0, atLimit |-> FALSE, error |-> FALSE]

Init ==
  /\ mode \in Modes
  /\ exists = {} /\ atStart = {}
  /\ pc = "idle"
  /\ target = 1 /\ cursor = 0 /\ remaining = Limit /\ found = {}
  /\ seed = 1
  /\ discovered = {}
  /\ diagnostics = [t \in DOMAIN Targets |-> NotRead]
  /\ failedSeeds = {}
  /\ read = {}
  /\ result = "none"

\* The graph (external): a projector gives birth to an entity at any time.
Birth(e) ==
  /\ e \notin exists
  /\ exists' = exists \cup {e}
  /\ UNCHANGED <<mode, pc, target, cursor, remaining, found, seed, discovered,
                 diagnostics, failedSeeds, read, result, atStart>>

\* A call starts with maps and diagnostics of its own.
Snapshot ==
  /\ pc \in {"idle", "done"}
  /\ pc' = IF mode.discovery /\ Len(Targets) > 0 THEN "prefixes" ELSE "seeds"
  /\ atStart' = exists
  /\ target' = 1 /\ cursor' = 0 /\ remaining' = Limit /\ found' = {}
  /\ seed' = 1
  /\ discovered' = {}
  /\ diagnostics' = [t \in DOMAIN Targets |-> NotRead]
  /\ failedSeeds' = {}
  /\ read' = {}
  /\ result' = "none"
  /\ UNCHANGED <<mode, exists>>

-----------------------------------------------------------------------------
(* discoverInto and queryPrefix.                                           *)

NextTarget ==
  /\ target' = target + 1
  /\ cursor' = 0
  /\ remaining' = Limit
  /\ found' = {}
  /\ pc' = IF target = Len(Targets) THEN "seeds" ELSE "prefixes"

\* Fault: a prefix that answered counts for its family, also with no entity.
FoundInAnswered(ids, truncated) ==
  /\ read' = read \cup ids
  /\ discovered' = discovered \cup {Targets[target].family}
  /\ diagnostics' = [diagnostics EXCEPT ![target] =
       [count |-> Cardinality(ids), atLimit |-> truncated, error |-> FALSE]]
  /\ NextTarget

\* queryPrefix returned the entities ids.
FoundIn(ids, truncated) ==
  /\ read' = read \cup ids
  /\ discovered' = IF ids = {} THEN discovered ELSE discovered \cup {Targets[target].family}
  /\ diagnostics' = [diagnostics EXCEPT ![target] =
       [count |-> Cardinality(ids), atLimit |-> truncated, error |-> FALSE]]
  /\ NextTarget

\* queryPrefix returned an error: what earlier pages brought is dropped.
Failed ==
  /\ diagnostics' = [diagnostics EXCEPT ![target].error = TRUE]
  /\ NextTarget
  /\ UNCHANGED <<discovered, read>>

\* Fault: what a page brought is not taken off the limit.
ContinueUncounted(page, next) ==
  /\ found' = found \cup page
  /\ cursor' = next
  /\ UNCHANGED <<pc, target, remaining, discovered, diagnostics, read>>

Continue(page, next) ==
  /\ found' = found \cup page
  /\ remaining' = remaining - Cardinality(page)
  /\ cursor' = next
  /\ UNCHANGED <<pc, target, discovered, diagnostics, read>>

\* The graph service (external) pages through the ids of a prefix in order.
Ids == Targets[target].ids
Pending == {i \in DOMAIN Ids : i > cursor /\ Ids[i] \in exists}
Firsts(n) == {i \in Pending : Cardinality({j \in Pending : j <= i}) <= n}
LastOf(n) == CHOOSE i \in Firsts(n) : \A j \in Firsts(n) : j <= i

\* With a page of n entities it returns no cursor only at the end; otherwise the
\* page's last position, or a useless one: the old cursor again, any cursor with
\* an empty page, a cursor at the very end.
NextCursors(n) ==
  (IF n = Cardinality(Pending) THEN {0} ELSE {})
    \cup (IF n = 0 THEN 1 .. Len(Ids) ELSE {LastOf(n), cursor} \ {0})

\* Fault: an overlong page is taken whole.
AfterPageUncapped(n, next) ==
  LET page == {Ids[i] : i \in Firsts(n)}
  IN \/ next = 0 /\ FoundIn(found \cup page, FALSE)
     \/ next # 0 /\ n >= remaining /\ FoundIn(found \cup page, TRUE)
     \/ next # 0 /\ n < remaining /\ (n = 0 \/ next = cursor) /\ Failed
     \/ next # 0 /\ n < remaining /\ n # 0 /\ next # cursor /\ Continue(page, next)

\* Fault: an empty page with a cursor is followed.
AfterPageTrusting(n, next) ==
  LET page == {Ids[i] : i \in Firsts(n)}
  IN \/ n > remaining /\ FoundIn(found \cup {Ids[i] : i \in Firsts(remaining)}, TRUE)
     \/ n <= remaining /\ next = 0 /\ FoundIn(found \cup page, FALSE)
     \/ n = remaining /\ next # 0 /\ FoundIn(found \cup page, TRUE)
     \/ n < remaining /\ next # 0 /\ next = cursor /\ Failed
     \/ n < remaining /\ next # 0 /\ next # cursor /\ Continue(page, next)

\* Fault: a full prefix is taken for an exhausted one.
AfterPageUntold(n, next) ==
  LET page == {Ids[i] : i \in Firsts(n)}
  IN \/ n > remaining /\ FoundIn(found \cup {Ids[i] : i \in Firsts(remaining)}, TRUE)
     \/ n <= remaining /\ (next = 0 \/ n = remaining) /\ FoundIn(found \cup page, FALSE)
     \/ n < remaining /\ next # 0 /\ (n = 0 \/ next = cursor) /\ Failed
     \/ n < remaining /\ next # 0 /\ n # 0 /\ next # cursor /\ Continue(page, next)

\* One turn of queryPrefix's loop.  The service may also exceed the page limit it
\* was asked for, so that limit has no part here.
AfterPage(n, next) ==
  LET page == {Ids[i] : i \in Firsts(n)}
  IN \/ n > remaining /\ FoundIn(found \cup {Ids[i] : i \in Firsts(remaining)}, TRUE)
     \/ n <= remaining /\ next = 0 /\ FoundIn(found \cup page, FALSE)
     \/ n = remaining /\ next # 0 /\ FoundIn(found \cup page, TRUE)
     \/ n < remaining /\ next # 0 /\ (n = 0 \/ next = cursor) /\ Failed
     \/ n < remaining /\ next # 0 /\ n # 0 /\ next # cursor /\ Continue(page, next)

PrefixPage ==
  /\ pc = "prefixes"
  /\ \E n \in 0 .. Cardinality(Pending) : \E next \in NextCursors(n) : AfterPage(n, next)
  /\ UNCHANGED <<mode, exists, seed, failedSeeds, result, atStart>>

\* The request fails or times out, or the answer is an error.  An error that says
\* "not found" is the end of the prefix, a page without a cursor.
PrefixError ==
  /\ pc = "prefixes"
  /\ Failed
  /\ UNCHANGED <<mode, exists, seed, failedSeeds, result, atStart>>

-----------------------------------------------------------------------------
(* The direct reads.                                                       *)

SeedRead(ids, failures) ==
  /\ pc = "seeds"
  /\ seed <= Len(Seeds)
  /\ seed' = seed + 1
  /\ read' = read \cup ids
  /\ failedSeeds' = failedSeeds \cup failures
  /\ UNCHANGED <<mode, exists, pc, position, discovered, diagnostics, result, atStart>>

NeedsSeed == seed <= Len(Seeds) /\ Seeds[seed].family \notin discovered

SkipSeed == ~NeedsSeed /\ SeedRead({}, {})
QuerySeed == NeedsSeed /\ SeedRead({Seeds[seed].id} \cap exists, {})
SeedError == NeedsSeed /\ SeedRead({}, {seed})

SomeError == failedSeeds # {} \/ \E t \in DOMAIN Targets : diagnostics[t].error

\* Fault: one error is enough for the fixture.
OutcomeOnError ==
  IF SomeError THEN (IF mode.fallback THEN "fixture" ELSE "error") ELSE "graph"

\* Without an error an empty graph is an empty snapshot.
Outcome ==
  IF read # {} THEN "graph"
  ELSE IF mode.fallback THEN "fixture"
  ELSE IF SomeError THEN "error"
  ELSE "graph"

Finish ==
  /\ pc = "seeds"
  /\ seed > Len(Seeds)
  /\ pc' = "done"
  /\ result' = Outcome
  /\ UNCHANGED <<mode, exists, position, seed, discovered, diagnostics, failedSeeds, read, atStart>>

-----------------------------------------------------------------------------
Read == PrefixPage \/ PrefixError \/ SkipSeed \/ QuerySeed \/ SeedError \/ Finish

Next == Snapshot \/ Read \/ \E e \in Entities : Birth(e)

\* Every request is answered or times out, so a call that has begun goes on; what
\* the answers are, and whether one ever succeeds, is left to the graph.
Spec == Init /\ [][Next]_vars /\ WF_vars(Read)

-----------------------------------------------------------------------------
TypeOK ==
  /\ mode \in Modes
  /\ exists \subseteq Entities /\ atStart \subseteq exists
  /\ pc \in {"idle", "prefixes", "seeds", "done"}
  /\ target \in 1 .. Len(Targets) + 1
  /\ cursor \in Nat
  /\ remaining \in 1 .. Limit
  /\ found \subseteq exists
  /\ pc = "prefixes" => target <= Len(Targets) /\ Cardinality(found) = Limit - remaining
  /\ seed \in 1 .. Len(Seeds) + 1
  /\ discovered \subseteq {Targets[t].family : t \in DOMAIN Targets}
  /\ diagnostics \in
       [DOMAIN Targets -> [count : 0 .. Limit, atLimit : BOOLEAN, error : BOOLEAN]]
  /\ failedSeeds \subseteq DOMAIN Seeds
  /\ read \subseteq exists
  /\ result \in {"none", "graph", "fixture", "error"}

\* The warning alerts of a snapshot, one for an error and one for a truncation.
Alerts == {t \in DOMAIN Targets : diagnostics[t].error \/ diagnostics[t].atLimit}

\* An entity under a discovered prefix that existed when the call began is in the
\* graph snapshot or the snapshot carries an alert for its prefix: paging, births
\* during paging and failures of other prefixes never make it vanish silently.
MissingIsReported ==
  result = "graph" /\ mode.discovery =>
    \A t \in DOMAIN Targets :
      Values(Targets[t].ids) \cap atStart \subseteq read \/ t \in Alerts

\* A prefix said to be cut off really filled the limit.
CutOffIsFull ==
  \A t \in DOMAIN Targets : diagnostics[t].atLimit => diagnostics[t].count = Limit

\* A configured identifier whose family discovery found nothing of, for whatever
\* reason, is in the snapshot if it existed, unless its own read failed too.
SeedsBackUp ==
  result = "graph" =>
    \A s \in DOMAIN Seeds :
      Seeds[s].id \in atStart =>
        \/ Seeds[s].id \in read
        \/ s \in failedSeeds
        \/ \E t \in DOMAIN Targets :
             Targets[t].family = Seeds[s].family /\ diagnostics[t].count > 0

\* The fixture, or an error, stands in for the graph only when every read of
\* something that existed failed: it never hides what could have been shown.
OutageIsTotal ==
  result \in {"fixture", "error"} =>
    /\ \A s \in DOMAIN Seeds : Seeds[s].id \in atStart => s \in failedSeeds
    /\ mode.discovery => \A t \in DOMAIN Targets :
         Values(Targets[t].ids) \cap atStart # {} => diagnostics[t].error

\* A call ends, whatever pages and cursors the service hands out.
SnapshotEnds == pc \in {"prefixes", "seeds"} ~> pc = "done"
=============================================================================
