------------------------ MODULE SnapshotProviderProofs ------------------------
(***************************************************************************)
(* The snapshot of the provider, for every scope, limit and graph service: *)
(* an invariant of the pages read so far, of the targets behind, and of the *)
(* configured identifiers behind.                                          *)
(***************************************************************************)
EXTENDS SnapshotProvider, FiniteSetTheorems, SequenceTheorems,
        WellFoundedInduction, TLAPS

\* The page being put together: what it holds lies behind the cursor, and what
\* existed from the start and lies behind the cursor is in it.
PageSound ==
  pc = "prefixes" =>
    /\ target \in DOMAIN Targets
    /\ cursor \in 0 .. Len(Ids)
    /\ found \subseteq {Ids[i] : i \in 1 .. cursor}
    /\ \A i \in 1 .. cursor : Ids[i] \in atStart => Ids[i] \in found
    /\ \A t \in DOMAIN Targets : t >= target => diagnostics[t] = NotRead

\* With discovery the direct reads begin when every target is behind.
TargetsBehind ==
  mode.discovery => /\ pc \in {"seeds", "done"} => target = Len(Targets) + 1
                    /\ \A t \in DOMAIN Targets : t < target =>
                         \/ diagnostics[t].error \/ diagnostics[t].atLimit
                         \/ Values(Targets[t].ids) \cap atStart \subseteq read

\* What the diagnostics count has been read, and is what families are discovered by.
Counted ==
  /\ \A t \in DOMAIN Targets : diagnostics[t].count > 0 => read # {}
  /\ \A f \in discovered : \E t \in DOMAIN Targets :
       Targets[t].family = f /\ diagnostics[t].count > 0

\* The configured identifiers behind.
SeedsBehind ==
  /\ \A s \in DOMAIN Seeds : s < seed /\ Seeds[s].id \in atStart =>
       \/ Seeds[s].id \in read
       \/ s \in failedSeeds
       \/ Seeds[s].family \in discovered
  /\ pc = "done" => seed = Len(Seeds) + 1

ResultSound ==
  /\ pc = "done" => result = Outcome
  /\ pc # "done" => result = "none"

IInv ==
  TypeOK /\ PageSound /\ TargetsBehind /\ Counted /\ CutOffIsFull /\ SeedsBehind /\ ResultSound

-----------------------------------------------------------------------------
(* Counting from the front of a set of numbers.                            *)

\* A non-empty set of naturals has a least element.
LEMMA LeastExists ==
  ASSUME NEW T, T \subseteq Nat, T # {}
  PROVE  \E x \in T : \A y \in T : x <= y
<1> DEFINE R == OpToRel(<, Nat)
<1>1. IsWellFoundedOn(R, Nat)
  BY NatLessThanWellFounded
<1>2. \A x, y \in Nat : y < x => <<y, x>> \in R
  BY DEF OpToRel
<1> HIDE DEF R
<1>3. PICK x \in T : \A y \in T : ~ (<<y, x>> \in R)
  BY <1>1, WFMin
<1>4. ASSUME NEW y \in T PROVE x <= y
  <2>1. x \in Nat /\ y \in Nat
    OBVIOUS
  <2>2. ~ (y < x)
    BY <1>2, <1>3, <2>1
  <2> QED
    BY <2>1, <2>2
<1> QED
  BY <1>4

\* A bounded non-empty set of naturals has a greatest element.
LEMMA GreatestExists ==
  ASSUME NEW n \in Nat, NEW T, T \subseteq 0 .. n, T # {}
  PROVE  \E x \in T : \A y \in T : y <= x
<1> DEFINE D == {n - x : x \in T}
<1>1. D \subseteq Nat /\ D # {}
  <2>1. \A x \in T : n - x \in Nat
    OBVIOUS
  <2> QED
    BY <2>1
<1>2. PICK d \in D : \A e \in D : d <= e
  BY <1>1, LeastExists
<1>3. PICK x \in T : d = n - x
  OBVIOUS
<1>4. \A y \in T : n - x <= n - y
  BY <1>2, <1>3
<1> QED
  BY <1>4

Below(S, i) == {j \in S : j <= i}

\* The first n elements of S.
Rank(S, n) == {i \in S : Cardinality(Below(S, i)) <= n}

LEMMA BelowFinite ==
  ASSUME NEW S, S \subseteq Nat, IsFiniteSet(S), NEW i \in S
  PROVE  /\ i \in Below(S, i) /\ Below(S, i) \subseteq S
         /\ IsFiniteSet(Below(S, i)) /\ Cardinality(Below(S, i)) \in Nat
<1>1. i \in Below(S, i) /\ Below(S, i) \subseteq S
  BY DEF Below
<1>2. IsFiniteSet(Below(S, i))
  BY <1>1, FS_Subset
<1> QED
  BY <1>1, <1>2, FS_CardinalityType

\* An element below another one has no more elements below it.
LEMMA BelowGrows ==
  ASSUME NEW S, S \subseteq Nat, IsFiniteSet(S), NEW i \in S, NEW j \in S, j <= i
  PROVE  Cardinality(Below(S, j)) <= Cardinality(Below(S, i))
<1>1. Below(S, i) \subseteq S /\ Below(S, j) \subseteq Below(S, i)
  <2>1. \A x \in S : x <= j => x <= i
    OBVIOUS
  <2> QED
    BY <2>1 DEF Below
<1> QED
  BY <1>1, BelowFinite, FS_Subset

\* What is below one of the first n is one of them.
LEMMA RankClosed ==
  ASSUME NEW S, S \subseteq Nat, IsFiniteSet(S), NEW n \in Nat,
         NEW i \in Rank(S, n), NEW j \in S, j <= i
  PROVE  j \in Rank(S, n)
<1>1. i \in S /\ Cardinality(Below(S, i)) <= n
  BY DEF Rank
<1>2. Cardinality(Below(S, j)) <= Cardinality(Below(S, i))
  BY <1>1, BelowGrows
<1>3. Cardinality(Below(S, i)) \in Nat /\ Cardinality(Below(S, j)) \in Nat
  BY <1>1, BelowFinite
<1>4. Cardinality(Below(S, j)) <= n
  BY <1>1, <1>2, <1>3
<1> QED
  BY <1>4 DEF Rank

LEMMA RankStep ==
  ASSUME NEW S, S \subseteq Nat, IsFiniteSet(S),
         NEW n \in Nat, n < Cardinality(S), Cardinality(Rank(S, n)) = n
  PROVE  Cardinality(Rank(S, n + 1)) = n + 1
<1> DEFINE F == Rank(S, n)
<1>1. F \subseteq S /\ IsFiniteSet(F)
  BY FS_Subset DEF Rank
<1>2. S \ F # {}
  BY <1>1
<1>3. PICK m \in S \ F : \A y \in S \ F : m <= y
  BY <1>2, LeastExists
<1>4. \A i \in F, j \in S : j <= i => j \in F
  BY RankClosed
<1> HIDE DEF F
<1>5. \A i \in S \ F, j \in F : j <= i
  BY <1>1, <1>4
<1>6. Below(S, m) = F \cup {m}
  <2>1. \A x \in S \ F : x <= m => x = m
    BY <1>3
  <2>2. \A x \in F : x \in S /\ x <= m
    BY <1>1, <1>3, <1>5
  <2>3. m \in S /\ m <= m
    BY <1>3
  <2> QED
    BY <2>1, <2>2, <2>3 DEF Below
<1>7. Cardinality(F \cup {m}) = n + 1 /\ IsFiniteSet(F \cup {m})
  BY <1>1, <1>3, FS_AddElement DEF F
<1>8. ASSUME NEW i \in S \ F, i # m PROVE ~ (Cardinality(Below(S, i)) <= n + 1)
  <2>1. (F \cup {m}) \cup {i} \subseteq Below(S, i)
    BY <1>1, <1>3, <1>5, <1>8 DEF Below
  <2>2. Cardinality((F \cup {m}) \cup {i}) = n + 2
    <3>1. i \notin F \cup {m}
      BY <1>8
    <3>2. Cardinality((F \cup {m}) \cup {i}) = Cardinality(F \cup {m}) + 1
      BY <1>7, <3>1, FS_AddElement
    <3> QED
      BY <1>7, <3>2
  <2>3. IsFiniteSet(Below(S, i)) /\ Cardinality(Below(S, i)) \in Nat
    BY BelowFinite
  <2>4. n + 2 <= Cardinality(Below(S, i))
    BY <2>1, <2>2, <2>3, FS_Subset
  <2> QED
    BY <2>3, <2>4
<1>9. ASSUME NEW i \in F PROVE Cardinality(Below(S, i)) <= n + 1
  <2>1. i \in S /\ Cardinality(Below(S, i)) <= n
    BY <1>9 DEF F, Rank
  <2>2. Cardinality(Below(S, i)) \in Nat
    BY <2>1, BelowFinite
  <2> QED
    BY <2>1, <2>2
<1>10. Rank(S, n + 1) = F \cup {m}
  <2>1. ASSUME NEW i \in S
        PROVE  Cardinality(Below(S, i)) <= n + 1 <=> i \in F \cup {m}
    <3>1. CASE i = m
      <4>1. Cardinality(Below(S, m)) = n + 1
        BY <1>6, <1>7
      <4>2. n + 1 <= n + 1
        OBVIOUS
      <4> QED
        BY <3>1, <4>1, <4>2
    <3>2. CASE i # m
      BY <1>8, <1>9, <3>2
    <3> QED
      BY <3>1, <3>2
  <2> QED
    BY <1>1, <1>3, <2>1 DEF Rank
<1> QED
  BY <1>7, <1>10

\* The first n elements of a set that has as many are n.
LEMMA RankCardinality ==
  ASSUME NEW S, S \subseteq Nat, IsFiniteSet(S), NEW n \in 0 .. Cardinality(S)
  PROVE  Cardinality(Rank(S, n)) = n
<1> DEFINE T == {k \in 0 .. Cardinality(S) : Cardinality(Rank(S, k)) # k}
<1>0. Cardinality(S) \in Nat
  BY FS_CardinalityType
<1> SUFFICES ASSUME T # {} PROVE FALSE
  OBVIOUS
<1>1. T \subseteq Nat
  BY <1>0
<1> HIDE DEF T
<1>2. PICK k \in T : \A y \in T : k <= y
  BY <1>1, LeastExists
<1>3. k \in 0 .. Cardinality(S) /\ Cardinality(Rank(S, k)) # k
  BY DEF T
<1>4. CASE k = 0
  <2>1. ASSUME NEW i \in S PROVE ~ (Cardinality(Below(S, i)) <= 0)
    <3>1. /\ i \in Below(S, i)
          /\ IsFiniteSet(Below(S, i)) /\ Cardinality(Below(S, i)) \in Nat
      BY BelowFinite
    <3>2. Cardinality(Below(S, i)) # 0
      BY <3>1, FS_EmptySet
    <3> QED
      BY <3>1, <3>2
  <2>2. Rank(S, 0) = {}
    BY <2>1 DEF Rank
  <2> QED
    BY <1>3, <1>4, <2>2, FS_EmptySet
<1>5. CASE k # 0
  <2>1. k - 1 \in 0 .. Cardinality(S) /\ k - 1 \in Nat /\ k - 1 < k /\ k - 1 < Cardinality(S)
    BY <1>0, <1>3, <1>5
  <2>2. k - 1 \notin T
    <3>1. k \in Nat
      BY <1>0, <1>3
    <3>2. ~ (k <= k - 1)
      BY <3>1
    <3> QED
      BY <1>2, <3>2
  <2>3. Cardinality(Rank(S, k - 1)) = k - 1
    BY <2>1, <2>2 DEF T
  <2>4. Cardinality(Rank(S, (k - 1) + 1)) = (k - 1) + 1
    BY <2>1, <2>3, RankStep
  <2> QED
    BY <1>3, <2>1, <2>4
<1> QED
  BY <1>4, <1>5

-----------------------------------------------------------------------------
(* A page.                                                                 *)

\* The image of a finite set is finite, and as large if nothing falls together.
LEMMA ImageFinite ==
  ASSUME NEW f, NEW I, IsFiniteSet(I)
  PROVE  /\ IsFiniteSet({f[i] : i \in I})
         /\ (\A i, j \in I : f[i] = f[j] => i = j) => Cardinality({f[i] : i \in I}) = Cardinality(I)
<1> DEFINE T == {f[i] : i \in I}
           g == [i \in I |-> f[i]]
<1>1. g \in Surjection(I, T)
  BY DEF Surjection
<1>2. (\A i, j \in I : f[i] = f[j] => i = j) => g \in Injection(I, T)
  BY DEF Injection, IsInjective
<1> HIDE DEF g
<1> QED
  BY <1>1, <1>2, FS_Surjection

\* The entities of a target, as numbered by its prefix.
LEMMA TargetFacts ==
  ASSUME NEW t \in DOMAIN Targets
  PROVE  /\ Len(Targets[t].ids) \in Nat
         /\ DOMAIN Targets[t].ids = 1 .. Len(Targets[t].ids)
         /\ Values(Targets[t].ids) = {Targets[t].ids[i] : i \in 1 .. Len(Targets[t].ids)}
         /\ Values(Targets[t].ids) \subseteq Entities
         /\ \A i, j \in 1 .. Len(Targets[t].ids) : Targets[t].ids[i] = Targets[t].ids[j] => i = j
<1> DEFINE ids == Targets[t].ids
<1>1. ids \in Seq(Values(ids)) /\ \A i, j \in DOMAIN ids : ids[i] = ids[j] => i = j
  BY ListAssumption
<1>2. Values(ids) \subseteq Entities
  BY DEF Entities
<1> HIDE DEF ids
<1>3. DOMAIN ids = 1 .. Len(ids) /\ Len(ids) \in Nat
  BY <1>1, LenProperties
<1>4. Values(ids) = {ids[i] : i \in 1 .. Len(ids)}
  BY <1>3 DEF Values
<1> QED
  BY <1>1, <1>2, <1>3, <1>4 DEF ids

LEMMA ListFacts ==
  /\ Len(Targets) \in Nat /\ DOMAIN Targets = 1 .. Len(Targets)
  /\ Len(Seeds) \in Nat /\ DOMAIN Seeds = 1 .. Len(Seeds)
BY ListAssumption

LEMMA PendingFacts ==
  ASSUME PageSound, pc = "prefixes"
  PROVE  /\ Pending \subseteq 1 .. Len(Ids) /\ IsFiniteSet(Pending)
         /\ Cardinality(Pending) \in Nat
         /\ \A n : Firsts(n) = Rank(Pending, n)
<1>1. DOMAIN Ids = 1 .. Len(Ids) /\ Len(Ids) \in Nat
  BY TargetFacts DEF PageSound, Ids
<1>2. Pending \subseteq 1 .. Len(Ids) /\ IsFiniteSet(1 .. Len(Ids))
  BY <1>1, FS_Interval DEF Pending
<1>3. IsFiniteSet(Pending)
  BY <1>2, FS_Subset
<1> QED
  BY <1>2, <1>3, FS_CardinalityType DEF Firsts, Rank, Below

\* A page of n entities adds as many to those found before.
LEMMA PageFacts ==
  ASSUME TypeOK, PageSound, pc = "prefixes", NEW n \in 0 .. Cardinality(Pending)
  PROVE  LET page == {Ids[i] : i \in Firsts(n)}
         IN /\ IsFiniteSet(page) /\ Cardinality(page) = n
            /\ page \subseteq exists /\ page \subseteq Values(Ids)
            /\ found \cup page \subseteq exists
            /\ IsFiniteSet(found \cup page)
            /\ Cardinality(found \cup page) = Cardinality(found) + n
<1> DEFINE page == {Ids[i] : i \in Firsts(n)}
           seen == {Ids[i] : i \in 1 .. cursor}
<1>1. /\ Len(Ids) \in Nat /\ DOMAIN Ids = 1 .. Len(Ids)
      /\ \A i, j \in 1 .. Len(Ids) : Ids[i] = Ids[j] => i = j
      /\ Values(Ids) = {Ids[i] : i \in 1 .. Len(Ids)}
  BY TargetFacts DEF PageSound, Ids
<1>2. /\ Pending \subseteq 1 .. Len(Ids) /\ IsFiniteSet(Pending) /\ Cardinality(Pending) \in Nat
      /\ Firsts(n) = Rank(Pending, n)
  BY PendingFacts
<1>3. Firsts(n) \subseteq Pending /\ IsFiniteSet(Firsts(n)) /\ Cardinality(Firsts(n)) = n
  <2>1. Rank(Pending, n) \subseteq Pending
    BY DEF Rank
  <2>2. Pending \subseteq Nat
    BY <1>1, <1>2
  <2> QED
    BY <1>2, <2>1, <2>2, FS_Subset, RankCardinality
<1>4. IsFiniteSet(page) /\ Cardinality(page) = n
  <2>1. \A i, j \in Firsts(n) : Ids[i] = Ids[j] => i = j
    BY <1>1, <1>2, <1>3
  <2> QED
    BY <1>3, <2>1, ImageFinite
<1>5. page \subseteq exists /\ page \subseteq Values(Ids)
  BY <1>1, <1>2, <1>3 DEF Pending
<1>6. cursor \in 0 .. Len(Ids) /\ found \subseteq seen
  BY DEF PageSound
<1>7. IsFiniteSet(found) /\ Cardinality(found) \in Nat
  <2>1. IsFiniteSet(1 .. cursor)
    BY <1>1, <1>6, FS_Interval
  <2>2. IsFiniteSet(seen)
    BY <2>1, ImageFinite
  <2>3. IsFiniteSet(found)
    BY <1>6, <2>2, FS_Subset
  <2> QED
    BY <2>3, FS_CardinalityType
<1>8. found \cap page = {}
  <2>1. ASSUME NEW i \in 1 .. cursor, NEW j \in Firsts(n) PROVE Ids[i] # Ids[j]
    <3>1. j \in 1 .. Len(Ids) /\ j > cursor
      BY <1>2, <1>3 DEF Pending
    <3>2. i \in 1 .. Len(Ids) /\ i # j
      BY <1>1, <1>6, <3>1
    <3> QED
      BY <1>1, <3>1, <3>2
  <2> QED
    BY <1>6, <2>1
<1>9. Cardinality(found \cap page) = 0
  BY <1>8, FS_EmptySet
<1>10. IsFiniteSet(found \cup page) /\ Cardinality(found \cup page) = Cardinality(found) + n
  <2>1. IsFiniteSet(found \cup page)
        /\ Cardinality(found \cup page) =
             Cardinality(found) + Cardinality(page) - Cardinality(found \cap page)
    BY <1>4, <1>7, FS_Union
  <2> QED
    BY <1>4, <1>7, <1>9, <2>1
<1>11. found \subseteq exists
  BY DEF TypeOK
<1> QED
  BY <1>4, <1>5, <1>10, <1>11

\* The last entity of a page that is not empty.
LEMMA LastFacts ==
  ASSUME PageSound, pc = "prefixes", NEW n \in 1 .. Cardinality(Pending)
  PROVE  /\ LastOf(n) \in Firsts(n) /\ LastOf(n) \in 1 .. Len(Ids) /\ LastOf(n) > cursor
         /\ \A i \in Firsts(n) : i <= LastOf(n)
         /\ \A i \in Pending : i <= LastOf(n) => i \in Firsts(n)
<1>1. /\ Pending \subseteq 1 .. Len(Ids) /\ IsFiniteSet(Pending) /\ Cardinality(Pending) \in Nat
      /\ Firsts(n) = Rank(Pending, n)
  BY PendingFacts
<1>2. Len(Ids) \in Nat
  BY TargetFacts DEF PageSound, Ids
<1>3. Pending \subseteq Nat /\ n \in Nat /\ n \in 0 .. Cardinality(Pending)
  BY <1>1, <1>2
<1>4. Cardinality(Firsts(n)) = n
  BY <1>1, <1>3, RankCardinality
<1>5. Firsts(n) # {}
  BY <1>4, FS_EmptySet
<1>6. Firsts(n) \subseteq Pending
  BY <1>1 DEF Rank
<1>7. Firsts(n) \subseteq 0 .. Len(Ids)
  <2>1. 1 .. Len(Ids) \subseteq 0 .. Len(Ids)
    BY <1>2
  <2> QED
    BY <1>1, <1>6, <2>1
<1>8. \E x \in Firsts(n) : \A y \in Firsts(n) : y <= x
  BY <1>2, <1>5, <1>7, GreatestExists
<1>9. LastOf(n) \in Firsts(n) /\ \A i \in Firsts(n) : i <= LastOf(n)
  BY <1>8 DEF LastOf
<1>10. LastOf(n) \in 1 .. Len(Ids) /\ LastOf(n) > cursor
  BY <1>1, <1>6, <1>9 DEF Pending
<1>11. ASSUME NEW i \in Pending, i <= LastOf(n) PROVE i \in Firsts(n)
  <2>1. LastOf(n) \in Rank(Pending, n)
    BY <1>1, <1>9
  <2>2. i \in Rank(Pending, n)
    BY <1>1, <1>3, <1>11, <2>1, RankClosed
  <2> QED
    BY <1>1, <2>2
<1> QED
  BY <1>9, <1>10, <1>11

\* With all that is pending, nothing of the prefix that existed at the start is missing.
LEMMA AllFound ==
  ASSUME TypeOK, PageSound, pc = "prefixes"
  PROVE  Values(Ids) \cap atStart \subseteq found \cup {Ids[i] : i \in Firsts(Cardinality(Pending))}
<1> DEFINE n == Cardinality(Pending)
<1>1. /\ Len(Ids) \in Nat /\ DOMAIN Ids = 1 .. Len(Ids)
      /\ Values(Ids) = {Ids[i] : i \in 1 .. Len(Ids)}
  BY TargetFacts DEF PageSound, Ids
<1>2. /\ Pending \subseteq 1 .. Len(Ids) /\ IsFiniteSet(Pending) /\ n \in Nat
      /\ Firsts(n) = Rank(Pending, n)
  BY PendingFacts
<1>3. Firsts(n) = Pending
  <2>1. ASSUME NEW i \in Pending PROVE Cardinality(Below(Pending, i)) <= n
    BY <1>2, FS_Subset DEF Below
  <2> QED
    BY <1>2, <2>1 DEF Rank
<1>4. ASSUME NEW i \in 1 .. Len(Ids), Ids[i] \in atStart
      PROVE  Ids[i] \in found \cup {Ids[j] : j \in Pending}
  <2>1. CASE i <= cursor
    BY <1>1, <1>4, <2>1 DEF PageSound
  <2>2. CASE ~ (i <= cursor)
    <3>1. cursor \in Int /\ i > cursor /\ Ids[i] \in exists
      BY <1>1, <1>4, <2>2 DEF PageSound, TypeOK
    <3> QED
      BY <1>1, <3>1 DEF Pending
  <2> QED
    BY <2>1, <2>2
<1> QED
  BY <1>1, <1>3, <1>4

-----------------------------------------------------------------------------
(* The inductive steps.                                                    *)

LEMMA InitInv == Init => IInv
<1> SUFFICES ASSUME Init PROVE IInv
  OBVIOUS
<1>1. /\ mode \in Modes /\ exists = {} /\ atStart = {} /\ pc = "idle"
      /\ target = 1 /\ cursor = 0 /\ remaining = Limit /\ found = {} /\ seed = 1
      /\ discovered = {} /\ failedSeeds = {} /\ read = {} /\ result = "none"
      /\ diagnostics = [t \in DOMAIN Targets |-> NotRead]
  BY DEF Init
<1>2. diagnostics \in [DOMAIN Targets -> [count : 0 .. Limit, atLimit : BOOLEAN, error : BOOLEAN]]
  BY <1>1, ProviderAssumption DEF NotRead
<1>3. TypeOK
  BY <1>1, <1>2, ListFacts, ProviderAssumption DEF TypeOK
<1>4. PageSound /\ ResultSound
  BY <1>1 DEF PageSound, ResultSound
<1>5. TargetsBehind /\ Counted /\ CutOffIsFull
  BY <1>1, ListFacts DEF TargetsBehind, Counted, CutOffIsFull, NotRead
<1>6. SeedsBehind
  BY <1>1, ListFacts DEF SeedsBehind
<1> QED
  BY <1>3, <1>4, <1>5, <1>6 DEF IInv

LEMMA SnapshotInv == IInv /\ Snapshot => IInv'
<1> SUFFICES ASSUME IInv, Snapshot PROVE IInv'
  OBVIOUS
<1>1. /\ mode' = mode /\ exists' = exists /\ atStart' = exists
      /\ pc' = (IF mode.discovery /\ Len(Targets) > 0 THEN "prefixes" ELSE "seeds")
      /\ target' = 1 /\ cursor' = 0 /\ remaining' = Limit /\ found' = {} /\ seed' = 1
      /\ discovered' = {} /\ failedSeeds' = {} /\ read' = {} /\ result' = "none"
      /\ diagnostics' = [t \in DOMAIN Targets |-> NotRead]
  BY DEF Snapshot
<1>2. diagnostics' \in [DOMAIN Targets -> [count : 0 .. Limit, atLimit : BOOLEAN, error : BOOLEAN]]
  BY <1>1, ProviderAssumption DEF NotRead
<1>3. pc' = "prefixes" => target' \in DOMAIN Targets
  BY <1>1, ListFacts
<1>4. TypeOK'
  <2>1. pc' = "prefixes" => target' <= Len(Targets) /\ Cardinality(found') = Limit - remaining'
    BY <1>1, <1>3, ListFacts, ProviderAssumption, FS_EmptySet
  <2> QED
    BY <1>1, <1>2, <2>1, ListFacts, ProviderAssumption DEF IInv, TypeOK
<1>5. PageSound'
  BY <1>1, <1>3, TargetFacts DEF PageSound, Ids
<1>6. TargetsBehind' /\ Counted' /\ CutOffIsFull'
  BY <1>1, ListFacts DEF TargetsBehind, Counted, CutOffIsFull, NotRead
<1>7. SeedsBehind' /\ ResultSound'
  BY <1>1, ListFacts DEF SeedsBehind, ResultSound
<1> QED
  BY <1>4, <1>5, <1>6, <1>7 DEF IInv

LEMMA BirthInv == ASSUME IInv, NEW e \in Entities, Birth(e) PROVE IInv'
<1>1. /\ exists' = exists \cup {e}
      /\ UNCHANGED <<mode, pc, target, cursor, remaining, found, seed, discovered,
                     diagnostics, failedSeeds, read, result, atStart>>
  BY DEF Birth
<1>2. TypeOK'
  BY <1>1 DEF IInv, TypeOK
<1>3. PageSound' /\ TargetsBehind' /\ Counted' /\ CutOffIsFull'
  BY <1>1 DEF IInv, PageSound, TargetsBehind, Counted, CutOffIsFull, Ids
<1>4. SeedsBehind' /\ ResultSound'
  BY <1>1 DEF IInv, SeedsBehind, ResultSound, Outcome, SomeError
<1> QED
  BY <1>2, <1>3, <1>4 DEF IInv

\* What both ends of a prefix have in common: d is what is reported of it, and ids are
\* the entities it brings.
LEMMA TargetDone ==
  ASSUME IInv, pc = "prefixes", NextTarget,
         UNCHANGED <<mode, exists, seed, failedSeeds, result, atStart>>,
         NEW d \in [count : 0 .. Limit, atLimit : BOOLEAN, error : BOOLEAN],
         NEW ids \in SUBSET exists,
         diagnostics' = [diagnostics EXCEPT ![target] = d], read' = read \cup ids,
         discovered' \subseteq discovered \cup {Targets[target].family},
         discovered \subseteq discovered',
         d.count = 0 => discovered' = discovered,
         d.count > 0 => ids # {},
         d.atLimit => d.count = Limit,
         d.error \/ d.atLimit \/ Values(Ids) \cap atStart \subseteq ids
  PROVE  IInv'
<1>1. /\ target \in DOMAIN Targets /\ target \in 1 .. Len(Targets)
      /\ \A t \in DOMAIN Targets : t >= target => diagnostics[t] = NotRead
      /\ target' = target + 1 /\ target \in Nat
  BY ListFacts DEF IInv, PageSound, NextTarget
<1>2. /\ diagnostics \in [DOMAIN Targets -> [count : 0 .. Limit, atLimit : BOOLEAN, error : BOOLEAN]]
      /\ DOMAIN diagnostics = DOMAIN Targets
  BY DEF IInv, TypeOK
<1>3. /\ diagnostics' \in [DOMAIN Targets -> [count : 0 .. Limit, atLimit : BOOLEAN, error : BOOLEAN]]
      /\ diagnostics'[target] = d
      /\ \A t \in DOMAIN Targets : t # target => diagnostics'[t] = diagnostics[t]
  BY <1>1, <1>2
<1>4. /\ cursor' = 0 /\ remaining' = Limit /\ found' = {}
      /\ pc' = (IF target = Len(Targets) THEN "seeds" ELSE "prefixes")
  BY DEF NextTarget
<1>5. pc' = "prefixes" => target' \in DOMAIN Targets
  BY <1>1, <1>4, ListFacts
<1>6. TypeOK'
  <2>1. pc' = "prefixes" => target' <= Len(Targets) /\ Cardinality(found') = Limit - remaining'
    BY <1>4, <1>5, ListFacts, ProviderAssumption, FS_EmptySet
  <2>2. target' \in 1 .. Len(Targets) + 1 /\ cursor' \in Nat /\ remaining' \in 1 .. Limit
    BY <1>1, <1>4, ListFacts, ProviderAssumption
  <2>3. discovered' \subseteq {Targets[t].family : t \in DOMAIN Targets}
    BY <1>1 DEF IInv, TypeOK
  <2>4. read' \subseteq exists' /\ found' \subseteq exists'
    BY <1>4 DEF IInv, TypeOK
  <2>5. pc' \in {"idle", "prefixes", "seeds", "done"}
    BY <1>4
  <2> QED
    BY <1>3, <2>1, <2>2, <2>3, <2>4, <2>5 DEF IInv, TypeOK
<1>7. PageSound'
  <2>1. \A t \in DOMAIN Targets : t >= target' => diagnostics'[t] = NotRead
    <3>1. \A t \in DOMAIN Targets : t >= target + 1 => t >= target /\ t # target
      BY <1>1, ListFacts
    <3> QED
      BY <1>1, <1>3, <3>1
  <2> QED
    BY <1>4, <1>5, <2>1, TargetFacts DEF PageSound, Ids
<1>8. TargetsBehind'
  <2> SUFFICES ASSUME mode.discovery PROVE TargetsBehind'
    BY DEF TargetsBehind
  <2>1. pc' \in {"seeds", "done"} => target' = Len(Targets) + 1
    BY <1>1, <1>4
  <2>2. ASSUME NEW t \in DOMAIN Targets, t < target'
        PROVE  \/ diagnostics'[t].error \/ diagnostics'[t].atLimit
               \/ Values(Targets[t].ids) \cap atStart \subseteq read'
    <3>1. CASE t = target
      BY <1>3, <3>1 DEF Ids
    <3>2. CASE t # target
      <4>1. t < target
        BY <1>1, <2>2, <3>2, ListFacts
      <4> QED
        BY <1>3, <3>2, <4>1 DEF IInv, TargetsBehind
    <3> QED
      BY <3>1, <3>2
  <2> QED
    BY <2>1, <2>2 DEF TargetsBehind
<1>9. Counted'
  <2>1. ASSUME NEW t \in DOMAIN Targets, diagnostics'[t].count > 0 PROVE read' # {}
    BY <1>3, <2>1 DEF IInv, Counted
  <2>2. ASSUME NEW f \in discovered'
        PROVE  \E t \in DOMAIN Targets : Targets[t].family = f /\ diagnostics'[t].count > 0
    <3>1. CASE f \in discovered
      <4>1. PICK t \in DOMAIN Targets : Targets[t].family = f /\ diagnostics[t].count > 0
        BY <3>1 DEF IInv, Counted
      <4>2. t # target
        BY <1>1, <4>1, ListFacts DEF NotRead
      <4> QED
        BY <1>3, <4>1, <4>2
    <3>2. CASE f \notin discovered
      <4>1. f = Targets[target].family /\ d.count # 0
        BY <2>2, <3>2
      <4>2. d.count > 0
        BY <4>1, ProviderAssumption
      <4> QED
        BY <1>1, <1>3, <4>1, <4>2
    <3> QED
      BY <3>1, <3>2
  <2> QED
    BY <2>1, <2>2 DEF Counted
<1>10. CutOffIsFull'
  BY <1>3 DEF IInv, CutOffIsFull
<1>11. SeedsBehind' /\ ResultSound'
  BY <1>4 DEF IInv, SeedsBehind, ResultSound
<1> QED
  BY <1>6, <1>7, <1>8, <1>9, <1>10, <1>11 DEF IInv

rest == <<mode, exists, seed, failedSeeds, result, atStart>>

LEMMA FailedInv == IInv /\ pc = "prefixes" /\ Failed /\ UNCHANGED rest => IInv'
<1> SUFFICES ASSUME IInv, pc = "prefixes", Failed, UNCHANGED rest PROVE IInv'
  OBVIOUS
<1> DEFINE d == [diagnostics[target] EXCEPT !.error = TRUE]
<1>1. /\ target \in DOMAIN Targets /\ target \in 1 .. Len(Targets)
      /\ diagnostics[target] = NotRead
  BY ListFacts DEF IInv, PageSound
<1>2. d \in [count : 0 .. Limit, atLimit : BOOLEAN, error : BOOLEAN]
      /\ d.count = 0 /\ d.atLimit = FALSE /\ d.error = TRUE
  <2>1. diagnostics[target] \in [count : 0 .. Limit, atLimit : BOOLEAN, error : BOOLEAN]
    BY <1>1 DEF IInv, TypeOK
  <2>2. diagnostics[target].count = 0 /\ diagnostics[target].atLimit = FALSE
    BY <1>1 DEF NotRead
  <2> QED
    BY <2>1, <2>2
<1>3. /\ diagnostics' = [diagnostics EXCEPT ![target] = d]
      /\ NextTarget /\ discovered' = discovered /\ read' = read
  BY DEF Failed
<1> HIDE DEF d
<1>4. PICK ids \in SUBSET exists : ids = {}
  OBVIOUS
<1>5. /\ discovered' \subseteq discovered \cup {Targets[target].family}
      /\ discovered \subseteq discovered'
      /\ d.count = 0 => discovered' = discovered
      /\ d.count > 0 => ids # {}
      /\ d.atLimit => d.count = Limit
      /\ read' = read \cup ids
  BY <1>2, <1>3, <1>4
<1> QED
  BY <1>2, <1>3, <1>5, TargetDone DEF rest

LEMMA FoundInInv ==
  ASSUME IInv, pc = "prefixes", UNCHANGED rest,
         NEW ids \in SUBSET exists, NEW truncated \in BOOLEAN, FoundIn(ids, truncated),
         IsFiniteSet(ids), Cardinality(ids) \in 0 .. Limit,
         truncated => Cardinality(ids) = Limit,
         truncated \/ Values(Ids) \cap atStart \subseteq ids
  PROVE  IInv'
<1> DEFINE d == [count |-> Cardinality(ids), atLimit |-> truncated, error |-> FALSE]
<1>1. d \in [count : 0 .. Limit, atLimit : BOOLEAN, error : BOOLEAN]
      /\ d.count = Cardinality(ids) /\ d.atLimit = truncated /\ d.error = FALSE
  OBVIOUS
<1>2. Cardinality(ids) = 0 <=> ids = {}
  BY FS_EmptySet
<1>3. /\ diagnostics' = [diagnostics EXCEPT ![target] = d]
      /\ NextTarget /\ read' = read \cup ids
      /\ discovered' = IF ids = {} THEN discovered ELSE discovered \cup {Targets[target].family}
  BY DEF FoundIn
<1> HIDE DEF d
<1>4. /\ discovered' \subseteq discovered \cup {Targets[target].family}
      /\ discovered \subseteq discovered'
      /\ d.count = 0 => discovered' = discovered
      /\ d.count > 0 => ids # {}
  BY <1>1, <1>2, <1>3
<1> QED
  BY <1>1, <1>3, <1>4, TargetDone DEF rest

\* The next page begins behind the last entity of this one.
LEMMA ContinueInv ==
  ASSUME IInv, pc = "prefixes", UNCHANGED rest, NEW n \in 1 .. Cardinality(Pending),
         n < remaining, Continue({Ids[i] : i \in Firsts(n)}, LastOf(n))
  PROVE  IInv'
<1> DEFINE page == {Ids[i] : i \in Firsts(n)}
<1>1. /\ UNCHANGED <<pc, target, discovered, diagnostics, read, mode, exists, seed, failedSeeds,
                     result, atStart>>
      /\ found' = found \cup page /\ cursor' = LastOf(n)
      /\ remaining' = remaining - Cardinality(page)
  BY DEF Continue, rest
<1>2. /\ target \in DOMAIN Targets /\ cursor \in 0 .. Len(Ids) /\ Len(Ids) \in Nat
      /\ DOMAIN Ids = 1 .. Len(Ids)
  BY TargetFacts DEF IInv, PageSound, Ids
<1>3. Cardinality(Pending) \in Nat /\ n \in 0 .. Cardinality(Pending)
  BY PendingFacts DEF IInv
<1>4. /\ IsFiniteSet(page) /\ Cardinality(page) = n /\ found \cup page \subseteq exists
      /\ Cardinality(found \cup page) = Cardinality(found) + n
  BY <1>3, PageFacts DEF IInv
<1>5. /\ LastOf(n) \in Firsts(n) /\ LastOf(n) \in 1 .. Len(Ids) /\ LastOf(n) > cursor
      /\ \A i \in Firsts(n) : i <= LastOf(n)
      /\ \A i \in Pending : i <= LastOf(n) => i \in Firsts(n)
  BY LastFacts DEF IInv
<1>6. Firsts(n) \subseteq Pending /\ Pending \subseteq 1 .. Len(Ids)
  BY PendingFacts DEF IInv, Firsts
<1>7. Ids' = Ids
  BY <1>1 DEF Ids
<1>8. TypeOK'
  <2>1. Cardinality(found) = Limit - remaining /\ remaining \in 1 .. Limit
    BY DEF IInv, TypeOK
  <2>2. remaining' = remaining - n /\ remaining' \in 1 .. Limit
    BY <1>1, <1>3, <1>4, <2>1, ProviderAssumption
  <2>3. Cardinality(found') = Limit - remaining'
    BY <1>1, <1>3, <1>4, <2>1, <2>2, ProviderAssumption
  <2>4. cursor' \in Nat /\ found' \subseteq exists'
    BY <1>1, <1>4, <1>5
  <2> QED
    BY <1>1, <2>2, <2>3, <2>4 DEF IInv, TypeOK
<1>9. PageSound'
  <2>1. cursor' \in 0 .. Len(Ids)
    BY <1>1, <1>2, <1>5
  <2>2. found' \subseteq {Ids[i] : i \in 1 .. cursor'}
    <3>1. 1 .. cursor \subseteq 1 .. cursor'
      BY <1>1, <1>2, <1>5
    <3>2. ASSUME NEW i \in Firsts(n) PROVE i \in 1 .. cursor'
      <4>1. i \in 1 .. Len(Ids) /\ i <= LastOf(n)
        BY <1>5, <1>6
      <4> QED
        BY <1>1, <1>2, <1>5, <4>1
    <3> QED
      BY <1>1, <3>1, <3>2 DEF IInv, PageSound
  <2>3. ASSUME NEW i \in 1 .. cursor', Ids[i] \in atStart PROVE Ids[i] \in found'
    <3>1. CASE i <= cursor
      BY <1>1, <1>2, <2>3, <3>1 DEF IInv, PageSound
    <3>2. CASE ~ (i <= cursor)
      <4>1. i \in 1 .. Len(Ids) /\ i > cursor /\ Ids[i] \in exists
        BY <1>1, <1>2, <1>5, <2>3, <3>2 DEF IInv, TypeOK
      <4>2. i \in Pending /\ i <= LastOf(n)
        BY <1>1, <1>2, <2>3, <4>1 DEF Pending
      <4> QED
        BY <1>1, <1>5, <4>2
    <3> QED
      BY <3>1, <3>2
  <2> QED
    BY <1>1, <1>7, <2>1, <2>2, <2>3 DEF IInv, PageSound
<1>10. TargetsBehind' /\ Counted' /\ CutOffIsFull'
  BY <1>1 DEF IInv, TargetsBehind, Counted, CutOffIsFull
<1>11. SeedsBehind' /\ ResultSound'
  BY <1>1 DEF IInv, SeedsBehind, ResultSound
<1> QED
  BY <1>8, <1>9, <1>10, <1>11 DEF IInv

LEMMA PageInv ==
  ASSUME IInv, pc = "prefixes", UNCHANGED rest,
         NEW n \in 0 .. Cardinality(Pending), NEW next \in NextCursors(n), AfterPage(n, next)
  PROVE  IInv'
<1> DEFINE page(k) == {Ids[i] : i \in Firsts(k)}
<1>1. /\ TypeOK /\ PageSound /\ Cardinality(Pending) \in Nat /\ n \in Nat
  BY PendingFacts DEF IInv
<1>2. /\ Limit \in Nat /\ remaining \in 1 .. Limit /\ Cardinality(found) = Limit - remaining
  BY <1>1, ProviderAssumption DEF TypeOK
\* A page as large as what is still wanted, or larger, makes it full.
<1>3. CASE n > remaining
  <2>1. remaining \in 0 .. Cardinality(Pending)
    BY <1>1, <1>2, <1>3
  <2>2. /\ IsFiniteSet(found \cup page(remaining)) /\ found \cup page(remaining) \subseteq exists
        /\ Cardinality(found \cup page(remaining)) = Cardinality(found) + remaining
    BY <1>1, <2>1, PageFacts
  <2>3. Cardinality(found \cup page(remaining)) = Limit
    BY <1>2, <2>2
  <2>4. ~(n <= remaining) /\ n # remaining /\ ~(n < remaining)
    BY <1>1, <1>2, <1>3
  <2>5. FoundIn(found \cup page(remaining), TRUE)
    BY <2>4, Zenon DEF AfterPage
  <2>6. PICK ids \in SUBSET exists : ids = found \cup page(remaining)
    BY <2>2
  <2>7. Cardinality(ids) \in 0 .. Limit
    BY <1>2, <2>3, <2>6
  <2> HIDE DEF page
  <2> QED
    BY <2>2, <2>3, <2>5, <2>6, <2>7, FoundInInv
<1>4. CASE n <= remaining
  <2>0. ~(n > remaining) /\ (n < remaining \/ n = remaining)
    BY <1>1, <1>2, <1>4
  <2>1. /\ IsFiniteSet(found \cup page(n)) /\ found \cup page(n) \subseteq exists
        /\ Cardinality(found \cup page(n)) = Cardinality(found) + n
    BY <1>1, PageFacts
  <2>2. Cardinality(found \cup page(n)) \in 0 .. Limit
    BY <1>1, <1>2, <1>4, <2>1
  <2>3. CASE next = 0
    <3>1. FoundIn(found \cup page(n), FALSE)
      BY <2>0, <2>3, Zenon DEF AfterPage
    <3>2. n = Cardinality(Pending)
      <4>1. n = 0 => 0 \notin 1 .. Len(Ids)
        OBVIOUS
      <4> QED
        BY <2>3, <4>1 DEF NextCursors
    <3>3. Values(Ids) \cap atStart \subseteq found \cup page(n)
      BY <1>1, <3>2, AllFound
    <3> QED
      BY <2>1, <2>2, <3>1, <3>3, FoundInInv
  <2>4. CASE next # 0 /\ n = remaining
    <3>0. ~(n < remaining)
      BY <1>2, <2>4
    <3>1. FoundIn(found \cup page(n), TRUE)
      BY <2>0, <2>4, <3>0, Zenon DEF AfterPage
    <3>2. Cardinality(found \cup page(n)) = Limit
      BY <1>2, <2>1, <2>4
    <3> QED
      BY <2>1, <2>2, <3>1, <3>2, FoundInInv
  <2>5. CASE next # 0 /\ n # remaining /\ (n = 0 \/ next = cursor)
    <3>1. n < remaining
      BY <1>1, <1>2, <1>4, <2>5
    <3>2. Failed
      BY <2>0, <2>5, Zenon DEF AfterPage
    <3> QED
      BY <3>2, FailedInv
  <2>6. CASE next # 0 /\ n # remaining /\ n # 0 /\ next # cursor
    <3>1. n < remaining /\ n \in 1 .. Cardinality(Pending)
      BY <1>1, <1>2, <1>4, <2>6
    <3>2. next = LastOf(n)
      BY <2>6 DEF NextCursors
    <3>3. Continue(page(n), next)
      BY <2>0, <2>6, Zenon DEF AfterPage
    <3> QED
      BY <3>1, <3>2, <3>3, ContinueInv
  <2> QED
    BY <2>3, <2>4, <2>5, <2>6
<1> QED
  BY <1>1, <1>2, <1>3, <1>4

LEMMA SeedReadInv ==
  ASSUME IInv, NEW ids \in SUBSET exists, NEW failures \in SUBSET DOMAIN Seeds,
         SeedRead(ids, failures),
         Seeds[seed].id \in atStart =>
           \/ Seeds[seed].id \in ids \/ seed \in failures \/ Seeds[seed].family \in discovered
  PROVE  IInv'
<1>1. /\ pc = "seeds" /\ seed <= Len(Seeds) /\ seed' = seed + 1 /\ read' = read \cup ids
      /\ failedSeeds' = failedSeeds \cup failures
      /\ UNCHANGED <<mode, exists, pc, target, cursor, remaining, found, discovered,
                     diagnostics, result, atStart>>
  BY DEF SeedRead, position
<1>2. seed \in 1 .. Len(Seeds) + 1 /\ Len(Seeds) \in Nat /\ DOMAIN Seeds = 1 .. Len(Seeds)
  BY ListFacts DEF IInv, TypeOK
<1>3. TypeOK'
  BY <1>1, <1>2 DEF IInv, TypeOK
<1>4. PageSound' /\ CutOffIsFull' /\ ResultSound'
  BY <1>1 DEF IInv, PageSound, CutOffIsFull, ResultSound
<1>5. TargetsBehind' /\ Counted'
  BY <1>1 DEF IInv, TargetsBehind, Counted
<1>6. SeedsBehind'
  <2>1. ASSUME NEW s \in DOMAIN Seeds, s < seed', Seeds[s].id \in atStart
        PROVE  Seeds[s].id \in read' \/ s \in failedSeeds' \/ Seeds[s].family \in discovered
    <3>1. CASE s = seed
      BY <1>1, <2>1, <3>1
    <3>2. CASE s # seed
      <4>1. s < seed
        BY <1>1, <1>2, <2>1, <3>2
      <4> QED
        BY <1>1, <2>1, <4>1 DEF IInv, SeedsBehind
    <3> QED
      BY <3>1, <3>2
  <2> QED
    BY <1>1, <2>1 DEF SeedsBehind
<1> QED
  BY <1>3, <1>4, <1>5, <1>6 DEF IInv

LEMMA FinishInv == IInv /\ Finish => IInv'
<1> SUFFICES ASSUME IInv, Finish PROVE IInv'
  OBVIOUS
<1>1. /\ pc = "seeds" /\ seed > Len(Seeds) /\ pc' = "done" /\ result' = Outcome
      /\ UNCHANGED <<mode, exists, target, cursor, remaining, found, seed, discovered,
                     diagnostics, failedSeeds, read, atStart>>
  BY DEF Finish, position
<1>2. Outcome \in {"graph", "fixture", "error"} /\ Outcome' = Outcome
  BY <1>1 DEF Outcome, SomeError
<1>3. TypeOK' /\ PageSound'
  BY <1>1, <1>2 DEF IInv, TypeOK, PageSound
<1>4. TargetsBehind' /\ Counted' /\ CutOffIsFull'
  BY <1>1 DEF IInv, TargetsBehind, Counted, CutOffIsFull
<1>5. SeedsBehind' /\ ResultSound'
  BY <1>1, <1>2, ListFacts DEF IInv, TypeOK, SeedsBehind, ResultSound
<1> QED
  BY <1>3, <1>4, <1>5 DEF IInv

LEMMA NextInv == IInv /\ [Next]_vars => IInv'
<1> SUFFICES ASSUME IInv, [Next]_vars PROVE IInv'
  OBVIOUS
<1>1. CASE Snapshot
  BY <1>1, SnapshotInv
<1>2. CASE PrefixPage
  BY <1>2, PageInv DEF PrefixPage, rest
<1>3. CASE PrefixError
  BY <1>3, FailedInv DEF PrefixError, rest
<1>4. CASE SkipSeed \/ QuerySeed \/ SeedError
  <2>1. seed \in DOMAIN Seeds
    BY <1>4, ListFacts DEF SkipSeed, QuerySeed, SeedError, SeedRead, IInv, TypeOK
  <2>2. atStart \subseteq exists
    BY DEF IInv, TypeOK
  <2>3. CASE SkipSeed
    <3>1. SeedRead({}, {}) /\ Seeds[seed].family \in discovered
      BY <2>3, <2>1, ListFacts DEF SkipSeed, NeedsSeed
    <3> QED
      BY <3>1, SeedReadInv
  <2>4. CASE QuerySeed
    <3>1. SeedRead({Seeds[seed].id} \cap exists, {})
      BY <2>4 DEF QuerySeed
    <3>2. Seeds[seed].id \in atStart => Seeds[seed].id \in {Seeds[seed].id} \cap exists
      BY <2>2
    <3> QED
      BY <3>1, <3>2, SeedReadInv
  <2>5. CASE SeedError
    <3>1. SeedRead({}, {seed})
      BY <2>5 DEF SeedError
    <3> QED
      BY <2>1, <3>1, SeedReadInv
  <2> QED
    BY <1>4, <2>3, <2>4, <2>5
<1>5. CASE Finish
  BY <1>5, FinishInv
<1>6. CASE \E e \in Entities : Birth(e)
  BY <1>6, BirthInv
<1>7. CASE UNCHANGED vars
  <2>1. UNCHANGED <<mode, exists, pc, target, cursor, remaining, found, seed, discovered,
                    diagnostics, failedSeeds, read, result, atStart>>
    BY <1>7 DEF vars
  <2>2. TypeOK'
    BY <2>1 DEF IInv, TypeOK
  <2>3. PageSound' /\ TargetsBehind' /\ Counted' /\ CutOffIsFull'
    BY <2>1 DEF IInv, PageSound, TargetsBehind, Counted, CutOffIsFull, Ids
  <2>4. SeedsBehind' /\ ResultSound'
    BY <2>1 DEF IInv, SeedsBehind, ResultSound, Outcome, SomeError
  <2> QED
    BY <2>2, <2>3, <2>4 DEF IInv
<1> QED
  BY <1>1, <1>2, <1>3, <1>4, <1>5, <1>6, <1>7 DEF Next, Read

\* The pages so far, the targets behind and the identifiers behind are accounted for in
\* every state of every call.
THEOREM SnapshotInvariant == Spec => []IInv
  BY InitInv, NextInv, PTL DEF Spec

-----------------------------------------------------------------------------

\* In every reachable state the provider's variables have their types, and what was taken
\* from a prefix and what is still wanted of it add up to the limit.
THEOREM SnapshotTypeCorrect == Spec => []TypeOK
  BY SnapshotInvariant, PTL DEF IInv

\* However many entities a prefix has and however the service pages through them, a prefix
\* is said to be cut off only when the limit was really reached.
THEOREM CutOffOnlyWhenFull == Spec => []CutOffIsFull
  BY SnapshotInvariant, PTL DEF IInv

\* A snapshot of the graph has all of a discovered prefix that existed when the call began,
\* or an alert for that prefix.
THEOREM NothingMissingSilently == Spec => []MissingIsReported
<1>1. ASSUME IInv, result = "graph", mode.discovery, NEW t \in DOMAIN Targets
      PROVE  Values(Targets[t].ids) \cap atStart \subseteq read \/ t \in Alerts
  <2>1. pc = "done"
    BY <1>1 DEF IInv, ResultSound
  <2>2. t < target
    BY <1>1, <2>1, ListFacts DEF IInv, TargetsBehind
  <2> QED
    BY <1>1, <2>2 DEF IInv, TargetsBehind, Alerts
<1>2. IInv => MissingIsReported
  BY <1>1 DEF MissingIsReported
<1> QED
  BY <1>2, SnapshotInvariant, PTL

\* The configured identifiers behind a call that is done.
LEMMA SeedsDone ==
  ASSUME IInv, pc = "done", NEW s \in DOMAIN Seeds, Seeds[s].id \in atStart
  PROVE  Seeds[s].id \in read \/ s \in failedSeeds \/ Seeds[s].family \in discovered
<1>1. s < seed
  BY ListFacts DEF IInv, SeedsBehind
<1> QED
  BY <1>1 DEF IInv, SeedsBehind

\* A configured identifier that existed is in the snapshot, unless its own read failed or
\* discovery found others of its family.
THEOREM SeedsBackDiscoveryUp == Spec => []SeedsBackUp
<1>1. ASSUME IInv, result = "graph", NEW s \in DOMAIN Seeds, Seeds[s].id \in atStart
      PROVE  \/ Seeds[s].id \in read
             \/ s \in failedSeeds
             \/ \E t \in DOMAIN Targets :
                  Targets[t].family = Seeds[s].family /\ diagnostics[t].count > 0
  <2>1. pc = "done"
    BY <1>1 DEF IInv, ResultSound
  <2>2. Seeds[s].id \in read \/ s \in failedSeeds \/ Seeds[s].family \in discovered
    BY <1>1, <2>1, SeedsDone
  <2> QED
    BY <1>1, <2>2 DEF IInv, Counted
<1>2. IInv => SeedsBackUp
  BY <1>1 DEF SeedsBackUp
<1> QED
  BY <1>2, SnapshotInvariant, PTL

\* The fixture or an error stands in for the graph only when nothing that existed could
\* be read.
THEOREM OutagesAreTotal == Spec => []OutageIsTotal
<1>1. ASSUME IInv, result \in {"fixture", "error"} PROVE pc = "done" /\ read = {}
  BY <1>1 DEF IInv, ResultSound, Outcome
<1>2. ASSUME IInv, result \in {"fixture", "error"},
             NEW s \in DOMAIN Seeds, Seeds[s].id \in atStart
      PROVE  s \in failedSeeds
  <2>1. Seeds[s].id \in read \/ s \in failedSeeds \/ Seeds[s].family \in discovered
    BY <1>1, <1>2, SeedsDone
  <2> QED
    BY <1>1, <1>2, <2>1 DEF IInv, Counted
<1>3. ASSUME IInv, result \in {"fixture", "error"}, mode.discovery, NEW t \in DOMAIN Targets,
             Values(Targets[t].ids) \cap atStart # {}
      PROVE  diagnostics[t].error
  <2>1. t < target
    BY <1>1, <1>3, ListFacts DEF IInv, TargetsBehind
  <2>2. ~ (Values(Targets[t].ids) \cap atStart \subseteq read)
    BY <1>1, <1>3
  <2>3. ~ diagnostics[t].atLimit
    <3>1. SUFFICES ASSUME diagnostics[t].atLimit PROVE FALSE
      OBVIOUS
    <3>2. diagnostics[t].count = Limit
      BY <1>3, <3>1 DEF IInv, CutOffIsFull
    <3>3. diagnostics[t].count > 0
      BY <3>2, ProviderAssumption
    <3> QED
      BY <1>1, <1>3, <3>3 DEF IInv, Counted
  <2> QED
    BY <1>3, <2>1, <2>2, <2>3 DEF IInv, TargetsBehind
<1>4. IInv => OutageIsTotal
  BY <1>2, <1>3 DEF OutageIsTotal
<1> QED
  BY <1>4, SnapshotInvariant, PTL
=============================================================================
