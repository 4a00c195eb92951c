------------------------ MODULE PlaybackBroker_proofs ------------------------
(***************************************************************************)
(* Proofs about PlaybackBroker, for any recordings, handlers, requests and *)
(* size of the cache: types, then that only whole and verified files are   *)
(* served, then that what viewers were promised fits the limit, then that  *)
(* what is young stays while there is room.                                *)
(***************************************************************************)
EXTENDS PlaybackBroker, TLAPS, FiniteSetTheorems, SequenceTheorems, NaturalsInduction, WellFoundedInduction

----------------------------------------------------------------------------
(* What is left of a sequence of files                                     *)

LEMMA MinFacts ==
  ASSUME NEW S, S \subseteq Nat, S # {}
  PROVE  Min(S) \in S /\ \A y \in S : Min(S) <= y
<1>1. PICK x \in S : \A y \in S : ~(<<y, x>> \in OpToRel(<, Nat))
  BY NatLessThanWellFounded, WFMin, Zenon
<1>2. \A y \in S : ~(y < x)
  BY <1>1 DEF OpToRel
<1>3. \A y \in S : x <= y
  BY <1>2
<1> QED BY <1>3 DEF Min

(* The function Without goes through, up to position m.                    *)
IsRest(c, K, m, f) ==
  f = [n \in 0..m |-> IF n = 0 THEN <<>>
                      ELSE IF c[n].key \in K THEN f[n - 1] ELSE Append(f[n - 1], c[n])]

LEMMA RestExists ==
  ASSUME NEW c, NEW K, NEW m \in Nat
  PROVE  \E f : IsRest(c, K, m, f)
<1> DEFINE Bad == {k \in Nat : ~\E f : IsRest(c, K, k, f)}
<1> SUFFICES ASSUME Bad # {} PROVE FALSE
  OBVIOUS
<1>1. Min(Bad) \in Bad /\ \A y \in Bad : Min(Bad) <= y
  BY MinFacts
<1>2. PICK k \in Nat : ~(\E f : IsRest(c, K, k, f)) /\ \A y \in Bad : k <= y
  BY <1>1
<1>3. CASE k = 0
  <2>1. IsRest(c, K, 0, [n \in 0..0 |-> <<>>])
    BY DEF IsRest
  <2> QED BY <1>2, <1>3, <2>1
<1>4. CASE k # 0
  <2>1. k - 1 \in Nat /\ k - 1 \notin Bad
    BY <1>2, <1>4
  <2>2. PICK f : IsRest(c, K, k - 1, f)
    BY <2>1
  <2> DEFINE last == IF c[k].key \in K THEN f[k - 1] ELSE Append(f[k - 1], c[k])
             g == [n \in 0..k |-> IF n = k THEN last ELSE f[n]]
  <2>3. \A n \in 0..(k - 1) : g[n] = f[n]
    OBVIOUS
  <2>4. g[k] = last
    OBVIOUS
  <2>5. \A n \in 0..(k - 1) :
          f[n] = IF n = 0 THEN <<>>
                 ELSE IF c[n].key \in K THEN f[n - 1] ELSE Append(f[n - 1], c[n])
    BY <2>2 DEF IsRest
  <2> HIDE DEF g
  <2>6. \A n \in 0..k :
          g[n] = IF n = 0 THEN <<>>
                 ELSE IF c[n].key \in K THEN g[n - 1] ELSE Append(g[n - 1], c[n])
    <3> SUFFICES ASSUME NEW n \in 0..k
                 PROVE  g[n] = IF n = 0 THEN <<>>
                               ELSE IF c[n].key \in K THEN g[n - 1] ELSE Append(g[n - 1], c[n])
      OBVIOUS
    <3>1. CASE n = k
      <4>1. g[k - 1] = f[k - 1]
        BY <2>3, <2>1
      <4> QED BY <3>1, <4>1, <2>4, <1>4
    <3>2. CASE n # k
      <4>1. n \in 0..(k - 1)
        BY <3>2
      <4>2. CASE n = 0
        BY <4>1, <4>2, <2>3, <2>5
      <4>3. CASE n # 0
        <5>1. n - 1 \in 0..(k - 1)
          BY <4>1, <4>3
        <5> QED BY <4>1, <4>3, <5>1, <2>3, <2>5
      <4> QED BY <4>2, <4>3
    <3> QED BY <3>1, <3>2
  <2>7. g = [n \in 0..k |-> g[n]]
    BY DEF g
  <2>8. IsRest(c, K, k, g)
    BY <2>6, <2>7 DEF IsRest
  <2> QED BY <1>2, <2>8
<1> QED BY <1>3, <1>4

(* d is made of files of c, each one taken once.                           *)
TakenFrom(d, c, n) ==
  \E g \in [1..Len(d) -> 1..n] :
     /\ \A i, j \in 1..Len(d) : g[i] = g[j] => i = j
     /\ \A j \in 1..Len(d) : d[j] = c[g[j]]

(* What Without has to be for the first n files of c.                      *)
IsWithout(d, c, K, n) ==
  /\ d \in Seq(File)
  /\ Len(d) = n - Cardinality({i \in 1..n : c[i].key \in K})
  /\ TakenFrom(d, c, n)
  /\ \A j \in 1..Len(d) : d[j].key \notin K
  /\ \A i \in 1..n : c[i].key \notin K => \E j \in 1..Len(d) : d[j] = c[i]

LEMMA AppendFacts ==
  ASSUME NEW d \in Seq(File), NEW e \in File
  PROVE  /\ Append(d, e) \in Seq(File) /\ Len(d) \in Nat
         /\ Len(Append(d, e)) = Len(d) + 1
         /\ Append(d, e)[Len(d) + 1] = e
         /\ \A j \in 1..Len(d) : Append(d, e)[j] = d[j]
OBVIOUS

LEMMA UpToFinite ==
  ASSUME NEW n \in Nat, NEW I, I \subseteq 1..n
  PROVE  IsFiniteSet(I) /\ Cardinality(I) \in Nat /\ Cardinality(I) <= n
<1>1. IsFiniteSet(1..n) /\ Cardinality(1..n) = n
  BY FS_Interval
<1>2. IsFiniteSet(I) /\ Cardinality(I) <= n
  BY <1>1, FS_Subset
<1> QED BY <1>2, FS_CardinalityType

LEMMA WithoutStart ==
  ASSUME NEW c, NEW K
  PROVE  IsWithout(<<>>, c, K, 0)
<1>1. {i \in 1..0 : c[i].key \in K} = {}
  OBVIOUS
<1>2. TakenFrom(<<>>, c, 0)
  <2>1. [i \in {} |-> 0] \in [1..Len(<<>>) -> 1..0]
    OBVIOUS
  <2> QED BY <2>1 DEF TakenFrom
<1> QED BY <1>1, <1>2, FS_EmptySet DEF IsWithout

LEMMA WithoutDrops ==
  ASSUME NEW c \in Seq(File), NEW K, NEW k \in Nat \ {0}, k <= Len(c), NEW d,
         IsWithout(d, c, K, k - 1), c[k].key \in K
  PROVE  IsWithout(d, c, K, k)
<1> DEFINE Out == {i \in 1..(k - 1) : c[i].key \in K}
<1>1. {i \in 1..k : c[i].key \in K} = Out \cup {k} /\ k \notin Out
  OBVIOUS
<1>2. IsFiniteSet(Out) /\ Cardinality(Out) \in Nat
  BY UpToFinite
<1>3. Cardinality(Out \cup {k}) = Cardinality(Out) + 1
  BY <1>1, <1>2, FS_AddElement
<1>4. Len(d) = k - Cardinality(Out \cup {k})
  BY <1>2, <1>3 DEF IsWithout
<1>5. TakenFrom(d, c, k)
  <2>1. PICK g \in [1..Len(d) -> 1..(k - 1)] :
               /\ \A i, j \in 1..Len(d) : g[i] = g[j] => i = j
               /\ \A j \in 1..Len(d) : d[j] = c[g[j]]
    BY DEF IsWithout, TakenFrom
  <2>2. g \in [1..Len(d) -> 1..k]
    OBVIOUS
  <2> QED BY <2>1, <2>2 DEF TakenFrom
<1>6. \A i \in 1..k : c[i].key \notin K => \E j \in 1..Len(d) : d[j] = c[i]
  <2>1. \A i \in 1..k : c[i].key \notin K => i \in 1..(k - 1)
    OBVIOUS
  <2> QED BY <2>1 DEF IsWithout
<1> QED BY <1>1, <1>4, <1>5, <1>6 DEF IsWithout

LEMMA WithoutKeeps ==
  ASSUME NEW c \in Seq(File), NEW K, NEW k \in Nat \ {0}, k <= Len(c), NEW d,
         IsWithout(d, c, K, k - 1), c[k].key \notin K
  PROVE  IsWithout(Append(d, c[k]), c, K, k)
<1> DEFINE Out == {i \in 1..(k - 1) : c[i].key \in K}
           a == Append(d, c[k])
<1>1. {i \in 1..k : c[i].key \in K} = Out
  OBVIOUS
<1>2. IsFiniteSet(Out) /\ Cardinality(Out) \in Nat
  BY UpToFinite
<1>3. d \in Seq(File) /\ Len(d) \in Nat /\ Len(d) = k - 1 - Cardinality(Out) /\ c[k] \in File
  BY DEF IsWithout
<1>4. /\ a \in Seq(File) /\ Len(a) = Len(d) + 1
      /\ a[Len(d) + 1] = c[k] /\ \A j \in 1..Len(d) : a[j] = d[j]
  BY <1>3, AppendFacts
<1>5. Len(a) = k - Cardinality(Out)
  BY <1>2, <1>3, <1>4
<1> HIDE DEF a
<1>6. TakenFrom(a, c, k)
  <2>1. PICK g \in [1..Len(d) -> 1..(k - 1)] :
               /\ \A i, j \in 1..Len(d) : g[i] = g[j] => i = j
               /\ \A j \in 1..Len(d) : d[j] = c[g[j]]
    BY DEF IsWithout, TakenFrom
  <2> DEFINE h == [j \in 1..Len(a) |-> IF j <= Len(d) THEN g[j] ELSE k]
  <2>2. h \in [1..Len(a) -> 1..k]
    BY <1>3, <1>4
  <2>3. ASSUME NEW i \in 1..Len(a), NEW j \in 1..Len(a), h[i] = h[j]
        PROVE  i = j
    <3>1. CASE i <= Len(d) /\ j <= Len(d)
      <4>1. i \in 1..Len(d) /\ j \in 1..Len(d) /\ g[i] = g[j]
        BY <2>3, <3>1
      <4> QED BY <4>1, <2>1
    <3>2. CASE i > Len(d) /\ j > Len(d)
      BY <3>2, <1>3, <1>4
    <3>3. CASE i <= Len(d) /\ j > Len(d)
      BY <3>3, <2>3, <1>3
    <3>4. CASE i > Len(d) /\ j <= Len(d)
      BY <3>4, <2>3, <1>3
    <3> QED BY <3>1, <3>2, <3>3, <3>4, <1>3, <1>4
  <2>4. ASSUME NEW j \in 1..Len(a)
        PROVE  a[j] = c[h[j]]
    <3>1. CASE j <= Len(d)
      <4>1. j \in 1..Len(d) /\ h[j] = g[j]
        BY <3>1
      <4> QED BY <4>1, <2>1, <1>4
    <3>2. CASE j > Len(d)
      <4>1. j = Len(d) + 1 /\ h[j] = k
        BY <3>2, <1>3, <1>4
      <4> QED BY <4>1, <1>4
    <3> QED BY <3>1, <3>2, <1>3
  <2> HIDE DEF h
  <2> QED BY <2>2, <2>3, <2>4 DEF TakenFrom
<1>7. \A j \in 1..Len(a) : a[j].key \notin K
  BY <1>3, <1>4 DEF IsWithout
<1>8. ASSUME NEW i \in 1..k, c[i].key \notin K
      PROVE  \E j \in 1..Len(a) : a[j] = c[i]
  <2>1. CASE i = k
    <3>1. Len(d) + 1 \in 1..Len(a)
      BY <1>3, <1>4
    <3> QED BY <2>1, <3>1, <1>4
  <2>2. CASE i # k
    <3>1. i \in 1..(k - 1)
      BY <2>2
    <3>2. PICK j \in 1..Len(d) : d[j] = c[i]
      BY <3>1, <1>8 DEF IsWithout
    <3>3. j \in 1..Len(a)
      BY <1>3, <1>4
    <3> QED BY <3>2, <3>3, <1>4
  <2> QED BY <2>1, <2>2
<1>9. IsWithout(a, c, K, k)
  BY <1>1, <1>4, <1>5, <1>6, <1>7, <1>8 DEF IsWithout
<1> QED BY <1>9 DEF a

(* Without, for the whole of c.                                            *)
LEMMA WithoutFacts ==
  ASSUME NEW c \in Seq(File), NEW K
  PROVE  IsWithout(Without(c, K), c, K, Len(c))
<1> DEFINE Rest == CHOOSE f : IsRest(c, K, Len(c), f)
           Bad == {k \in Nat : k <= Len(c) /\ ~IsWithout(Rest[k], c, K, k)}
<1>1. Without(c, K) = Rest[Len(c)]
  BY DEF Without, IsRest
<1>2. IsRest(c, K, Len(c), Rest)
  BY RestExists
<1> HIDE DEF Rest
<1>3. \A n \in 0..Len(c) :
        Rest[n] = IF n = 0 THEN <<>>
                  ELSE IF c[n].key \in K THEN Rest[n - 1] ELSE Append(Rest[n - 1], c[n])
  BY <1>2 DEF IsRest
<1>4. Bad = {}
  <2> SUFFICES ASSUME Bad # {} PROVE FALSE
    OBVIOUS
  <2>1. Min(Bad) \in Bad /\ \A y \in Bad : Min(Bad) <= y
    BY MinFacts
  <2>2. PICK k \in Nat : /\ k <= Len(c) /\ ~IsWithout(Rest[k], c, K, k)
                         /\ \A y \in Bad : k <= y
    BY <2>1
  <2>3. k # 0
    BY <2>2, <1>3, WithoutStart
  <2>4. IsWithout(Rest[k - 1], c, K, k - 1)
    <3>1. k - 1 \in Nat /\ k - 1 <= Len(c) /\ ~(k <= k - 1)
      BY <2>2, <2>3
    <3> QED BY <3>1, <2>2
  <2>5. CASE c[k].key \in K
    <3>1. Rest[k] = Rest[k - 1]
      BY <2>2, <2>3, <2>5, <1>3
    <3> QED BY <2>2, <2>3, <2>4, <2>5, <3>1, WithoutDrops
  <2>6. CASE c[k].key \notin K
    <3>1. Rest[k] = Append(Rest[k - 1], c[k])
      <4>1. k \in 0..Len(c)
        BY <2>2
      <4> QED BY <4>1, <2>3, <2>6, <1>3
    <3> QED BY <2>2, <2>3, <2>4, <2>6, <3>1, WithoutKeeps
  <2> QED BY <2>5, <2>6
<1> QED BY <1>1, <1>4

----------------------------------------------------------------------------
(* What the clean-up leaves                                                *)

Part(d, c) == d \in Seq(File) /\ TakenFrom(d, c, Len(c))

LEMMA PartTransitive ==
  ASSUME NEW c \in Seq(File), NEW d, NEW e, Part(d, c), Part(e, d)
  PROVE  Part(e, c)
<1>1. PICK g \in [1..Len(d) -> 1..Len(c)] :
             /\ \A i, j \in 1..Len(d) : g[i] = g[j] => i = j
             /\ \A j \in 1..Len(d) : d[j] = c[g[j]]
  BY DEF Part, TakenFrom
<1>2. PICK h \in [1..Len(e) -> 1..Len(d)] :
             /\ \A i, j \in 1..Len(e) : h[i] = h[j] => i = j
             /\ \A j \in 1..Len(e) : e[j] = d[h[j]]
  BY DEF Part, TakenFrom
<1> DEFINE gh == [j \in 1..Len(e) |-> g[h[j]]]
<1>3. gh \in [1..Len(e) -> 1..Len(c)] /\ \A j \in 1..Len(e) : gh[j] = g[h[j]] /\ h[j] \in 1..Len(d)
  OBVIOUS
<1> HIDE DEF gh
<1>4. \A i, j \in 1..Len(e) : gh[i] = gh[j] => i = j
  BY <1>1, <1>2, <1>3
<1>5. \A j \in 1..Len(e) : e[j] = c[gh[j]]
  BY <1>1, <1>2, <1>3
<1> QED BY <1>3, <1>4, <1>5 DEF Part, TakenFrom

LEMMA SuffixFacts ==
  ASSUME NEW c \in Seq(File), NEW k \in 0..Len(c)
  PROVE  LET d == SubSeq(c, k + 1, Len(c))
         IN /\ d \in Seq(File) /\ Len(d) = Len(c) - k
            /\ \A j \in 1..Len(d) : d[j] = c[k + j]
            /\ Part(d, c)
<1> DEFINE d == SubSeq(c, k + 1, Len(c))
<1>1. /\ d \in Seq(File) /\ Len(d) = Len(c) - k /\ Len(d) \in Nat
      /\ \A j \in 1..Len(d) : d[j] = c[k + j]
  OBVIOUS
<1> HIDE DEF d
<1> DEFINE g == [j \in 1..Len(d) |-> k + j]
<1>2. g \in [1..Len(d) -> 1..Len(c)]
  BY <1>1
<1>3. /\ \A i, j \in 1..Len(d) : g[i] = g[j] => i = j
      /\ \A j \in 1..Len(d) : d[j] = c[g[j]]
  BY <1>1
<1>4. Part(d, c)
  BY <1>1, <1>2, <1>3 DEF Part, TakenFrom
<1> QED BY <1>1, <1>4 DEF d

LEMMA TotalType ==
  ASSUME NEW c \in Seq(File)
  PROVE  Total(c) \in Nat
BY UpToFinite DEF Total

Fits(c, k) == Total(SubSeq(c, k + 1, Len(c))) <= CacheMax

LEMMA AllGone ==
  ASSUME NEW c \in Seq(File)
  PROVE  Fits(c, Len(c))
<1>1. SubSeq(c, Len(c) + 1, Len(c)) = <<>>
  OBVIOUS
<1>2. Total(<<>>) = 0
  <2> DEFINE none == {i \in 1..Len(<<>>) : <<>>[i].size > 0}
  <2>1. 1..Len(<<>>) = {}
    OBVIOUS
  <2>2. none = {}
    BY <2>1
  <2>3. Cardinality(none) = 0
    BY <2>2, FS_EmptySet
  <2> QED BY <2>3 DEF Total
<1>3. Total(SubSeq(c, Len(c) + 1, Len(c))) = 0
  BY <1>1, <1>2, Zenon
<1>4. 0 <= CacheMax
  BY CacheMaxAssumption
<1> QED BY <1>3, <1>4 DEF Fits

(* enforceCacheLimitLocked keeps what fits.                                *)
LEMMA EvictFacts ==
  ASSUME NEW c \in Seq(File)
  PROVE  /\ Evict(c) \in Seq(File) /\ Part(Evict(c), c) /\ Total(Evict(c)) <= CacheMax
         /\ Total(c) <= CacheMax => Evict(c) = c
<1> DEFINE S == {k \in 0..Len(c) : Fits(c, k)}
<1>1. Evict(c) = SubSeq(c, Min(S) + 1, Len(c))
  BY DEF Evict, Fits
<1>2. Len(c) \in S /\ S \subseteq Nat
  BY AllGone
<1>3. Min(S) \in S /\ \A k \in S : Min(S) <= k
  BY <1>2, MinFacts
<1>4. Min(S) \in 0..Len(c) /\ Fits(c, Min(S))
  BY <1>3
<1>5. ASSUME Total(c) <= CacheMax
      PROVE  Evict(c) = c
  <2>1. SubSeq(c, 1, Len(c)) = c
    BY SubSeqFull
  <2>2. Total(SubSeq(c, 1, Len(c))) <= CacheMax
    BY <1>5, <2>1, Zenon
  <2>3. Fits(c, 0)
    BY 0 + 1 = 1, <2>2, Zenon DEF Fits
  <2>4. Min(S) + 1 = 1
    BY <1>3, <1>4, <2>3
  <2> QED BY <1>1, <2>1, <2>4, Zenon
<1>6. Total(Evict(c)) <= CacheMax
  BY <1>1, <1>4 DEF Fits
<1> QED BY <1>1, <1>4, <1>5, <1>6, SuffixFacts

LEMMA WithoutPart ==
  ASSUME NEW c \in Seq(File), NEW K
  PROVE  Without(c, K) \in Seq(File) /\ Part(Without(c, K), c)
BY WithoutFacts DEF IsWithout, Part

----------------------------------------------------------------------------
(* The inductive invariant for the types: names of files are unique, and a *)
(* temporary file belongs to the handler it is named after, which has not  *)
(* renamed it yet.                                                         *)

Status == {"new", "queued", "uploading", "ready", "error", "gone"}
Stage  == {"idle", "copy", "copied", "renamed", "requeue", "fail"}

BrokerOK ==
  /\ status   \in [Id -> Status]
  /\ rec      \in [Id -> Recording \cup {None}]
  /\ age      \in [Id -> 0..2]
  /\ handler  \in [Handler -> [st : Stage, id : Id \cup {0}, good : BOOLEAN]]
  /\ \A u \in Handler : handler[u].st # "idle" => handler[u].id \in Id
  /\ job      \in [Site -> Id \cup {0}]
  /\ via      \in [Site -> Handler \cup {None}]
  /\ attempt  \in [Site -> 1..Attempts]
  /\ restarts \in 0..MaxRestarts

Distinct(c) ==
  \A i, j \in 1..Len(c) : c[i].key = c[j].key /\ c[i].key # None => i = j

TempsOf(c, h) ==
  \A i \in 1..Len(c), u \in Handler : c[i].key = u =>
     /\ h[u].st \in {"copy", "copied", "requeue", "fail"}
     /\ c[i].by = h[u].id
     /\ h[u].st = "copied" => c[i].size = 1

FileOK(c, h, n) == c \in Seq(File) /\ Distinct(c) /\ TempsOf(c, h) /\ n \in 0..Len(c)

TypeInv == BrokerOK /\ FileOK(cache, handler, expired)

LEMMA TypeInvGives == TypeInv => TypeOK
<1> SUFFICES ASSUME TypeInv PROVE TypeOK
  OBVIOUS
<1>1. \A i \in 1..Len(cache) : cache[i] \in File
  BY DEF TypeInv, FileOK
<1> QED BY <1>1 DEF TypeInv, FileOK, BrokerOK, TypeOK, Status, Stage

LEMMA CleanedType ==
  ASSUME BrokerOK, NEW i \in Id
  PROVE  Cleaned(i) \in Status /\ CleanAge(i) \in 0..2
<1>1. status[i] \in Status /\ age[i] \in 0..2
  BY DEF BrokerOK
<1>2. Cleaned(i) \in Status
  BY <1>1 DEF Cleaned, Status
<1> QED BY <1>1, <1>2 DEF CleanAge

LEMMA CleanRequestsType ==
  ASSUME BrokerOK, CleanRequests
  PROVE  /\ status' \in [Id -> Status] /\ rec' \in [Id -> Recording \cup {None}]
         /\ age' \in [Id -> 0..2]
BY CleanedType DEF CleanRequests, BrokerOK

LEMMA SetType ==
  ASSUME BrokerOK, NEW i \in Id, NEW st \in Status, Set(i, st)
  PROVE  /\ status' \in [Id -> Status] /\ rec' \in [Id -> Recording \cup {None}]
         /\ age' \in [Id -> 0..2]
BY DEF Set, BrokerOK

LEMMA IdleType ==
  Idle \in [st : Stage, id : Id \cup {0}, good : BOOLEAN] /\ Idle.st = "idle"
BY DEF Idle, Stage

LEMMA AgentTypes ==
  ASSUME BrokerOK, NEW s \in Site, AgentIdle(s) \/ TryAgain(s)
  PROVE  /\ job' \in [Site -> Id \cup {0}] /\ via' \in [Site -> Handler \cup {None}]
         /\ attempt' \in [Site -> 1..Attempts]
<1>1. CASE AgentIdle(s)
  <2>1. 1 \in 1..Attempts
    BY AttemptsAssumption
  <2> QED BY <1>1, <2>1 DEF AgentIdle, BrokerOK
<1>2. CASE TryAgain(s)
  <2>1. attempt[s] + 1 \in 1..Attempts
    BY <1>2, AttemptsAssumption DEF TryAgain, BrokerOK
  <2> QED BY <1>2, <2>1 DEF TryAgain, BrokerOK
<1> QED BY <1>1, <1>2

(* A handler of stage st has a request.                                    *)
LEMMA HandlerTypes ==
  ASSUME BrokerOK, NEW u \in Handler, NEW st \in Stage, NEW good \in BOOLEAN,
         handler[u].st # "idle",
         \/ handler' = [handler EXCEPT ![u].st = st]
         \/ handler' = [handler EXCEPT ![u].st = st, ![u].good = good]
         \/ handler' = [handler EXCEPT ![u] = Idle]
  PROVE  /\ handler' \in [Handler -> [st : Stage, id : Id \cup {0}, good : BOOLEAN]]
         /\ \A v \in Handler : handler'[v].st # "idle" => handler'[v].id \in Id
<1>1. handler[u] \in [st : Stage, id : Id \cup {0}, good : BOOLEAN] /\ handler[u].id \in Id
  BY DEF BrokerOK
<1>2. \A v \in Handler : v # u => handler'[v] = handler[v]
  BY DEF BrokerOK
<1>3. handler'[u] \in [st : Stage, id : Id \cup {0}, good : BOOLEAN]
  BY <1>1, IdleType DEF BrokerOK
<1>4. handler'[u].st # "idle" => handler'[u].id \in Id
  BY <1>1, IdleType DEF BrokerOK
<1>5. handler' \in [Handler -> [st : Stage, id : Id \cup {0}, good : BOOLEAN]]
  BY <1>1, <1>2, <1>3, IdleType DEF BrokerOK
<1> QED BY <1>2, <1>4, <1>5 DEF BrokerOK

LEMMA OfferIsFirst ==
  ASSUME BrokerOK, NEW s \in Site, Offer(s)
  PROVE  Min(Offerable(s)) \in Offerable(s) /\ Min(Offerable(s)) \in Id
<1>1. Offerable(s) \subseteq Id /\ Id \subseteq Nat /\ Offerable(s) # {}
  BY BoundsAssumption DEF Offer, Offerable, Id
<1>2. Min(Offerable(s)) \in Offerable(s)
  BY <1>1, MinFacts
<1> QED BY <1>1, <1>2

LEMMA BrokerStep ==
  ASSUME BrokerOK, Next
  PROVE  BrokerOK'
<1>1. ASSUME NEW r \in Recording, Prepare(r)
      PROVE  BrokerOK'
  <2> DEFINE fresh == {i \in Id : status[i] = "new"}
  <2>1. CASE CleanRequests
    BY <1>1, <2>1, CleanRequestsType DEF Prepare, BrokerOK, agentVars
  <2>2. CASE ~CleanRequests
    <3>1. /\ fresh # {}
          /\ status' = [i \in Id |-> IF i = Min(fresh) THEN "queued" ELSE Cleaned(i)]
          /\ rec'    = [rec EXCEPT ![Min(fresh)] = r]
          /\ age'    = [i \in Id |-> CleanAge(i)]
      BY <1>1, <2>2 DEF Prepare
    <3>2. /\ status' \in [Id -> Status] /\ rec' \in [Id -> Recording \cup {None}]
          /\ age' \in [Id -> 0..2]
      BY <3>1, CleanedType DEF BrokerOK, Status
    <3> QED BY <1>1, <3>2 DEF Prepare, BrokerOK, agentVars
  <2> QED BY <2>1, <2>2
<1>2. CASE StatusPoll
  BY <1>2, CleanRequestsType DEF StatusPoll, BrokerOK, agentVars
<1>3. ASSUME NEW s \in Site, Offer(s), job' \in {job, [job EXCEPT ![s] = Min(Offerable(s))]}
      PROVE  BrokerOK'
  <2> DEFINE i == Min(Offerable(s))
  <2>1. i \in Id
    BY <1>3, OfferIsFirst
  <2> HIDE DEF i
  <2>2. /\ status' = [j \in Id |-> IF j = i THEN "uploading" ELSE Cleaned(j)]
        /\ age'    = [j \in Id |-> IF j = i THEN 0 ELSE CleanAge(j)]
    BY <1>3 DEF Offer, i
  <2>3. status' \in [Id -> Status] /\ age' \in [Id -> 0..2]
    BY <2>2, CleanedType DEF Status
  <2>4. job' \in {job, [job EXCEPT ![s] = i]}
    BY <1>3 DEF i
  <2>5. job' \in [Site -> Id \cup {0}]
    BY <2>1, <2>4 DEF BrokerOK
  <2> QED BY <1>3, <2>3, <2>5 DEF Offer, BrokerOK
<1>4. ASSUME NEW s \in Site, NEW u \in Handler, BeginUpload(s, u)
      PROVE  BrokerOK'
  <2>1. job[s] \in Id /\ "uploading" \in Status
    BY <1>4 DEF BeginUpload, BrokerOK, Status
  <2>2. CASE status[job[s]] \in {"uploading", "queued"}
    <3>1. Set(job[s], "uploading") /\ via' = [via EXCEPT ![s] = u]
      BY <1>4, <2>2 DEF BeginUpload
    <3>2. PICK st \in {"copy", "fail", "requeue"} :
            handler' = [handler EXCEPT ![u] = [st |-> st, id |-> job[s], good |-> FALSE]]
      BY <1>4, <2>2 DEF BeginUpload
    <3>3. [st |-> st, id |-> job[s], good |-> FALSE] \in [st : Stage, id : Id \cup {0}, good : BOOLEAN]
      BY <2>1 DEF Stage
    <3>4. /\ handler' \in [Handler -> [st : Stage, id : Id \cup {0}, good : BOOLEAN]]
          /\ \A v \in Handler : handler'[v].st # "idle" => handler'[v].id \in Id
      BY <2>1, <3>2, <3>3 DEF BrokerOK
    <3>5. via' \in [Site -> Handler \cup {None}] /\ UNCHANGED <<job, attempt, restarts>>
      BY <1>4, <2>2, <3>1 DEF BeginUpload, BrokerOK
    <3> QED BY <2>1, <3>1, <3>4, <3>5, SetType DEF BrokerOK
  <2>3. CASE status[job[s]] \notin {"uploading", "queued"}
    <3>1. AgentIdle(s) /\ UNCHANGED <<status, rec, age, handler, restarts>>
      BY <1>4, <2>3 DEF BeginUpload, brokerVars
    <3> QED BY <3>1, AgentTypes DEF BrokerOK
  <2> QED BY <2>2, <2>3
<1>5. ASSUME NEW s \in Site, BreakUpload(s) \/ AgentRestart(s)
      PROVE  BrokerOK'
  <2>1. /\ AgentIdle(s) \/ TryAgain(s)
        /\ UNCHANGED <<status, rec, age, handler, restarts>>
    BY <1>5 DEF BreakUpload, AgentRestart, brokerVars
  <2> QED BY <2>1, AgentTypes DEF BrokerOK
<1>6. ASSUME NEW u \in Handler, Grow(u)
      PROVE  BrokerOK'
  BY <1>6 DEF Grow, BrokerOK, brokerVars, agentVars
<1>7. ASSUME NEW u \in Handler,
             CopyDone(u) \/ CopyInterrupted(u) \/ ChecksumMismatch(u) \/ Rename(u)
      PROVE  BrokerOK'
  <2>1. handler[u].st # "idle" /\ UNCHANGED <<status, rec, age, job, via, attempt, restarts>>
    BY <1>7 DEF CopyDone, CopyInterrupted, ChecksumMismatch, Rename, brokerVars, agentVars
  <2>2. \E st \in Stage, good \in BOOLEAN :
          \/ handler' = [handler EXCEPT ![u].st = st]
          \/ handler' = [handler EXCEPT ![u].st = st, ![u].good = good]
    <3>1. CASE CopyDone(u)
      BY <3>1 DEF CopyDone, Stage
    <3>2. CASE CopyInterrupted(u)
      BY <3>2 DEF CopyInterrupted, Stage
    <3>3. CASE ChecksumMismatch(u)
      BY <3>3 DEF ChecksumMismatch, Stage
    <3>4. CASE Rename(u)
      BY <3>4 DEF Rename, Stage
    <3> QED BY <1>7, <3>1, <3>2, <3>3, <3>4
  <2>3. /\ handler' \in [Handler -> [st : Stage, id : Id \cup {0}, good : BOOLEAN]]
        /\ \A v \in Handler : handler'[v].st # "idle" => handler'[v].id \in Id
    BY <2>1, <2>2, HandlerTypes
  <2> QED BY <2>1, <2>3 DEF BrokerOK
<1>8. ASSUME NEW u \in Handler, MarkReady(u) \/ Settle(u)
      PROVE  BrokerOK'
  <2>1. handler[u].st # "idle" /\ handler' = [handler EXCEPT ![u] = Idle] /\ UNCHANGED restarts
    BY <1>8 DEF MarkReady, Settle
  <2>2. /\ handler' \in [Handler -> [st : Stage, id : Id \cup {0}, good : BOOLEAN]]
        /\ \A v \in Handler : handler'[v].st # "idle" => handler'[v].id \in Id
    <3>1. "idle" \in Stage /\ FALSE \in BOOLEAN
      BY DEF Stage
    <3> QED BY <2>1, <3>1, HandlerTypes
  <2>3. \/ UNCHANGED <<status, rec, age>>
        \/ \E st \in Status : Set(handler[u].id, st)
    <3>1. "ready" \in Status /\ "error" \in Status /\ "queued" \in Status
      BY DEF Status
    <3>2. CASE MarkReady(u)
      BY <3>1, <3>2 DEF MarkReady, brokerVars
    <3>3. CASE Settle(u)
      BY <3>1, <3>3 DEF Settle, brokerVars
    <3> QED BY <1>8, <3>2, <3>3
  <2>4. handler[u].id \in Id
    BY <2>1 DEF BrokerOK
  <2>5. /\ status' \in [Id -> Status] /\ rec' \in [Id -> Recording \cup {None}]
        /\ age' \in [Id -> 0..2]
    BY <2>3, <2>4, SetType DEF BrokerOK
  <2>6. UNCHANGED <<job, via, attempt>> \/ \E s \in Site : AgentIdle(s) \/ TryAgain(s)
    BY <1>8 DEF MarkReady, Settle, agentVars
  <2>7. /\ job' \in [Site -> Id \cup {0}] /\ via' \in [Site -> Handler \cup {None}]
        /\ attempt' \in [Site -> 1..Attempts]
    BY <2>6, AgentTypes DEF BrokerOK
  <2> QED BY <2>1, <2>2, <2>5, <2>7 DEF BrokerOK
<1>9. ASSUME NEW i \in Id, AgeRequest(i)
      PROVE  BrokerOK'
  <2>1. age[i] \in 0..2 /\ age[i] < 2 /\ age' = [age EXCEPT ![i] = @ + 1]
    BY <1>9 DEF AgeRequest, BrokerOK
  <2>2. age' \in [Id -> 0..2]
    BY <2>1 DEF BrokerOK
  <2> QED BY <1>9, <2>2 DEF AgeRequest, BrokerOK, agentVars
<1>10. CASE ExpireFile
  BY <1>10 DEF ExpireFile, BrokerOK, brokerVars, agentVars
<1>11. CASE CloudRestart
  <2>1. status' \in [Id -> Status] /\ age' \in [Id -> 0..2]
    BY <1>11 DEF CloudRestart, Status
  <2>2. /\ handler' \in [Handler -> [st : Stage, id : Id \cup {0}, good : BOOLEAN]]
        /\ \A v \in Handler : handler'[v].st # "idle" => handler'[v].id \in Id
    BY <1>11, IdleType DEF CloudRestart
  <2>3. via' \in [Site -> Handler \cup {None}] /\ restarts' \in 0..MaxRestarts
    BY <1>11, BoundsAssumption DEF CloudRestart, BrokerOK
  <2> QED BY <1>11, <2>1, <2>2, <2>3 DEF CloudRestart, BrokerOK
<1> QED
  BY <1>1, <1>2, <1>3, <1>4, <1>5, <1>6, <1>7, <1>8, <1>9, <1>10, <1>11
  DEF Next, TakeRequest, LoseOffer, Uploads, HandlerStep

----------------------------------------------------------------------------
(* The files                                                               *)

LEMMA PartKeeps ==
  ASSUME NEW c \in Seq(File), NEW d, Part(d, c), NEW h
  PROVE  /\ d \in Seq(File) /\ Len(d) \in Nat
         /\ Distinct(c) => Distinct(d)
         /\ TempsOf(c, h) => TempsOf(d, h)
<1>1. PICK g \in [1..Len(d) -> 1..Len(c)] :
             /\ \A i, j \in 1..Len(d) : g[i] = g[j] => i = j
             /\ \A j \in 1..Len(d) : d[j] = c[g[j]]
  BY DEF Part, TakenFrom
<1>2. d \in Seq(File) /\ Len(d) \in Nat
  BY DEF Part
<1>3. \A j \in 1..Len(d) : g[j] \in 1..Len(c)
  OBVIOUS
<1>4. ASSUME Distinct(c) PROVE Distinct(d)
  BY <1>1, <1>3, <1>4 DEF Distinct
<1>5. ASSUME TempsOf(c, h) PROVE TempsOf(d, h)
  BY <1>1, <1>3, <1>5 DEF TempsOf
<1> QED BY <1>2, <1>4, <1>5

(* What is not for the eye of h does not matter: a handler without a file. *)
LEMMA TempsElsewhere ==
  ASSUME NEW c, NEW h, NEW h2, NEW u, TempsOf(c, h),
         \A v \in Handler : v # u => h2[v] = h[v],
         \A i \in 1..Len(c) : c[i].key # u
  PROVE  TempsOf(c, h2)
BY DEF TempsOf

LEMMA UnexpiredFacts ==
  ASSUME cache \in Seq(File), expired \in 0..Len(cache)
  PROVE  Unexpired \in Seq(File) /\ Part(Unexpired, cache) /\ Len(Unexpired) = Len(cache) - expired
BY SuffixFacts DEF Unexpired

LEMMA SweptFacts ==
  ASSUME cache \in Seq(File), expired \in 0..Len(cache)
  PROVE  Swept \in Seq(File) /\ Part(Swept, cache) /\ Part(Swept, Unexpired)
BY UnexpiredFacts, WithoutPart, PartTransitive DEF Swept

LEMMA CleanFacts ==
  ASSUME cache \in Seq(File), expired \in 0..Len(cache), CleanFiles
  PROVE  Part(cache', cache) /\ expired' = 0 /\ Total(cache') <= CacheMax
<1>1. Swept \in Seq(File) /\ Part(Swept, cache)
  BY SweptFacts
<1>2. Part(Evict(Swept), Swept) /\ Total(Evict(Swept)) <= CacheMax
  BY <1>1, EvictFacts
<1>3. Part(Evict(Swept), cache)
  BY <1>1, <1>2, PartTransitive
<1>4. cache' = Evict(Swept) /\ expired' = 0
  BY DEF CleanFiles
<1> QED BY <1>2, <1>3, <1>4

LEMMA ReadyFacts ==
  ASSUME cache \in Seq(File), expired \in 0..Len(cache), NEW u \in Handler, MarkReady(u)
  PROVE  Part(cache', cache) /\ expired' = 0 /\ Total(cache') <= CacheMax
<1>1. Unexpired \in Seq(File) /\ Part(Unexpired, cache)
  BY UnexpiredFacts
<1>2. Part(Evict(Unexpired), Unexpired) /\ Total(Evict(Unexpired)) <= CacheMax
  BY <1>1, EvictFacts
<1>3. Part(Evict(Unexpired), cache)
  BY <1>1, <1>2, PartTransitive
<1>4. cache' = Evict(Unexpired) /\ expired' = 0
  BY DEF MarkReady
<1> QED BY <1>2, <1>3, <1>4

(* A step that only takes files away.                                      *)
LEMMA PartFileOK ==
  ASSUME NEW c \in Seq(File), NEW d, Part(d, c), NEW h, NEW n, FileOK(c, h, n)
  PROVE  FileOK(d, h, 0)
<1>1. d \in Seq(File) /\ Len(d) \in Nat /\ Distinct(d) /\ TempsOf(d, h)
  BY PartKeeps DEF FileOK
<1> QED BY <1>1 DEF FileOK

LEMMA AppendOK ==
  ASSUME NEW c \in Seq(File), NEW h, NEW f \in File, Distinct(c), TempsOf(c, h),
         \A i \in 1..Len(c) : c[i].key # f.key,
         \A u \in Handler : f.key = u => /\ h[u].st \in {"copy", "copied", "requeue", "fail"}
                                         /\ f.by = h[u].id
                                         /\ h[u].st = "copied" => f.size = 1
  PROVE  Append(c, f) \in Seq(File) /\ Distinct(Append(c, f)) /\ TempsOf(Append(c, f), h)
<1> DEFINE a == Append(c, f)
<1>1. /\ a \in Seq(File) /\ Len(c) \in Nat /\ Len(a) = Len(c) + 1
      /\ a[Len(c) + 1] = f /\ \A j \in 1..Len(c) : a[j] = c[j]
  BY AppendFacts
<1> HIDE DEF a
<1>2. \A i \in 1..Len(a) : i \in 1..Len(c) \/ i = Len(c) + 1
  BY <1>1
<1>3. Distinct(a)
  BY <1>1, <1>2 DEF Distinct
<1>4. TempsOf(a, h)
  BY <1>1, <1>2 DEF TempsOf
<1> QED BY <1>1, <1>3, <1>4 DEF a

(* The number of old files, when those at the positions I go.              *)
LEMMA Counting ==
  ASSUME NEW n \in Nat, NEW e \in 0..n, NEW I, I \subseteq 1..n
  PROVE  e - Cardinality({j \in I : j <= e}) \in 0..(n - Cardinality(I))
<1> DEFINE A == {j \in I : j <= e}
           B == {j \in I : ~(j <= e)}
<1>0. \A j \in I : j \in Nat /\ 1 <= j /\ j <= n
  OBVIOUS
<1>1. e \in Nat /\ A \subseteq 1..e
  <2>1. ASSUME NEW j \in I, j <= e PROVE j \in 1..e
    BY <1>0, <2>1
  <2>2. e \in Nat
    OBVIOUS
  <2> QED BY <2>1, <2>2
<1>2. IsFiniteSet(A) /\ Cardinality(A) \in Nat /\ Cardinality(A) <= e
  BY <1>1, UpToFinite
<1>3. B \subseteq (e + 1)..n
  <2>1. ASSUME NEW j \in I, ~(j <= e) PROVE j \in (e + 1)..n
    BY <1>0, <1>1, <2>1
  <2> QED BY <2>1
<1>4. IsFiniteSet((e + 1)..n) /\ Cardinality((e + 1)..n) = n - e
  <2>1. e + 1 \in Int /\ n \in Int
    OBVIOUS
  <2>2. /\ IsFiniteSet((e + 1)..n)
        /\ Cardinality((e + 1)..n) = IF e + 1 > n THEN 0 ELSE n - (e + 1) + 1
    BY <2>1, FS_Interval
  <2> QED BY <2>2
<1>5. IsFiniteSet(B) /\ Cardinality(B) <= n - e /\ Cardinality(B) \in Nat
  BY <1>3, <1>4, FS_Subset, FS_CardinalityType
<1>6. A \cup B = I /\ A \cap B = {}
  OBVIOUS
<1> HIDE DEF A, B
<1>7. Cardinality(I) = Cardinality(A) + Cardinality(B)
  <2>1. Cardinality(A \cup B) = Cardinality(A) + Cardinality(B) - Cardinality(A \cap B)
    BY <1>2, <1>5, FS_Union
  <2>2. Cardinality(A \cap B) = 0
    BY <1>6, FS_EmptySet
  <2>3. Cardinality(A \cup B) = Cardinality(I)
    BY <1>6, Zenon
  <2> QED BY <1>2, <1>5, <2>1, <2>2, <2>3
<1>8. e - Cardinality(A) \in 0..(n - Cardinality(I))
  BY <1>2, <1>5, <1>7
<1> QED BY <1>8 DEF A

LEMMA WithoutOK ==
  ASSUME NEW c \in Seq(File), NEW h, NEW e, NEW k, FileOK(c, h, e)
  PROVE  LET d == Without(c, {k})
         IN /\ FileOK(d, h, e - Cardinality({j \in Positions(c, k) : j <= e}))
            /\ Len(d) = Len(c) - Cardinality(Positions(c, k)) /\ Len(d) \in Nat
            /\ \A i \in 1..Len(d) : d[i].key # k
<1> DEFINE d == Without(c, {k})
<1>1. IsWithout(d, c, {k}, Len(c)) /\ Part(d, c)
  BY WithoutFacts, WithoutPart
<1> HIDE DEF d
<1>2. Len(c) \in Nat /\ e \in 0..Len(c) /\ Positions(c, k) \subseteq 1..Len(c)
  BY DEF FileOK, Positions
<1>3. {i \in 1..Len(c) : c[i].key \in {k}} = Positions(c, k)
  BY DEF Positions
<1>4. Len(d) = Len(c) - Cardinality(Positions(c, k)) /\ \A i \in 1..Len(d) : d[i].key # k
  BY <1>1, <1>3 DEF IsWithout
<1>5. e - Cardinality({j \in Positions(c, k) : j <= e}) \in 0..Len(d)
  BY <1>2, <1>4, Counting
<1>6. d \in Seq(File) /\ Len(d) \in Nat /\ Distinct(d) /\ TempsOf(d, h)
  BY <1>1, PartKeeps DEF FileOK
<1>7. FileOK(d, h, e - Cardinality({j \in Positions(c, k) : j <= e}))
  BY <1>5, <1>6 DEF FileOK
<1> QED BY <1>4, <1>6, <1>7 DEF d

(* The file of u takes the name r: where it is among the others, and what  *)
(* the directory is then.                                                  *)
Spot(c, u, r) == Min(Positions(Without(c, {r}), u))

Named(f, r, good) == [f EXCEPT !.key = r, !.good = good]

Renamed(c, u, r, good) ==
  [Without(c, {r}) EXCEPT ![Spot(c, u, r)] = [@ EXCEPT !.key = r, !.good = good]]

Older(c, k, e) == e - Cardinality({j \in Positions(c, k) : j <= e})

IsRenamed(a, c, h, e, u, r, good) ==
  /\ Spot(c, u, r) \in 1..Len(Without(c, {r}))
  /\ Without(c, {r})[Spot(c, u, r)].key = u
  /\ Len(a) = Len(Without(c, {r}))
  /\ a[Spot(c, u, r)] = Named(Without(c, {r})[Spot(c, u, r)], r, good)
  /\ \A i \in 1..Len(Without(c, {r})) :
        i # Spot(c, u, r) => a[i] = Without(c, {r})[i] /\ a[i].key # u
  /\ FileOK(a, h, Older(c, r, e))

LEMMA RenameOK ==
  ASSUME NEW c \in Seq(File), NEW h, NEW e, NEW u \in Handler, NEW r \in Recording \cup {None},
         NEW good \in BOOLEAN,
         FileOK(c, h, e), Positions(c, u) # {}
  PROVE  IsRenamed(Renamed(c, u, r, good), c, h, e, u, r, good)
<1> DEFINE d == Without(c, {r})
           p == Min(Positions(d, u))
           f == [d[p] EXCEPT !.key = r, !.good = good]
           a == [d EXCEPT ![p] = [@ EXCEPT !.key = r, !.good = good]]
           e2 == e - Cardinality({j \in Positions(c, r) : j <= e})
<1>1. /\ FileOK(d, h, e2) /\ Len(d) \in Nat
      /\ \A i \in 1..Len(d) : d[i].key # r
  BY WithoutOK
<1>2. u # r /\ u # None /\ r \notin Handler
  BY NamesAssumption
<1>3. Positions(d, u) # {} /\ Positions(d, u) \subseteq Nat
  <2>1. PICK i \in 1..Len(c) : c[i].key = u
    BY DEF Positions
  <2>2. IsWithout(d, c, {r}, Len(c)) /\ c[i].key \notin {r}
    BY <2>1, <1>2, WithoutFacts
  <2> HIDE DEF d
  <2>3. \E j \in 1..Len(d) : d[j] = c[i]
    BY <2>2 DEF IsWithout
  <2> QED BY <1>1, <2>1, <2>3 DEF Positions
<1>4. p \in 1..Len(d) /\ d[p].key = u
  <2>1. p \in Positions(d, u)
    BY <1>3, MinFacts
  <2> QED BY <2>1 DEF Positions
<1> HIDE DEF d, p, e2
<1>5. d \in Seq(File) /\ Distinct(d) /\ TempsOf(d, h) /\ e2 \in 0..Len(d)
  BY <1>1 DEF FileOK
<1>6. f \in File
  <2>1. d[p] \in File
    BY <1>4, <1>5
  <2> QED BY <2>1 DEF File
<1>7. f.key = r
  <2>1. d[p] \in File
    BY <1>4, <1>5
  <2> QED BY <2>1 DEF File
<1>8. /\ a \in Seq(File) /\ Len(a) = Len(d) /\ a[p] = f
      /\ \A i \in 1..Len(d) : i # p => a[i] = d[i]
  <2>1. a = [d EXCEPT ![p] = f]
    OBVIOUS
  <2> HIDE DEF f, a
  <2> QED BY <1>4, <1>5, <1>6, <2>1
<1> HIDE DEF f, a
<1>9. \A i \in 1..Len(d) : i # p => a[i] = d[i] /\ a[i].key # u /\ a[i].key # r
  BY <1>1, <1>2, <1>4, <1>5, <1>8 DEF Distinct
<1>10. Distinct(a)
  BY <1>5, <1>7, <1>8, <1>9 DEF Distinct
<1>11. TempsOf(a, h)
  BY <1>2, <1>5, <1>7, <1>8, <1>9 DEF TempsOf
<1>12. FileOK(a, h, e2)
  BY <1>5, <1>8, <1>10, <1>11 DEF FileOK
<1> QED BY <1>4, <1>8, <1>9, <1>12 DEF d, p, f, a, e2, IsRenamed, Spot, Named, Renamed, Older

LEMMA CleanStep ==
  ASSUME TypeInv, CleanFiles, UNCHANGED handler
  PROVE  FileOK(cache', handler', expired')
<1>1. cache \in Seq(File) /\ expired \in 0..Len(cache) /\ FileOK(cache, handler, expired)
  BY DEF TypeInv, FileOK
<1>2. Part(cache', cache) /\ expired' = 0
  BY <1>1, CleanFacts
<1> QED BY <1>1, <1>2, PartFileOK

LEMMA BeginStep ==
  ASSUME TypeInv, NEW s \in Site, NEW u \in Handler, BeginUpload(s, u)
  PROVE  FileOK(cache', handler', expired')
<1>1. /\ cache \in Seq(File) /\ Distinct(cache) /\ TempsOf(cache, handler)
      /\ expired \in 0..Len(cache) /\ FileOK(cache, handler, expired)
  BY DEF TypeInv, FileOK
<1>2. job[s] \in Id /\ handler[u].st = "idle" /\ expired' = expired
  BY DEF BeginUpload, TypeInv, BrokerOK
<1>3. CASE status[job[s]] \in {"uploading", "queued"}
  <2> DEFINE new == [key |-> u, size |-> 0, good |-> FALSE, by |-> job[s]]
  <2>1. PICK st \in {"copy", "fail", "requeue"} :
          /\ handler' = [handler EXCEPT ![u] = [st |-> st, id |-> job[s], good |-> FALSE]]
          /\ cache' = IF st = "copy" THEN Append(cache, new) ELSE cache
    BY <1>3 DEF BeginUpload
  <2>2. \A v \in Handler : v # u => handler'[v] = handler[v]
    BY <2>1 DEF TypeInv, BrokerOK
  <2>3. handler'[u].st = st /\ handler'[u].id = job[s]
    BY <2>1 DEF TypeInv, BrokerOK
  <2>4. \A i \in 1..Len(cache) : cache[i].key # u
    BY <1>1, <1>2 DEF TempsOf
  <2>5. TempsOf(cache, handler')
    BY <1>1, <2>2, <2>4, TempsElsewhere
  <2>6. CASE st = "copy"
    <3>1. new \in File /\ new.key = u /\ new.by = job[s]
      BY <1>2 DEF File
    <3>2. cache' = Append(cache, new)
      BY <2>1, <2>6
    <3> HIDE DEF new
    <3>3. Append(cache, new) \in Seq(File) /\ Distinct(Append(cache, new))
          /\ TempsOf(Append(cache, new), handler')
      BY <1>1, <2>3, <2>4, <2>5, <2>6, <3>1, AppendOK
    <3>4. Len(cache') = Len(cache) + 1 /\ Len(cache) \in Nat
      BY <1>1, <3>1, <3>2, AppendFacts
    <3> QED BY <1>1, <1>2, <3>2, <3>3, <3>4 DEF FileOK
  <2>7. CASE st # "copy"
    BY <1>1, <1>2, <2>1, <2>5, <2>7 DEF FileOK
  <2> QED BY <2>6, <2>7
<1>4. CASE status[job[s]] \notin {"uploading", "queued"}
  BY <1>1, <1>2, <1>4 DEF BeginUpload
<1> QED BY <1>3, <1>4

LEMMA GrowStep ==
  ASSUME TypeInv, NEW u \in Handler, Grow(u)
  PROVE  FileOK(cache', handler', expired')
<1>1. /\ cache \in Seq(File) /\ Distinct(cache) /\ TempsOf(cache, handler)
      /\ expired \in 0..Len(cache) /\ FileOK(cache, handler, expired) /\ Len(cache) \in Nat
  BY DEF TypeInv, FileOK
<1>2. PICK i \in Positions(cache, u) :
        /\ cache' = Append(Without(cache, {u}), [cache[i] EXCEPT !.size = 1])
        /\ expired' = IF i <= expired THEN expired - 1 ELSE expired
  BY DEF Grow
<1>3. i \in 1..Len(cache) /\ cache[i].key = u /\ u # None
  BY NamesAssumption DEF Positions
<1>4. Positions(cache, u) = {i}
  BY <1>1, <1>3 DEF Positions, Distinct
<1>5. Cardinality(Positions(cache, u)) = 1
  BY <1>4, FS_Singleton
<1> DEFINE d == Without(cache, {u})
           f == [cache[i] EXCEPT !.size = 1]
           n == expired - Cardinality({j \in Positions(cache, u) : j <= expired})
<1>6. /\ FileOK(d, handler, n) /\ Len(d) = Len(cache) - 1
      /\ \A j \in 1..Len(d) : d[j].key # u
  <2>1. /\ FileOK(d, handler, n) /\ Len(d) = Len(cache) - Cardinality(Positions(cache, u))
        /\ \A j \in 1..Len(d) : d[j].key # u
    BY <1>1, WithoutOK
  <2> HIDE DEF d, n
  <2> QED BY <1>5, <2>1
<1>7. f \in File /\ f.key = u /\ f.by = cache[i].by /\ f.size = 1
  <2>1. cache[i] \in File
    BY <1>1, <1>3
  <2> QED BY <1>3, <2>1 DEF File
<1>8. cache[i].by = handler[u].id /\ handler[u].st = "copy"
  BY <1>1, <1>3 DEF TempsOf, Grow
<1> HIDE DEF d, f, n
<1>9. d \in Seq(File) /\ Distinct(d) /\ TempsOf(d, handler)
  BY <1>6 DEF FileOK
<1>10. cache' = Append(d, f)
  BY <1>2 DEF d, f
<1>11. Append(d, f) \in Seq(File) /\ Distinct(Append(d, f)) /\ TempsOf(Append(d, f), handler)
  BY <1>6, <1>7, <1>8, <1>9, AppendOK
<1>12. Len(cache') = Len(cache)
  <2>1. Len(Append(d, f)) = Len(d) + 1
    BY <1>7, <1>9, AppendFacts
  <2> QED BY <1>1, <1>6, <1>10, <2>1
<1>13. expired' \in 0..Len(cache') /\ handler' = handler
  BY <1>1, <1>2, <1>3, <1>12 DEF Grow
<1> QED BY <1>10, <1>11, <1>13 DEF FileOK

(* A handler goes to another stage, the files stay.                        *)
LEMMA StageStep ==
  ASSUME TypeInv, NEW u \in Handler,
         CopyDone(u) \/ CopyInterrupted(u) \/ ChecksumMismatch(u)
  PROVE  FileOK(cache', handler', expired')
<1>1. TempsOf(cache, handler) /\ FileOK(cache, handler, expired) /\ UNCHANGED <<cache, expired>>
  BY DEF TypeInv, FileOK, CopyDone, CopyInterrupted, ChecksumMismatch, fileVars
<1>2. handler[u] \in [st : Stage, id : Id \cup {0}, good : BOOLEAN]
  BY DEF TypeInv, BrokerOK
<1>3. \A v \in Handler : v # u => handler'[v] = handler[v]
  BY DEF TypeInv, BrokerOK, CopyDone, CopyInterrupted, ChecksumMismatch
<1>4. handler'[u].id = handler[u].id
  BY <1>2 DEF TypeInv, BrokerOK, CopyDone, CopyInterrupted, ChecksumMismatch
<1>5. /\ handler'[u].st \in {"copied", "requeue", "fail"}
      /\ handler'[u].st = "copied" => \A i \in Positions(cache, u) : cache[i].size = 1
  BY <1>2 DEF TypeInv, BrokerOK, CopyDone, CopyInterrupted, ChecksumMismatch
<1>6. TempsOf(cache, handler')
  <2> SUFFICES ASSUME NEW i \in 1..Len(cache), NEW v \in Handler, cache[i].key = v
               PROVE  /\ handler'[v].st \in {"copy", "copied", "requeue", "fail"}
                      /\ cache[i].by = handler'[v].id
                      /\ handler'[v].st = "copied" => cache[i].size = 1
    BY DEF TempsOf
  <2>1. cache[i].by = handler[v].id /\ i \in Positions(cache, v)
    BY <1>1 DEF TempsOf, Positions
  <2>2. CASE v = u
    BY <1>4, <1>5, <2>1, <2>2
  <2>3. CASE v # u
    BY <1>1, <1>3, <2>3 DEF TempsOf
  <2> QED BY <2>2, <2>3
<1> QED BY <1>1, <1>6 DEF FileOK

LEMMA RenameStep ==
  ASSUME TypeInv, NEW u \in Handler, Rename(u)
  PROVE  FileOK(cache', handler', expired')
<1>1. /\ TempsOf(cache, handler) /\ FileOK(cache, handler, expired)
      /\ cache \in Seq(File) /\ Distinct(cache)
  BY DEF TypeInv, FileOK
<1>2. handler[u] \in [st : Stage, id : Id \cup {0}, good : BOOLEAN] /\ handler[u].id \in Id
  BY DEF TypeInv, BrokerOK, Rename
<1>3. rec[handler[u].id] \in Recording \cup {None} /\ handler[u].good \in BOOLEAN
  BY <1>2 DEF TypeInv, BrokerOK
<1>4. \A v \in Handler : v # u => handler'[v] = handler[v]
  BY DEF TypeInv, BrokerOK, Rename
<1>5. CASE Positions(cache, u) = {}
  <2>1. UNCHANGED <<cache, expired>>
    BY <1>5 DEF Rename, fileVars
  <2>2. \A i \in 1..Len(cache) : cache[i].key # u
    BY <1>5 DEF Positions
  <2>3. TempsOf(cache, handler')
    BY <1>1, <1>4, <2>2, TempsElsewhere
  <2> QED BY <1>1, <2>1, <2>3 DEF FileOK
<1>6. CASE Positions(cache, u) # {}
  <2> DEFINE r == rec[handler[u].id]
             d == Without(cache, {r})
             p == Spot(cache, u, r)
             a == Renamed(cache, u, r, handler[u].good)
             e == Older(cache, r, expired)
  <2>1. cache' = a /\ expired' = e
    BY <1>6 DEF Rename, Renamed, Spot, Older
  <2>2. /\ FileOK(a, handler, e) /\ p \in 1..Len(d) /\ d[p].key = u
        /\ d \in Seq(File) /\ Len(a) = Len(d)
        /\ a[p] = Named(d[p], r, handler[u].good)
        /\ \A i \in 1..Len(d) : i # p => a[i].key # u
    <3>1. IsRenamed(Renamed(cache, u, r, handler[u].good), cache, handler, expired, u, r,
                    handler[u].good)
      BY <1>1, <1>3, <1>6, RenameOK, Zenon
    <3>2. d \in Seq(File)
      BY <1>1, WithoutPart
    <3> HIDE DEF d, p, a, e
    <3>3. IsRenamed(a, cache, handler, expired, u, r, handler[u].good)
      BY <3>1 DEF a
    <3> HIDE DEF r
    <3> QED BY <3>2, <3>3 DEF IsRenamed, d, p, e
  <2> HIDE DEF d, p, a, e
  <2>3. a[p].key = r /\ r # u
    <3>1. d[p] \in File
      BY <2>2
    <3> QED BY <1>3, <2>2, <3>1, NamesAssumption DEF File, Named
  <2>4. \A i \in 1..Len(a) : a[i].key # u
    BY <2>2, <2>3
  <2>5. TempsOf(a, handler')
    <3>1. TempsOf(a, handler)
      BY <2>2 DEF FileOK
    <3> QED BY <1>4, <2>4, <3>1, TempsElsewhere
  <2> QED BY <2>1, <2>2, <2>5 DEF FileOK
<1> QED BY <1>5, <1>6

LEMMA ReadyStep ==
  ASSUME TypeInv, NEW u \in Handler, MarkReady(u)
  PROVE  FileOK(cache', handler', expired')
<1>1. /\ TempsOf(cache, handler) /\ FileOK(cache, handler, expired)
      /\ cache \in Seq(File) /\ expired \in 0..Len(cache)
  BY DEF TypeInv, FileOK
<1>2. Part(cache', cache) /\ expired' = 0
  BY <1>1, ReadyFacts
<1>3. \A v \in Handler : v # u => handler'[v] = handler[v]
  BY DEF TypeInv, BrokerOK, MarkReady
<1>4. \A i \in 1..Len(cache) : cache[i].key # u
  BY <1>1 DEF TempsOf, MarkReady
<1>5. TempsOf(cache, handler')
  BY <1>1, <1>3, <1>4, TempsElsewhere
<1>6. FileOK(cache, handler', expired)
  BY <1>1, <1>5 DEF FileOK
<1> QED BY <1>1, <1>2, <1>6, PartFileOK

LEMMA SettleStep ==
  ASSUME TypeInv, NEW u \in Handler, Settle(u)
  PROVE  FileOK(cache', handler', expired')
<1>1. FileOK(cache, handler, expired) /\ cache \in Seq(File)
  BY DEF TypeInv, FileOK
<1> DEFINE d == Without(cache, {u})
           e == expired - Cardinality({j \in Positions(cache, u) : j <= expired})
<1>2. FileOK(d, handler, e) /\ \A i \in 1..Len(d) : d[i].key # u
  BY <1>1, WithoutOK
<1>3. cache' = d /\ expired' = e
  BY DEF Settle
<1> HIDE DEF d, e
<1>4. \A v \in Handler : v # u => handler'[v] = handler[v]
  BY DEF TypeInv, BrokerOK, Settle
<1>5. TempsOf(d, handler')
  BY <1>2, <1>4, TempsElsewhere DEF FileOK
<1> QED BY <1>2, <1>3, <1>5 DEF FileOK

LEMMA CloudRestartStep ==
  ASSUME TypeInv, CloudRestart
  PROVE  FileOK(cache', handler', expired')
<1>1. cache \in Seq(File) /\ Distinct(cache) /\ expired \in 0..Len(cache) /\ Len(cache) \in Nat
  BY DEF TypeInv, FileOK
<1> DEFINE f(i) == IF cache[i].key \in Handler THEN [cache[i] EXCEPT !.key = None] ELSE cache[i]
<1>2. cache' = [i \in 1..Len(cache) |-> f(i)] /\ expired' = expired
  BY DEF CloudRestart
<1>3. \A i \in 1..Len(cache) :
        /\ f(i) \in File /\ f(i).key \notin Handler
        /\ f(i).key # None => f(i).key = cache[i].key
  <2> SUFFICES ASSUME NEW i \in 1..Len(cache)
               PROVE  /\ f(i) \in File /\ f(i).key \notin Handler
                      /\ f(i).key # None => f(i).key = cache[i].key
    OBVIOUS
  <2>1. cache[i] \in File
    BY <1>1
  <2> QED BY <2>1, NamesAssumption DEF File
<1> HIDE DEF f
<1>4. /\ cache' \in Seq(File) /\ Len(cache') = Len(cache)
      /\ \A i \in 1..Len(cache) : cache'[i] = f(i)
  BY <1>1, <1>2, <1>3
<1>5. Distinct(cache')
  BY <1>1, <1>3, <1>4 DEF Distinct
<1>6. TempsOf(cache', handler')
  BY <1>3, <1>4 DEF TempsOf
<1> QED BY <1>1, <1>2, <1>4, <1>5, <1>6 DEF FileOK

LEMMA TypeInit == Init => TypeInv
<1> SUFFICES ASSUME Init PROVE TypeInv
  OBVIOUS
<1>1. /\ "new" \in Status /\ 0 \in 0..2 /\ 1 \in 1..Attempts /\ 0 \in 0..MaxRestarts
  BY AttemptsAssumption, BoundsAssumption DEF Status
<1>2. BrokerOK
  BY <1>1, IdleType DEF Init, BrokerOK
<1>3. /\ cache \in Seq(File) /\ Len(cache) = 0 /\ expired = 0
  BY DEF Init
<1>4. FileOK(cache, handler, expired)
  BY <1>3 DEF FileOK, Distinct, TempsOf
<1> QED BY <1>2, <1>4 DEF TypeInv

LEMMA TypeStep == TypeInv /\ [Next]_vars => TypeInv'
<1> SUFFICES ASSUME TypeInv, [Next]_vars PROVE TypeInv'
  OBVIOUS
<1>1. CASE UNCHANGED vars
  BY <1>1 DEF vars, brokerVars, fileVars, agentVars, TypeInv, BrokerOK, FileOK, Distinct, TempsOf
<1>2. CASE Next
  <2>1. BrokerOK'
    BY <1>2, BrokerStep DEF TypeInv
  <2>2. FileOK(cache', handler', expired')
    <3>1. ASSUME CleanFiles, UNCHANGED handler
          PROVE  FileOK(cache', handler', expired')
      BY <3>1, CleanStep
    <3>2. ASSUME UNCHANGED <<cache, expired, handler>>
          PROVE  FileOK(cache', handler', expired')
      BY <3>2 DEF TypeInv
    <3>3. ASSUME NEW u \in Handler, HandlerStep(u)
          PROVE  FileOK(cache', handler', expired')
      BY <3>3, StageStep, RenameStep, ReadyStep, SettleStep DEF HandlerStep
    <3>4. CASE ExpireFile
      <4>1. FileOK(cache, handler, expired + 1)
        BY <3>4 DEF TypeInv, FileOK, ExpireFile
      <4> QED BY <3>4, <4>1 DEF ExpireFile
    <3>5. CASE \E r \in Recording : Prepare(r)
      BY <3>1, <3>5 DEF Prepare
    <3>6. CASE StatusPoll
      BY <3>1, <3>6 DEF StatusPoll
    <3>7. CASE \E s \in Site : TakeRequest(s) \/ LoseOffer(s)
      BY <3>1, <3>7 DEF TakeRequest, LoseOffer, Offer
    <3>8. CASE \E s \in Site : BreakUpload(s) \/ AgentRestart(s)
      BY <3>2, <3>8 DEF BreakUpload, AgentRestart, fileVars
    <3>9. CASE \E i \in Id : AgeRequest(i)
      BY <3>2, <3>9 DEF AgeRequest, fileVars
    <3>10. CASE \E s \in Site : Uploads(s)
      BY <3>10, BeginStep DEF Uploads
    <3> QED BY <1>2, <3>3, <3>4, <3>5, <3>6, <3>7, <3>8, <3>9, <3>10, GrowStep, CloudRestartStep
        DEF Next
  <2> QED BY <2>1, <2>2 DEF TypeInv, FileOK, Distinct, TempsOf
<1> QED BY <1>1, <1>2

(* Every variable keeps its type; with it, no two files have one name and  *)
(* no handler's temporary file is there without its handler.               *)
THEOREM TypeCorrect == Spec => []TypeOK
<1>1. TypeInv => TypeOK
  BY TypeInvGives
<1> QED BY <1>1, TypeInit, TypeStep, PTL DEF Spec

----------------------------------------------------------------------------
(* What is served                                                          *)

Verified(f) == f.key \in Recording => f.size = 1 /\ (f.key \in Checked => f.good)

AllVerified(c) == \A i \in 1..Len(c) : Verified(c[i])

LEMMA PartVerified ==
  ASSUME NEW c \in Seq(File), NEW d, Part(d, c), AllVerified(c)
  PROVE  AllVerified(d)
<1>1. PICK g \in [1..Len(d) -> 1..Len(c)] : \A j \in 1..Len(d) : d[j] = c[g[j]]
  BY DEF Part, TakenFrom
<1> QED BY <1>1 DEF AllVerified

(* A temporary file is added.                                              *)
LEMMA TempVerified ==
  ASSUME NEW c \in Seq(File), NEW f \in File, f.key \in Handler, AllVerified(c)
  PROVE  AllVerified(Append(c, f))
<1> DEFINE a == Append(c, f)
<1>1. /\ Len(c) \in Nat /\ Len(a) = Len(c) + 1
      /\ a[Len(c) + 1] = f /\ \A j \in 1..Len(c) : a[j] = c[j]
  BY AppendFacts
<1> HIDE DEF a
<1>2. \A i \in 1..Len(a) : i \in 1..Len(c) \/ i = Len(c) + 1
  BY <1>1
<1>3. Verified(f)
  BY NamesAssumption DEF Verified
<1>4. AllVerified(a)
  BY <1>1, <1>2, <1>3 DEF AllVerified
<1> QED BY <1>4 DEF a

(* What BeginUpload and Grow add.                                          *)
LEMMA AddedFile ==
  ASSUME TypeInv, NEW u \in Handler
  PROVE  /\ \A s \in Site : BeginUpload(s, u) /\ cache' # cache =>
              \E f \in File : f.key = u /\ f.by = job[s] /\ cache' = Append(cache, f)
         /\ Grow(u) => \E f \in File : f.key = u /\ f.by = handler[u].id /\ f.size = 1
                                       /\ cache' = Append(Without(cache, {u}), f)
<1>1. ASSUME NEW s \in Site, BeginUpload(s, u), cache' # cache
      PROVE  \E f \in File : f.key = u /\ f.by = job[s] /\ cache' = Append(cache, f)
  <2> DEFINE new == [key |-> u, size |-> 0, good |-> FALSE, by |-> job[s]]
  <2>1. job[s] \in Id
    BY <1>1 DEF BeginUpload, TypeInv, BrokerOK
  <2>2. new \in File /\ new.key = u /\ new.by = job[s]
    BY <2>1 DEF File
  <2>3. cache' = Append(cache, new)
    BY <1>1 DEF BeginUpload
  <2> QED BY <2>2, <2>3
<1>2. ASSUME Grow(u)
      PROVE  \E f \in File : f.key = u /\ f.by = handler[u].id /\ f.size = 1
                             /\ cache' = Append(Without(cache, {u}), f)
  <2>1. PICK i \in Positions(cache, u) :
          cache' = Append(Without(cache, {u}), [cache[i] EXCEPT !.size = 1])
    BY <1>2 DEF Grow
  <2>2. i \in 1..Len(cache) /\ cache[i].key = u
    BY DEF Positions
  <2>3. cache[i] \in File /\ cache[i].by = handler[u].id
    BY <2>2 DEF TypeInv, FileOK, TempsOf
  <2> DEFINE f == [cache[i] EXCEPT !.size = 1]
  <2>4. f \in File /\ f.key = u /\ f.by = handler[u].id /\ f.size = 1
    BY <2>2, <2>3 DEF File
  <2> QED BY <2>1, <2>4
<1> QED BY <1>1, <1>2

(* What Rename does, in the words of RenameOK.                             *)
LEMMA RenameFacts ==
  ASSUME TypeInv, NEW u \in Handler, Rename(u), Positions(cache, u) # {}
  PROVE  /\ rec[handler[u].id] \in Recording \cup {None}
         /\ Without(cache, {rec[handler[u].id]}) \in Seq(File)
         /\ Part(Without(cache, {rec[handler[u].id]}), cache)
         /\ IsRenamed(cache', cache, handler, expired, u, rec[handler[u].id], handler[u].good)
<1>1. FileOK(cache, handler, expired) /\ cache \in Seq(File)
  BY DEF TypeInv, FileOK
<1>2. handler[u] \in [st : Stage, id : Id \cup {0}, good : BOOLEAN] /\ handler[u].id \in Id
  BY DEF TypeInv, BrokerOK, Rename
<1>3. rec[handler[u].id] \in Recording \cup {None} /\ handler[u].good \in BOOLEAN
  BY <1>2 DEF TypeInv, BrokerOK
<1>4. IsRenamed(Renamed(cache, u, rec[handler[u].id], handler[u].good), cache, handler, expired, u,
                rec[handler[u].id], handler[u].good)
  BY <1>1, <1>3, RenameOK, Zenon
<1>5. cache' = Renamed(cache, u, rec[handler[u].id], handler[u].good)
  BY DEF Rename, Renamed, Spot
<1>6. /\ Without(cache, {rec[handler[u].id]}) \in Seq(File)
      /\ Part(Without(cache, {rec[handler[u].id]}), cache)
  BY <1>1, WithoutPart
<1> QED BY <1>3, <1>4, <1>5, <1>6

LEMMA VerifiedStep ==
  ASSUME TypeInv, AllVerified(cache), Next
  PROVE  AllVerified(cache')
<1>1. cache \in Seq(File) /\ expired \in 0..Len(cache)
  BY DEF TypeInv, FileOK
<1>2. ASSUME CleanFiles PROVE AllVerified(cache')
  BY <1>1, <1>2, CleanFacts, PartVerified
<1>3. ASSUME cache' = cache PROVE AllVerified(cache')
  BY <1>3
<1>4. ASSUME NEW s \in Site, NEW u \in Handler, BeginUpload(s, u) PROVE AllVerified(cache')
  <2>1. CASE cache' # cache
    <3>1. PICK f \in File : f.key = u /\ cache' = Append(cache, f)
      BY <1>4, <2>1, AddedFile
    <3> QED BY <1>1, <3>1, TempVerified
  <2> QED BY <1>3, <2>1
<1>5. ASSUME NEW u \in Handler, Grow(u) PROVE AllVerified(cache')
  <2>1. PICK f \in File : f.key = u /\ cache' = Append(Without(cache, {u}), f)
    BY <1>5, AddedFile
  <2>2. Without(cache, {u}) \in Seq(File) /\ AllVerified(Without(cache, {u}))
    BY <1>1, WithoutPart, PartVerified
  <2> QED BY <2>1, <2>2, TempVerified
<1>6. ASSUME NEW u \in Handler, Rename(u) PROVE AllVerified(cache')
  <2>1. CASE Positions(cache, u) = {}
    BY <1>3, <1>6, <2>1 DEF Rename, fileVars
  <2>2. CASE Positions(cache, u) # {}
    <3> DEFINE r == rec[handler[u].id]
               d == Without(cache, {r})
               p == Spot(cache, u, r)
    <3>1. /\ r \in Recording \cup {None} /\ d \in Seq(File) /\ Part(d, cache)
          /\ IsRenamed(cache', cache, handler, expired, u, r, handler[u].good)
      BY <1>6, <2>2, RenameFacts
    <3>2. AllVerified(d) /\ TempsOf(d, handler)
      BY <1>1, <3>1, PartVerified, PartKeeps DEF TypeInv, FileOK
    <3>3. handler[u].st = "copied" /\ (r \in Checked => handler[u].good)
      BY <1>6 DEF Rename, Refuses
    <3> HIDE DEF r
    <3>4. /\ p \in 1..Len(d) /\ d[p].key = u /\ Len(cache') = Len(d)
          /\ cache'[p] = Named(d[p], r, handler[u].good)
          /\ \A i \in 1..Len(d) : i # p => cache'[i] = d[i]
      BY <3>1 DEF IsRenamed
    <3> HIDE DEF d, p
    <3>5. d[p].size = 1 /\ d[p] \in File
      BY <3>1, <3>2, <3>3, <3>4 DEF TempsOf
    <3>6. Named(d[p], r, handler[u].good).key = r /\ Named(d[p], r, handler[u].good).size = 1
          /\ Named(d[p], r, handler[u].good).good = handler[u].good
      BY <3>5 DEF Named, File
    <3>7. Verified(cache'[p])
      BY <3>3, <3>4, <3>6 DEF Verified
    <3> QED BY <3>2, <3>4, <3>7 DEF AllVerified
  <2> QED BY <2>1, <2>2
<1>7. ASSUME NEW u \in Handler, MarkReady(u) PROVE AllVerified(cache')
  BY <1>1, <1>7, ReadyFacts, PartVerified
<1>8. ASSUME NEW u \in Handler, Settle(u) PROVE AllVerified(cache')
  BY <1>1, <1>8, WithoutPart, PartVerified DEF Settle
<1>9. CASE CloudRestart
  <2> SUFFICES ASSUME NEW i \in 1..Len(cache') PROVE Verified(cache'[i])
    BY DEF AllVerified
  <2>1. i \in 1..Len(cache) /\ cache[i] \in File
    BY <1>1, <1>9 DEF CloudRestart
  <2>2. cache'[i] = IF cache[i].key \in Handler THEN [cache[i] EXCEPT !.key = None] ELSE cache[i]
    BY <1>9, <2>1 DEF CloudRestart
  <2>3. CASE cache[i].key \in Handler
    <3>1. cache'[i].key = None
      BY <2>1, <2>2, <2>3 DEF File
    <3> QED BY <3>1, NamesAssumption DEF Verified
  <2>4. CASE cache[i].key \notin Handler
    BY <2>1, <2>2, <2>4 DEF AllVerified
  <2> QED BY <2>3, <2>4
<1>10. CASE \E r \in Recording : Prepare(r)
  BY <1>2, <1>10 DEF Prepare
<1>11. CASE StatusPoll
  BY <1>2, <1>11 DEF StatusPoll
<1>12. CASE \E s \in Site : TakeRequest(s) \/ LoseOffer(s)
  BY <1>2, <1>12 DEF TakeRequest, LoseOffer, Offer
<1>13. CASE \/ \E s \in Site : BreakUpload(s) \/ AgentRestart(s)
            \/ \E i \in Id : AgeRequest(i)
            \/ ExpireFile
            \/ \E u \in Handler : CopyDone(u) \/ CopyInterrupted(u) \/ ChecksumMismatch(u)
  BY <1>3, <1>13 DEF BreakUpload, AgentRestart, AgeRequest, ExpireFile, CopyDone, CopyInterrupted,
                     ChecksumMismatch, fileVars
<1> QED
  BY <1>4, <1>5, <1>6, <1>7, <1>8, <1>9, <1>10, <1>11, <1>12, <1>13 DEF Next, Uploads, HandlerStep

(* A file under a recording's name is a whole upload and has the known     *)
(* checksum, so that playRecording may serve the name without looking: for *)
(* any number of uploads of one recording at once, evictions of temporary  *)
(* files and restarts.                                                     *)
THEOREM CacheIsVerified == Spec => []CacheHoldsVerified
<1>1. Init => AllVerified(cache)
  BY DEF Init, AllVerified
<1>2. TypeInv /\ AllVerified(cache) /\ [Next]_vars => AllVerified(cache)'
  <2>1. cache' = cache /\ AllVerified(cache) => AllVerified(cache')
    OBVIOUS
  <2> QED BY <2>1, VerifiedStep DEF vars, fileVars, AllVerified, Verified
<1>3. AllVerified(cache) => CacheHoldsVerified
  BY DEF AllVerified, Verified, CacheHoldsVerified
<1> QED BY <1>1, <1>2, <1>3, TypeInit, TypeStep, PTL DEF Spec

----------------------------------------------------------------------------
(* What viewers were promised                                              *)

(* The files whose request ran ready.                                      *)
Promised == {f \in File : /\ f.key \in Recording
                          /\ status[f.by] = "ready"
                          /\ ~\E u \in Handler : handler[u].st = "renamed" /\ handler[u].id = f.by}

Count(c, A) == Cardinality({i \in 1..Len(c) : c[i] \in A})

LEMMA CountType ==
  ASSUME NEW c \in Seq(File), NEW A
  PROVE  Count(c, A) \in Nat
BY UpToFinite DEF Count

(* Where each member of A2 in d comes from a member of A in c of its own,  *)
(* there are not more of them.                                             *)
LEMMA CountFewer ==
  ASSUME NEW c \in Seq(File), NEW d \in Seq(File), NEW A, NEW A2,
         NEW g \in [1..Len(d) -> 1..Len(c)],
         \A i, j \in 1..Len(d) : g[i] = g[j] => i = j,
         \A j \in 1..Len(d) : d[j] \in A2 => c[g[j]] \in A
  PROVE  Count(d, A2) <= Count(c, A)
<1> DEFINE S == {j \in 1..Len(d) : d[j] \in A2}
           T == {i \in 1..Len(c) : c[i] \in A}
           h == [j \in S |-> g[j]]
<1>1. IsFiniteSet(T)
  BY UpToFinite
<1>2. \A j \in S : j \in 1..Len(d) /\ h[j] = g[j] /\ g[j] \in T
  OBVIOUS
<1>3. h \in [S -> T]
  BY <1>2
<1> HIDE DEF S, T, h
<1>4. \A i, j \in S : h[i] = h[j] => i = j
  BY <1>2
<1>5. h \in Injection(S, T)
  BY <1>3, <1>4 DEF Injection, IsInjective
<1>6. Cardinality(S) <= Cardinality(T)
  BY <1>1, <1>5, FS_Injection
<1> QED BY <1>6 DEF Count, S, T

LEMMA CountPart ==
  ASSUME NEW c \in Seq(File), NEW d, Part(d, c), NEW A, NEW A2, A2 \subseteq A
  PROVE  Count(d, A2) <= Count(c, A)
<1>1. PICK g \in [1..Len(d) -> 1..Len(c)] :
             /\ \A i, j \in 1..Len(d) : g[i] = g[j] => i = j
             /\ \A j \in 1..Len(d) : d[j] = c[g[j]]
  BY DEF Part, TakenFrom
<1>2. d \in Seq(File) /\ \A j \in 1..Len(d) : d[j] \in A2 => c[g[j]] \in A
  BY <1>1 DEF Part
<1> QED BY <1>1, <1>2, CountFewer

LEMMA CountAppend ==
  ASSUME NEW c \in Seq(File), NEW f \in File, NEW A, f \notin A
  PROVE  Count(Append(c, f), A) = Count(c, A)
<1> DEFINE a == Append(c, f)
<1>1. /\ Len(c) \in Nat /\ Len(a) = Len(c) + 1
      /\ a[Len(c) + 1] = f /\ \A j \in 1..Len(c) : a[j] = c[j]
  BY AppendFacts
<1> HIDE DEF a
<1>2. {i \in 1..Len(a) : a[i] \in A} = {i \in 1..Len(c) : c[i] \in A}
  <2>1. ASSUME NEW i \in 1..Len(a), a[i] \in A PROVE i \in 1..Len(c) /\ c[i] \in A
    <3>1. i # Len(c) + 1
      BY <1>1, <2>1
    <3>2. i \in 1..Len(c)
      BY <1>1, <3>1
    <3> QED BY <1>1, <2>1, <3>2
  <2>2. ASSUME NEW i \in 1..Len(c), c[i] \in A PROVE i \in 1..Len(a) /\ a[i] \in A
    BY <1>1, <2>2
  <2> QED BY <2>1, <2>2
<1>3. Count(a, A) = Count(c, A)
  BY <1>2 DEF Count
<1> QED BY <1>3 DEF a

LEMMA CountTotal ==
  ASSUME NEW c \in Seq(File), AllVerified(c), NEW A, \A f \in A : f.key \in Recording
  PROVE  Count(c, A) <= Total(c)
<1> DEFINE S == {i \in 1..Len(c) : c[i] \in A}
           T == {i \in 1..Len(c) : c[i].size > 0}
<1>1. S \subseteq T
  <2>1. ASSUME NEW i \in 1..Len(c), c[i] \in A PROVE c[i].size > 0
    <3>1. c[i].size = 1
      BY <2>1 DEF AllVerified, Verified
    <3> QED BY <3>1
  <2> QED BY <2>1
<1>2. T \subseteq 1..Len(c) /\ Len(c) \in Nat
  OBVIOUS
<1> HIDE DEF S, T
<1>3. IsFiniteSet(T)
  BY <1>2, UpToFinite
<1>4. Cardinality(S) <= Cardinality(T)
  BY <1>1, <1>3, FS_Subset
<1> QED BY <1>4 DEF Count, Total, S, T

LEMMA LimitMeans ==
  ASSUME cache \in Seq(File)
  PROVE  Count(cache, Promised) <= CacheMax <=> SettledWithinLimit
<1> DEFINE S == {i \in 1..Len(cache) : cache[i] \in Promised}
           T == {i \in 1..Len(cache) :
                   /\ cache[i].key \in Recording
                   /\ status[cache[i].by] = "ready"
                   /\ ~\E u \in Handler : handler[u].st = "renamed" /\ handler[u].id = cache[i].by}
<1>1. \A i \in 1..Len(cache) : cache[i] \in File
  OBVIOUS
<1>2. S = T
  BY <1>1 DEF Promised
<1> HIDE DEF S, T
<1>3. Cardinality(S) = Cardinality(T)
  BY <1>2
<1> QED BY <1>3 DEF Count, SettledWithinLimit, S, T

(* Nothing more is promised when no request becomes ready and no handler   *)
(* leaves a ready one.                                                     *)
LEMMA PromisedLess ==
  ASSUME \A i \in Id : status'[i] = "ready" => status[i] = "ready",
         \A u \in Handler : handler[u].st = "renamed" =>
            handler'[u].st = "renamed" /\ handler'[u].id = handler[u].id
  PROVE  Promised' \subseteq Promised
<1>1. \A f \in File : f.by \in Id
  BY DEF File
<1> QED BY <1>1 DEF Promised, File


LimitInv == TypeInv /\ AllVerified(cache) /\ Count(cache, Promised) <= CacheMax

(* After a clean-up, and after ready, the whole cache fits.                *)
LEMMA FitsMeans ==
  ASSUME cache' \in Seq(File), AllVerified(cache'), Total(cache') <= CacheMax
  PROVE  Count(cache', Promised') <= CacheMax
<1>1. \A f \in Promised' : f.key \in Recording
  BY DEF Promised
<1>2. Count(cache', Promised') <= Total(cache')
  BY <1>1, CountTotal
<1>3. Count(cache', Promised') \in Nat /\ Total(cache') \in Nat
  BY CountType, TotalType
<1> QED BY <1>2, <1>3, CacheMaxAssumption

(* A file that is promised to nobody new does not count.                   *)
LEMMA FewerMeans ==
  ASSUME Count(cache, Promised) <= CacheMax, cache \in Seq(File), cache' \in Seq(File),
         Count(cache', Promised') <= Count(cache, Promised)
  PROVE  Count(cache', Promised') <= CacheMax
BY CountType, CacheMaxAssumption

LEMMA PartSame == ASSUME NEW c \in Seq(File) PROVE Part(c, c)
<1> DEFINE g == [j \in 1..Len(c) |-> j]
<1>1. g \in [1..Len(c) -> 1..Len(c)] /\ \A j \in 1..Len(c) : g[j] = j
  OBVIOUS
<1> QED BY <1>1 DEF Part, TakenFrom

(* A step that makes nothing ready and at most adds a temporary file.      *)
LEMMA LessStep ==
  ASSUME LimitInv, cache' \in Seq(File), Promised' \subseteq Promised,
         NEW d, Part(d, cache),
         \/ cache' = d
         \/ \E f \in File : f.key \in Handler /\ cache' = Append(d, f)
  PROVE  Count(cache', Promised') <= CacheMax
<1>1. cache \in Seq(File) /\ d \in Seq(File)
  BY DEF LimitInv, TypeInv, FileOK, Part
<1>2. Count(d, Promised') <= Count(cache, Promised)
  BY <1>1, CountPart
<1>3. ASSUME NEW f \in File, f.key \in Handler, cache' = Append(d, f)
      PROVE  Count(cache', Promised') = Count(d, Promised')
  <2>1. f \notin Promised'
    BY <1>3, NamesAssumption DEF Promised
  <2> QED BY <1>1, <1>3, <2>1, CountAppend
<1>4. Count(cache', Promised') = Count(d, Promised')
  BY <1>3
<1> QED BY <1>1, <1>2, <1>4, FewerMeans, Zenon DEF LimitInv


(* A step that is not about requests' status, files or handlers.           *)
LEMMA QuietLimit ==
  ASSUME LimitInv, UNCHANGED <<status, cache, handler>>
  PROVE  Count(cache', Promised') <= CacheMax
<1>1. Promised' = Promised
  BY DEF Promised
<1>2. Count(cache', Promised') = Count(cache, Promised)
  BY <1>1, Zenon
<1> QED BY <1>2, Zenon DEF LimitInv

(* The steps of a handler that make nothing ready, Rename apart.           *)
LEMMA OtherStep ==
  ASSUME LimitInv, cache' \in Seq(File), NEW u \in Handler,
         \/ \E s \in Site : BeginUpload(s, u)
         \/ CopyDone(u) \/ CopyInterrupted(u) \/ ChecksumMismatch(u) \/ Grow(u) \/ Settle(u)
  PROVE  Count(cache', Promised') <= CacheMax
<1>1. TypeInv /\ BrokerOK /\ cache \in Seq(File)
  BY DEF LimitInv, TypeInv, FileOK
<1>2. \A v \in Handler : v # u => handler'[v] = handler[v]
  BY <1>1 DEF BrokerOK, BeginUpload, CopyDone,
              CopyInterrupted, ChecksumMismatch, Grow, Settle
<1>3. handler[u].st = "renamed" => handler'[u] = handler[u]
  BY DEF BeginUpload, CopyDone,
         CopyInterrupted, ChecksumMismatch, Grow, Settle
<1>4. ASSUME NEW j \in Id, status'[j] = "ready" PROVE status[j] = "ready"
  <2>1. ASSUME NEW k, NEW st \in {"uploading", "queued", "error"}, Set(k, st)
        PROVE  status[j] = "ready"
    BY <1>1, <1>4, <2>1 DEF Set, BrokerOK
  <2>2. CASE UNCHANGED status
    BY <1>4, <2>2
  <2>3. CASE \E s \in Site : BeginUpload(s, u)
    BY <2>1, <2>2, <2>3 DEF BeginUpload, brokerVars
  <2>4. CASE Settle(u)
    BY <2>1, <2>2, <2>4 DEF Settle, brokerVars
  <2> QED BY <2>2, <2>3, <2>4 DEF CopyDone,
                CopyInterrupted, ChecksumMismatch, Grow, brokerVars
<1>5. Promised' \subseteq Promised
  BY <1>2, <1>3, <1>4, PromisedLess
<1>6. Part(cache, cache)
  BY <1>1, PartSame
<1>7. CASE (\E s \in Site : BeginUpload(s, u)) /\ cache' # cache
  <2>1. PICK f \in File : f.key = u /\ cache' = Append(cache, f)
    BY <1>1, <1>7, AddedFile
  <2> QED BY <1>5, <1>6, <2>1, LessStep
<1>8. CASE Grow(u)
  <2>1. PICK f \in File : f.key = u /\ cache' = Append(Without(cache, {u}), f)
    BY <1>1, <1>8, AddedFile
  <2>2. Part(Without(cache, {u}), cache)
    BY <1>1, WithoutPart
  <2> QED BY <1>5, <2>1, <2>2, LessStep
<1>9. CASE Settle(u)
  <2>1. Part(Without(cache, {u}), cache) /\ cache' = Without(cache, {u})
    BY <1>1, <1>9, WithoutPart DEF Settle
  <2> QED BY <1>5, <2>1, LessStep
<1>10. CASE cache' = cache
  BY <1>5, <1>6, <1>10, LessStep
<1> QED BY <1>7, <1>8, <1>9, <1>10 DEF CopyDone,
              CopyInterrupted, ChecksumMismatch, fileVars

(* What Rename puts under a recording's name is not promised before ready. *)
LEMMA RenameLimit ==
  ASSUME LimitInv, cache' \in Seq(File), NEW u \in Handler, Rename(u)
  PROVE  Count(cache', Promised') <= CacheMax
<1>1. TypeInv /\ BrokerOK /\ cache \in Seq(File) /\ FileOK(cache, handler, expired)
  BY DEF LimitInv, TypeInv, FileOK
<1>2. \A v \in Handler : v # u => handler'[v] = handler[v]
  BY <1>1 DEF BrokerOK, Rename
<1>3. Promised' \subseteq Promised
  <2>1. handler[u].st # "renamed" /\ status' = status
    BY DEF Rename, brokerVars
  <2> QED BY <1>2, <2>1, PromisedLess
<1>4. CASE Positions(cache, u) = {}
  <2>1. cache' = cache /\ Part(cache, cache)
    BY <1>1, <1>4, PartSame DEF Rename, fileVars
  <2> QED BY <1>3, <2>1, LessStep
<1>5. CASE Positions(cache, u) # {}
  <2> DEFINE r == rec[handler[u].id]
             d == Without(cache, {r})
             p == Spot(cache, u, r)
  <2>1. /\ r \in Recording \cup {None} /\ d \in Seq(File) /\ Part(d, cache)
        /\ IsRenamed(cache', cache, handler, expired, u, r, handler[u].good)
    BY <1>1, <1>5, RenameFacts
  <2>2. TempsOf(d, handler)
    BY <1>1, <2>1, PartKeeps DEF FileOK
  <2>3. handler'[u].st = "renamed" /\ handler'[u].id = handler[u].id
    BY <1>1, <1>5 DEF Rename, BrokerOK
  <2> HIDE DEF r
  <2>4. /\ p \in 1..Len(d) /\ d[p].key = u /\ Len(cache') = Len(d)
        /\ cache'[p] = Named(d[p], r, handler[u].good)
        /\ \A i \in 1..Len(d) : i # p => cache'[i] = d[i]
    BY <2>1 DEF IsRenamed
  <2> HIDE DEF d, p
  <2>5. d[p] \in File /\ d[p].by = handler[u].id
    BY <2>1, <2>2, <2>4 DEF TempsOf
  <2>6. cache'[p].by = handler[u].id
    BY <2>4, <2>5 DEF Named, File
  <2>7. cache'[p] \notin Promised'
    BY <2>3, <2>6 DEF Promised
  <2>8. PICK g \in [1..Len(d) -> 1..Len(cache)] :
               /\ \A i, j \in 1..Len(d) : g[i] = g[j] => i = j
               /\ \A j \in 1..Len(d) : d[j] = cache[g[j]]
    BY <2>1 DEF Part, TakenFrom
  <2>9. \A j \in 1..Len(cache') : cache'[j] \in Promised' => cache[g[j]] \in Promised
    BY <1>3, <2>4, <2>7, <2>8
  <2>10. Count(cache', Promised') <= Count(cache, Promised)
    <3>1. g \in [1..Len(cache') -> 1..Len(cache)]
          /\ \A i, j \in 1..Len(cache') : g[i] = g[j] => i = j
      BY <2>4, <2>8
    <3> QED BY <1>1, <2>9, <3>1, CountFewer
  <2> QED BY <1>1, <2>10, FewerMeans DEF LimitInv
<1> QED BY <1>4, <1>5

LEMMA LimitStep ==
  ASSUME LimitInv, TypeInv', AllVerified(cache'), Next
  PROVE  Count(cache', Promised') <= CacheMax
<1>1. /\ TypeInv /\ cache \in Seq(File) /\ expired \in 0..Len(cache)
      /\ cache' \in Seq(File)
  BY DEF LimitInv, TypeInv, FileOK
<1>2. ASSUME CleanFiles PROVE Count(cache', Promised') <= CacheMax
  BY <1>1, <1>2, CleanFacts, FitsMeans
<1>3. ASSUME NEW u \in Handler, MarkReady(u) PROVE Count(cache', Promised') <= CacheMax
  BY <1>1, <1>3, ReadyFacts, FitsMeans
<1>4. CASE CloudRestart
  <2>1. \A i \in Id : status'[i] # "ready"
    BY <1>4 DEF CloudRestart
  <2>2. \A f \in File : f.by \in Id
    BY DEF File
  <2>3. Promised' = {}
    BY <2>1, <2>2 DEF Promised
  <2>4. {i \in 1..Len(cache') : cache'[i] \in Promised'} = {}
    BY <2>3
  <2>5. Count(cache', Promised') = 0
    BY <2>4, FS_EmptySet DEF Count
  <2> QED BY <2>5, CacheMaxAssumption
<1>5. CASE UNCHANGED <<status, cache, handler>>
  BY <1>5, QuietLimit
<1>6. CASE \E s \in Site : Uploads(s)
  BY <1>1, <1>6, OtherStep DEF Uploads
<1>7. CASE \E u \in Handler : HandlerStep(u) \/ Grow(u)
  BY <1>1, <1>3, <1>7, OtherStep, RenameLimit DEF HandlerStep
<1>8. CASE \E r \in Recording : Prepare(r)
  BY <1>2, <1>8 DEF Prepare
<1>9. CASE StatusPoll
  BY <1>2, <1>9 DEF StatusPoll
<1>10. CASE \E s \in Site : TakeRequest(s) \/ LoseOffer(s)
  BY <1>2, <1>10 DEF TakeRequest, LoseOffer, Offer
<1>11. CASE \/ \E s \in Site : BreakUpload(s) \/ AgentRestart(s)
            \/ \E i \in Id : AgeRequest(i)
            \/ ExpireFile
  BY <1>5, <1>11 DEF BreakUpload, AgentRestart, AgeRequest, ExpireFile, brokerVars, fileVars
<1> QED BY <1>4, <1>6, <1>7, <1>8, <1>9, <1>10, <1>11 DEF Next

(* PLAYBACK_CACHE_MAX_BYTES bounds what viewers have been promised, for    *)
(* any limit, number of uploads at once, age of the files and restart: no  *)
(* request becomes ready but where ready enforces the limit as well.       *)
THEOREM LimitHolds == Spec => []SettledWithinLimit
<1>1. Init => LimitInv
  <2> SUFFICES ASSUME Init PROVE LimitInv
    OBVIOUS
  <2>1. TypeInv /\ AllVerified(cache) /\ cache = <<>>
    BY TypeInit DEF Init, AllVerified
  <2>2. {i \in 1..Len(cache) : cache[i] \in Promised} = {}
    BY <2>1
  <2>3. Count(cache, Promised) = 0
    BY <2>2, FS_EmptySet DEF Count
  <2> QED BY <2>1, <2>3, CacheMaxAssumption DEF LimitInv
<1>2. LimitInv /\ [Next]_vars => LimitInv'
  <2> SUFFICES ASSUME LimitInv, [Next]_vars PROVE LimitInv'
    OBVIOUS
  <2>1. TypeInv'
    BY TypeStep DEF LimitInv
  <2>2. CASE UNCHANGED vars
    <3>1. UNCHANGED <<status, cache, handler>>
      BY <2>2 DEF vars, brokerVars, fileVars
    <3>2. AllVerified(cache')
      BY <3>1 DEF LimitInv
    <3> QED BY <2>1, <3>1, <3>2, QuietLimit DEF LimitInv
  <2>3. CASE Next
    <3>1. AllVerified(cache')
      BY <2>3, VerifiedStep DEF LimitInv
    <3> QED BY <2>1, <2>3, <3>1, LimitStep DEF LimitInv
  <2> QED BY <2>2, <2>3
<1>3. LimitInv => SettledWithinLimit
  BY LimitMeans DEF LimitInv, TypeInv, FileOK
<1> QED BY <1>1, <1>2, <1>3, PTL DEF Spec


----------------------------------------------------------------------------
(* What stays while there is room                                          *)

Busy(u)  == handler[u].st # "idle"
RecOf(u) == rec[handler[u].id]
Alive(i) == status[i] \in {"queued", "uploading", "ready"}

(* No recording is uploaded by two handlers at once. It comes to that when *)
(* an agent has given an upload up that the handler still waits for: a     *)
(* broken connection that the cloud does not see, or an agent's restart.   *)
OneUploadOfEach ==
  \A u, v \in Handler : Busy(u) /\ Busy(v) /\ RecOf(u) = RecOf(v) => u = v

(* A request that exists is for a recording, and at most one of those for  *)
(* a recording is neither failed nor gone.                                 *)
OneAlive ==
  /\ \A i \in Id : status[i] # "new" => rec[i] \in Recording
  /\ \A i, j \in Id : Alive(i) /\ Alive(j) /\ rec[i] = rec[j] => i = j

(* While a handler is at work nobody else's request makes its recording    *)
(* ready, and what it has renamed is there under the recording's name.     *)
ServesOwn ==
  \A u \in Handler : Busy(u) =>
    /\ status[handler[u].id] \notin {"new", "error"}
    /\ \A j \in Id : status[j] = "ready" /\ rec[j] = RecOf(u) => j = handler[u].id
    /\ handler[u].st = "renamed" =>
         \A k \in 1..Len(cache) : cache[k].key = RecOf(u) => cache[k].by = handler[u].id

(* A ready request is as old as the file that made it ready.               *)
ReadyOwns ==
  \A i \in Id : status[i] = "ready" =>
    /\ age[i] = 0
    /\ \A k \in 1..Len(cache) : cache[k].key = rec[i] => cache[k].by = i

FreshInv == TypeInv /\ AllVerified(cache) /\ OneAlive /\ ServesOwn /\ ReadyOwns

(* What a step may do to a request.                                        *)
NewFor(i) ==
  /\ status[i] = "new"
  /\ rec'[i] \in Recording
  /\ \A j \in Id \ {i} : Alive(j)' => Alive(j) /\ rec[j] # rec'[i]

Changed(i) ==
  /\ status'[i] = "new" => status[i] = "new"
  /\ status[i] # "new" => rec'[i] = rec[i]
  /\ status'[i] = "ready" =>
       \/ status[i] = "ready" /\ (age'[i] = age[i] \/ AgeRequest(i))
       \/ \E u \in Handler : MarkReady(u) /\ Known(i) /\ i = handler[u].id /\ age'[i] = 0
  /\ status'[i] = "error" =>
       \/ status[i] = "error"
       \/ \E u \in Handler : Settle(u) /\ i = handler[u].id
  /\ Alive(i)' =>
       \/ Alive(i)
       \/ \E u \in Handler : Busy(u) /\ Known(i) /\ i = handler[u].id
       \/ NewFor(i)
  /\ status'[i] = "new" \/ status[i] # "new" \/ NewFor(i)

LEMMA CleanedCauses ==
  ASSUME BrokerOK, NEW i \in Id
  PROVE  /\ Cleaned(i) \in {"queued", "uploading", "ready"} => Alive(i)
         /\ Cleaned(i) \in {"new", "ready", "error"} => status[i] = Cleaned(i) /\ CleanAge(i) = age[i]
         /\ status[i] = "new" => Cleaned(i) = "new"
<1>1. status[i] \in Status
  BY DEF BrokerOK
<1>2. status[i] = "ready" => OverAge(i) \/ (~OverAge(i) /\ Missing(i)) \/ ~Missing(i)
  OBVIOUS
<1> QED BY <1>1 DEF Cleaned, CleanAge, Alive, Status, OverAge

(* The clean-up alone.                                                     *)
LEMMA CleanedChange ==
  ASSUME BrokerOK, NEW i \in Id, status'[i] = Cleaned(i), age'[i] = CleanAge(i), rec'[i] = rec[i]
  PROVE  Changed(i)
BY CleanedCauses DEF Changed, Alive

LEMMA RequestStep ==
  ASSUME BrokerOK, Next, NEW i \in Id
  PROVE  Changed(i)
<1>1. ASSUME CleanRequests PROVE Changed(i)
  BY <1>1, CleanedChange DEF CleanRequests
<1>2. ASSUME UNCHANGED <<status, rec, age>> PROVE Changed(i)
  BY <1>2 DEF Changed, Alive
<1>3. ASSUME NEW k \in Id, Set(k, "uploading"), Alive(k) PROVE Changed(i)
  BY <1>3 DEF Changed, Alive, Set, BrokerOK
<1>4. ASSUME NEW u \in Handler, MarkReady(u) PROVE Changed(i)
  <2>1. Busy(u) /\ handler[u].id \in Id
    BY <1>4 DEF MarkReady, Busy, BrokerOK
  <2>2. CASE Known(handler[u].id)
    <3>1. Set(handler[u].id, "ready")
      BY <1>4, <2>2 DEF MarkReady
    <3>2. CASE i = handler[u].id
      BY <1>4, <2>1, <2>2, <3>1, <3>2 DEF Changed, Alive, Set, BrokerOK, Known
    <3>3. CASE i # handler[u].id
      <4>1. status'[i] = status[i] /\ age'[i] = age[i] /\ rec'[i] = rec[i]
        BY <2>1, <3>1, <3>3 DEF Set, BrokerOK
      <4> QED BY <4>1 DEF Changed, Alive
    <3> QED BY <3>2, <3>3
  <2> QED BY <1>2, <1>4, <2>2 DEF MarkReady, brokerVars
<1>5. ASSUME NEW u \in Handler, Settle(u) PROVE Changed(i)
  <2>1. Busy(u) /\ handler[u].id \in Id
    BY <1>5 DEF Settle, Busy, BrokerOK
  <2>2. CASE Known(handler[u].id)
    <3>1. PICK st \in {"error", "queued"} : Set(handler[u].id, st)
      BY <1>5, <2>2 DEF Settle
    <3>2. CASE i = handler[u].id
      BY <1>5, <2>1, <2>2, <3>1, <3>2 DEF Changed, Alive, Set, BrokerOK, Known
    <3>3. CASE i # handler[u].id
      <4>1. status'[i] = status[i] /\ age'[i] = age[i] /\ rec'[i] = rec[i]
        BY <2>1, <3>1, <3>3 DEF Set, BrokerOK
      <4> QED BY <4>1 DEF Changed, Alive
    <3> QED BY <3>2, <3>3
  <2> QED BY <1>2, <1>5, <2>2 DEF Settle, brokerVars
<1>6. ASSUME NEW r \in Recording, Prepare(r) PROVE Changed(i)
  <2> DEFINE fresh == {j \in Id : status[j] = "new"}
  <2>1. CASE CleanRequests
    BY <1>1, <2>1
  <2>2. CASE ~CleanRequests
    <3>1. /\ fresh # {}
          /\ status' = [j \in Id |-> IF j = Min(fresh) THEN "queued" ELSE Cleaned(j)]
          /\ rec'    = [rec EXCEPT ![Min(fresh)] = r]
          /\ age'    = [j \in Id |-> CleanAge(j)]
          /\ ~\E j \in Id : rec[j] = r /\ Cleaned(j) \in {"queued", "uploading", "ready"}
      BY <1>6, <2>2 DEF Prepare
    <3>2. Min(fresh) \in fresh
      <4>1. fresh \subseteq Nat
        BY BoundsAssumption DEF Id
      <4> QED BY <3>1, <4>1, MinFacts
    <3> DEFINE m == Min(fresh)
    <3>3. m \in Id /\ status[m] = "new"
      BY <3>2
    <3> HIDE DEF m, fresh
    <3>4. /\ status'[m] = "queued" /\ rec'[m] = r
          /\ \A j \in Id \ {m} : status'[j] = Cleaned(j) /\ rec'[j] = rec[j] /\ age'[j] = CleanAge(j)
      BY <3>1, <3>3 DEF m, BrokerOK
    <3>5. NewFor(m)
      <4>1. ASSUME NEW j \in Id \ {m}, Alive(j)'
            PROVE  Alive(j) /\ rec[j] # rec'[m]
        BY <3>1, <3>4, <4>1, CleanedCauses DEF Alive
      <4> QED BY <3>3, <3>4, <4>1 DEF NewFor
    <3>6. CASE i = m
      BY <3>3, <3>4, <3>5, <3>6 DEF Changed
    <3>7. CASE i # m
      BY <3>4, <3>7, CleanedChange
    <3> QED BY <3>6, <3>7
  <2> QED BY <2>1, <2>2
<1>7. ASSUME NEW s \in Site, Offer(s) PROVE Changed(i)
  <2>1. /\ Min(Offerable(s)) \in Id /\ Cleaned(Min(Offerable(s))) = "queued"
    BY <1>7, OfferIsFirst DEF Offerable
  <2> DEFINE m == Min(Offerable(s))
  <2>2. /\ status' = [j \in Id |-> IF j = m THEN "uploading" ELSE Cleaned(j)]
        /\ age'    = [j \in Id |-> IF j = m THEN 0 ELSE CleanAge(j)]
        /\ rec' = rec
    BY <1>7 DEF Offer
  <2>3. m \in Id /\ Alive(m) /\ status[m] # "new"
    BY <2>1, CleanedCauses DEF Alive
  <2> HIDE DEF m
  <2>4. CASE i = m
    BY <2>2, <2>3, <2>4 DEF Changed, Alive
  <2>5. CASE i # m
    BY <2>2, <2>5, CleanedChange
  <2> QED BY <2>4, <2>5
<1>8. ASSUME NEW s \in Site, NEW u \in Handler, BeginUpload(s, u) PROVE Changed(i)
  <2>1. job[s] \in Id
    BY <1>8 DEF BeginUpload, BrokerOK
  <2> QED BY <1>2, <1>3, <1>8, <2>1 DEF BeginUpload, Alive, brokerVars
<1>9. ASSUME NEW j \in Id, AgeRequest(j) PROVE Changed(i)
  <2>1. status' = status /\ rec' = rec /\ (i # j => age'[i] = age[i])
    BY <1>9 DEF AgeRequest, BrokerOK
  <2> QED BY <1>9, <2>1 DEF Changed, Alive
<1>10. CASE CloudRestart
  BY <1>10 DEF CloudRestart, Changed, Alive
<1>11. CASE \E r \in Recording : Prepare(r)
  BY <1>6, <1>11
<1>12. CASE StatusPoll
  BY <1>1, <1>12 DEF StatusPoll
<1>13. CASE \E s \in Site : TakeRequest(s) \/ LoseOffer(s) \/ Uploads(s)
  BY <1>7, <1>8, <1>13 DEF TakeRequest, LoseOffer, Uploads
<1>14. CASE \/ \E s \in Site : BreakUpload(s) \/ AgentRestart(s)
            \/ ExpireFile
            \/ \E u \in Handler : CopyDone(u) \/ CopyInterrupted(u) \/ ChecksumMismatch(u)
                                  \/ Rename(u) \/ Grow(u)
  BY <1>2, <1>14 DEF BreakUpload, AgentRestart, ExpireFile, CopyDone, CopyInterrupted,
                     ChecksumMismatch, Rename, Grow, brokerVars
<1>15. CASE \E j \in Id : AgeRequest(j)
  BY <1>9, <1>15
<1> QED BY <1>4, <1>5, <1>10, <1>11, <1>12, <1>13, <1>14, <1>15 DEF Next, HandlerStep


LEMMA OneAliveStep ==
  ASSUME TypeInv, OneAlive, ServesOwn, Next
  PROVE  OneAlive'
<1>1. BrokerOK /\ \A i \in Id : Changed(i)
  BY RequestStep DEF TypeInv
<1>2. ASSUME NEW i \in Id, status'[i] # "new"
      PROVE  rec'[i] \in Recording
  BY <1>1, <1>2 DEF Changed, NewFor, OneAlive
<1>3. ASSUME NEW i \in Id, Alive(i)'
      PROVE  (Alive(i) /\ rec'[i] = rec[i]) \/ NewFor(i)
  <2>1. ASSUME NEW u \in Handler, Busy(u), Known(i), i = handler[u].id
        PROVE  Alive(i)
    BY <1>1, <2>1 DEF ServesOwn, Known, Alive, BrokerOK, Status
  <2>2. Alive(i) \/ NewFor(i)
    BY <1>1, <1>3, <2>1 DEF Changed
  <2> QED BY <1>1, <2>2 DEF Changed, Alive
<1>4. ASSUME NEW i \in Id, NEW j \in Id, Alive(i)', Alive(j)', rec'[i] = rec'[j], i # j
      PROVE  FALSE
  <2>1. CASE NewFor(i) \/ NewFor(j)
    <3>1. ASSUME NEW k \in Id, NEW l \in Id, k # l, NewFor(k), Alive(l)', rec'[k] = rec'[l]
          PROVE  FALSE
      <4>1. Alive(l) /\ rec[l] # rec'[k]
        BY <3>1 DEF NewFor
      <4>2. rec'[l] = rec[l]
        BY <1>1, <4>1 DEF Changed, Alive
      <4> QED BY <3>1, <4>1, <4>2
    <3> QED BY <1>4, <2>1, <3>1
  <2>2. CASE ~NewFor(i) /\ ~NewFor(j)
    BY <1>3, <1>4, <2>2 DEF OneAlive
  <2> QED BY <2>1, <2>2
<1>5. (\A i \in Id : status[i] # "new" => rec[i] \in Recording)'
  BY <1>2
<1>6. (\A i, j \in Id : Alive(i) /\ Alive(j) /\ rec[i] = rec[j] => i = j)'
  BY <1>4
<1> QED BY <1>5, <1>6 DEF OneAlive

(* How a handler comes to be at work, and how a file to be under a name.   *)
Continues(u) ==
  /\ Busy(u)
  /\ handler'[u].id = handler[u].id
  /\ handler'[u].st = "renamed" =>
       handler[u].st = "renamed" \/ (Rename(u) /\ Positions(cache, u) # {})
  /\ ~MarkReady(u) /\ ~Settle(u)

Begins(u) ==
  \E s \in Site : /\ job[s] \in Id
                  /\ Alive(job[s]) /\ status' = [status EXCEPT ![job[s]] = "uploading"]
                  /\ handler'[u].id = job[s] /\ handler'[u].st # "renamed"

LEMMA HandlerChange ==
  ASSUME BrokerOK, Next, NEW v \in Handler, handler'[v].st # "idle"
  PROVE  Continues(v) \/ Begins(v)
<1>1. Idle.st = "idle"
  BY DEF Idle
<1>2. ~MarkReady(v) /\ ~Settle(v)
  BY <1>1 DEF MarkReady, Settle, BrokerOK
<1>3. ASSUME handler'[v] = handler[v] PROVE Continues(v)
  BY <1>2, <1>3 DEF Continues, Busy
<1>4. ASSUME NEW u \in Handler, MarkReady(u) \/ Settle(u) PROVE Continues(v)
  <2>1. v # u
    BY <1>2, <1>4
  <2>2. handler'[v] = handler[v]
    BY <1>4, <2>1 DEF MarkReady, Settle, BrokerOK
  <2> QED BY <1>3, <2>2
<1>5. ASSUME NEW u \in Handler, CopyDone(u) \/ CopyInterrupted(u) \/ ChecksumMismatch(u)
      PROVE  Continues(v)
  BY <1>2, <1>5 DEF Continues, Busy, CopyDone, CopyInterrupted, ChecksumMismatch, BrokerOK
<1>6. ASSUME NEW u \in Handler, Rename(u) PROVE Continues(v)
  <2>1. CASE v # u
    BY <1>3, <1>6, <2>1 DEF Rename, BrokerOK
  <2>2. CASE v = u
    <3>1. handler[v].st = "copied" /\ handler'[v].id = handler[v].id
      BY <1>6, <2>2 DEF Rename, BrokerOK
    <3>2. Positions(cache, u) = {} => handler'[v].st = "requeue"
      BY <1>6, <2>2 DEF Rename, BrokerOK
    <3> QED BY <1>2, <1>6, <2>2, <3>1, <3>2 DEF Continues, Busy
  <2> QED BY <2>1, <2>2
<1>7. ASSUME NEW s \in Site, NEW u \in Handler, BeginUpload(s, u)
      PROVE  Continues(v) \/ Begins(v)
  <2>1. CASE v # u \/ handler' = handler
    <3>1. handler'[v] = handler[v]
      BY <1>7, <2>1 DEF BeginUpload, BrokerOK
    <3> QED BY <1>3, <3>1
  <2>2. CASE v = u /\ handler' # handler
    <3>1. /\ job[s] \in Id
          /\ Alive(job[s]) /\ status' = [status EXCEPT ![job[s]] = "uploading"]
          /\ handler'[u].id = job[s] /\ handler'[u].st # "renamed"
      BY <1>7, <2>2 DEF BeginUpload, BrokerOK, Alive, Set
    <3> QED BY <2>2, <3>1 DEF Begins
  <2> QED BY <2>1, <2>2
<1>8. CASE CloudRestart
  BY <1>1, <1>8 DEF CloudRestart
<1>9. CASE \E s \in Site : Uploads(s)
  BY <1>7, <1>9 DEF Uploads
<1>10. CASE \E u \in Handler : HandlerStep(u)
  BY <1>4, <1>5, <1>6, <1>10 DEF HandlerStep
<1>11. CASE UNCHANGED handler
  BY <1>3, <1>11
<1> QED BY <1>8, <1>9, <1>10, <1>11 DEF Next, Prepare, StatusPoll, TakeRequest, LoseOffer, Offer,
              BreakUpload, AgentRestart, Grow, AgeRequest, ExpireFile

(* A file under a recording's name was there, or is the renamed one.       *)
WasThere(k) == \E l \in 1..Len(cache) : cache[l].key = cache'[k].key /\ cache[l].by = cache'[k].by

Placed(k, u) == Rename(u) /\ cache'[k].key = RecOf(u) /\ cache'[k].by = handler[u].id

LEMMA PartWasThere ==
  ASSUME NEW c \in Seq(File), NEW d, Part(d, c), NEW k \in 1..Len(d)
  PROVE  \E l \in 1..Len(c) : c[l].key = d[k].key /\ c[l].by = d[k].by
BY DEF Part, TakenFrom

LEMMA RenamePlaces ==
  ASSUME TypeInv, NEW u \in Handler, Rename(u), Positions(cache, u) # {}, NEW k \in 1..Len(cache')
  PROVE  /\ cache'[k].key = RecOf(u) => Placed(k, u)
         /\ WasThere(k) \/ Placed(k, u)
<1> DEFINE r == rec[handler[u].id]
           d == Without(cache, {r})
           p == Spot(cache, u, r)
<1>1. /\ cache \in Seq(File) /\ TempsOf(cache, handler)
      /\ d \in Seq(File) /\ Part(d, cache) /\ IsWithout(d, cache, {r}, Len(cache))
      /\ IsRenamed(cache', cache, handler, expired, u, r, handler[u].good)
  BY RenameFacts, WithoutFacts DEF TypeInv, FileOK
<1>2. r = RecOf(u)
  BY DEF RecOf
<1>3. TempsOf(d, handler)
  BY <1>1, PartKeeps
<1> HIDE DEF r
<1>4. /\ p \in 1..Len(d) /\ d[p].key = u /\ Len(cache') = Len(d)
      /\ cache'[p] = Named(d[p], r, handler[u].good)
      /\ \A i \in 1..Len(d) : i # p => cache'[i] = d[i]
      /\ \A i \in 1..Len(d) : d[i].key # r
  BY <1>1 DEF IsRenamed, IsWithout
<1> HIDE DEF d, p
<1>5. d[p] \in File /\ d[p].by = handler[u].id
  BY <1>1, <1>3, <1>4 DEF TempsOf
<1>6. cache'[p].key = r /\ cache'[p].by = handler[u].id
  BY <1>4, <1>5 DEF Named, File
<1>7. CASE k = p
  BY <1>2, <1>6, <1>7 DEF Placed
<1>8. CASE k # p
  <2>1. k \in 1..Len(d) /\ cache'[k] = d[k] /\ cache'[k].key # r
    BY <1>4, <1>8
  <2>2. WasThere(k)
    BY <1>1, <2>1, PartWasThere DEF WasThere
  <2> QED BY <1>2, <2>1, <2>2
<1> QED BY <1>7, <1>8

LEMMA FileChange ==
  ASSUME TypeInv, Next, NEW k \in 1..Len(cache'), cache'[k].key \in Recording
  PROVE  WasThere(k) \/ \E u \in Handler : Placed(k, u)
<1>1. cache \in Seq(File) /\ expired \in 0..Len(cache)
  BY DEF TypeInv, FileOK
<1>2. ASSUME Part(cache', cache) PROVE WasThere(k)
  BY <1>1, <1>2, PartWasThere DEF WasThere
<1>3. ASSUME cache' = cache PROVE WasThere(k)
  BY <1>3 DEF WasThere
<1>4. ASSUME CleanFiles PROVE WasThere(k)
  BY <1>1, <1>2, <1>4, CleanFacts
<1>5. ASSUME NEW u \in Handler, NEW d, Part(d, cache), NEW f \in File, f.key = u, cache' = Append(d, f)
      PROVE  WasThere(k)
  <2>1. d \in Seq(File)
    BY <1>5 DEF Part
  <2>2. /\ Len(d) \in Nat /\ Len(cache') = Len(d) + 1 /\ cache'[Len(d) + 1] = f
        /\ \A j \in 1..Len(d) : cache'[j] = d[j]
    BY <1>5, <2>1, AppendFacts
  <2>3. k # Len(d) + 1
    BY <1>5, <2>2, NamesAssumption
  <2>4. k \in 1..Len(d) /\ cache'[k] = d[k]
    BY <2>2, <2>3
  <2> QED BY <1>1, <1>5, <2>4, PartWasThere DEF WasThere
<1>6. ASSUME NEW u \in Handler, NEW s \in Site, BeginUpload(s, u) PROVE WasThere(k)
  <2>1. Part(cache, cache)
    BY <1>1, PartSame
  <2>2. CASE cache' # cache
    <3>1. PICK f \in File : f.key = u /\ cache' = Append(cache, f)
      BY <1>6, <2>2, AddedFile
    <3> QED BY <1>5, <2>1, <3>1
  <2> QED BY <1>3, <2>2
<1>7. ASSUME NEW u \in Handler, Grow(u) PROVE WasThere(k)
  <2>1. PICK f \in File : f.key = u /\ cache' = Append(Without(cache, {u}), f)
    BY <1>7, AddedFile
  <2>2. Part(Without(cache, {u}), cache)
    BY <1>1, WithoutPart
  <2> QED BY <1>5, <2>1, <2>2
<1>8. ASSUME NEW u \in Handler, Rename(u) PROVE WasThere(k) \/ Placed(k, u)
  <2>1. CASE Positions(cache, u) = {}
    BY <1>3, <1>8, <2>1 DEF Rename, fileVars
  <2> QED BY <1>8, <2>1, RenamePlaces
<1>9. ASSUME NEW u \in Handler, MarkReady(u) \/ Settle(u) PROVE WasThere(k)
  <2>1. Part(cache', cache)
    BY <1>1, <1>9, ReadyFacts, WithoutPart DEF Settle
  <2> QED BY <1>2, <2>1
<1>10. CASE CloudRestart
  <2>1. k \in 1..Len(cache) /\ cache[k] \in File
    BY <1>1, <1>10 DEF CloudRestart
  <2>2. cache'[k] = IF cache[k].key \in Handler THEN [cache[k] EXCEPT !.key = None] ELSE cache[k]
    BY <1>10, <2>1 DEF CloudRestart
  <2>3. cache[k].key \notin Handler
    <3>1. ASSUME cache[k].key \in Handler PROVE cache'[k].key = None
      BY <2>1, <2>2, <3>1 DEF File
    <3> QED BY <3>1, NamesAssumption
  <2> QED BY <2>1, <2>2, <2>3 DEF WasThere
<1>11. CASE \E u \in Handler : HandlerStep(u) \/ Grow(u)
  <2>1. ASSUME NEW u \in Handler, CopyDone(u) \/ CopyInterrupted(u) \/ ChecksumMismatch(u)
        PROVE  WasThere(k)
    BY <1>3, <2>1 DEF CopyDone, CopyInterrupted, ChecksumMismatch, fileVars
  <2> QED BY <1>7, <1>8, <1>9, <1>11, <2>1 DEF HandlerStep
<1>12. CASE \E s \in Site : Uploads(s)
  BY <1>6, <1>12 DEF Uploads
<1>13. CASE CleanFiles \/ cache' = cache
  BY <1>3, <1>4, <1>13
<1> QED BY <1>10, <1>11, <1>12, <1>13 DEF Next, Prepare, StatusPoll, TakeRequest, LoseOffer, Offer,
              BreakUpload, AgentRestart, AgeRequest, ExpireFile, fileVars


LEMMA ServesOwnStep ==
  ASSUME FreshInv, OneUploadOfEach, Next
  PROVE  ServesOwn'
<1>1. /\ TypeInv /\ BrokerOK /\ OneAlive /\ ServesOwn
      /\ \A i \in Id : Changed(i)
  BY RequestStep DEF FreshInv, TypeInv
<1> SUFFICES ASSUME NEW v \in Handler, handler'[v].st # "idle"
             PROVE  /\ status'[handler'[v].id] \notin {"new", "error"}
                    /\ \A j \in Id : status'[j] = "ready" /\ rec'[j] = rec'[handler'[v].id]
                                       => j = handler'[v].id
                    /\ handler'[v].st = "renamed" =>
                         \A k \in 1..Len(cache') : cache'[k].key = rec'[handler'[v].id]
                                                     => cache'[k].by = handler'[v].id
  BY DEF ServesOwn, Busy, RecOf
<1> DEFINE i == handler'[v].id
<1>2. CASE Continues(v)
  <2>1. /\ Busy(v) /\ i = handler[v].id /\ i \in Id /\ ~MarkReady(v) /\ ~Settle(v)
        /\ status[i] \notin {"new", "error"}
    BY <1>1, <1>2 DEF Continues, Busy, BrokerOK, ServesOwn
  <2>2. rec'[i] = RecOf(v) /\ RecOf(v) \in Recording
    BY <1>1, <2>1 DEF Changed, RecOf, OneAlive
  <2>3. ASSUME NEW u \in Handler, Busy(u), RecOf(u) = RecOf(v)
        PROVE  u = v
    BY <2>1, <2>3 DEF OneUploadOfEach
  <2> HIDE DEF i
  <2>4. status'[i] # "new" /\ status'[i] # "error"
    <3>1. ASSUME NEW u \in Handler, Settle(u), i = handler[u].id PROVE FALSE
      <4>1. Busy(u) /\ RecOf(u) = RecOf(v)
        BY <2>1, <3>1 DEF Settle, Busy, RecOf
      <4> QED BY <2>1, <2>3, <3>1, <4>1
    <3> QED BY <1>1, <2>1, <3>1 DEF Changed
  <2>5. ASSUME NEW j \in Id, status'[j] = "ready", rec'[j] = rec'[i]
        PROVE  j = i
    <3>1. CASE status[j] = "ready"
      <4>1. rec[j] = RecOf(v)
        BY <1>1, <2>2, <2>5, <3>1 DEF Changed
      <4> QED BY <1>1, <2>1, <3>1, <4>1 DEF ServesOwn
    <3>2. ASSUME NEW u \in Handler, MarkReady(u), Known(j), j = handler[u].id
          PROVE  FALSE
      <4>1. rec'[j] = rec[j]
        BY <1>1, <3>2 DEF Changed, Known
      <4>2. Busy(u) /\ RecOf(u) = RecOf(v)
        BY <2>2, <2>5, <3>2, <4>1 DEF MarkReady, Busy, RecOf
      <4> QED BY <2>1, <2>3, <3>2, <4>2
    <3> QED BY <1>1, <2>5, <3>1, <3>2 DEF Changed
  <2>6. ASSUME handler'[v].st = "renamed", NEW k \in 1..Len(cache'), cache'[k].key = rec'[i]
        PROVE  cache'[k].by = i
    <3>1. CASE handler[v].st = "renamed"
      <4>1. ASSUME NEW u \in Handler, Placed(k, u) PROVE cache'[k].by = i
        <5>1. Busy(u) /\ RecOf(u) = RecOf(v)
          BY <2>2, <2>6, <4>1 DEF Placed, Rename, Busy
        <5> QED BY <2>1, <2>3, <4>1, <5>1 DEF Placed
      <4>2. CASE WasThere(k)
        BY <1>1, <2>1, <2>2, <2>6, <3>1, <4>2 DEF WasThere, ServesOwn
      <4> QED BY <1>1, <2>2, <2>6, <4>1, <4>2, FileChange
    <3>2. CASE Rename(v) /\ Positions(cache, v) # {}
      <4>1. Placed(k, v)
        BY <1>1, <2>2, <2>6, <3>2, RenamePlaces
      <4> QED BY <2>1, <4>1 DEF Placed
    <3> QED BY <1>2, <2>6, <3>1, <3>2 DEF Continues
  <2> QED BY <2>4, <2>5, <2>6 DEF i
<1>3. CASE Begins(v)
  <2>1. /\ i \in Id /\ Alive(i) /\ status' = [status EXCEPT ![i] = "uploading"]
        /\ handler'[v].st # "renamed"
    BY <1>3 DEF Begins
  <2> HIDE DEF i
  <2>2. status'[i] = "uploading" /\ rec'[i] = rec[i]
    BY <1>1, <2>1 DEF BrokerOK, Changed, Alive
  <2>3. ASSUME NEW j \in Id, status'[j] = "ready", rec'[j] = rec'[i]
        PROVE  FALSE
    <3>1. status[j] = "ready" /\ j # i
      BY <1>1, <2>1, <2>3 DEF BrokerOK
    <3>2. rec[j] = rec[i] /\ Alive(j)
      BY <1>1, <2>2, <2>3, <3>1 DEF Changed, Alive
    <3> QED BY <1>1, <2>1, <3>1, <3>2 DEF OneAlive
  <2> QED BY <2>1, <2>2, <2>3 DEF i
<1> QED BY <1>1, <1>2, <1>3, HandlerChange

LEMMA ReadyOwnsStep ==
  ASSUME FreshInv, Next
  PROVE  ReadyOwns'
<1>1. /\ TypeInv /\ BrokerOK /\ OneAlive /\ ServesOwn /\ ReadyOwns
      /\ \A i \in Id : Changed(i)
      /\ OneAlive'
  BY RequestStep, OneAliveStep DEF FreshInv, TypeInv
<1> SUFFICES ASSUME NEW i \in Id, status'[i] = "ready"
             PROVE  /\ age'[i] = 0
                    /\ \A k \in 1..Len(cache') : cache'[k].key = rec'[i] => cache'[k].by = i
  BY DEF ReadyOwns
<1>2. rec'[i] \in Recording
  BY <1>1 DEF OneAlive
<1>3. ~(status[i] = "ready" /\ AgeRequest(i))
  <2> SUFFICES ASSUME status[i] = "ready", AgeRequest(i) PROVE FALSE
    OBVIOUS
  <2>1. PICK k \in Positions(Unexpired, rec[i]) : Unexpired[k].by # i
    BY DEF AgeRequest
  <2>2. k \in 1..Len(Unexpired) /\ Unexpired[k].key = rec[i]
    BY DEF Positions
  <2>3. cache \in Seq(File) /\ Part(Unexpired, cache)
    BY <1>1, UnexpiredFacts DEF TypeInv, FileOK
  <2>4. \E l \in 1..Len(cache) : cache[l].key = Unexpired[k].key /\ cache[l].by = Unexpired[k].by
    BY <2>2, <2>3, PartWasThere
  <2> QED BY <1>1, <2>1, <2>2, <2>4 DEF ReadyOwns
<1>4. age'[i] = 0
  BY <1>1, <1>3 DEF Changed, ReadyOwns
<1>5. ASSUME NEW k \in 1..Len(cache'), cache'[k].key = rec'[i]
      PROVE  cache'[k].by = i
  <2>1. ASSUME NEW u \in Handler, Placed(k, u)
        PROVE  cache'[k].by = i
    <3>1. status[i] = "ready" /\ rec'[i] = rec[i] /\ Busy(u)
      BY <1>1, <2>1 DEF Placed, Rename, brokerVars, Busy
    <3>2. i = handler[u].id
      BY <1>1, <1>5, <2>1, <3>1 DEF Placed, ServesOwn
    <3> QED BY <2>1, <3>2 DEF Placed
  <2>2. CASE WasThere(k)
    <3>1. CASE status[i] = "ready"
      <4>1. rec'[i] = rec[i]
        BY <1>1, <3>1 DEF Changed
      <4> QED BY <1>1, <1>5, <2>2, <3>1, <4>1 DEF WasThere, ReadyOwns
    <3>2. ASSUME NEW u \in Handler, MarkReady(u), Known(i), i = handler[u].id
          PROVE  cache'[k].by = i
      <4>1. rec'[i] = RecOf(u)
        BY <1>1, <3>2 DEF Changed, Known, RecOf
      <4>2. handler[u].st = "renamed" /\ Busy(u)
        BY <3>2 DEF MarkReady, Busy
      <4> QED BY <1>1, <1>5, <2>2, <3>2, <4>1, <4>2 DEF WasThere, ServesOwn
    <3> QED BY <1>1, <3>1, <3>2 DEF Changed
  <2> QED BY <1>1, <1>2, <1>5, <2>1, <2>2, FileChange
<1> QED BY <1>4, <1>5

(* With room for all of what is not expired, the clean-up takes nothing.   *)
LEMMA TotalPart ==
  ASSUME NEW c \in Seq(File), NEW d, Part(d, c)
  PROVE  Total(d) <= Total(c)
<1> DEFINE Full == {f \in File : f.size > 0}
<1>1. ASSUME NEW e \in Seq(File) PROVE Count(e, Full) = Total(e)
  <2> DEFINE S == {i \in 1..Len(e) : e[i] \in Full}
             T == {i \in 1..Len(e) : e[i].size > 0}
  <2>1. \A i \in 1..Len(e) : e[i] \in File
    OBVIOUS
  <2>2. S = T
    BY <2>1
  <2> HIDE DEF S, T
  <2>3. Cardinality(S) = Cardinality(T)
    BY <2>2
  <2> QED BY <2>3 DEF Count, Total, S, T
<1> HIDE DEF Full
<1>2. Count(d, Full) <= Count(c, Full)
  BY CountPart
<1>3. d \in Seq(File)
  BY DEF Part
<1> QED BY <1>1, <1>2, <1>3

Stays(r) == \E l \in 1..Len(cache') : cache'[l].key = r

LEMMA CleanKeeps ==
  ASSUME FreshInv, CleanFiles, NEW k \in 1..Len(Unexpired), Total(Unexpired) <= CacheMax
  PROVE  Stays(Unexpired[k].key)
<1>1. /\ cache \in Seq(File) /\ Unexpired \in Seq(File)
      /\ Swept \in Seq(File) /\ Part(Swept, Unexpired)
  BY UnexpiredFacts, SweptFacts DEF FreshInv, TypeInv, FileOK
<1>2. TakenAlong = {}
  <2>1. \A j \in Id : ~OverAge(j)
    BY DEF FreshInv, ReadyOwns, OverAge
  <2> QED BY <2>1 DEF TakenAlong
<1>3. Total(Swept) <= CacheMax
  <2>1. Total(Swept) <= Total(Unexpired) /\ Total(Swept) \in Nat /\ Total(Unexpired) \in Nat
    BY <1>1, TotalPart, TotalType
  <2> QED BY <2>1, CacheMaxAssumption
<1>4. cache' = Swept
  BY <1>1, <1>3, EvictFacts DEF CleanFiles
<1>5. IsWithout(Swept, Unexpired, {}, Len(Unexpired))
  BY <1>1, <1>2, WithoutFacts DEF Swept
<1>6. \E l \in 1..Len(Swept) : Swept[l] = Unexpired[k]
  BY <1>5 DEF IsWithout
<1> QED BY <1>4, <1>6 DEF Stays

LEMMA KeepsStep ==
  ASSUME FreshInv, TypeInv', AllVerified(cache)', Next, NEW k \in 1..Len(Unexpired),
         Unexpired[k].key \in Recording, Total(Unexpired) <= CacheMax
  PROVE  InCache(cache', Unexpired[k].key)
<1> DEFINE r == Unexpired[k].key
<1>1. /\ TypeInv /\ cache \in Seq(File) /\ expired \in 0..Len(cache)
      /\ Unexpired \in Seq(File) /\ Part(Unexpired, cache)
  BY UnexpiredFacts DEF FreshInv, TypeInv, FileOK
<1>2. PICK n \in 1..Len(cache) : cache[n].key = r
  BY <1>1, PartWasThere
<1>3. r \in Recording /\ r \notin Handler
  BY NamesAssumption
<1>4. ASSUME CleanFiles PROVE Stays(r)
  BY <1>4, CleanKeeps
<1> HIDE DEF r
<1>5. ASSUME cache' = cache PROVE Stays(r)
  BY <1>2, <1>5 DEF Stays
<1>6. ASSUME NEW K, r \notin K
      PROVE  /\ Without(cache, K) \in Seq(File)
             /\ \E l \in 1..Len(Without(cache, K)) : Without(cache, K)[l].key = r
  <2>1. IsWithout(Without(cache, K), cache, K, Len(cache))
    BY <1>1, WithoutFacts
  <2> QED BY <1>2, <1>6, <2>1 DEF IsWithout
<1>7. ASSUME NEW d \in Seq(File), NEW f \in File, cache' = Append(d, f),
             \E l \in 1..Len(d) : d[l].key = r
      PROVE  Stays(r)
  <2>1. /\ Len(d) \in Nat /\ Len(cache') = Len(d) + 1
        /\ \A j \in 1..Len(d) : cache'[j] = d[j]
    BY <1>7, AppendFacts
  <2>2. \A j \in 1..Len(d) : j \in 1..Len(cache')
    BY <2>1
  <2> QED BY <1>7, <2>1, <2>2 DEF Stays
<1>8. ASSUME NEW s \in Site, NEW u \in Handler, BeginUpload(s, u) PROVE Stays(r)
  <2>1. CASE cache' # cache
    <3>1. PICK f \in File : cache' = Append(cache, f)
      BY <1>1, <1>8, <2>1, AddedFile
    <3> QED BY <1>1, <1>2, <1>7, <3>1
  <2> QED BY <1>5, <2>1
<1>9. ASSUME NEW u \in Handler, Grow(u) PROVE Stays(r)
  <2>1. PICK f \in File : cache' = Append(Without(cache, {u}), f)
    BY <1>1, <1>9, AddedFile
  <2>2. r \notin {u}
    BY <1>3
  <2> QED BY <1>6, <1>7, <2>1, <2>2
<1>10. ASSUME NEW u \in Handler, Settle(u) PROVE Stays(r)
  <2>1. r \notin {u} /\ cache' = Without(cache, {u})
    BY <1>3, <1>10 DEF Settle
  <2> QED BY <1>6, <2>1 DEF Stays
<1>11. ASSUME NEW u \in Handler, MarkReady(u) PROVE Stays(r)
  <2>1. cache' = Unexpired
    BY <1>1, <1>11, EvictFacts DEF MarkReady
  <2> QED BY <2>1 DEF Stays, r
<1>12. ASSUME NEW u \in Handler, Rename(u) PROVE Stays(r)
  <2>1. CASE Positions(cache, u) = {}
    BY <1>5, <1>12, <2>1 DEF Rename, fileVars
  <2>2. CASE Positions(cache, u) # {}
    <3> DEFINE x == rec[handler[u].id]
               d == Without(cache, {x})
               p == Spot(cache, u, x)
    <3>1. d \in Seq(File) /\ IsRenamed(cache', cache, handler, expired, u, x, handler[u].good)
      BY <1>1, <1>12, <2>2, RenameFacts
    <3>2. r # x => \E l \in 1..Len(d) : d[l].key = r
      BY <1>6
    <3> HIDE DEF x
    <3>3. /\ p \in 1..Len(d) /\ d[p].key = u /\ Len(cache') = Len(d)
          /\ cache'[p] = Named(d[p], x, handler[u].good)
          /\ \A i \in 1..Len(d) : i # p => cache'[i] = d[i]
      BY <3>1 DEF IsRenamed
    <3> HIDE DEF d, p
    <3>4. cache'[p].key = x
      <4>1. d[p] \in File
        BY <3>1, <3>3
      <4> QED BY <3>3, <4>1 DEF Named, File
    <3>5. CASE r = x
      BY <3>3, <3>4, <3>5 DEF Stays
    <3>6. CASE r # x
      <4>1. PICK l \in 1..Len(d) : d[l].key = r
        BY <3>2, <3>6
      <4>2. l # p
        BY <1>3, <3>3, <4>1
      <4> QED BY <3>3, <4>1, <4>2 DEF Stays
    <3> QED BY <3>5, <3>6
  <2> QED BY <2>1, <2>2
<1>13. ASSUME CloudRestart PROVE Stays(r)
  <2>1. cache[n].key \notin Handler
    BY <1>2, <1>3
  <2>2. n \in 1..Len(cache') /\ cache'[n] = cache[n]
    BY <1>1, <1>13, <2>1 DEF CloudRestart
  <2> QED BY <1>2, <2>2 DEF Stays
<1>14. Stays(r)
  <2>1. CASE \E u \in Handler : HandlerStep(u) \/ Grow(u)
    <3>1. ASSUME NEW u \in Handler, CopyDone(u) \/ CopyInterrupted(u) \/ ChecksumMismatch(u)
          PROVE  Stays(r)
      BY <1>5, <3>1 DEF CopyDone, CopyInterrupted, ChecksumMismatch, fileVars
    <3> QED BY <1>9, <1>10, <1>11, <1>12, <2>1, <3>1 DEF HandlerStep
  <2>2. CASE \E s \in Site : Uploads(s)
    BY <1>8, <2>2 DEF Uploads
  <2>3. CASE CleanFiles \/ cache' = cache
    BY <1>4, <1>5, <2>3
  <2> QED BY <1>13, <2>1, <2>2, <2>3 DEF Next, Prepare, StatusPoll, TakeRequest, LoseOffer, Offer,
                BreakUpload, AgentRestart, AgeRequest, ExpireFile, fileVars
<1>15. PICK l \in 1..Len(cache') : cache'[l].key = r
  BY <1>14 DEF Stays
<1>16. cache'[l].size = 1
  BY <1>3, <1>15 DEF AllVerified, Verified
<1> QED BY <1>15, <1>16 DEF InCache, Positions, r


LEMMA FreshStep ==
  ASSUME FreshInv, OneUploadOfEach, [Next]_vars
  PROVE  FreshInv'
<1>1. CASE UNCHANGED vars
  BY <1>1, TypeStep DEF vars, brokerVars, fileVars, FreshInv, AllVerified, OneAlive, Alive,
        ServesOwn, Busy, RecOf, ReadyOwns
<1>2. CASE Next
  <2>1. TypeInv' /\ AllVerified(cache')
    BY <1>2, TypeStep, VerifiedStep DEF FreshInv
  <2>2. OneAlive' /\ ServesOwn' /\ ReadyOwns'
    BY <1>2, OneAliveStep, ServesOwnStep, ReadyOwnsStep DEF FreshInv
  <2> QED BY <2>1, <2>2 DEF FreshInv, AllVerified
<1> QED BY <1>1, <1>2

LEMMA FreshInit == Init => FreshInv
<1> SUFFICES ASSUME Init PROVE FreshInv
  OBVIOUS
<1>1. TypeInv /\ AllVerified(cache)
  BY TypeInit DEF Init, AllVerified
<1>2. OneAlive /\ ReadyOwns
  BY DEF Init, OneAlive, ReadyOwns, Alive
<1>3. \A u \in Handler : ~Busy(u)
  BY DEF Init, Busy, Idle
<1> QED BY <1>1, <1>2, <1>3 DEF FreshInv, ServesOwn

(* A transferred segment is kept for the cache's TTL: as long as nothing   *)
(* younger than that is over the limit, no clean-up, upload, failure or    *)
(* restart takes a recording out of the cache. It needs that no recording  *)
(* is uploaded by two handlers at once: the request of the first would be  *)
(* older than the second one's file, and takes it along when it is over    *)
(* age.                                                                    *)
THEOREM FreshFilesAreKept == Spec /\ []OneUploadOfEach => KeepsFreshFiles
<1> DEFINE Keep == \A k \in 1..Len(Unexpired) :
                     LET r == Unexpired[k].key
                     IN r \in Recording /\ ~InCache(cache', r) => Total(Unexpired) > CacheMax
<1>1. FreshInv /\ OneUploadOfEach /\ [Next]_vars => FreshInv'
  BY FreshStep
<1>2. FreshInv /\ FreshInv' /\ [Next]_vars => [Keep]_vars
  <2> SUFFICES ASSUME FreshInv, FreshInv', Next,
                      NEW k \in 1..Len(Unexpired), Unexpired[k].key \in Recording,
                      ~InCache(cache', Unexpired[k].key)
               PROVE  Total(Unexpired) > CacheMax
    OBVIOUS
  <2>1. Unexpired \in Seq(File)
    BY UnexpiredFacts DEF FreshInv, TypeInv, FileOK
  <2>2. Total(Unexpired) \in Nat /\ CacheMax \in Nat
    BY <2>1, TotalType, CacheMaxAssumption
  <2>3. ~(Total(Unexpired) <= CacheMax)
    BY KeepsStep DEF FreshInv
  <2> QED BY <2>2, <2>3
<1> QED BY <1>1, <1>2, FreshInit, PTL DEF Spec, KeepsFreshFiles

==============================================================================
