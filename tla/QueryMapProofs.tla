--------------------------- MODULE QueryMapProofs ---------------------------
EXTENDS QueryMap, FiniteSetTheorems, FunctionTheorems, SequenceTheorems, TLAPS
(***************************************************************************)
(* Theorems about QueryMap, for every value of its constants.              *)
(***************************************************************************)
-----------------------------------------------------------------------------
(* The node's list of a set of keys.                                       *)

Below(k, S) == {j \in S : j < k}
Rank(k, S) == Cardinality(Below(k, S))

LEMMA RankType ==
  ASSUME NEW S \in SUBSET Nat, IsFiniteSet(S), NEW k \in S
  PROVE  Rank(k, S) \in 0 .. Cardinality(S) - 1
<1>1. Below(k, S) \in SUBSET S /\ k \notin Below(k, S)
  BY DEF Below
<1>2. /\ Cardinality(Below(k, S)) \in Nat /\ Cardinality(S) \in Nat
      /\ Cardinality(Below(k, S)) <= Cardinality(S)
      /\ Cardinality(Below(k, S)) # Cardinality(S)
  BY <1>1, FS_Subset, FS_CardinalityType
<1>. QED BY <1>2 DEF Rank

LEMMA RankLess ==
  ASSUME NEW S \in SUBSET Nat, IsFiniteSet(S), NEW j \in S, NEW k \in S, j < k
  PROVE  Rank(j, S) < Rank(k, S)
<1>1. /\ Below(j, S) \in SUBSET Below(k, S)
      /\ j \in Below(k, S) /\ j \notin Below(j, S)
  <2>1. j \in Nat /\ k \in Nat /\ ~(j < j) /\ \A i \in S : i < j => i < k
    OBVIOUS
  <2>2. \A i \in Below(j, S) : i \in Below(k, S)
    BY <2>1, Zenon DEF Below
  <2>3. j \in Below(k, S) /\ j \notin Below(j, S)
    BY <2>1, Zenon DEF Below
  <2>. QED BY <2>2, <2>3
<1>2. IsFiniteSet(Below(k, S))
  BY FS_Subset DEF Below
<1>3. IsFiniteSet(Below(j, S))
  BY <1>1, <1>2, FS_Subset
<1>4. Cardinality(Below(j, S)) \in Nat /\ Cardinality(Below(k, S)) \in Nat
  BY <1>2, <1>3, FS_CardinalityType
<1>5. /\ Cardinality(Below(j, S)) <= Cardinality(Below(k, S))
      /\ Cardinality(Below(j, S)) # Cardinality(Below(k, S))
  BY <1>1, <1>2, FS_Subset
<1>. QED BY <1>4, <1>5 DEF Rank

\* Every place of the list is some key's.
LEMMA RankOnto ==
  ASSUME NEW S \in SUBSET Nat, IsFiniteSet(S), NEW i \in 0 .. Cardinality(S) - 1
  PROVE  \E k \in S : Rank(k, S) = i
<1>. DEFINE n == Cardinality(S)
            f == [k \in S |-> Rank(k, S)]
<1>1. n \in Nat
  BY FS_CardinalityType
<1>2. IsFiniteSet(0 .. n - 1) /\ Cardinality(0 .. n - 1) = n
  BY <1>1, FS_Interval
<1>3. f \in [S -> 0 .. n - 1]
  BY RankType
<1>4. ASSUME NEW j \in S, NEW k \in S, f[j] = f[k]
      PROVE  j = k
  <2>1. Rank(j, S) = Rank(k, S) /\ Rank(j, S) \in Int /\ j \in Nat /\ k \in Nat
    BY <1>4, RankType
  <2>2. ~(j < k) /\ ~(k < j)
    BY <2>1, RankLess
  <2>. QED BY <2>1, <2>2
<1>5. f \in Injection(S, 0 .. n - 1)
  BY <1>3, <1>4 DEF Injection, IsInjective
<1>6. f \in Surjection(S, 0 .. n - 1)
  BY <1>2, <1>5, FS_Injection
<1>. QED BY <1>6 DEF Surjection

\* The list of a set has its elements, each once and in ascending order.
LEMMA SortedIs ==
  ASSUME NEW S \in SUBSET Nat, IsFiniteSet(S)
  PROVE  /\ Cardinality(S) \in Nat
         /\ Sorted(S) \in [1 .. Cardinality(S) -> S]
         /\ \A i \in 1 .. Cardinality(S) : Rank(Sorted(S)[i], S) = i - 1
         /\ \A k \in S : \E i \in 1 .. Cardinality(S) : Sorted(S)[i] = k
         /\ \A i, j \in 1 .. Cardinality(S) : i < j => Sorted(S)[i] < Sorted(S)[j]
<1>. DEFINE n == Cardinality(S)
            s == Sorted(S)
<1>1. n \in Nat
  BY FS_CardinalityType
<1>2. ASSUME NEW i \in 1 .. n
      PROVE  s[i] \in S /\ Rank(s[i], S) = i - 1
  <2>1. s[i] = CHOOSE k \in S : Rank(k, S) = i - 1
    BY DEF Sorted, Rank, Below
  <2>2. \E k \in S : Rank(k, S) = i - 1
    BY <1>1, RankOnto
  <2>. QED BY <2>1, <2>2
<1>3. s \in [1 .. n -> S]
  BY <1>2 DEF Sorted
<1>4. ASSUME NEW i \in 1 .. n, NEW j \in 1 .. n, i <= j
      PROVE  s[i] <= s[j]
  <2>1. /\ s[i] \in S /\ s[j] \in S /\ s[i] \in Nat /\ s[j] \in Nat
        /\ Rank(s[i], S) = i - 1 /\ Rank(s[j], S) = j - 1
    BY <1>2
  <2>2. ~(s[j] < s[i])
    <3>. HIDE DEF s, n
    <3>1. s[j] < s[i] => j - 1 < i - 1
      BY <2>1, RankLess
    <3>. QED BY <1>1, <1>4, <3>1
  <2>. QED BY <2>1, <2>2
<1>5. ASSUME NEW k \in S
      PROVE  \E i \in 1 .. n : s[i] = k
  <2>. DEFINE i == Rank(k, S) + 1
  <2>1. i \in 1 .. n
    BY <1>1, RankType
  <2>2. Rank(k, S) \in Int
    BY RankType
  <2>3. s[i] \in S /\ Rank(s[i], S) = Rank(k, S) /\ s[i] \in Nat /\ k \in Nat
    <3>1. s[i] \in S /\ Rank(s[i], S) = i - 1
      BY <1>2, <2>1
    <3>2. i - 1 = Rank(k, S)
      BY <2>2
    <3>. QED BY <3>1, <3>2
  <2>. HIDE DEF i, s
  <2>4. ~(s[i] < k) /\ ~(k < s[i])
    BY <2>2, <2>3, RankLess
  <2>5. s[i] = k
    BY <2>3, <2>4
  <2>. QED BY <2>1, <2>5
<1>6. ASSUME NEW i \in 1 .. n, NEW j \in 1 .. n, i < j
      PROVE  s[i] < s[j]
  <2>1. /\ s[i] \in S /\ s[j] \in S /\ s[i] \in Nat /\ s[j] \in Nat
        /\ Rank(s[i], S) = i - 1 /\ Rank(s[j], S) = j - 1
    BY <1>2
  <2>2. s[i] <= s[j]
    BY <1>1, <1>4, <1>6
  <2>3. s[i] # s[j]
    BY <1>1, <1>6, <2>1
  <2>. QED BY <2>1, <2>2, <2>3
<1>. QED BY <1>1, <1>2, <1>3, <1>5, <1>6

-----------------------------------------------------------------------------
(* The first of them.                                                      *)

KeysIn(keys) == {keys[i] : i \in DOMAIN keys}

LEMMA AtMostIs ==
  ASSUME NEW S, NEW s \in Seq(S), NEW n \in Nat
  PROVE  /\ AtMost(s, n) \in Seq(S)
         /\ Len(AtMost(s, n)) = Smaller(n, Len(s))
         /\ \A i \in 1 .. Len(AtMost(s, n)) : AtMost(s, n)[i] = s[i]
<1>. DEFINE m == Smaller(n, Len(s))
<1>1. m \in 0 .. Len(s)
  BY DEF Smaller
<1>2. \A i \in 1 .. m : s[i] \in S
  BY <1>1, ElementOfSeq
<1>. HIDE DEF m
<1>3. /\ SubSeq(s, 1, m) \in Seq(S)
      /\ Len(SubSeq(s, 1, m)) = m
      /\ \A i \in 1 .. m : SubSeq(s, 1, m)[i] = s[i]
  BY <1>1, <1>2, SubSeqProperties
<1>. QED BY <1>3 DEF AtMost, m

\* Keys listed in order from a set: all of them up to the last of the list.
Lists(keys, S) ==
  /\ keys \in Seq(S)
  /\ \A i, j \in DOMAIN keys : i < j => keys[i] < keys[j]
  /\ keys # <<>> => \A k \in S : k <= keys[Len(keys)] => k \in KeysIn(keys)

LEMMA FirstOfSorted ==
  ASSUME NEW S \in SUBSET Nat, IsFiniteSet(S), NEW n \in Nat,
         NEW keys, keys \in Seq(S), Len(keys) = Smaller(n, Cardinality(S)),
         \A i \in 1 .. Len(keys) : keys[i] = Sorted(S)[i]
  PROVE  Lists(keys, S) /\ (Len(keys) < n => S = KeysIn(keys))
<1>. DEFINE c == Cardinality(S)
            l == Len(keys)
<1>1. /\ c \in Nat /\ l \in Nat /\ l <= c /\ (l < n => l = c)
      /\ DOMAIN keys = 1 .. l
  BY SortedIs, LenProperties DEF Smaller
<1>2. \A i \in 1 .. l : i \in 1 .. c
  BY <1>1
<1>. HIDE DEF c, l
<1>3. \A i, j \in DOMAIN keys : i < j => keys[i] < keys[j]
  BY <1>1, <1>2, SortedIs DEF c, l
<1>4. ASSUME NEW k \in S, keys # <<>>, k <= keys[l]
      PROVE  k \in KeysIn(keys)
  <2>1. PICK i \in 1 .. c : Sorted(S)[i] = k
    BY SortedIs DEF c
  <2>2. l \in 1 .. c /\ l \in 1 .. l
    BY <1>1, <1>4, EmptySeq DEF l
  <2>3. keys[l] = Sorted(S)[l] /\ keys[l] \in Nat /\ k \in Nat
    <3>1. keys[l] = Sorted(S)[l]
      BY <2>2 DEF l
    <3>2. Sorted(S)[l] \in S
      BY <2>2, SortedIs DEF c
    <3>. QED BY <3>1, <3>2
  <2>4. ~(l < i)
    <3>1. l < i => Sorted(S)[l] < Sorted(S)[i]
      BY <2>1, <2>2, SortedIs DEF c
    <3>. QED BY <1>4, <2>1, <2>3, <3>1
  <2>5. i \in 1 .. l /\ keys[i] = k
    BY <1>1, <2>1, <2>4 DEF l
  <2>. QED BY <1>1, <2>5 DEF KeysIn
<1>5. ASSUME l < n
      PROVE  S = KeysIn(keys)
  <2>1. l = c
    BY <1>1, <1>5
  <2>2. \A k \in S : k \in KeysIn(keys)
    BY <1>1, <2>1, SortedIs DEF c, l, KeysIn
  <2>3. \A k \in KeysIn(keys) : k \in S
    BY <1>1, ElementOfSeq DEF KeysIn, l
  <2>. QED BY <2>2, <2>3
<1>. QED BY <1>3, <1>4, <1>5 DEF Lists, l

-----------------------------------------------------------------------------
(* The inductive invariant.                                                *)

\* No key twice, and, of a query with a block hash, only entries of the block.
Unique(entries) == \A i, j \in DOMAIN entries : entries[i].key = entries[j].key => i = j
InBlock(entries, block) == \A i \in DOMAIN entries : entries[i].there /\ entries[i].key \in block

Requesting == {"pairs", "keys", "values", "batches"}

\* What has been asked for, where the caller is in a query or an iteration.
PhaseInv ==
  /\ at \in {"start", "pairs", "batches"} => ~opened
  /\ at \in {"open", "stopped"} => opened
  /\ ~opened => taken = <<>> /\ buffer = <<>> /\ last = Prefix /\ ~complete
  /\ at \in Requesting => buffer = <<>> /\ ~complete /\ Len(taken) < query.max
  /\ at \in {"values", "batches"} <=> asked # <<>>
  /\ at # "batches" => answered = {} /\ joined = <<>>

\* Keys that were there all along are in the state any request reads.
KeptInv == kept \subseteq Seen

\* The keys whose values are asked for are the next ones after the last page, with
\* none left out that was there all along.
NextKeys(keys) ==
  /\ \A i, j \in DOMAIN keys : i < j => keys[i] < keys[j]
  /\ \A i \in DOMAIN keys : last < keys[i] /\ (query.pinned => keys[i] \in base)
  /\ keys # <<>> => \A k \in kept : last < k /\ k <= keys[Len(keys)] => k \in KeysIn(keys)
  /\ opened /\ Len(keys) < PageSize => \A k \in kept : last < k => k \in KeysIn(keys)

AskedInv == asked # <<>> => NextKeys(asked)

\* The batches that are answered are put together, whatever their order.
BatchInv ==
  /\ KeysOf(joined) = UNION {KeysIn(Batch(n)) : n \in answered}
  /\ Unique(joined)
  /\ query.pinned => InBlock(joined, base)

\* What the caller has been given or will be, up to the last key: no key twice.
GivenInv ==
  /\ Unique(taken) /\ Unique(buffer)
  /\ KeysOf(taken) \cap KeysOf(buffer) = {}
  /\ query.pinned => InBlock(taken, base) /\ InBlock(buffer, base)
  /\ at # "stopped" => \A k \in KeysOf(taken) \cup KeysOf(buffer) : k <= last

\* And no key left out that was there all along.
WholeInv ==
  /\ at # "stopped" => \A k \in kept : k <= last => k \in KeysOf(taken) \cup KeysOf(buffer)
  /\ at # "stopped" /\ complete => kept \subseteq KeysOf(taken) \cup KeysOf(buffer)
  /\ Whole

IInv == TypeOK /\ PhaseInv /\ KeptInv /\ AskedInv /\ BatchInv /\ GivenInv /\ WholeInv

LEMMA KeysAre == IsFiniteSet(Keys) /\ Keys \subseteq Nat /\ Prefix \notin Keys /\ Unlimited \in Nat
BY QueryMapAssumption, FS_CardinalityType DEF Prefix, Unlimited

LEMMA QueryIs ==
  ASSUME query \in Queries
  PROVE  /\ query.page \in Nat \ {0} /\ query.max \in Nat \ {0}
         /\ query.pinned \in BOOLEAN /\ query.exhaust \in BOOLEAN /\ query.pairs \in BOOLEAN
         /\ PageSize \in Nat \ {0} /\ PageSize <= query.max
<1>1. query \in [page : Nat \ {0}, max : 1 .. Unlimited, pinned : BOOLEAN,
                exhaust : BOOLEAN, pairs : BOOLEAN]
  BY QueryMapAssumption
<1>2. 1 .. Unlimited \subseteq Nat \ {0}
  BY KeysAre
<1>3. /\ query.page \in Nat \ {0} /\ query.max \in Nat \ {0}
      /\ query.pinned \in BOOLEAN /\ query.exhaust \in BOOLEAN /\ query.pairs \in BOOLEAN
  BY <1>1, <1>2
<1>4. PageSize \in Nat \ {0} /\ PageSize <= query.max
  BY <1>3 DEF PageSize, Smaller
<1>. QED BY <1>3, <1>4

LEMMA SeenIs ==
  ASSUME TypeOK
  PROVE  Seen \subseteq Keys /\ Seen \subseteq Nat /\ IsFiniteSet(Seen)
<1>1. Seen \in SUBSET Keys
  BY DEF TypeOK, Seen
<1>. QED BY <1>1, KeysAre, FS_Subset

-----------------------------------------------------------------------------
(* The keys a page asks for.                                               *)

After == {k \in Seen : k > last}

LEMMA FoundIs ==
  ASSUME TypeOK, ~opened => last = Prefix
  PROVE  /\ Lists(KeysFound, After)
         /\ KeysFound = <<>> => After = {}
         /\ opened /\ Len(KeysFound) < PageSize => After = KeysIn(KeysFound)
<1>. DEFINE S == {k \in Seen : Exhausts \/ k > last}
            c == Cardinality(S)
            m == query.max
            p == PageSize
<1>1. Seen \subseteq Nat /\ IsFiniteSet(Seen) /\ \A k \in Seen : k # Prefix
  BY SeenIs, KeysAre
<1>2. S = After
  <2>1. CASE Exhausts
    <3>1. last = Prefix
      BY <2>1 DEF Exhausts
    <3>2. \A k \in Seen : k > Prefix
      BY <1>1 DEF Prefix
    <3>. QED BY <2>1, <3>1, <3>2 DEF After
  <2>2. CASE ~Exhausts
    BY <2>2 DEF After
  <2>. QED BY <2>1, <2>2
<1>3. S \in SUBSET Nat /\ IsFiniteSet(S)
  BY <1>1, FS_Subset
<1>4. m \in Nat \ {0} /\ p \in Nat \ {0} /\ p <= m
  BY QueryIs DEF TypeOK
<1>. DEFINE all == Sorted(S)
            page == AtMost(all, p)
            keys == KeysFound
<1>5. c \in Nat /\ all \in Seq(S) /\ Len(all) = c /\ DOMAIN all = 1 .. c
  <2>1. c \in Nat /\ all \in [1 .. c -> S]
    BY <1>3, SortedIs
  <2>. QED BY <2>1, IsASeq, LenProperties
<1>6. keys = AtMost(IF Exhausts THEN all ELSE page, m)
  BY DEF KeysFound
<1>. HIDE DEF S, c, m, p, all, keys
<1>7. /\ page \in Seq(S) /\ Len(page) = Smaller(p, c)
      /\ \A i \in 1 .. Len(page) : page[i] = all[i]
  BY <1>4, <1>5, AtMostIs
<1>. HIDE DEF page
<1>8. Smaller(p, c) \in Nat /\ Smaller(p, c) <= p /\ Smaller(p, c) <= c
  BY <1>4, <1>5 DEF Smaller
<1>9. \E n \in Nat \ {0} :
        /\ keys \in Seq(S) /\ Len(keys) = Smaller(n, c)
        /\ \A i \in 1 .. Len(keys) : keys[i] = all[i]
        /\ opened => n = p
  <2>1. CASE Exhausts
    <3>1. ~opened
      BY <2>1 DEF Exhausts
    <3>2. /\ keys \in Seq(S) /\ Len(keys) = Smaller(m, c)
          /\ \A i \in 1 .. Len(keys) : keys[i] = all[i]
      BY <1>4, <1>5, <1>6, <2>1, AtMostIs
    <3>. QED BY <1>4, <3>1, <3>2
  <2>2. CASE ~Exhausts
    <3>1. /\ keys \in Seq(S) /\ Len(keys) = Smaller(m, Smaller(p, c))
          /\ \A i \in 1 .. Len(keys) : keys[i] = page[i]
      BY <1>4, <1>6, <1>7, <2>2, AtMostIs
    <3>2. Smaller(m, Smaller(p, c)) = Smaller(p, c)
      <4>1. \A x \in Nat : x <= m => Smaller(m, x) = x
        BY <1>4 DEF Smaller
      <4>. QED BY <1>4, <1>8, <4>1
    <3>3. \A i \in 1 .. Len(keys) : keys[i] = all[i]
      BY <1>7, <3>1, <3>2
    <3>. QED BY <1>4, <3>1, <3>2, <3>3
  <2>. QED BY <2>1, <2>2
<1>10. PICK n \in Nat \ {0} :
        /\ keys \in Seq(S) /\ Len(keys) = Smaller(n, c)
        /\ \A i \in 1 .. Len(keys) : keys[i] = all[i]
        /\ opened => n = p
  BY <1>9
<1>11. Lists(keys, S) /\ (Len(keys) < n => S = KeysIn(keys))
  <2>1. \A i \in 1 .. Len(keys) : keys[i] = Sorted(S)[i]
    BY <1>10 DEF all
  <2>2. keys \in Seq(S) /\ Len(keys) = Smaller(n, Cardinality(S)) /\ n \in Nat
    BY <1>10 DEF c
  <2>. QED BY <1>3, <2>1, <2>2, FirstOfSorted
<1>12. keys = <<>> => S = {}
  <2>1. ASSUME keys = <<>> PROVE S = {}
    <3>1. Len(keys) = 0 /\ KeysIn(keys) = {}
      BY <2>1 DEF KeysIn
    <3>. QED BY <1>11, <3>1
  <2>. QED BY <2>1
<1>. QED BY <1>2, <1>10, <1>11, <1>12 DEF keys, p

-----------------------------------------------------------------------------
(* The batches of a list of keys.                                          *)

LEMMA Division ==
  ASSUME NEW x \in Nat, NEW p \in Nat \ {0}
  PROVE  /\ x \div p \in Nat /\ (x \div p) * p \in Nat
         /\ (x \div p) * p <= x /\ x < (x \div p) * p + p
<1>1. x \div p \in Nat /\ x % p \in 0 .. p - 1 /\ x = (x \div p) * p + (x % p)
  OBVIOUS
<1>. QED BY <1>1

LEMMA ProductLess ==
  ASSUME NEW m \in Nat, NEW n \in Nat, NEW p \in Nat \ {0}
  PROVE  /\ m * p \in Nat /\ n * p \in Nat
         /\ (m + 1) * p = m * p + p /\ (m - 1) * p = m * p - p
         /\ m < n => m * p + p <= n * p
<1>1. m * p \in Nat /\ n * p \in Nat /\ (m + 1) * p = m * p + p /\ (m - 1) * p = m * p - p
  OBVIOUS
<1>2. ASSUME m < n PROVE (m + 1) * p <= n * p
  BY <1>2
<1>. QED BY <1>1, <1>2

\* The batch of the i-th key.
BatchOf(i) == (i - 1) \div PageSize + 1

LEMMA BatchOfIs ==
  ASSUME PageSize \in Nat \ {0}, asked \in Seq(Keys), NEW i \in DOMAIN asked
  PROVE  /\ BatchOf(i) \in 1 .. Batches
         /\ (BatchOf(i) - 1) * PageSize + 1 <= i /\ i <= BatchOf(i) * PageSize
<1>. DEFINE p == PageSize
            l == Len(asked)
            q == (i - 1) \div p
            b == (l + p - 1) \div p
<1>1. p \in Nat \ {0} /\ l \in Nat /\ i \in 1 .. l
  BY LenProperties
<1>. HIDE DEF p, l
<1>2. q \in Nat /\ q * p \in Nat /\ q * p <= i - 1 /\ i - 1 < q * p + p
  <2>1. i - 1 \in Nat
    BY <1>1
  <2>. QED BY <1>1, <2>1, Division
<1>3. b \in Nat /\ b * p \in Nat /\ l + p - 1 < b * p + p
  <2>1. l + p - 1 \in Nat
    BY <1>1
  <2>. QED BY <1>1, <2>1, Division
<1>. HIDE DEF q, b
<1>4. q < b
  <2>1. q * p < b * p
    BY <1>1, <1>2, <1>3
  <2>2. b < q => b * p + p <= q * p
    BY <1>1, <1>2, <1>3, ProductLess
  <2>. QED BY <1>1, <1>2, <1>3, <2>1, <2>2
<1>5. q + 1 \in 1 .. b /\ q + 1 - 1 = q
  BY <1>2, <1>3, <1>4
<1>6. q * p + 1 <= i /\ i <= (q + 1) * p
  <2>1. (q + 1) * p = q * p + p
    BY <1>1, <1>2, ProductLess
  <2>. QED BY <1>1, <1>2, <2>1
<1>7. (q + 1 - 1) * p + 1 <= i
  BY <1>5, <1>6
<1>. QED BY <1>5, <1>6, <1>7 DEF BatchOf, Batches, p, l, q, b

\* Two keys of one place in the list are of one batch.
LEMMA BatchOfOnly ==
  ASSUME NEW p \in Nat \ {0}, NEW m \in Nat, NEW n \in Nat, NEW i \in Nat,
         (m - 1) * p + 1 <= i, i <= m * p, (n - 1) * p + 1 <= i, i <= n * p
  PROVE  m = n
<1>1. /\ m * p \in Nat /\ n * p \in Nat
      /\ (m - 1) * p = m * p - p /\ (n - 1) * p = n * p - p
  BY ProductLess
<1>2. m < n => m * p + p <= n * p
  BY ProductLess
<1>3. n < m => n * p + p <= m * p
  BY ProductLess
<1>. QED BY <1>1, <1>2, <1>3

\* Each batch has keys of the list, those at its own places.
LEMMA BatchIs ==
  ASSUME PageSize \in Nat \ {0}, asked \in Seq(Keys), NEW n \in 1 .. Batches
  PROVE  /\ Batch(n) \in Seq(Keys)
         /\ \A k \in DOMAIN Batch(n) :
              /\ (n - 1) * PageSize + k \in DOMAIN asked
              /\ Batch(n)[k] = asked[(n - 1) * PageSize + k]
              /\ (n - 1) * PageSize + k <= n * PageSize
         /\ \A i \in DOMAIN asked : BatchOf(i) = n => asked[i] \in KeysIn(Batch(n))
<1>. DEFINE p == PageSize
            l == Len(asked)
            a == (n - 1) * p
            z == Smaller(n * p, l)
<1>1. p \in Nat \ {0} /\ l \in Nat /\ DOMAIN asked = 1 .. l /\ n \in Nat \ {0}
  BY LenProperties
<1>. HIDE DEF p, l
<1>2. a \in Nat /\ n * p \in Nat
  BY <1>1
<1>3. z \in Int /\ z <= n * p /\ z <= l /\ (z = n * p \/ z = l)
  BY <1>1, <1>2 DEF Smaller
<1>. HIDE DEF a, z
<1>4. \A i \in a + 1 .. z : i \in 1 .. l /\ asked[i] \in Keys
  <2>1. \A i \in 1 .. l : asked[i] \in Keys
    BY ElementOfSeq DEF l
  <2>2. \A i \in a + 1 .. z : i \in 1 .. l
    BY <1>1, <1>2, <1>3
  <2>. QED BY <2>1, <2>2
<1>. DEFINE s == SubSeq(asked, a + 1, z)
<1>5. /\ s \in Seq(Keys)
      /\ Len(s) = IF a + 1 <= z THEN z - (a + 1) + 1 ELSE 0
      /\ \A k \in 1 .. z - (a + 1) + 1 : s[k] = asked[a + 1 + k - 1]
  BY <1>2, <1>3, <1>4, SubSeqProperties
<1>6. s = Batch(n)
  BY DEF Batch, a, z, p, l
<1>7. DOMAIN s = 1 .. Len(s)
  BY <1>5, LenProperties
<1>. HIDE DEF s
<1>8. ASSUME NEW k \in DOMAIN s
      PROVE  a + k \in 1 .. l /\ s[k] = asked[a + k] /\ a + k <= n * p
  <2>1. k \in 1 .. z - (a + 1) + 1 /\ k \in Nat \ {0}
    BY <1>2, <1>3, <1>5, <1>7, <1>8
  <2>2. a + 1 + k - 1 = a + k /\ a + k <= z
    BY <1>2, <1>3, <2>1
  <2>3. a + k \in 1 .. l
    BY <1>1, <1>2, <1>3, <2>1, <2>2
  <2>4. s[k] = asked[a + k]
    BY <1>5, <2>1, <2>2
  <2>5. a + k <= n * p
    BY <1>1, <1>2, <1>3, <2>1, <2>2
  <2>. QED BY <2>3, <2>4, <2>5
<1>9. ASSUME NEW i \in 1 .. l, BatchOf(i) = n
      PROVE  asked[i] \in KeysIn(s)
  <2>1. a + 1 <= i /\ i <= n * p
    BY <1>1, <1>9, BatchOfIs DEF a, p
  <2>2. i <= z
    BY <1>1, <1>3, <2>1
  <2>3. i - a \in 1 .. z - (a + 1) + 1 /\ a + 1 + (i - a) - 1 = i /\ a + 1 <= z
    BY <1>1, <1>2, <1>3, <2>1, <2>2
  <2>4. s[i - a] = asked[i]
    BY <1>5, <2>3
  <2>5. i - a \in DOMAIN s
    BY <1>5, <1>7, <2>3
  <2>. QED BY <2>4, <2>5 DEF KeysIn
<1>. QED BY <1>1, <1>5, <1>6, <1>8, <1>9 DEF a, p

\* All batches have all keys.
LEMMA BatchesCover ==
  ASSUME PageSize \in Nat \ {0}, asked \in Seq(Keys)
  PROVE  UNION {KeysIn(Batch(n)) : n \in 1 .. Batches} = KeysIn(asked)
<1>1. ASSUME NEW i \in DOMAIN asked
      PROVE  \E n \in 1 .. Batches : asked[i] \in KeysIn(Batch(n))
  BY BatchOfIs, BatchIs
<1>2. ASSUME NEW n \in 1 .. Batches
      PROVE  \A k \in KeysIn(Batch(n)) : k \in KeysIn(asked)
  BY BatchIs DEF KeysIn
<1>3. \A k \in KeysIn(asked) : \E n \in 1 .. Batches : k \in KeysIn(Batch(n))
  BY <1>1, Zenon DEF KeysIn
<1>. QED BY <1>2, <1>3

\* In ascending keys, no batch has a key twice, and no two have one in common.
LEMMA BatchesApart ==
  ASSUME PageSize \in Nat \ {0}, asked \in Seq(Keys),
         \A i, j \in DOMAIN asked : i < j => asked[i] < asked[j],
         NEW m \in 1 .. Batches, NEW n \in 1 .. Batches,
         NEW j \in DOMAIN Batch(m), NEW k \in DOMAIN Batch(n), Batch(m)[j] = Batch(n)[k]
  PROVE  m = n /\ j = k
<1>. DEFINE p == PageSize
            x == (m - 1) * p + j
            y == (n - 1) * p + k
<1>1. p \in Nat \ {0} /\ m \in Nat \ {0} /\ n \in Nat \ {0}
  OBVIOUS
<1>2. /\ x \in DOMAIN asked /\ Batch(m)[j] = asked[x] /\ x <= m * p
      /\ y \in DOMAIN asked /\ Batch(n)[k] = asked[y] /\ y <= n * p
  BY BatchIs
<1>3. j \in Nat \ {0} /\ k \in Nat \ {0}
  <2>1. Batch(m) \in Seq(Keys) /\ Batch(n) \in Seq(Keys)
    BY BatchIs
  <2>. QED BY <2>1, LenProperties
<1>4. x \in Nat /\ y \in Nat /\ asked[x] \in Nat /\ asked[y] \in Nat
  <2>1. DOMAIN asked = 1 .. Len(asked) /\ Len(asked) \in Nat
    BY LenProperties
  <2>2. asked[x] \in Keys /\ asked[y] \in Keys
    BY <1>2, <2>1, ElementOfSeq
  <2>3. x \in Nat /\ y \in Nat
    <3>. HIDE DEF x, y
    <3>. QED BY <1>2, <2>1
  <2>. QED BY <2>2, <2>3, KeysAre
<1>5. (m - 1) * p \in Int /\ (n - 1) * p \in Int /\ (m - 1) * p + 1 <= x /\ (n - 1) * p + 1 <= y
  BY <1>1, <1>3
<1>. HIDE DEF p
<1>6. x = y
  <2>. HIDE DEF x, y
  <2>1. asked[x] = asked[y]
    BY <1>2
  <2>2. ~(x < y) /\ ~(y < x)
    BY <1>2, <1>4, <2>1
  <2>. QED BY <1>4, <2>2
<1>7. m = n
  <2>. HIDE DEF x, y
  <2>. QED BY <1>1, <1>2, <1>4, <1>5, <1>6, BatchOfOnly
<1>8. j = k
  BY <1>3, <1>5, <1>6, <1>7
<1>. QED BY <1>7, <1>8

-----------------------------------------------------------------------------
(* Lists of entries.                                                       *)

LEMMA KeysOfType ==
  ASSUME NEW s \in Seq(AnEntry)
  PROVE  KeysOf(s) \subseteq Keys
<1>1. \A i \in DOMAIN s : s[i] \in AnEntry
  BY ElementOfSeq, LenProperties
<1>. QED BY <1>1 DEF KeysOf, AnEntry

\* The entries of one list after those of another.
LEMMA Joined ==
  ASSUME NEW s \in Seq(AnEntry), NEW t \in Seq(AnEntry)
  PROVE  /\ s \o t \in Seq(AnEntry) /\ Len(s \o t) = Len(s) + Len(t)
         /\ KeysOf(s \o t) = KeysOf(s) \cup KeysOf(t)
         /\ Unique(s) /\ Unique(t) /\ KeysOf(s) \cap KeysOf(t) = {} => Unique(s \o t)
         /\ \A block : InBlock(s, block) /\ InBlock(t, block) => InBlock(s \o t, block)
<1>. DEFINE u == s \o t
            m == Len(s)
            n == Len(t)
<1>1. /\ u \in Seq(AnEntry) /\ Len(u) = m + n
      /\ \A i \in 1 .. m + n : u[i] = IF i <= m THEN s[i] ELSE t[i - m]
  BY ConcatProperties
<1>2. /\ m \in Nat /\ n \in Nat
      /\ DOMAIN s = 1 .. m /\ DOMAIN t = 1 .. n /\ DOMAIN u = 1 .. m + n
  BY <1>1, LenProperties
<1>. HIDE DEF u, m, n
<1>3. \A i \in DOMAIN u : (i \in DOMAIN s /\ u[i] = s[i]) \/ (i - m \in DOMAIN t /\ u[i] = t[i - m])
  BY <1>1, <1>2
<1>4. \A i \in DOMAIN s : i \in DOMAIN u /\ u[i] = s[i]
  BY <1>1, <1>2
<1>5. \A i \in DOMAIN t : i + m \in DOMAIN u /\ u[i + m] = t[i]
  BY <1>1, <1>2
<1>6. KeysOf(u) = KeysOf(s) \cup KeysOf(t)
  <2>1. \A k \in KeysOf(u) : k \in KeysOf(s) \cup KeysOf(t)
    BY <1>3 DEF KeysOf
  <2>2. \A k \in KeysOf(s) : k \in KeysOf(u)
    BY <1>4 DEF KeysOf
  <2>3. \A k \in KeysOf(t) : k \in KeysOf(u)
    BY <1>5 DEF KeysOf
  <2>. QED BY <2>1, <2>2, <2>3
<1>7. ASSUME Unique(s), Unique(t), KeysOf(s) \cap KeysOf(t) = {},
             NEW i \in DOMAIN u, NEW j \in DOMAIN u, u[i].key = u[j].key
      PROVE  i = j
  <2>1. CASE i \in DOMAIN s /\ j \in DOMAIN s
    BY <1>4, <1>7, <2>1 DEF Unique
  <2>2. CASE i - m \in DOMAIN t /\ u[i] = t[i - m] /\ j - m \in DOMAIN t /\ u[j] = t[j - m]
    <3>1. i - m = j - m
      BY <1>7, <2>2 DEF Unique
    <3>. QED BY <1>2, <3>1
  <2>3. ~(i \in DOMAIN s /\ u[i] = s[i] /\ j - m \in DOMAIN t /\ u[j] = t[j - m])
    BY <1>7 DEF KeysOf
  <2>4. ~(j \in DOMAIN s /\ u[j] = s[j] /\ i - m \in DOMAIN t /\ u[i] = t[i - m])
    BY <1>7 DEF KeysOf
  <2>. QED BY <1>3, <2>1, <2>2, <2>3, <2>4
<1>8. ASSUME NEW block, InBlock(s, block), InBlock(t, block)
      PROVE  InBlock(u, block)
  BY <1>3, <1>8 DEF InBlock
<1>9. Unique(s) /\ Unique(t) /\ KeysOf(s) \cap KeysOf(t) = {} => Unique(u)
  BY <1>7 DEF Unique
<1>. QED BY <1>1, <1>6, <1>8, <1>9 DEF u, m, n

\* The first entry of one list goes to the end of another.
LEMMA Given ==
  ASSUME NEW s \in Seq(AnEntry), NEW t \in Seq(AnEntry), t # <<>>
  PROVE  /\ Append(s, Head(t)) \in Seq(AnEntry) /\ Tail(t) \in Seq(AnEntry)
         /\ Len(Append(s, Head(t))) = Len(s) + 1
         /\ KeysOf(Append(s, Head(t))) \cup KeysOf(Tail(t)) = KeysOf(s) \cup KeysOf(t)
         /\ Unique(s) /\ Unique(t) /\ KeysOf(s) \cap KeysOf(t) = {} =>
              /\ Unique(Append(s, Head(t))) /\ Unique(Tail(t))
              /\ KeysOf(Append(s, Head(t))) \cap KeysOf(Tail(t)) = {}
         /\ \A block : InBlock(s, block) /\ InBlock(t, block) =>
              InBlock(Append(s, Head(t)), block) /\ InBlock(Tail(t), block)
<1>. DEFINE h == Head(t)
            r == Tail(t)
            n == Len(t)
            u == Append(s, h)
<1>1. /\ h \in AnEntry /\ r \in Seq(AnEntry) /\ Len(r) = n - 1 /\ h = t[1]
      /\ \A i \in 1 .. Len(r) : r[i] = t[i + 1]
  BY HeadTailProperties
<1>2. n \in Nat \ {0} /\ DOMAIN t = 1 .. n /\ DOMAIN r = 1 .. n - 1
  BY <1>1, LenProperties, EmptySeq
<1>3. /\ u \in Seq(AnEntry) /\ Len(u) = Len(s) + 1
      /\ \A i \in 1 .. Len(s) : u[i] = s[i]
      /\ u[Len(s) + 1] = h
  BY <1>1, AppendProperties
<1>4. Len(s) \in Nat /\ DOMAIN s = 1 .. Len(s) /\ DOMAIN u = 1 .. Len(s) + 1
  BY <1>3, LenProperties
<1>. HIDE DEF h, r, n, u
<1>5. /\ 1 \in DOMAIN t
      /\ \A i \in DOMAIN r : i + 1 \in DOMAIN t /\ r[i] = t[i + 1] /\ i + 1 # 1 /\ i \in Int
      /\ \A i \in DOMAIN t : i = 1 \/ (i - 1 \in DOMAIN r /\ r[i - 1] = t[i])
  BY <1>1, <1>2
<1>6. /\ \A i \in DOMAIN u : (i \in DOMAIN s /\ u[i] = s[i]) \/ (i = Len(s) + 1 /\ u[i] = h)
      /\ \A i \in DOMAIN s : i \in DOMAIN u /\ u[i] = s[i]
      /\ Len(s) + 1 \in DOMAIN u /\ Len(s) + 1 \notin DOMAIN s /\ u[Len(s) + 1] = h
  <2>1. /\ \A i \in DOMAIN u : i \in DOMAIN s \/ i = Len(s) + 1
        /\ \A i \in DOMAIN s : i \in DOMAIN u
        /\ Len(s) + 1 \in DOMAIN u /\ Len(s) + 1 \notin DOMAIN s
    BY <1>4
  <2>2. \A i \in DOMAIN s : u[i] = s[i]
    BY <1>3, <1>4
  <2>. QED BY <1>3, <2>1, <2>2
<1>7. KeysOf(t) = {h.key} \cup KeysOf(r)
  <2>1. ASSUME NEW i \in DOMAIN t PROVE t[i].key = h.key \/ t[i].key \in KeysOf(r)
    <3>1. CASE i = 1
      BY <1>1, <3>1
    <3>2. CASE i - 1 \in DOMAIN r /\ r[i - 1] = t[i]
      BY <3>2, Zenon DEF KeysOf
    <3>. QED BY <1>5, <3>1, <3>2
  <2>2. \A k \in KeysOf(r) : k \in KeysOf(t)
    BY <1>5 DEF KeysOf
  <2>3. h.key \in KeysOf(t)
    BY <1>1, <1>5 DEF KeysOf
  <2>4. \A k \in KeysOf(t) : k = h.key \/ k \in KeysOf(r)
    BY <2>1, Zenon DEF KeysOf
  <2>. QED BY <2>2, <2>3, <2>4
<1>8. KeysOf(u) = KeysOf(s) \cup {h.key}
  <2>1. \A k \in KeysOf(u) : k = h.key \/ k \in KeysOf(s)
    BY <1>6 DEF KeysOf
  <2>2. \A k \in KeysOf(s) : k \in KeysOf(u)
    BY <1>6 DEF KeysOf
  <2>3. h.key \in KeysOf(u)
    BY <1>6 DEF KeysOf
  <2>. QED BY <2>1, <2>2, <2>3
<1>9. ASSUME Unique(s), Unique(t), KeysOf(s) \cap KeysOf(t) = {}
      PROVE  Unique(u) /\ Unique(r) /\ KeysOf(u) \cap KeysOf(r) = {}
  <2>1. h.key \notin KeysOf(s)
    BY <1>7, <1>9
  <2>2. h.key \notin KeysOf(r)
    BY <1>1, <1>5, <1>9 DEF Unique, KeysOf
  <2>3. Unique(r)
    <3>1. ASSUME NEW i \in DOMAIN r, NEW j \in DOMAIN r, r[i].key = r[j].key
          PROVE  i = j
      <4>1. /\ i + 1 \in DOMAIN t /\ t[i + 1] = r[i] /\ i \in Int
            /\ j + 1 \in DOMAIN t /\ t[j + 1] = r[j] /\ j \in Int
        BY <1>5
      <4>2. i + 1 = j + 1
        BY <1>9, <3>1, <4>1, Zenon DEF Unique
      <4>. QED BY <4>1, <4>2
    <3>. QED BY <3>1 DEF Unique
  <2>4. Unique(u)
    <3>1. ASSUME NEW i \in DOMAIN u, NEW j \in DOMAIN u, u[i].key = u[j].key
          PROVE  i = j
      <4>1. \A k \in DOMAIN s : s[k].key # h.key
        BY <2>1 DEF KeysOf
      <4>. QED BY <1>6, <1>9, <3>1, <4>1 DEF Unique
    <3>. QED BY <3>1 DEF Unique
  <2>. QED BY <1>7, <1>8, <1>9, <2>2, <2>3, <2>4
<1>10. ASSUME NEW block, InBlock(s, block), InBlock(t, block)
       PROVE  InBlock(u, block) /\ InBlock(r, block)
  <2>1. h.there /\ h.key \in block
    BY <1>1, <1>5, <1>10 DEF InBlock
  <2>2. InBlock(u, block)
    BY <1>6, <1>10, <2>1 DEF InBlock
  <2>3. InBlock(r, block)
    BY <1>5, <1>10 DEF InBlock
  <2>. QED BY <2>2, <2>3
<1>. QED BY <1>1, <1>3, <1>7, <1>8, <1>9, <1>10 DEF h, r, u

LEMMA EntriesAre ==
  ASSUME TypeOK, NEW keys \in Seq(Keys)
  PROVE  /\ Entries(keys) \in Seq(AnEntry) /\ Len(Entries(keys)) = Len(keys)
         /\ KeysOf(Entries(keys)) = KeysIn(keys)
         /\ (\A i, j \in DOMAIN keys : keys[i] = keys[j] => i = j) => Unique(Entries(keys))
         /\ query.pinned /\ (\A i \in DOMAIN keys : keys[i] \in base) => InBlock(Entries(keys), base)
<1>. DEFINE e == Entries(keys)
<1>1. DOMAIN e = DOMAIN keys /\ \A i \in DOMAIN keys : e[i] = [key |-> keys[i], there |-> keys[i] \in Seen]
  BY DEF Entries, Entry
<1>2. DOMAIN keys = 1 .. Len(keys) /\ Len(keys) \in Nat /\ \A i \in DOMAIN keys : keys[i] \in Keys
  BY LenProperties, ElementOfSeq
<1>3. \A i \in DOMAIN keys : e[i] \in AnEntry /\ e[i].key = keys[i] /\ (e[i].there <=> keys[i] \in Seen)
  <2>. SUFFICES ASSUME NEW i \in DOMAIN keys
                PROVE  e[i] \in AnEntry /\ e[i].key = keys[i] /\ (e[i].there <=> keys[i] \in Seen)
    OBVIOUS
  <2>1. e[i] = [key |-> keys[i], there |-> keys[i] \in Seen] /\ keys[i] \in Keys
    BY <1>1, <1>2
  <2>2. CASE keys[i] \in Seen
    <3>1. (keys[i] \in Seen) = TRUE
      BY <2>2
    <3>2. e[i] = [key |-> keys[i], there |-> TRUE]
      BY <2>1, <3>1
    <3>. QED BY <2>1, <2>2, <3>2 DEF AnEntry
  <2>3. CASE keys[i] \notin Seen
    <3>1. (keys[i] \in Seen) = FALSE
      BY <2>3
    <3>2. e[i] = [key |-> keys[i], there |-> FALSE]
      BY <2>1, <3>1
    <3>. QED BY <2>1, <2>3, <3>2 DEF AnEntry
  <2>. QED BY <2>2, <2>3
<1>4. e \in [1 .. Len(keys) -> AnEntry]
  BY <1>1, <1>2, <1>3 DEF Entries
<1>5. e \in Seq(AnEntry) /\ Len(e) = Len(keys)
  BY <1>2, <1>4, IsASeq, LenProperties
<1>. HIDE DEF e
<1>6. KeysOf(e) = KeysIn(keys)
  <2>1. \A k \in KeysOf(e) : k \in KeysIn(keys)
    BY <1>1, <1>3 DEF KeysOf, KeysIn
  <2>2. \A k \in KeysIn(keys) : k \in KeysOf(e)
    BY <1>1, <1>3 DEF KeysOf, KeysIn
  <2>. QED BY <2>1, <2>2
<1>7. (\A i, j \in DOMAIN keys : keys[i] = keys[j] => i = j) => Unique(e)
  BY <1>1, <1>3 DEF Unique
<1>8. query.pinned /\ (\A i \in DOMAIN keys : keys[i] \in base) => InBlock(e, base)
  BY <1>1, <1>3 DEF InBlock, Seen
<1>. QED BY <1>5, <1>6, <1>7, <1>8 DEF e

-----------------------------------------------------------------------------
(* A page.                                                                 *)

LEMMA InitInv == Init => IInv
<1>. SUFFICES ASSUME Init PROVE IInv
  OBVIOUS
<1>1. query \in Queries /\ query.max \in Nat \ {0} /\ PageSize \in Nat \ {0}
  BY QueryIs DEF Init
<1>2. <<>> \in Seq(Keys) /\ <<>> \in Seq(AnEntry) /\ Len(<<>>) = 0
  BY EmptySeq
<1>3. Batches = (PageSize - 1) \div PageSize /\ MaxChanges \in Nat
  BY <1>1, <1>2, QueryMapAssumption DEF Batches, Init
<1>4. TypeOK
  <2>1. map \subseteq Keys /\ base \subseteq Keys /\ kept \subseteq Keys
    BY DEF Init
  <2>2. changes \in 0 .. MaxChanges
    BY <1>3 DEF Init
  <2>3. answered \subseteq 1 .. Batches /\ Len(taken) <= query.max
    BY <1>1, <1>2 DEF Init
  <2>. QED BY <1>1, <1>2, <2>1, <2>2, <2>3 DEF TypeOK, Init
<1>5. KeysOf(<<>>) = {} /\ Unique(<<>>) /\ \A block : InBlock(<<>>, block)
  BY DEF KeysOf, Unique, InBlock
<1>6. PhaseInv /\ KeptInv
  BY <1>1, <1>2 DEF PhaseInv, Requesting, KeptInv, Seen, Init
<1>7. AskedInv
  BY DEF AskedInv, Init
<1>8. BatchInv
  BY <1>5 DEF BatchInv, Init
<1>9. GivenInv
  BY <1>5 DEF GivenInv, Init
<1>10. \A k \in kept : ~(k <= last)
  BY KeysAre DEF Init, Prefix
<1>11. WholeInv
  BY <1>10 DEF WholeInv, Whole, Init
<1>. QED BY <1>4, <1>6, <1>7, <1>8, <1>9, <1>11 DEF IInv

\* The entries of a page, and the keys they were asked for by: each after the last
\* page's, once, and with none left out up to the last of them.
Fits(entries, keys) ==
  /\ keys \in Seq(Keys) /\ entries \in Seq(AnEntry)
  /\ KeysOf(entries) = KeysIn(keys)
  /\ entries = <<>> <=> keys = <<>>
  /\ Unique(entries)
  /\ query.pinned => InBlock(entries, base)
  /\ \A k \in KeysOf(entries) : last < k /\ k <= LastKey(keys)
  /\ \A k \in kept : last < k /\ k <= LastKey(keys) => k \in KeysOf(entries)
  /\ opened /\ EndsLoading(entries) => \A k \in kept : last < k => k \in KeysOf(entries)

LEMMA PageInv ==
  ASSUME IInv, NEW entries, NEW keys, Fits(entries, keys), Page(entries, keys),
         at \in Requesting, UNCHANGED <<mapVars, query>>
  PROVE  IInv'
<1>1. /\ TypeOK /\ keys \in Seq(Keys) /\ entries \in Seq(AnEntry)
      /\ taken \in Seq(AnEntry) /\ buffer = <<>> /\ Len(taken) < query.max /\ Len(taken) \in Nat
      /\ complete = FALSE /\ opened \in BOOLEAN /\ records \in Seq(AnEntry)
      /\ last \in Keys \cup {Prefix}
  BY LenProperties DEF IInv, PhaseInv, TypeOK, Fits
<1>2. query.max \in Nat \ {0} /\ PageSize \in Nat \ {0}
  BY <1>1, QueryIs DEF TypeOK
<1>3. <<>> \in Seq(Keys) /\ <<>> \in Seq(AnEntry) /\ Len(<<>>) = 0
  BY EmptySeq
<1>4. KeysOf(<<>>) = {} /\ Unique(<<>>) /\ \A block : InBlock(<<>>, block)
  BY DEF KeysOf, Unique, InBlock
<1>5. kept \subseteq Nat /\ last \in Nat /\ LastKey(keys) \in Keys \cup {Prefix}
  <2>1. keys # <<>> => Len(keys) \in 1 .. Len(keys)
    BY <1>1, LenProperties, EmptySeq
  <2>2. keys # <<>> => keys[Len(keys)] \in Keys
    BY <1>1, <2>1, ElementOfSeq
  <2>. QED BY <1>1, <2>2, KeysAre DEF TypeOK, LastKey, Prefix
\* Whichever it is, what was taken and what waits have the page's keys as well.
<1>6. /\ taken' \in Seq(AnEntry) /\ buffer' \in Seq(AnEntry)
      /\ Len(taken') <= query.max
      /\ KeysOf(taken') \cup KeysOf(buffer') = KeysOf(taken) \cup KeysOf(entries)
      /\ Unique(taken') /\ Unique(buffer') /\ KeysOf(taken') \cap KeysOf(buffer') = {}
      /\ query.pinned => InBlock(taken', base) /\ InBlock(buffer', base)
  <2>1. /\ Unique(taken) /\ Unique(entries)
        /\ query.pinned => InBlock(taken, base) /\ InBlock(entries, base)
    BY DEF IInv, GivenInv, Fits
  <2>2. KeysOf(taken) \cap KeysOf(entries) = {}
    <3>1. \A k \in KeysOf(taken) : k <= last
      BY DEF IInv, GivenInv, Requesting
    <3>2. \A k \in KeysOf(entries) : last < k
      BY DEF Fits
    <3>3. \A k \in KeysOf(entries) : k \in Nat
      BY <1>1, KeysOfType, KeysAre
    <3>. QED BY <1>5, <3>1, <3>2, <3>3
  <2>3. CASE opened /\ entries # <<>>
    <3>1. taken' = Append(taken, Head(entries)) /\ buffer' = Tail(entries)
      BY <2>3 DEF Page
    <3>2. /\ taken' \in Seq(AnEntry) /\ buffer' \in Seq(AnEntry)
          /\ Len(taken') = Len(taken) + 1
          /\ KeysOf(taken') \cup KeysOf(buffer') = KeysOf(taken) \cup KeysOf(entries)
          /\ Unique(taken') /\ Unique(buffer') /\ KeysOf(taken') \cap KeysOf(buffer') = {}
          /\ query.pinned => InBlock(taken', base) /\ InBlock(buffer', base)
      BY <1>1, <2>1, <2>2, <2>3, <3>1, Given
    <3>. QED BY <1>1, <1>2, <3>2
  <2>4. CASE ~(opened /\ entries # <<>>)
    <3>1. taken' = taken /\ buffer' = entries
      BY <2>4 DEF Page
    <3>. QED BY <1>1, <1>2, <2>1, <2>2, <3>1
  <2>. QED BY <2>3, <2>4
<1>7. /\ opened' = TRUE /\ last' = LastKey(keys) /\ records' = records \o entries
      /\ complete' = (opened /\ EndsLoading(entries))
      /\ at' = IF opened /\ entries = <<>> THEN "stopped" ELSE "open"
      /\ asked' = <<>> /\ answered' = {} /\ joined' = <<>>
      /\ UNCHANGED <<map, base, kept, changes, query>>
  BY DEF Page, mapVars
<1>8. records' \in Seq(AnEntry)
  BY <1>1, <1>7, ConcatProperties
<1>9. TypeOK'
  BY <1>1, <1>3, <1>5, <1>6, <1>7, <1>8 DEF TypeOK
<1>10. PhaseInv'
  BY <1>7 DEF PhaseInv, Requesting
<1>11. KeptInv' /\ AskedInv'
  BY <1>7 DEF IInv, KeptInv, AskedInv, Seen
<1>12. BatchInv'
  BY <1>4, <1>7 DEF BatchInv
<1>13. at' # "stopped" => \A k \in KeysOf(taken') \cup KeysOf(buffer') : k <= last'
  <2>1. SUFFICES ASSUME at' # "stopped", NEW k \in KeysOf(taken) \cup KeysOf(entries)
                 PROVE  k <= LastKey(keys)
    BY <1>6, <1>7
  <2>2. CASE k \in KeysOf(entries)
    BY <2>2 DEF Fits
  <2>3. CASE k \in KeysOf(taken)
    <3>1. k <= last /\ k \in Nat
      BY <1>1, <2>3, KeysOfType, KeysAre DEF IInv, GivenInv, Requesting
    <3>2. opened
      BY <1>4, <2>3 DEF IInv, PhaseInv
    <3>3. entries # <<>>
      BY <1>7, <2>1, <3>2
    <3>4. keys # <<>> /\ Len(keys) \in DOMAIN keys
      BY <1>1, <3>3, LenProperties, EmptySeq DEF Fits
    <3>5. LastKey(keys) \in KeysOf(entries)
      BY <3>4 DEF Fits, LastKey, KeysIn
    <3>6. last < LastKey(keys) /\ LastKey(keys) \in Nat
      <4>1. last < LastKey(keys)
        BY <3>5 DEF Fits
      <4>2. \A n \in Keys \cup {Prefix} : n \in Nat
        BY KeysAre DEF Prefix
      <4>. QED BY <1>5, <4>1, <4>2
    <3>. QED BY <1>5, <3>1, <3>6
  <2>. QED BY <2>1, <2>2, <2>3
<1>14. GivenInv'
  BY <1>6, <1>7, <1>13 DEF GivenInv
<1>15. \A k \in kept : k <= last => k \in KeysOf(taken)
  BY <1>1, <1>4 DEF IInv, WholeInv, Requesting
<1>16. complete' \/ at' = "stopped" => kept \subseteq KeysOf(taken) \cup KeysOf(entries)
  <2>1. ASSUME complete' \/ at' = "stopped" PROVE opened /\ EndsLoading(entries)
    <3>1. CASE complete'
      BY <1>7, <3>1
    <3>2. CASE at' = "stopped"
      BY <1>2, <1>3, <1>7, <3>2 DEF EndsLoading
    <3>. QED BY <2>1, <3>1, <3>2
  <2>2. ASSUME opened /\ EndsLoading(entries), NEW k \in kept
        PROVE  k \in KeysOf(taken) \cup KeysOf(entries)
    <3>1. k <= last \/ last < k
      BY <1>5
    <3>. QED BY <1>15, <2>2, <3>1 DEF Fits
  <2>. QED BY <2>1, <2>2
<1>17. \A k \in kept : k <= LastKey(keys) => k \in KeysOf(taken) \cup KeysOf(entries)
  <2>1. \A k \in kept : k <= last \/ last < k
    BY <1>5
  <2>. QED BY <1>15, <2>1 DEF Fits
<1>18. WholeInv'
  <2>1. at' = "stopped" => buffer' = <<>>
    BY <1>7 DEF Page
  <2>2. at' = "stopped" => kept \subseteq KeysOf(taken')
    BY <1>4, <1>6, <1>16, <2>1
  <2>3. Whole'
    BY <1>7, <2>2 DEF Whole
  <2>. QED BY <1>6, <1>7, <1>16, <1>17, <2>3 DEF WholeInv
<1>. QED BY <1>9, <1>10, <1>11, <1>12, <1>14, <1>18 DEF IInv

-----------------------------------------------------------------------------
(* The requests.                                                           *)

LEMMA ListedNext ==
  ASSUME IInv, NEW keys, Lists(keys, After), opened /\ Len(keys) < PageSize => After = KeysIn(keys)
  PROVE  keys \in Seq(Keys) /\ NextKeys(keys)
<1>1. TypeOK /\ kept \subseteq Seen /\ Seen \subseteq Keys /\ Seen \subseteq Nat /\ After \subseteq Seen
  BY SeenIs DEF IInv, KeptInv, After
<1>2. last \in Nat
  BY <1>1, KeysAre DEF TypeOK, Prefix
<1>3. keys \in Seq(After) /\ \A i \in DOMAIN keys : keys[i] \in After
  BY LenProperties, ElementOfSeq DEF Lists
<1>4. keys \in Seq(Keys)
  BY <1>1, <1>3, SeqMonotonic
<1>5. \A k \in kept : last < k => k \in After
  BY <1>1, <1>2 DEF After
<1>6. \A i \in DOMAIN keys : last < keys[i] /\ (query.pinned => keys[i] \in base)
  BY <1>1, <1>2, <1>3 DEF After, Seen
<1>7. keys # <<>> => \A k \in kept : last < k /\ k <= keys[Len(keys)] => k \in KeysIn(keys)
  BY <1>5 DEF Lists
<1>8. \A i, j \in DOMAIN keys : i < j => keys[i] < keys[j]
  BY DEF Lists
<1>9. opened /\ Len(keys) < PageSize => \A k \in kept : last < k => k \in KeysIn(keys)
  BY <1>5
<1>. QED BY <1>4, <1>6, <1>7, <1>8, <1>9 DEF NextKeys

LEMMA NextFits ==
  ASSUME IInv, NEW keys \in Seq(Keys), NextKeys(keys)
  PROVE  Fits(Entries(keys), keys)
<1>. DEFINE e == Entries(keys)
            l == Len(keys)
<1>1. l \in Nat /\ DOMAIN keys = 1 .. l /\ \A i \in DOMAIN keys : keys[i] \in Keys /\ keys[i] \in Nat
  BY LenProperties, ElementOfSeq, KeysAre
<1>2. \A i, j \in DOMAIN keys : i < j => keys[i] < keys[j]
  BY DEF NextKeys
<1>3. \A i, j \in DOMAIN keys : keys[i] = keys[j] => i = j
  <2>1. ASSUME NEW i \in DOMAIN keys, NEW j \in DOMAIN keys, keys[i] = keys[j]
        PROVE  i = j
    <3>1. ~(i < j) /\ ~(j < i)
      BY <1>1, <1>2, <2>1
    <3>. QED BY <1>1, <3>1
  <2>. QED BY <2>1
<1>4. /\ e \in Seq(AnEntry) /\ Len(e) = l
      /\ KeysOf(e) = KeysIn(keys) /\ Unique(e)
  BY <1>3, EntriesAre DEF IInv
<1>5. query.pinned => InBlock(e, base)
  BY EntriesAre DEF IInv, NextKeys
<1>6. e = <<>> <=> keys = <<>>
  BY <1>4, EmptySeq
<1>. HIDE DEF e
<1>7. \A k \in KeysIn(keys) : last < k /\ k <= LastKey(keys)
  <2>1. SUFFICES ASSUME NEW i \in DOMAIN keys
                 PROVE  last < keys[i] /\ keys[i] <= LastKey(keys)
    BY DEF KeysIn
  <2>2. last < keys[i]
    BY DEF NextKeys
  <2>3. keys # <<>> /\ l \in DOMAIN keys /\ i <= l
    BY <1>1, EmptySeq
  <2>4. keys[i] <= keys[l]
    <3>1. i = l \/ i < l
      BY <1>1, <2>3
    <3>. QED BY <1>1, <1>2, <2>3, <3>1
  <2>. QED BY <2>2, <2>3, <2>4 DEF LastKey
<1>8. \A k \in kept : last < k /\ k <= LastKey(keys) => k \in KeysIn(keys)
  <2>1. CASE keys # <<>>
    BY <2>1 DEF NextKeys, LastKey
  <2>2. CASE keys = <<>>
    <3>1. \A k \in kept : k \in Nat \ {0}
      BY QueryMapAssumption DEF IInv, TypeOK
    <3>. QED BY <2>2, <3>1 DEF LastKey, Prefix
  <2>. QED BY <2>1, <2>2
<1>9. opened /\ EndsLoading(e) => \A k \in kept : last < k => k \in KeysIn(keys)
  BY <1>4 DEF NextKeys, EndsLoading
<1>10. Fits(e, keys)
  BY <1>4, <1>5, <1>6, <1>7, <1>8, <1>9 DEF Fits
<1>. QED BY <1>10 DEF e

LEMMA GotPairsInv ==
  ASSUME IInv, GotPairs
  PROVE  IInv'
<1>. DEFINE keys == Sorted(Seen)
<1>1. ~opened /\ last = Prefix /\ TypeOK
  BY DEF GotPairs, IInv, PhaseInv
<1>2. Seen \in SUBSET Nat /\ IsFiniteSet(Seen) /\ \A k \in Seen : k > Prefix
  BY <1>1, SeenIs, QueryMapAssumption DEF Prefix
<1>3. After = Seen
  BY <1>1, <1>2 DEF After
<1>4. Cardinality(Seen) \in Nat /\ keys \in [1 .. Cardinality(Seen) -> Seen]
  BY <1>2, SortedIs
<1>5. keys \in Seq(Seen) /\ Len(keys) = Smaller(Cardinality(Seen), Cardinality(Seen))
  BY <1>4, IsASeq, LenProperties DEF Smaller
<1>6. Lists(keys, Seen)
  BY <1>2, <1>4, <1>5, FirstOfSorted
<1>. HIDE DEF keys
<1>7. keys \in Seq(Keys) /\ NextKeys(keys)
  BY <1>1, <1>3, <1>6, ListedNext
<1>8. Fits(Entries(keys), keys)
  BY <1>7, NextFits
<1>. QED BY <1>8, PageInv DEF GotPairs, Requesting, keys

LEMMA GotKeysInv ==
  ASSUME IInv, GotKeys
  PROVE  IInv'
<1>1. TypeOK /\ (~opened => last = Prefix)
  BY DEF IInv, PhaseInv
<1>2. /\ Lists(KeysFound, After) /\ (KeysFound = <<>> => After = {})
      /\ opened /\ Len(KeysFound) < PageSize => After = KeysIn(KeysFound)
  BY <1>1, FoundIs
<1>3. KeysFound \in Seq(Keys) /\ NextKeys(KeysFound)
  BY <1>2, ListedNext
<1>4. CASE KeysFound = <<>>
  <2>1. Fits(Entries(<<>>), <<>>)
    BY <1>3, <1>4, NextFits
  <2>2. Entries(<<>>) = <<>>
    BY <1>1, EntriesAre, EmptySeq
  <2>3. Page(<<>>, <<>>)
    BY <1>4 DEF GotKeys
  <2>. QED BY <2>1, <2>2, <2>3, PageInv DEF GotKeys, Requesting
<1>5. CASE KeysFound # <<>>
  <2>1. /\ asked' = KeysFound
        /\ at' = IF Exhausts THEN "batches" ELSE "values"
        /\ UNCHANGED <<answered, joined, resultVars, mapVars, query>>
        /\ at = "keys"
    BY <1>5 DEF GotKeys
  <2>2. answered = {} /\ joined = <<>>
    BY <2>1 DEF IInv, PhaseInv
  <2>3. TypeOK'
    BY <1>1, <1>3, <2>1, <2>2 DEF TypeOK, resultVars, mapVars
  <2>4. PhaseInv'
    <3>1. at' = "batches" => ~opened
      BY <2>1 DEF Exhausts
    <3>. QED BY <1>5, <2>1, <2>2, <3>1 DEF IInv, PhaseInv, Requesting, resultVars
  <2>5. KeptInv' /\ GivenInv' /\ WholeInv'
    BY <2>1 DEF IInv, KeptInv, Seen, GivenInv, WholeInv, Whole, resultVars, mapVars
  <2>6. AskedInv'
    BY <1>3, <2>1 DEF AskedInv, NextKeys, PageSize, resultVars, mapVars
  <2>7. BatchInv'
    BY <2>1, <2>2 DEF BatchInv, KeysOf, Unique, InBlock
  <2>. QED BY <2>3, <2>4, <2>5, <2>6, <2>7 DEF IInv
<1>. QED BY <1>4, <1>5

LEMMA GotValuesInv ==
  ASSUME IInv, GotValues
  PROVE  IInv'
<1>1. asked \in Seq(Keys) /\ NextKeys(asked)
  BY DEF GotValues, IInv, TypeOK, PhaseInv, AskedInv
<1>2. Fits(Entries(asked), asked)
  BY <1>1, NextFits
<1>. QED BY <1>2, PageInv DEF GotValues, Requesting

LEMMA GotBatchInv ==
  ASSUME IInv, NEW n \in 1 .. Batches, GotBatch(n)
  PROVE  IInv'
<1>. DEFINE e == Entries(Batch(n))
            now == joined \o e
<1>1. /\ TypeOK /\ asked \in Seq(Keys) /\ joined \in Seq(AnEntry) /\ NextKeys(asked) /\ ~opened
      /\ at = "batches" /\ n \notin answered /\ answered \subseteq 1 .. Batches
      /\ PageSize \in Nat \ {0} /\ asked # <<>>
  BY QueryIs DEF GotBatch, IInv, TypeOK, PhaseInv, AskedInv
<1>2. Batch(n) \in Seq(Keys) /\ \A k \in DOMAIN Batch(n) : Batch(n)[k] \in KeysIn(asked)
  <2>1. \A k \in DOMAIN Batch(n) : \E i \in DOMAIN asked : Batch(n)[k] = asked[i]
    BY <1>1, BatchIs
  <2>. QED BY <1>1, <2>1, BatchIs DEF KeysIn
<1>3. \A m \in 1 .. Batches : \A j \in DOMAIN Batch(m), k \in DOMAIN Batch(n) :
        Batch(m)[j] = Batch(n)[k] => m = n /\ j = k
  BY <1>1, BatchesApart DEF NextKeys
<1>4. /\ e \in Seq(AnEntry) /\ KeysOf(e) = KeysIn(Batch(n)) /\ Unique(e)
      /\ query.pinned => InBlock(e, base)
  <2>1. query.pinned => \A k \in DOMAIN Batch(n) : Batch(n)[k] \in base
    BY <1>1, <1>2 DEF NextKeys, KeysIn
  <2>. QED BY <1>1, <1>2, <1>3, <2>1, EntriesAre
<1>5. KeysOf(joined) \cap KeysOf(e) = {}
  <2>1. ASSUME NEW k \in KeysOf(joined), k \in KeysIn(Batch(n)) PROVE FALSE
    <3>1. PICK m \in answered : k \in KeysIn(Batch(m))
      BY DEF IInv, BatchInv
    <3>. QED BY <1>1, <1>3, <2>1, <3>1 DEF KeysIn
  <2>. QED BY <1>4, <2>1
<1>6. /\ now \in Seq(AnEntry) /\ KeysOf(now) = UNION {KeysIn(Batch(m)) : m \in answered \cup {n}}
      /\ Unique(now) /\ (query.pinned => InBlock(now, base))
  <2>. HIDE DEF e
  <2>1. KeysOf(joined) = UNION {KeysIn(Batch(m)) : m \in answered}
    BY DEF IInv, BatchInv
  <2>2. Unique(joined) /\ (query.pinned => InBlock(joined, base))
    BY DEF IInv, BatchInv
  <2>3. /\ now \in Seq(AnEntry) /\ KeysOf(now) = KeysOf(joined) \cup KeysOf(e)
        /\ Unique(now) /\ (query.pinned => InBlock(now, base))
    BY <1>1, <1>4, <1>5, <2>2, Joined
  <2>4. UNION {KeysIn(Batch(m)) : m \in answered \cup {n}} = KeysOf(joined) \cup KeysIn(Batch(n))
    BY <2>1
  <2>. QED BY <1>4, <2>3, <2>4
<1>. HIDE DEF now
<1>7. CASE answered \cup {n} = 1 .. Batches
  <2>1. Page(now, asked)
    BY <1>7 DEF GotBatch, now
  <2>2. KeysOf(now) = KeysIn(asked)
    BY <1>1, <1>6, <1>7, BatchesCover
  <2>3. Fits(Entries(asked), asked) /\ KeysOf(Entries(asked)) = KeysIn(asked)
    BY <1>1, NextFits DEF Fits
  <2>4. now # <<>>
    <3>1. 1 \in DOMAIN asked
      BY <1>1, LenProperties, EmptySeq
    <3>2. KeysOf(now) # {}
      BY <2>2, <3>1 DEF KeysIn
    <3>. QED BY <3>2 DEF KeysOf
  <2>5. Fits(now, asked)
    BY <1>1, <1>6, <2>2, <2>3, <2>4 DEF Fits
  <2>. QED BY <1>1, <2>1, <2>5, PageInv DEF GotBatch, Requesting
<1>8. CASE answered \cup {n} # 1 .. Batches
  <2>1. /\ answered' = answered \cup {n} /\ joined' = now
        /\ UNCHANGED <<at, asked, resultVars, mapVars, query>>
    BY <1>8 DEF GotBatch, now
  <2>2. Batches' = Batches /\ \A m : Batch(m)' = Batch(m)
    BY <2>1 DEF Batches, Batch, PageSize
  <2>3. TypeOK'
    BY <1>1, <1>6, <2>1, <2>2 DEF TypeOK, resultVars, mapVars
  <2>4. PhaseInv'
    BY <1>1, <2>1 DEF IInv, PhaseInv, Requesting, resultVars
  <2>5. KeptInv' /\ GivenInv' /\ WholeInv'
    BY <2>1 DEF IInv, KeptInv, Seen, GivenInv, WholeInv, Whole, resultVars, mapVars
  <2>6. AskedInv'
    BY <1>1, <2>1 DEF AskedInv, NextKeys, PageSize, resultVars, mapVars
  <2>7. BatchInv'
    BY <1>6, <2>1, <2>2 DEF BatchInv, resultVars, mapVars
  <2>. QED BY <2>3, <2>4, <2>5, <2>6, <2>7 DEF IInv
<1>. QED BY <1>7, <1>8

LEMMA StartInv ==
  ASSUME IInv, Start
  PROVE  IInv'
<1>1. /\ TypeOK /\ ~opened /\ taken = <<>> /\ buffer = <<>> /\ last = Prefix /\ ~complete
      /\ asked = <<>> /\ answered = {} /\ joined = <<>>
  BY DEF Start, IInv, PhaseInv
<1>2. /\ at' \in {"pairs", "keys"} /\ kept' = Seen
      /\ UNCHANGED <<map, base, changes, query, asked, answered, joined, opened, records, buffer,
                     last, complete, taken>>
  BY DEF Start, requestVars, resultVars
<1>3. query.max \in Nat \ {0} /\ Len(taken) = 0
  BY <1>1, QueryIs, EmptySeq DEF TypeOK
<1>4. TypeOK'
  BY <1>1, <1>2, SeenIs DEF TypeOK, Batches, PageSize
<1>5. PhaseInv'
  BY <1>1, <1>2, <1>3 DEF PhaseInv, Requesting
<1>6. KeptInv' /\ AskedInv'
  BY <1>1, <1>2 DEF KeptInv, AskedInv, Seen
<1>7. BatchInv' /\ GivenInv'
  BY <1>1, <1>2 DEF IInv, BatchInv, GivenInv, KeysOf, Unique, InBlock
<1>8. \A k \in Seen : ~(k <= last)
  BY <1>1, SeenIs, QueryMapAssumption DEF Prefix
<1>9. WholeInv'
  BY <1>1, <1>2, <1>8 DEF WholeInv, Whole
<1>. QED BY <1>4, <1>5, <1>6, <1>7, <1>9 DEF IInv

\* The requests are given up, or there is nothing to be read of their responses.
LEMMA ClearedInv ==
  ASSUME IInv, asked' = <<>>, answered' = {}, joined' = <<>>, UNCHANGED <<mapVars, query, resultVars>>,
         at # "stopped", at' \in {"start", "keys", "open"}, PhaseInv'
  PROVE  IInv'
<1>1. UNCHANGED <<map, base, kept, changes, query, opened, records, buffer, last, complete, taken>>
  BY DEF mapVars, resultVars
<1>2. <<>> \in Seq(Keys) /\ <<>> \in Seq(AnEntry)
  BY EmptySeq
<1>3. TypeOK'
  BY <1>1, <1>2 DEF IInv, TypeOK
<1>4. KeptInv' /\ AskedInv'
  BY <1>1 DEF IInv, KeptInv, AskedInv, Seen
<1>5. BatchInv'
  BY DEF BatchInv, KeysOf, Unique, InBlock
<1>6. GivenInv' /\ WholeInv'
  BY <1>1 DEF IInv, GivenInv, WholeInv, Whole
<1>. QED BY <1>3, <1>4, <1>5, <1>6 DEF IInv

LEMMA NoPairsInv ==
  ASSUME IInv, NoPairs
  PROVE  IInv'
<1>1. /\ asked' = <<>> /\ answered' = {} /\ joined' = <<>>
      /\ at = "pairs" /\ at' = "keys" /\ UNCHANGED <<mapVars, query, resultVars>>
  BY DEF NoPairs, requestVars, IInv, PhaseInv
<1>2. PhaseInv'
  BY <1>1 DEF IInv, PhaseInv, Requesting, resultVars
<1>. QED BY <1>1, <1>2, ClearedInv

LEMMA FailsInv ==
  ASSUME IInv, Fails
  PROVE  IInv'
<1>1. /\ asked' = <<>> /\ answered' = {} /\ joined' = <<>>
      /\ at \in Requesting /\ at' = IF opened THEN "open" ELSE "start"
      /\ UNCHANGED <<mapVars, query, resultVars>>
  BY DEF Fails, Requesting
<1>2. PhaseInv'
  BY <1>1 DEF IInv, PhaseInv, Requesting, resultVars
<1>. QED BY <1>1, <1>2, ClearedInv DEF Requesting

-----------------------------------------------------------------------------
(* The iteration.                                                          *)

LEMMA NextPageInv ==
  ASSUME IInv, NextPage
  PROVE  IInv'
<1>1. /\ asked' = <<>> /\ answered' = {} /\ joined' = <<>>
      /\ at = "open" /\ at' = "keys" /\ UNCHANGED <<mapVars, query, resultVars>>
      /\ ~Enough /\ buffer = <<>> /\ ~complete
  BY DEF NextPage, requestVars, IInv, PhaseInv
<1>2. Len(taken) < query.max
  BY <1>1, QueryIs, LenProperties DEF IInv, TypeOK, Enough
<1>3. PhaseInv'
  BY <1>1, <1>2 DEF IInv, PhaseInv, Requesting, resultVars
<1>. QED BY <1>1, <1>3, ClearedInv

LEMMA TakeNextInv ==
  ASSUME IInv, TakeNext
  PROVE  IInv'
<1>1. /\ TypeOK /\ at = "open" /\ at' = "open" /\ ~Enough /\ buffer # <<>>
      /\ taken \in Seq(AnEntry) /\ buffer \in Seq(AnEntry)
      /\ taken' = Append(taken, Head(buffer)) /\ buffer' = Tail(buffer)
      /\ UNCHANGED <<map, base, kept, changes, query, asked, answered, joined, opened, records,
                     last, complete>>
  BY DEF TakeNext, IInv, TypeOK, mapVars, requestVars
<1>2. Len(taken) + 1 <= query.max
  BY <1>1, QueryIs, LenProperties DEF TypeOK, Enough
<1>3. /\ Unique(taken) /\ Unique(buffer) /\ KeysOf(taken) \cap KeysOf(buffer) = {}
      /\ query.pinned => InBlock(taken, base) /\ InBlock(buffer, base)
  BY DEF IInv, GivenInv
<1>4. /\ taken' \in Seq(AnEntry) /\ buffer' \in Seq(AnEntry) /\ Len(taken') <= query.max
      /\ KeysOf(taken') \cup KeysOf(buffer') = KeysOf(taken) \cup KeysOf(buffer)
      /\ Unique(taken') /\ Unique(buffer') /\ KeysOf(taken') \cap KeysOf(buffer') = {}
      /\ query.pinned => InBlock(taken', base) /\ InBlock(buffer', base)
  BY <1>1, <1>2, <1>3, Given
<1>5. TypeOK'
  BY <1>1, <1>4 DEF TypeOK, Batches, PageSize
<1>6. PhaseInv'
  BY <1>1 DEF IInv, PhaseInv, Requesting
<1>7. KeptInv' /\ AskedInv' /\ BatchInv'
  BY <1>1 DEF IInv, PhaseInv, KeptInv, Seen, AskedInv, BatchInv, KeysOf, Unique, InBlock
<1>8. GivenInv'
  BY <1>1, <1>4 DEF IInv, GivenInv
<1>9. WholeInv'
  BY <1>1, <1>4 DEF IInv, WholeInv, Whole
<1>. QED BY <1>5, <1>6, <1>7, <1>8, <1>9 DEF IInv

LEMMA StopInv ==
  ASSUME IInv, Stop
  PROVE  IInv'
<1>1. /\ TypeOK /\ at = "open" /\ at' = "stopped" /\ complete' = TRUE /\ opened
      /\ Enough \/ (buffer = <<>> /\ complete)
      /\ asked = <<>> /\ answered = {} /\ joined = <<>>
      /\ UNCHANGED <<map, base, kept, changes, query, asked, answered, joined, opened, records, buffer,
                     last, taken>>
  BY DEF Stop, IInv, PhaseInv, mapVars, requestVars
<1>2. TypeOK'
  BY <1>1 DEF TypeOK, Batches, PageSize
<1>3. PhaseInv' /\ KeptInv' /\ AskedInv'
  BY <1>1 DEF IInv, PhaseInv, Requesting, KeptInv, Seen, AskedInv
<1>4. BatchInv' /\ GivenInv'
  BY <1>1 DEF IInv, BatchInv, GivenInv, KeysOf, Unique, InBlock
<1>5. CASE Enough
  <2>1. Len(taken) = query.max
    BY <1>1, <1>5, QueryIs, LenProperties DEF TypeOK, Enough
  <2>. QED BY <1>1, <1>2, <1>3, <1>4, <2>1 DEF IInv, WholeInv, Whole
<1>6. CASE buffer = <<>> /\ complete
  <2>1. kept \subseteq KeysOf(taken)
    BY <1>1, <1>6 DEF IInv, WholeInv, KeysOf
  <2>. QED BY <1>1, <1>2, <1>3, <1>4, <2>1 DEF IInv, WholeInv, Whole
<1>. QED BY <1>1, <1>5, <1>6

\* The map changes: what is kept is still in the state that is read.
LEMMA ChangeInv ==
  ASSUME IInv, NEW k \in Keys, Change(k)
  PROVE  IInv'
<1>1. /\ TypeOK /\ at # "stopped" /\ changes' = changes + 1 /\ changes < MaxChanges
      /\ map' = (map \cup {k}) \ (map \cap {k})
      /\ kept' = IF query.pinned THEN kept ELSE kept \ {k}
      /\ UNCHANGED <<base, query, at, asked, answered, joined, opened, records, buffer, last,
                     complete, taken>>
  BY DEF Change, IInv, requestVars, resultVars
<1>2. kept' \subseteq kept
  BY <1>1
<1>3. changes' \in 0 .. MaxChanges
  BY <1>1, QueryMapAssumption DEF TypeOK
<1>4. TypeOK'
  BY <1>1, <1>2, <1>3 DEF TypeOK, Batches, PageSize
<1>5. PhaseInv'
  BY <1>1 DEF IInv, PhaseInv, Requesting
<1>6. KeptInv'
  BY <1>1 DEF IInv, KeptInv, Seen
<1>7. AskedInv'
  BY <1>1, <1>2 DEF IInv, AskedInv, NextKeys, PageSize
<1>8. BatchInv' /\ GivenInv'
  BY <1>1 DEF IInv, BatchInv, Batch, PageSize, GivenInv
<1>9. WholeInv'
  BY <1>1, <1>2 DEF IInv, WholeInv, Whole
<1>. QED BY <1>4, <1>5, <1>6, <1>7, <1>8, <1>9 DEF IInv

-----------------------------------------------------------------------------
LEMMA NextInv ==
  ASSUME IInv, [Next]_vars
  PROVE  IInv'
<1>1. CASE Start
  BY <1>1, StartInv
<1>2. CASE GotPairs
  BY <1>2, GotPairsInv
<1>3. CASE NoPairs
  BY <1>3, NoPairsInv
<1>4. CASE GotKeys
  BY <1>4, GotKeysInv
<1>5. CASE GotValues
  BY <1>5, GotValuesInv
<1>6. CASE \E n \in 1 .. Batches : GotBatch(n)
  BY <1>6, GotBatchInv
<1>7. CASE Fails
  BY <1>7, FailsInv
<1>8. CASE TakeNext
  BY <1>8, TakeNextInv
<1>9. CASE Stop
  BY <1>9, StopInv
<1>10. CASE NextPage
  BY <1>10, NextPageInv
<1>11. CASE \E k \in Keys : Change(k)
  BY <1>11, ChangeInv
<1>12. CASE UNCHANGED vars
  <2>1. UNCHANGED <<map, base, kept, changes, query, at, asked, answered, joined, opened, records,
                    buffer, last, complete, taken>>
    BY <1>12 DEF vars, mapVars, requestVars, resultVars
  <2>2. TypeOK' /\ PhaseInv' /\ KeptInv' /\ AskedInv'
    BY <2>1 DEF IInv, TypeOK, Batches, PageSize, PhaseInv, KeptInv, Seen, AskedInv, NextKeys
  <2>3. BatchInv' /\ GivenInv' /\ WholeInv'
    BY <2>1 DEF IInv, BatchInv, Batch, PageSize, GivenInv, WholeInv, Whole
  <2>. QED BY <2>2, <2>3 DEF IInv
<1>. QED
  BY <1>1, <1>2, <1>3, <1>4, <1>5, <1>6, <1>7, <1>8, <1>9, <1>10, <1>11, <1>12 DEF Next

LEMMA Invariant == Spec => []IInv
<1>1. Init => IInv
  BY InitInv
<1>2. IInv /\ [Next]_vars => IInv'
  BY NextInv
<1>. QED BY <1>1, <1>2, PTL DEF Spec

\* Every reachable state of a query and its iteration has the types of its
\* variables, and no more entries are given than max_results.
THEOREM TypeCorrect == Spec => []TypeOK
<1>1. IInv => TypeOK
  BY DEF IInv
<1>. QED BY <1>1, Invariant, PTL

\* __anext__ gives no key twice, for any map and page size: the pages follow one
\* another, whatever is inserted or removed between their requests, requests may
\* fail and be repeated, and batches may come in any order.
THEOREM GivenOnce == Spec => []Once
<1>1. IInv => Once
  BY DEF IInv, GivenInv, Unique, Once
<1>. QED BY <1>1, Invariant, PTL

\* An iteration that stops before max_results entries has given every entry that was
\* in the map from the first request on.
THEOREM GivenWhole == Spec => []Whole
<1>1. IInv => Whole
  BY DEF IInv, WholeInv
<1>. QED BY <1>1, Invariant, PTL

\* With a block hash, all entries that are given are of that block with their values:
\* the keys and the values of a page are read in the same state.
THEOREM GivenOfTheBlock == Spec => []OfTheBlock
<1>1. IInv => OfTheBlock
  BY DEF IInv, GivenInv, InBlock, OfTheBlock
<1>. QED BY <1>1, Invariant, PTL

=============================================================================
