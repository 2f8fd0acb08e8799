---------------------------- MODULE ReceiptProofs ----------------------------
EXTENDS Receipt, FiniteSetTheorems, TLAPS
(***************************************************************************)
(* Theorems about Receipt, for every value of its constants.               *)
(***************************************************************************)
-----------------------------------------------------------------------------
(* Where the events of an extrinsic are in a list that has them c times.   *)

\* The place of the i-th event of the list among those of the extrinsic.
Place(i, n) == 1 + ((i - 1) % n)

LEMMA PlaceType ==
  ASSUME NEW n \in Nat \ {0}, NEW i \in Nat \ {0}
  PROVE  Place(i, n) \in 1 .. n
BY DEF Place

LEMMA FirstCopy ==
  ASSUME NEW n \in Nat \ {0}, NEW i \in 1 .. n
  PROVE  Place(i, n) = i
BY DEF Place

LEMMA LastCopy ==
  ASSUME NEW n \in Nat \ {0}, NEW c \in Nat \ {0}, NEW p \in 1 .. n
  PROVE  (c - 1) * n + p \in 1 .. c * n /\ Place((c - 1) * n + p, n) = p
BY DEF Place

LEMMA NotBefore ==
  ASSUME NEW n \in Nat \ {0}, NEW c \in Nat \ {0}, NEW i \in 1 .. c * n
  PROVE  i <= (c - 1) * n + Place(i, n)
<1>. DEFINE q == (i - 1) \div n
<1>1. i \in Nat /\ c * n \in Nat /\ 1 <= i /\ i <= c * n
  OBVIOUS
<1>2. q \in Nat /\ (i - 1) % n \in 0 .. n - 1
  BY <1>1
<1>3. i - 1 = q * n + ((i - 1) % n)
  BY <1>1
<1>4. q <= c - 1
  <2>1. ASSUME q >= c PROVE FALSE
    <3>1. q * n >= c * n
      BY <1>2, <2>1
    <3>. QED BY <1>1, <1>2, <1>3, <3>1
  <2>. QED BY <1>2, <2>1
<1>5. q * n <= (c - 1) * n
  BY <1>2, <1>4
<1>. QED BY <1>1, <1>2, <1>3, <1>5 DEF Place

-----------------------------------------------------------------------------
(* The first and the last of a set of places.                              *)

\* Among sets of subsets of a finite set there is one that is minimal.
LEMMA Minimal ==
  ASSUME NEW S, IsFiniteSet(S), NEW T \in SUBSET SUBSET S, T # {}
  PROVE  \E x \in T : \A y \in T : ~(y \subseteq x /\ y # x)
<1>1. IsWellFoundedOn(StrictSubsetOrdering(S), SUBSET S)
  BY FS_StrictSubsetOrderingWellFounded, FS_FiniteSubsetsOfFinite
<1>2. \E x \in T : \A y \in T : ~(<<y, x>> \in StrictSubsetOrdering(S))
  BY <1>1, WFMin
<1>. QED BY <1>2 DEF StrictSubsetOrdering

LEMMA LeastPlace ==
  ASSUME NEW m \in Nat, NEW S \in SUBSET (1 .. m), S # {}
  PROVE  \E i \in S : \A j \in S : i <= j
<1>. DEFINE U == 1 .. m
            T == {1 .. i : i \in S}
<1>1. IsFiniteSet(U)
  BY FS_Interval
<1>2. T \in SUBSET SUBSET U /\ T # {}
  <2>1. \A i \in 1 .. m : 1 .. i \subseteq 1 .. m
    OBVIOUS
  <2>. QED BY <2>1
<1>3. PICK x \in T : \A y \in T : ~(y \subseteq x /\ y # x)
  <2>. HIDE DEF T, U
  <2>. QED BY <1>1, <1>2, Minimal
<1>4. PICK i \in S : x = 1 .. i
  BY <1>3
<1>5. ASSUME NEW j \in S, j < i PROVE FALSE
  <2>1. 1 .. j \subseteq 1 .. i /\ i \in 1 .. i /\ i \notin 1 .. j
    BY <1>5
  <2>2. 1 .. j \in T
    OBVIOUS
  <2>. HIDE DEF T
  <2>. QED BY <1>3, <1>4, <2>1, <2>2
<1>6. \A j \in S : ~(j < i)
  BY <1>5
<1>. QED BY <1>6

LEMMA GreatestPlace ==
  ASSUME NEW m \in Nat, NEW S \in SUBSET (1 .. m), S # {}
  PROVE  \E i \in S : \A j \in S : j <= i
<1>. DEFINE U == 1 .. m
            T == {i .. m : i \in S}
<1>1. IsFiniteSet(U)
  BY FS_Interval
<1>2. T \in SUBSET SUBSET U /\ T # {}
  <2>1. \A i \in 1 .. m : i .. m \subseteq 1 .. m
    OBVIOUS
  <2>. QED BY <2>1
<1>3. PICK x \in T : \A y \in T : ~(y \subseteq x /\ y # x)
  <2>. HIDE DEF T, U
  <2>. QED BY <1>1, <1>2, Minimal
<1>4. PICK i \in S : x = i .. m
  BY <1>3
<1>5. ASSUME NEW j \in S, i < j PROVE FALSE
  <2>1. j .. m \subseteq i .. m /\ i \in i .. m /\ i \notin j .. m
    BY <1>5
  <2>2. j .. m \in T
    OBVIOUS
  <2>. HIDE DEF T
  <2>. QED BY <1>3, <1>4, <2>1, <2>2
<1>6. \A j \in S : ~(i < j) /\ j \in Nat /\ i \in Nat
  BY <1>5
<1>7. \A j \in S : j <= i
  BY ONLY <1>6
<1>. QED BY <1>7

LEMMA OfType ==
  ASSUME NEW n \in Nat \ {0}, NEW m \in Nat, NEW K
  PROVE  Of(n, m, K) \in SUBSET (1 .. m) /\ \A i \in Of(n, m, K) : i \in Nat /\ n <= i /\ i <= m /\ Event(i) \in K
BY DEF Of

LEMMA EndIs ==
  ASSUME NEW n \in Nat \ {0}, NEW m \in Nat
  PROVE  \/ End(n, m) = m /\ Of(n, m, {"module"}) = {}
         \/ /\ Of(n, m, {"module"}) # {}
            /\ End(n, m) \in n .. m /\ End(n, m) \in Nat /\ Event(End(n, m)) = "module"
<1>. DEFINE S == Of(n, m, {"module"})
<1>1. CASE S = {}
  BY <1>1 DEF End
<1>2. CASE S # {}
  <2>1. \E i \in S : \A j \in S : i <= j
    BY <1>2, OfType, LeastPlace
  <2>2. End(n, m) \in S
    <3>1. End(n, m) = CHOOSE i \in S : \A j \in S : i <= j
      BY <1>2 DEF End
    <3>. HIDE DEF S
    <3>. QED BY <2>1, <3>1
  <2>. QED BY <1>2, <2>2 DEF Of
<1>. QED BY <1>1, <1>2

-----------------------------------------------------------------------------
(* What the events say.                                                    *)

LEMMA HistoryType ==
  ASSUME events \in Histories
  PROVE  events \in Seq(Kinds) /\ Len(events) \in Nat \ {0} /\ DOMAIN events = 1 .. Len(events)
<1>1. events \in Seq(Kinds) /\ events # <<>>
  BY ReceiptAssumption
<1>. QED BY <1>1

LEMMA EventIs ==
  ASSUME events \in Histories, NEW i \in Nat \ {0}
  PROVE  /\ Place(i, Len(events)) \in DOMAIN events
         /\ Event(i) = events[Place(i, Len(events))]
         /\ Event(i) \in Kinds
<1>1. Event(i) = events[Place(i, Len(events))]
  BY DEF Event, Place
<1>2. Place(i, Len(events)) \in DOMAIN events
  BY HistoryType, PlaceType
<1>. QED BY <1>1, <1>2, HistoryType

\* What is seen in a list has happened to the extrinsic ...
LEMMA SeenHappened ==
  ASSUME events \in Histories, NEW n \in Nat \ {0}, NEW m \in Nat, Of(n, m, Failures) # {}
  PROVE  Failed
<1>1. PICK i \in Of(n, m, Failures) : TRUE
  OBVIOUS
<1>2. i \in Nat \ {0} /\ Event(i) \in Failures
  BY <1>1 DEF Of
<1>. QED BY <1>2, EventIs DEF Failed

\* ... and what happened is seen in every copy, from the first on.
LEMMA HappenedSeen ==
  ASSUME events \in Histories, NEW c \in Nat \ {0}, NEW p \in DOMAIN events
  PROVE  p \in 1 .. c * Len(events) /\ Event(p) = events[p]
<1>1. Len(events) \in Nat \ {0} /\ p \in 1 .. Len(events)
  BY HistoryType
<1>2. Place(p, Len(events)) = p
  BY <1>1, FirstCopy
<1>3. Len(events) <= c * Len(events)
  BY <1>1
<1>4. c * Len(events) \in Nat
  BY <1>1
<1>. QED BY <1>1, <1>2, <1>3, <1>4, EventIs

\* The last event of some kinds in what is left of a list is the last of them in
\* every copy, so it is of the kind of the last of the extrinsic.
LEMMA LastOfAll ==
  ASSUME events \in Histories, NEW c \in Nat \ {0}, NEW n \in Nat \ {0}, NEW kind, NEW kinds,
         LastIs(n, c * Len(events), kind, kinds)
  PROVE  LastIs(1, Len(events), kind, kinds)
<1>. DEFINE L == Len(events)
            m == c * L
<1>1. L \in Nat \ {0} /\ m \in Nat /\ DOMAIN events = 1 .. L
  BY HistoryType
<1>2. PICK x \in Of(n, m, {kind}) : \A j \in Of(n, m, kinds) : j <= x
  BY DEF LastIs
<1>3. x \in 1 .. m /\ n <= x /\ Event(x) = kind
  BY <1>1, <1>2, OfType DEF Of
<1>. DEFINE q == Place(x, L)
<1>4. q \in 1 .. L /\ x <= (c - 1) * L + q
  <2>1. x \in Nat \ {0}
    BY <1>1, <1>3
  <2>. HIDE DEF L
  <2>. QED BY <1>1, <1>3, <2>1, PlaceType, NotBefore
<1>5. \A p \in 1 .. L : Event(p) = events[p]
  BY <1>1, FirstCopy, EventIs
<1>6. Event(q) = kind
  BY <1>1, <1>3, <1>4, <1>5, EventIs
<1>7. ASSUME NEW p \in 1 .. L, Event(p) \in kinds PROVE p <= q
  <2>. DEFINE y == (c - 1) * L + p
  <2>1. y \in 1 .. m /\ Place(y, L) = p
    BY <1>1, LastCopy
  <2>2. Event(y) \in kinds
    BY <1>1, <1>5, <1>7, <2>1, EventIs
  <2>3. n <= y => y <= x
    BY <1>2, <2>1, <2>2 DEF Of
  <2>4. (c - 1) * L \in Nat /\ x \in Nat /\ y \in Nat
    BY <1>1, <1>3, <2>1
  <2>. HIDE DEF q, L, m
  <2>. QED BY <1>3, <1>4, <2>3, <2>4
<1>8. q \in Of(1, L, {kind}) /\ \A p \in Of(1, L, kinds) : p <= q
  BY <1>4, <1>6, <1>7 DEF Of
<1>. HIDE DEF q
<1>. QED BY <1>8 DEF LastIs

\* What VerdictTrue demands of an extrinsic whose receipt says yes.
Succeeded ==
  /\ LastIs(1, Len(events), "success", Failures \cup {"success"})
  /\ Failed => LastIs(1, Len(events), "unknown", Failures)

-----------------------------------------------------------------------------
(* What a stretch of process_events leaves.                                *)

LEMMA StretchVerdict ==
  ASSUME events \in Histories,
         NEW r \in Readers, NEW l \in Readers, NEW n \in Nat \ {0}, NEW paid,
         NEW failed \in BOOLEAN, NEW amount \in Nat,
         copies'[l] \in Nat \ {0},
         failed => Failed,
         n = 1 \/ failed,
         success \in {"unset", "yes", "no"},
         success = "yes" => Succeeded,
         success = "no" => Failed,
         Stretch(r, l, n, paid, FALSE, failed, amount)
  PROVE  /\ error' \in BOOLEAN
         /\ error' => Failed
         /\ success' \in {"unset", "yes", "no"}
         /\ success' = "yes" => Succeeded
         /\ success' = "no" => Failed
<1>. DEFINE m == copies'[l] * Len(events)
            e == End(n, m)
            good == IF Of(n, e, Failures \cup {"success"}) = {} THEN FALSE
                    ELSE LastIs(n, e, "success", Failures \cup {"success"})
            bad == IF Of(n, e, {"system", "unknown"}) = {} THEN failed
                   ELSE LastIs(n, e, "system", {"system", "unknown"})
            ended == Of(n, m, {"module"}) = {}
<1>1. Len(events) \in Nat \ {0} /\ m \in Nat /\ DOMAIN events = 1 .. Len(events)
  BY HistoryType
<1>2. /\ error' = bad
      /\ success' = Verdict(ended, good, bad, Of(n, e, Failures) # {})
  BY DEF Stretch
<1>3. e \in Nat
  BY <1>1, EndIs
<1>4. bad \in BOOLEAN
  BY DEF LastIs
<1>5. bad => Failed
  <2>1. CASE Of(n, e, {"system", "unknown"}) = {}
    BY <2>1
  <2>2. CASE Of(n, e, {"system", "unknown"}) # {}
    <3>1. Of(n, e, Failures) # {}
      BY <2>2 DEF Of, Failures
    <3>. QED BY <1>3, <3>1, SeenHappened
  <2>. QED BY <2>1, <2>2
<1>6. Of(n, e, Failures) # {} => Failed
  BY <1>3, SeenHappened
<1>7. ASSUME ended, good, ~bad PROVE Succeeded
  <2>1. e = m
    BY <1>1, <1>7, EndIs
  <2>2. LastIs(1, Len(events), "success", Failures \cup {"success"})
    <3>1. LastIs(n, m, "success", Failures \cup {"success"})
      BY <1>7, <2>1
    <3>. QED BY <3>1, LastOfAll
  <2>3. ASSUME Failed PROVE LastIs(1, Len(events), "unknown", Failures)
    <3>. DEFINE S == Of(n, m, {"system", "unknown"})
    <3>1. S = Of(n, m, Failures)
      BY <1>7 DEF Of, Failures
    <3>2. S # {}
      <4>1. CASE n = 1
        <5>1. PICK p \in DOMAIN events : events[p] \in Failures
          BY <2>3 DEF Failed
        <5>2. p \in 1 .. m /\ Event(p) = events[p]
          BY HappenedSeen
        <5>. QED BY <3>1, <4>1, <5>1, <5>2 DEF Of
      <4>2. CASE failed
        BY <1>7, <2>1, <4>2
      <4>. QED BY <4>1, <4>2
    <3>3. ~LastIs(n, m, "system", {"system", "unknown"})
      BY <1>7, <2>1, <3>2
    <3>4. PICK i \in S : \A j \in S : j <= i
      <4>1. S \in SUBSET (1 .. m)
        BY <1>1, OfType
      <4>. HIDE DEF S
      <4>. QED BY <1>1, <3>2, <4>1, GreatestPlace
    <3>5. i \in Of(n, m, {"unknown"})
      BY <3>3, <3>4 DEF Of, LastIs
    <3>6. LastIs(n, m, "unknown", Failures)
      BY <3>1, <3>4, <3>5 DEF LastIs
    <3>. QED BY <3>6, LastOfAll
  <2>. QED BY <2>2, <2>3 DEF Succeeded
<1>. HIDE DEF m, e, good, bad, ended
<1>. QED BY <1>2, <1>4, <1>5, <1>6, <1>7 DEF Verdict

-----------------------------------------------------------------------------
(* Types, and the list each run reads.                                     *)

\* Readers that will put the events in a list.
Asking == {r \in Readers : at[r] \in {"block", "events"}}

\* A list is filled at most once by each reader: those that come when it has been
\* made do not ask for the events again.
ListInv ==
  /\ listed = Nobody => \A r \in Readers : copies[r] = 0 /\ at[r] \notin {"events", "runtime"}
  /\ \A l \in Readers : copies[l] + Cardinality(Asking) <= Cardinality(Readers)

\* Whoever waits for the name of an error has seen no success after it.
RunInv ==
  \A r \in Readers : at[r] = "runtime" =>
    /\ work[r].list \in Readers /\ copies[work[r].list] # 0
    /\ work[r].next # 0 /\ ~work[r].possible

BaseInv == events \in Histories /\ TypeOK /\ ListInv /\ RunInv

LEMMA AskingIs == IsFiniteSet(Asking) /\ Cardinality(Asking) \in Nat /\ Cardinality(Asking) <= Cardinality(Readers)
<1>1. IsFiniteSet(Readers) /\ Asking \in SUBSET Readers
  BY ReceiptAssumption DEF Asking
<1>. QED BY <1>1, FS_Subset, FS_CardinalityType

LEMMA ReadersCount == Cardinality(Readers) \in Nat
BY ReceiptAssumption, FS_CardinalityType

LEMMA AskingLess ==
  ASSUME NEW r \in Readers, NEW p \in {"idle", "begin", "runtime"},
         at \in [Readers -> {"idle", "begin", "block", "events", "runtime"}],
         at' = [at EXCEPT ![r] = p]
  PROVE  /\ Cardinality(Asking') \in Nat /\ Cardinality(Asking') <= Cardinality(Asking)
         /\ r \in Asking => Cardinality(Asking') = Cardinality(Asking) - 1
<1>1. Asking' = Asking \ {r}
  BY DEF Asking
<1>2. IsFiniteSet(Asking) /\ Cardinality(Asking) \in Nat
  BY AskingIs
<1>. DEFINE S == Asking
<1>3. IsFiniteSet(S \ {r}) /\ Cardinality(S \ {r}) = IF r \in S THEN Cardinality(S) - 1 ELSE Cardinality(S)
  BY <1>2, FS_RemoveElement
<1>4. Cardinality(S \ {r}) \in Nat
  BY <1>3, FS_CardinalityType
<1>. QED BY <1>1, <1>2, <1>3, <1>4

LEMMA InitBase == Init => BaseInv
<1>. SUFFICES ASSUME Init PROVE BaseInv
  OBVIOUS
<1>1. TypeOK
  <2>1. copies \in [Readers -> 0 .. Cardinality(Readers)]
    BY ReadersCount DEF Init
  <2>2. work \in [Readers -> [list : Readers \cup {Nobody}, next : Nat, paid : BOOLEAN, possible : BOOLEAN]]
    BY DEF Init, NoWork
  <2>3. answer \in [Readers -> [value : {"none", "yes", "no", "error", "fee", "raised"}, fee : Nat]]
    BY DEF Init, NoAnswer
  <2>. QED BY <2>1, <2>2, <2>3 DEF Init, TypeOK, Attributes
<1>2. ListInv
  BY AskingIs DEF Init, ListInv
<1>3. RunInv
  BY DEF Init, RunInv
<1>. QED BY <1>1, <1>2, <1>3 DEF Init, BaseInv

\* What the end of a run does to the reader.
LEMMA DoneType ==
  ASSUME NEW r \in Readers, TypeOK, fee' \in Nat, error' \in BOOLEAN, success' \in {"unset", "yes", "no"}, Done(r)
  PROVE  /\ \E p \in {"idle", "begin"} : at' = [at EXCEPT ![r] = p]
         /\ pass' \in [Readers -> {1, 2}]
         /\ answer' \in [Readers -> [value : {"none", "yes", "no", "error", "fee", "raised"}, fee : Nat]]
<1>1. CASE pass[r] = 1 /\ success' # "yes"
  BY <1>1 DEF Done, Goto, TypeOK
<1>2. CASE ~(pass[r] = 1 /\ success' # "yes")
  <2>1. asked[r] \in Attributes
    BY DEF TypeOK
  <2>2. Value(asked[r], success', error') \in {"none", "yes", "no", "error", "fee"}
    BY <2>1 DEF Value, Attributes
  <2>3. /\ at' = [at EXCEPT ![r] = "idle"] /\ UNCHANGED pass
        /\ answer' = [answer EXCEPT ![r] = [value |-> Value(asked[r], success', error'), fee |-> fee']]
    BY <1>2 DEF Done, Goto, Reply
  <2>. QED BY <2>2, <2>3 DEF TypeOK
<1>. QED BY <1>1, <1>2

\* What a stretch that read list l leaves.
Leaves(r, l, paid) ==
  /\ error' \in BOOLEAN /\ priced' \in BOOLEAN /\ fee' \in Nat
  /\ success' \in {"unset", "yes", "no"}
  /\ pass' \in [Readers -> {1, 2}]
  /\ answer' \in [Readers -> [value : {"none", "yes", "no", "error", "fee", "raised"}, fee : Nat]]
  /\ \/ /\ \E p \in {"idle", "begin"} : at' = [at EXCEPT ![r] = p]
        /\ work' = [work EXCEPT ![r] = NoWork]
     \/ /\ at' = [at EXCEPT ![r] = "runtime"] /\ success' # "unset"
        /\ \E k \in Nat \ {0} :
             work' = [work EXCEPT ![r] = [list |-> l, next |-> k, paid |-> paid, possible |-> FALSE]]

LEMMA StretchType ==
  ASSUME events \in Histories, TypeOK,
         NEW r \in Readers, NEW l \in Readers, NEW n \in Nat \ {0}, NEW paid \in BOOLEAN,
         NEW failed \in BOOLEAN, NEW amount \in Nat,
         copies'[l] \in Nat \ {0},
         Stretch(r, l, n, paid, FALSE, failed, amount)
  PROVE  Leaves(r, l, paid)
<1>. DEFINE m == copies'[l] * Len(events)
            e == End(n, m)
            good == IF Of(n, e, Failures \cup {"success"}) = {} THEN FALSE
                    ELSE LastIs(n, e, "success", Failures \cup {"success"})
            bad == IF Of(n, e, {"system", "unknown"}) = {} THEN failed
                   ELSE LastIs(n, e, "system", {"system", "unknown"})
            ended == Of(n, m, {"module"}) = {}
            deposits == Of(n, e, {"deposit"})
<1>1. Len(events) \in Nat \ {0} /\ m \in Nat
  BY HistoryType
<1>2. e \in Nat
  BY <1>1, EndIs
<1>3. bad \in BOOLEAN /\ good \in BOOLEAN
  BY DEF LastIs
<1>4. Cardinality(deposits) \in Nat
  <2>1. IsFiniteSet(1 .. e)
    BY <1>2, FS_Interval
  <2>2. deposits \in SUBSET (1 .. e)
    BY <1>2, OfType
  <2>. HIDE DEF e, deposits
  <2>. QED BY <2>1, <2>2, FS_Subset, FS_CardinalityType
<1>5. /\ fee' = amount + (IF paid THEN 0 ELSE Cardinality(deposits))
      /\ priced' = TRUE /\ error' = bad
      /\ success' = Verdict(ended, good, bad, Of(n, e, Failures) # {})
      /\ work' = [work EXCEPT ![r] = IF ended THEN NoWork
                                     ELSE [list |-> l, next |-> e + 1, paid |-> paid, possible |-> good]]
      /\ IF ended THEN Done(r) ELSE at' = [at EXCEPT ![r] = "runtime"] /\ UNCHANGED <<pass, answer>>
  BY DEF Stretch, Goto
<1>6. ASSUME ~ended PROVE ~good /\ Of(n, e, Failures) # {}
  <2>1. e \in n .. m /\ e \in Nat /\ Event(e) = "module"
    BY <1>1, <1>6, EndIs
  <2>. HIDE DEF e
  <2>2. e \in Of(n, e, Failures) /\ e \in Of(n, e, Failures \cup {"success"})
    BY <2>1 DEF Of, Failures
  <2>3. ASSUME LastIs(n, e, "success", Failures \cup {"success"}) PROVE FALSE
    <3>1. PICK i \in Of(n, e, {"success"}) : e <= i
      BY <2>2, <2>3 DEF LastIs
    <3>2. i \in Nat /\ i <= e /\ Event(i) = "success"
      BY <2>1 DEF Of
    <3>. QED BY <2>1, <3>1, <3>2
  <2>. QED BY <2>2, <2>3
<1>7. success \in {"unset", "yes", "no"}
  BY DEF TypeOK
<1>. HIDE DEF m, e, good, bad, ended, deposits
<1>8. error' \in BOOLEAN /\ priced' \in BOOLEAN /\ fee' \in Nat /\ success' \in {"unset", "yes", "no"}
  BY <1>3, <1>4, <1>5, <1>7 DEF Verdict
<1>9. CASE ended
  BY <1>5, <1>8, <1>9, DoneType DEF Leaves
<1>10. CASE ~ended
  <2>1. success' # "unset"
    BY <1>5, <1>6, <1>10 DEF Verdict
  <2>2. e + 1 \in Nat \ {0}
    BY <1>2
  <2>3. good = FALSE
    BY <1>3, <1>6, <1>10
  <2>4. UNCHANGED <<pass, answer>>
    BY <1>5, <1>10
  <2>5. work' = [work EXCEPT ![r] = [list |-> l, next |-> e + 1, paid |-> paid, possible |-> FALSE]]
    BY <1>5, <1>10, <2>3
  <2>6. at' = [at EXCEPT ![r] = "runtime"]
    BY <1>5, <1>10
  <2>7. pass' \in [Readers -> {1, 2}] /\ answer' \in [Readers -> [value : {"none", "yes", "no", "error", "fee", "raised"}, fee : Nat]]
    BY <2>4 DEF TypeOK
  <2>. QED BY <1>8, <2>1, <2>2, <2>5, <2>6, <2>7 DEF Leaves
<1>. QED BY <1>9, <1>10

\* A stretch keeps the types, whichever list it reads and however often that is filled.
LEMMA StretchBase ==
  ASSUME BaseInv, NEW r \in Readers, NEW l \in Readers, NEW n \in Nat \ {0}, NEW paid \in BOOLEAN,
         NEW failed \in BOOLEAN, NEW amount \in Nat,
         listed # Nobody, copies' \in [Readers -> Nat], copies'[l] # 0,
         \A k \in Readers : copies'[k] >= copies[k] /\ copies'[k] + Cardinality(Asking') <= Cardinality(Readers),
         UNCHANGED <<events, located, listed, asked, clean>>,
         Stretch(r, l, n, paid, FALSE, failed, amount)
  PROVE  BaseInv'
<1>. USE DEF BaseInv
<1>0. copies'[l] \in Nat \ {0} /\ events \in Histories /\ TypeOK
  OBVIOUS
<1>1. /\ error' \in BOOLEAN /\ priced' \in BOOLEAN /\ fee' \in Nat
      /\ success' \in {"unset", "yes", "no"}
      /\ pass' \in [Readers -> {1, 2}]
      /\ answer' \in [Readers -> [value : {"none", "yes", "no", "error", "fee", "raised"}, fee : Nat]]
      /\ \/ /\ \E p \in {"idle", "begin"} : at' = [at EXCEPT ![r] = p]
            /\ work' = [work EXCEPT ![r] = NoWork]
         \/ /\ at' = [at EXCEPT ![r] = "runtime"] /\ success' # "unset"
            /\ \E k \in Nat \ {0} :
                 work' = [work EXCEPT ![r] = [list |-> l, next |-> k, paid |-> paid, possible |-> FALSE]]
  <2>1. Leaves(r, l, paid)
    BY <1>0, StretchType
  <2>. QED BY <2>1 DEF Leaves
<1>2. Asking' \in SUBSET Readers /\ Cardinality(Asking') \in Nat
  <2>1. \E p \in {"idle", "begin", "runtime"} : at' = [at EXCEPT ![r] = p]
    BY <1>1
  <2>. QED BY <2>1, AskingLess DEF TypeOK, Asking
<1>3. copies' \in [Readers -> 0 .. Cardinality(Readers)]
  BY <1>2, ReadersCount
<1>4. at' \in [Readers -> {"idle", "begin", "block", "events", "runtime"}]
  BY <1>1 DEF TypeOK
<1>5. work' \in [Readers -> [list : Readers \cup {Nobody}, next : Nat, paid : BOOLEAN, possible : BOOLEAN]]
  <2>1. work \in [Readers -> [list : Readers \cup {Nobody}, next : Nat, paid : BOOLEAN, possible : BOOLEAN]]
    BY DEF TypeOK
  <2>2. NoWork \in [list : Readers \cup {Nobody}, next : Nat, paid : BOOLEAN, possible : BOOLEAN]
    BY DEF NoWork
  <2>3. \A k \in Nat \ {0} : [list |-> l, next |-> k, paid |-> paid, possible |-> FALSE]
                             \in [list : Readers \cup {Nobody}, next : Nat, paid : BOOLEAN, possible : BOOLEAN]
    OBVIOUS
  <2>4. \E w \in [list : Readers \cup {Nobody}, next : Nat, paid : BOOLEAN, possible : BOOLEAN] :
           work' = [work EXCEPT ![r] = w]
    BY <1>1, <2>2, <2>3
  <2>. QED BY <2>1, <2>4
<1>6. TypeOK'
  BY <1>1, <1>3, <1>4, <1>5 DEF TypeOK
<1>7. ListInv'
  BY DEF ListInv
<1>8. RunInv'
  <2>1. ASSUME NEW q \in Readers \ {r}, at'[q] = "runtime"
        PROVE  work'[q] = work[q] /\ at[q] = "runtime"
    BY <1>1, <2>1 DEF TypeOK
  <2>2. ASSUME at'[r] = "runtime"
        PROVE  \E k \in Nat \ {0} : work'[r] = [list |-> l, next |-> k, paid |-> paid, possible |-> FALSE]
    BY <1>1, <2>2 DEF TypeOK
  <2>3. \A k \in Readers : copies[k] \in Nat /\ copies'[k] \in Nat
    BY ReadersCount DEF TypeOK
  <2>4. ASSUME NEW q \in Readers, at'[q] = "runtime"
        PROVE  /\ work'[q].list \in Readers /\ copies'[work'[q].list] # 0
               /\ work'[q].next # 0 /\ ~work'[q].possible
    <3>1. CASE q = r
      <4>1. PICK k \in Nat \ {0} : work'[r] = [list |-> l, next |-> k, paid |-> paid, possible |-> FALSE]
        BY <2>2, <2>4, <3>1
      <4>2. work'[r].list = l /\ work'[r].next = k /\ work'[r].possible = FALSE
        BY <4>1
      <4>. QED BY <3>1, <4>2
    <3>2. CASE q # r
      <4>1. /\ work[q].list \in Readers /\ copies[work[q].list] # 0
            /\ work[q].next # 0 /\ ~work[q].possible /\ work'[q] = work[q]
        BY <2>1, <2>4, <3>2 DEF RunInv
      <4>. QED BY <2>3, <4>1
    <3>. QED BY <3>1, <3>2
  <2>. QED BY <2>4 DEF RunInv
<1>. QED BY <1>6, <1>7, <1>8

LEMMA ProcessIs ==
  ASSUME NEW r \in Readers, Process(r)
  PROVE  \E n \in Nat \ {0}, paid \in BOOLEAN, amount \in Nat :
            /\ n = 1 /\ (paid <=> "feepaid" \in ToSet(events)) /\ amount = (IF paid THEN 1 ELSE 0)
            /\ Stretch(r, listed, n, paid, FALSE, error, amount)
<1>. DEFINE p == "feepaid" \in ToSet(events)
<1>1. Stretch(r, listed, 1, p, FALSE, error, IF p THEN 1 ELSE 0)
  BY DEF Process
<1>2. p \in BOOLEAN /\ (IF p THEN 1 ELSE 0) \in Nat /\ 1 \in Nat \ {0} /\ (p <=> "feepaid" \in ToSet(events))
  OBVIOUS
<1>. HIDE DEF p
<1>. QED BY <1>1, <1>2

LEMMA ListedBase ==
  ASSUME BaseInv, NEW r \in Readers, Listed(r)
  PROVE  BaseInv'
<1>. USE DEF BaseInv
<1>1. listed \in Readers /\ error \in BOOLEAN
  BY DEF Listed, TypeOK
<1>2. CASE copies[listed] = 0
  <2>1. /\ UNCHANGED <<events, located, listed, asked, clean, copies, success, error, fee, priced, work>>
        /\ Done(r) /\ listed # Nobody
    BY <1>2 DEF Listed
  <2>2. /\ \E p \in {"idle", "begin"} : at' = [at EXCEPT ![r] = p]
        /\ pass' \in [Readers -> {1, 2}]
        /\ answer' \in [Readers -> [value : {"none", "yes", "no", "error", "fee", "raised"}, fee : Nat]]
    BY <2>1, DoneType DEF TypeOK
  <2>3. TypeOK'
    BY <2>1, <2>2 DEF TypeOK
  <2>4. Cardinality(Asking') \in Nat /\ Cardinality(Asking') <= Cardinality(Asking)
    BY <2>2, AskingLess DEF TypeOK
  <2>5. ListInv'
    BY <2>1, <2>4, AskingIs, ReadersCount DEF ListInv, TypeOK
  <2>6. RunInv'
    BY <2>1, <2>2 DEF RunInv, TypeOK
  <2>. QED BY <2>1, <2>3, <2>5, <2>6
<1>3. CASE copies[listed] # 0
  <2>1. Process(r) /\ UNCHANGED <<events, located, listed, asked, clean, copies>> /\ listed # Nobody
    BY <1>3 DEF Listed
  <2>2. PICK n \in Nat \ {0}, paid \in BOOLEAN, amount \in Nat :
             n = 1 /\ Stretch(r, listed, n, paid, FALSE, error, amount)
    BY <2>1, ProcessIs
  <2>3. copies' \in [Readers -> Nat] /\ copies'[listed] # 0
    BY <1>3, <2>1, ReadersCount DEF TypeOK
  <2>4. \E p \in {"idle", "begin", "runtime"} : at' = [at EXCEPT ![r] = p]
    <3>1. copies'[listed] \in Nat \ {0}
      BY <1>1, <2>3
    <3>2. Leaves(r, listed, paid)
      BY <1>1, <2>2, <3>1, StretchType
    <3>. QED BY <3>2 DEF Leaves
  <2>5. Cardinality(Asking') \in Nat /\ Cardinality(Asking') <= Cardinality(Asking)
    BY <2>4, AskingLess DEF TypeOK
  <2>6. \A k \in Readers : copies'[k] >= copies[k] /\ copies'[k] + Cardinality(Asking') <= Cardinality(Readers)
    BY <2>1, <2>3, <2>5, AskingIs, ReadersCount DEF ListInv
  <2>. HIDE DEF BaseInv
  <2>. QED BY <1>1, <2>1, <2>2, <2>3, <2>6, StretchBase
<1>. QED BY <1>2, <1>3

LEMMA FetchedBase ==
  ASSUME BaseInv, NEW r \in Readers, Fetched(r)
  PROVE  BaseInv'
<1>. USE DEF BaseInv
<1>1. listed \in Readers /\ listed # Nobody /\ error \in BOOLEAN /\ at[r] = "events" /\ r \in Asking
  BY DEF Fetched, TypeOK, ListInv, Asking
<1>2. Process(r) /\ UNCHANGED <<events, located, listed, asked, clean>> /\ copies' = [copies EXCEPT ![listed] = @ + 1]
  BY DEF Fetched
<1>3. PICK n \in Nat \ {0}, paid \in BOOLEAN, amount \in Nat :
             n = 1 /\ Stretch(r, listed, n, paid, FALSE, error, amount)
  BY <1>2, ProcessIs
<1>4. \A k \in Readers : copies[k] \in Nat /\ copies'[k] \in Nat /\ copies'[k] >= copies[k] /\ copies'[k] <= copies[k] + 1
  BY <1>2, ReadersCount DEF TypeOK
<1>5. copies' \in [Readers -> Nat] /\ copies'[listed] # 0
  BY <1>1, <1>2, <1>4, ReadersCount DEF TypeOK
<1>6. \E p \in {"idle", "begin", "runtime"} : at' = [at EXCEPT ![r] = p]
  <2>1. copies'[listed] \in Nat \ {0}
    BY <1>1, <1>5
  <2>2. Leaves(r, listed, paid)
    BY <1>1, <1>3, <2>1, StretchType
  <2>. QED BY <2>2 DEF Leaves
<1>7. Cardinality(Asking') = Cardinality(Asking) - 1
  BY <1>1, <1>6, AskingLess DEF TypeOK
<1>8. \A k \in Readers : copies'[k] >= copies[k] /\ copies'[k] + Cardinality(Asking') <= Cardinality(Readers)
  BY <1>4, <1>7, AskingIs, ReadersCount DEF ListInv
<1>9. UNCHANGED <<events, located, listed, asked, clean>>
  BY <1>2
<1>10. Stretch(r, listed, n, paid, FALSE, error, amount)
  BY <1>3
<1>. HIDE DEF BaseInv
<1>. QED BY <1>1, <1>5, <1>8, <1>9, <1>10, StretchBase

LEMMA ResolvedBase ==
  ASSUME BaseInv, NEW r \in Readers, Resolved(r)
  PROVE  BaseInv'
<1>. USE DEF BaseInv
<1>. DEFINE l == work[r].list
            n == work[r].next
            paid == work[r].paid
<1>1. at[r] = "runtime" /\ UNCHANGED <<events, located, listed, asked, clean, copies>>
  BY DEF Resolved
<1>2. listed # Nobody /\ l \in Readers /\ n \in Nat \ {0} /\ paid \in BOOLEAN /\ ~work[r].possible /\ copies[l] # 0 /\ fee \in Nat
  BY <1>1 DEF ListInv, RunInv, TypeOK
<1>3. Stretch(r, l, n, paid, FALSE, TRUE, fee)
  <2>1. work[r].possible = FALSE
    BY <1>2 DEF TypeOK
  <2>. QED BY <2>1 DEF Resolved
<1>4. copies' \in [Readers -> Nat] /\ copies'[l] # 0
  BY <1>1, <1>2, ReadersCount DEF TypeOK
<1>. HIDE DEF l, n, paid
<1>5. \E p \in {"idle", "begin", "runtime"} : at' = [at EXCEPT ![r] = p]
  <2>1. copies'[l] \in Nat \ {0}
    BY <1>2, <1>4
  <2>2. Leaves(r, l, paid)
    BY <1>2, <1>3, <2>1, StretchType
  <2>. QED BY <2>2 DEF Leaves
<1>6. Cardinality(Asking') \in Nat /\ Cardinality(Asking') <= Cardinality(Asking)
  BY <1>5, AskingLess DEF TypeOK
<1>7. \A k \in Readers : copies'[k] >= copies[k] /\ copies'[k] + Cardinality(Asking') <= Cardinality(Readers)
  BY <1>1, <1>4, <1>6, AskingIs, ReadersCount DEF ListInv
<1>. HIDE DEF BaseInv
<1>. QED BY <1>1, <1>2, <1>3, <1>4, <1>7, StretchBase

LEMMA AskBase ==
  ASSUME BaseInv, NEW r \in Readers, NEW a \in Attributes, Ask(r, a)
  PROVE  BaseInv'
<1>. USE DEF BaseInv
<1>1. /\ asked' = [asked EXCEPT ![r] = a] /\ at[r] = "idle"
      /\ pass' = [pass EXCEPT ![r] = IF a = "error_message" /\ success = "unset" THEN 1 ELSE 2]
      /\ clean' = (clean /\ \A q \in Readers : at[q] = "idle")
      /\ \E p \in {"idle", "begin"} : at' = [at EXCEPT ![r] = p]
      /\ \E v \in {"none", "yes", "no", "error", "fee"}, n \in Nat :
           answer' = [answer EXCEPT ![r] = [value |-> v, fee |-> n]]
      /\ UNCHANGED <<events, receiptVars, work>>
  <2>1. Value(a, success, error) \in {"none", "yes", "no", "error", "fee"} /\ fee \in Nat
    BY DEF Value, Attributes, TypeOK
  <2>2. CASE Cached(a)
    BY <2>1, <2>2 DEF Ask, Reply, TypeOK
  <2>3. CASE ~Cached(a)
    BY <2>3 DEF Ask, Reply, Goto
  <2>. QED BY <2>2, <2>3 DEF Ask
<1>2. TypeOK'
  <2>1. answer' \in [Readers -> [value : {"none", "yes", "no", "error", "fee", "raised"}, fee : Nat]]
    BY <1>1 DEF TypeOK
  <2>2. pass' \in [Readers -> {1, 2}] /\ asked' \in [Readers -> Attributes] /\ clean' \in BOOLEAN
    BY <1>1 DEF TypeOK
  <2>3. at' \in [Readers -> {"idle", "begin", "block", "events", "runtime"}]
    BY <1>1 DEF TypeOK
  <2>. QED BY <1>1, <2>1, <2>2, <2>3 DEF TypeOK, receiptVars
<1>3. Cardinality(Asking') \in Nat /\ Cardinality(Asking') <= Cardinality(Asking)
  BY <1>1, AskingLess DEF TypeOK
<1>4. ListInv'
  BY <1>1, <1>3, AskingIs, ReadersCount DEF ListInv, TypeOK, receiptVars
<1>5. RunInv'
  BY <1>1 DEF RunInv, TypeOK, receiptVars
<1>. QED BY <1>1, <1>2, <1>4, <1>5

LEMMA LocateBase ==
  ASSUME BaseInv, NEW r \in Readers, Locate(r) \/ Located(r)
  PROVE  BaseInv'
<1>. USE DEF BaseInv
<1>1. /\ UNCHANGED <<events, copies, success, error, fee, priced, asked, pass, work, answer, clean>>
      /\ located' \in BOOLEAN
      /\ \/ at' = [at EXCEPT ![r] = "events"] /\ listed' = r
         \/ at' = [at EXCEPT ![r] = "block"] /\ listed' = listed
  BY DEF Locate, Located, Lists, Goto, TypeOK
<1>2. TypeOK'
  BY <1>1 DEF TypeOK
<1>3. Asking' \in SUBSET Readers
  BY DEF Asking
<1>4. Cardinality(Asking') \in Nat /\ Cardinality(Asking') <= Cardinality(Readers)
  BY <1>3, ReceiptAssumption, FS_Subset, FS_CardinalityType
<1>5. \/ \A l \in Readers : copies[l] = 0
      \/ Asking' = Asking
  <2>1. CASE listed = Nobody
    BY <2>1 DEF ListInv
  <2>2. CASE listed # Nobody
    <3>1. at[r] = "block"
      BY <2>2 DEF Locate, Located
    <3>. QED BY <1>1, <3>1 DEF Asking, TypeOK
  <2>. QED BY <2>1, <2>2
<1>6. r # Nobody
  BY ReceiptAssumption
<1>7. ListInv'
  <2>1. \A l \in Readers : copies'[l] + Cardinality(Asking') <= Cardinality(Readers)
    BY <1>1, <1>4, <1>5, ReadersCount DEF ListInv
  <2>2. listed' = Nobody => \A q \in Readers : copies'[q] = 0 /\ at'[q] \notin {"events", "runtime"}
    BY <1>1, <1>6 DEF ListInv, TypeOK
  <2>. QED BY <2>1, <2>2 DEF ListInv
<1>8. RunInv'
  BY <1>1 DEF RunInv, TypeOK
<1>. QED BY <1>1, <1>2, <1>7, <1>8

LEMMA FailsBase ==
  ASSUME BaseInv, NEW r \in Readers, RequestFails(r)
  PROVE  BaseInv'
<1>. USE DEF BaseInv
<1>1. /\ at' = [at EXCEPT ![r] = "idle"] /\ clean' = FALSE
      /\ answer' = [answer EXCEPT ![r] = [value |-> "raised", fee |-> 0]]
      /\ UNCHANGED <<events, receiptVars, asked, pass, work>>
  BY DEF RequestFails, Goto, Reply
<1>2. TypeOK'
  BY <1>1 DEF TypeOK, receiptVars
<1>3. Cardinality(Asking') \in Nat /\ Cardinality(Asking') <= Cardinality(Asking)
  BY <1>1, AskingLess DEF TypeOK
<1>4. ListInv'
  BY <1>1, <1>3, AskingIs, ReadersCount DEF ListInv, TypeOK, receiptVars
<1>5. RunInv'
  BY <1>1 DEF RunInv, TypeOK, receiptVars
<1>. QED BY <1>1, <1>2, <1>4, <1>5

LEMMA NextBase ==
  ASSUME BaseInv, [Next]_vars
  PROVE  BaseInv'
<1>1. CASE UNCHANGED vars
  <2>1. UNCHANGED <<events, located, listed, copies, success, error, fee, priced, at, asked, pass, work, answer, clean>>
    BY <1>1 DEF vars, receiptVars
  <2>2. TypeOK'
    BY <2>1 DEF BaseInv, TypeOK
  <2>3. ListInv'
    BY <2>1 DEF BaseInv, ListInv, Asking
  <2>4. RunInv'
    BY <2>1 DEF BaseInv, RunInv
  <2>. QED BY <2>1, <2>2, <2>3, <2>4 DEF BaseInv
<1>2. CASE Next
  BY <1>2, AskBase, LocateBase, ListedBase, FetchedBase, ResolvedBase, FailsBase DEF Next
<1>. QED BY <1>1, <1>2

\* Every variable keeps the type of what it models: in particular no reader puts the
\* events in a list twice, however many wait for them.
THEOREM TypeCorrect == Spec => []TypeOK
<1>1. BaseInv /\ [Next]_vars => BaseInv'
  BY NextBase
<1>2. BaseInv => TypeOK
  BY DEF BaseInv
<1>. QED BY <1>1, <1>2, InitBase, PTL DEF Spec

-----------------------------------------------------------------------------
(* The verdict.                                                            *)

\* What is set is true, and whoever waits for the name of an error has seen one.
TruthInv ==
  /\ error => Failed
  /\ success = "yes" => Succeeded
  /\ success = "no" => Failed
  /\ \A r \in Readers : at[r] = "runtime" => Failed
  /\ VerdictTrue

LEMMA VerdictIs ==
  /\ VerdictTrue <=> \A r \in Readers : /\ answer[r].value = "yes" => Succeeded
                                        /\ answer[r].value = "no" => Failed
  /\ VerdictTrue' <=> \A r \in Readers : /\ answer'[r].value = "yes" => Succeeded'
                                         /\ answer'[r].value = "no" => Failed'
BY DEF VerdictTrue, Succeeded

LEMMA InitTruth == Init => TruthInv
BY DEF Init, TruthInv, VerdictTrue, NoAnswer

LEMMA AnswerIs ==
  ASSUME TypeOK, NEW r \in Readers, NEW v, NEW n
  PROVE  [answer EXCEPT ![r] = [value |-> v, fee |-> n]][r].value = v
BY DEF TypeOK

\* An answer that is a verdict is the one that has been set.
LEMMA ValueIs ==
  ASSUME NEW a \in Attributes, NEW ok \in {"unset", "yes", "no"}, NEW failed \in BOOLEAN
  PROVE  Value(a, ok, failed) \in {"yes", "no"} => Value(a, ok, failed) = ok
BY DEF Value, Attributes

\* What a stretch says and where it suspends.
Says(r, l, n) ==
  /\ \/ UNCHANGED answer
     \/ answer' = [answer EXCEPT ![r] = [value |-> Value(asked[r], success', error'), fee |-> fee']]
  /\ \/ \E p \in {"idle", "begin"} : at' = [at EXCEPT ![r] = p]
     \/ at' = [at EXCEPT ![r] = "runtime"] /\ Of(n, copies'[l] * Len(events), {"module"}) # {}

LEMMA StretchSays ==
  ASSUME NEW r \in Readers, NEW l \in Readers, NEW n \in Nat \ {0}, NEW paid \in BOOLEAN,
         NEW failed \in BOOLEAN, NEW amount \in Nat,
         Stretch(r, l, n, paid, FALSE, failed, amount)
  PROVE  Says(r, l, n)
<1>. DEFINE ended == Of(n, copies'[l] * Len(events), {"module"}) = {}
<1>1. IF ended THEN Done(r) ELSE Goto(r, "runtime") /\ UNCHANGED <<pass, answer>>
  BY DEF Stretch
<1>2. CASE ended
  BY <1>1, <1>2 DEF Says, Done, Goto, Reply
<1>3. CASE ~ended
  BY <1>1, <1>3 DEF Says, Goto
<1>. QED BY <1>2, <1>3

\* What a stretch sets.
Sets ==
  /\ error' \in BOOLEAN /\ (error' => Failed)
  /\ success' \in {"unset", "yes", "no"}
  /\ success' = "yes" => Succeeded
  /\ success' = "no" => Failed

LEMMA StretchTruth ==
  ASSUME BaseInv, TruthInv,
         NEW r \in Readers, NEW l \in Readers, NEW n \in Nat \ {0}, NEW paid \in BOOLEAN,
         NEW failed \in BOOLEAN, NEW amount \in Nat,
         copies'[l] \in Nat \ {0},
         failed => Failed, n = 1 \/ failed,
         UNCHANGED <<events, asked>>,
         Stretch(r, l, n, paid, FALSE, failed, amount)
  PROVE  TruthInv'
<1>1. TypeOK /\ events \in Histories /\ success \in {"unset", "yes", "no"}
      /\ (success = "yes" => Succeeded) /\ (success = "no" => Failed)
  BY DEF BaseInv, TypeOK, TruthInv
<1>2. Sets
  BY <1>1, StretchVerdict DEF Sets
<1>3. Says(r, l, n)
  BY StretchSays
<1>4. (Failed' <=> Failed) /\ (Succeeded' <=> Succeeded)
  BY DEF Failed, Succeeded, LastIs, Of, Event
<1>5. \A q \in Readers : at'[q] = "runtime" => Failed
  <2>1. ASSUME Of(n, copies'[l] * Len(events), {"module"}) # {} PROVE Failed
    <3>1. Of(n, copies'[l] * Len(events), Failures) # {}
      BY <2>1 DEF Of, Failures
    <3>2. copies'[l] * Len(events) \in Nat
      BY <1>1, HistoryType
    <3>. QED BY <1>1, <3>1, <3>2, SeenHappened
  <2>. QED BY <1>1, <1>3, <2>1 DEF Says, TypeOK, TruthInv
<1>6. VerdictTrue'
  <2>1. ASSUME NEW q \in Readers PROVE (answer'[q].value = "yes" => Succeeded) /\ (answer'[q].value = "no" => Failed)
    <3>1. CASE answer'[q] = answer[q]
      BY <3>1, VerdictIs DEF TruthInv
    <3>2. CASE q = r /\ answer' = [answer EXCEPT ![r] = [value |-> Value(asked[r], success', error'), fee |-> fee']]
      <4>1. answer'[q].value = Value(asked[r], success', error')
        BY <1>1, <3>2, AnswerIs
      <4>2. asked[r] \in Attributes
        BY <1>1 DEF TypeOK
      <4>3. answer'[q].value \in {"yes", "no"} => answer'[q].value = success'
        BY <1>2, <4>1, <4>2, ValueIs DEF Sets
      <4>. QED BY <1>2, <4>3 DEF Sets
    <3>. QED BY <1>1, <1>3, <3>1, <3>2 DEF Says, TypeOK
  <2>. QED BY <1>4, <2>1, VerdictIs
<1>. QED BY <1>2, <1>4, <1>5, <1>6 DEF TruthInv, Sets

LEMMA AskTruth ==
  ASSUME BaseInv, TruthInv, NEW r \in Readers, NEW a \in Attributes, Ask(r, a)
  PROVE  TruthInv'
<1>1. TypeOK
  BY DEF BaseInv
<1>2. /\ UNCHANGED <<events, error, success>>
      /\ \A q \in Readers : at'[q] = "runtime" => at[q] = "runtime"
      /\ \E v, n : /\ answer' = [answer EXCEPT ![r] = [value |-> v, fee |-> n]]
                   /\ v \in {"yes", "no"} => v = success
  <2>1. Value(a, success, error) \in {"yes", "no"} => Value(a, success, error) = success
    BY <1>1, ValueIs DEF TypeOK
  <2>2. CASE Cached(a)
    BY <2>1, <2>2 DEF Ask, Reply, receiptVars
  <2>3. CASE ~Cached(a)
    BY <1>1, <2>3 DEF Ask, Reply, Goto, TypeOK, receiptVars
  <2>. QED BY <2>2, <2>3
<1>3. (Failed' <=> Failed) /\ (Succeeded' <=> Succeeded)
  BY <1>2 DEF Failed, Succeeded, LastIs, Of, Event
<1>4. PICK v, n : answer' = [answer EXCEPT ![r] = [value |-> v, fee |-> n]] /\ (v \in {"yes", "no"} => v = success)
  BY <1>2
<1>5. VerdictTrue'
  <2>1. answer'[r].value = v /\ \A q \in Readers \ {r} : answer'[q] = answer[q]
    BY <1>1, <1>4 DEF TypeOK
  <2>. QED BY <1>3, <1>4, <2>1, VerdictIs DEF TruthInv
<1>. QED BY <1>2, <1>3, <1>5 DEF TruthInv

\* The steps that set and say nothing.
LEMMA QuietTruth ==
  ASSUME BaseInv, TruthInv, UNCHANGED <<events, error, success>>,
         \A q \in Readers : at'[q] = "runtime" => at[q] = "runtime",
         \A q \in Readers : answer'[q] = answer[q] \/ answer'[q].value = "raised"
  PROVE  TruthInv'
<1>1. (Failed' <=> Failed) /\ (Succeeded' <=> Succeeded)
  BY DEF Failed, Succeeded, LastIs, Of, Event
<1>2. VerdictTrue'
  BY <1>1, VerdictIs DEF TruthInv
<1>. QED BY <1>1, <1>2 DEF TruthInv

LEMMA NextTruth ==
  ASSUME BaseInv, TruthInv, [Next]_vars
  PROVE  TruthInv'
<1>0. TypeOK /\ events \in Histories
  BY DEF BaseInv
<1>1. ASSUME NEW r \in Readers, Listed(r) PROVE TruthInv'
  <2>1. listed \in Readers /\ error \in BOOLEAN
    BY <1>0, <1>1 DEF Listed, TypeOK
  <2>2. CASE copies[listed] = 0
    <3>1. UNCHANGED <<events, error, success, asked, fee>> /\ Done(r)
      BY <1>1, <2>2 DEF Listed
    <3>2. /\ \E p \in {"idle", "begin"} : at' = [at EXCEPT ![r] = p]
          /\ \/ UNCHANGED answer
             \/ answer' = [answer EXCEPT ![r] = [value |-> Value(asked[r], success', error'), fee |-> fee']]
      BY <3>1 DEF Done, Goto, Reply
    <3>3. (Failed' <=> Failed) /\ (Succeeded' <=> Succeeded)
      BY <3>1 DEF Failed, Succeeded, LastIs, Of, Event
    <3>4. VerdictTrue'
      <4>1. CASE UNCHANGED answer
        BY <3>3, <4>1, VerdictIs DEF TruthInv
      <4>2. CASE answer' = [answer EXCEPT ![r] = [value |-> Value(asked[r], success', error'), fee |-> fee']]
        <5>1. answer'[r].value = Value(asked[r], success, error) /\ \A q \in Readers \ {r} : answer'[q] = answer[q]
          BY <1>0, <3>1, <4>2 DEF TypeOK
        <5>2. answer'[r].value \in {"yes", "no"} => answer'[r].value = success
          BY <1>0, <5>1, ValueIs DEF TypeOK
        <5>. QED BY <3>3, <5>1, <5>2, VerdictIs DEF TruthInv
      <4>. QED BY <3>2, <4>1, <4>2
    <3>5. \A q \in Readers : at'[q] = "runtime" => at[q] = "runtime"
      BY <1>0, <3>2 DEF TypeOK
    <3>. QED BY <3>1, <3>3, <3>4, <3>5 DEF TruthInv
  <2>3. CASE copies[listed] # 0
    <3>1. Process(r) /\ UNCHANGED <<events, asked, copies>>
      BY <1>1, <2>3 DEF Listed
    <3>2. PICK n \in Nat \ {0}, paid \in BOOLEAN, amount \in Nat :
             n = 1 /\ Stretch(r, listed, n, paid, FALSE, error, amount)
      BY <3>1, ProcessIs
    <3>3. copies'[listed] \in Nat \ {0} /\ (error => Failed)
      BY <1>0, <2>1, <2>3, <3>1, ReadersCount DEF TypeOK, TruthInv
    <3>. QED BY <2>1, <3>1, <3>2, <3>3, StretchTruth
  <2>. QED BY <2>2, <2>3
<1>2. ASSUME NEW r \in Readers, Fetched(r) PROVE TruthInv'
  <2>1. listed \in Readers /\ error \in BOOLEAN
    BY <1>0, <1>2 DEF Fetched, TypeOK, BaseInv, ListInv
  <2>2. Process(r) /\ UNCHANGED <<events, asked>> /\ copies'[listed] = copies[listed] + 1
    BY <1>0, <1>2, <2>1 DEF Fetched, TypeOK
  <2>3. PICK n \in Nat \ {0}, paid \in BOOLEAN, amount \in Nat :
           n = 1 /\ Stretch(r, listed, n, paid, FALSE, error, amount)
    BY <2>2, ProcessIs
  <2>4. copies'[listed] \in Nat \ {0} /\ (error => Failed)
    BY <1>0, <2>1, <2>2, ReadersCount DEF TypeOK, TruthInv
  <2>. QED BY <2>1, <2>2, <2>3, <2>4, StretchTruth
<1>3. ASSUME NEW r \in Readers, Resolved(r) PROVE TruthInv'
  <2>. DEFINE l == work[r].list
              n == work[r].next
              paid == work[r].paid
  <2>1. at[r] = "runtime" /\ UNCHANGED <<events, asked, copies>>
    BY <1>3 DEF Resolved
  <2>2. l \in Readers /\ n \in Nat \ {0} /\ paid \in BOOLEAN /\ work[r].possible = FALSE /\ fee \in Nat /\ TRUE \in BOOLEAN
    BY <1>0, <2>1 DEF BaseInv, RunInv, TypeOK
  <2>3. copies'[l] \in Nat \ {0}
    BY <1>0, <2>1, <2>2, ReadersCount DEF BaseInv, RunInv, TypeOK
  <2>4. Stretch(r, l, n, paid, FALSE, TRUE, fee)
    BY <1>3, <2>2 DEF Resolved
  <2>5. Failed
    BY <2>1 DEF TruthInv
  <2>. HIDE DEF l, n, paid
  <2>. QED BY <2>1, <2>2, <2>3, <2>4, <2>5, StretchTruth
<1>4. ASSUME NEW r \in Readers, Locate(r) \/ Located(r) PROVE TruthInv'
  <2>1. UNCHANGED <<events, error, success, answer>> /\ \A q \in Readers : at'[q] = "runtime" => at[q] = "runtime"
    BY <1>0, <1>4 DEF Locate, Located, Lists, Goto, TypeOK
  <2>. QED BY <2>1, QuietTruth
<1>5. ASSUME NEW r \in Readers, RequestFails(r) PROVE TruthInv'
  <2>1. /\ UNCHANGED <<events, error, success>>
        /\ at' = [at EXCEPT ![r] = "idle"]
        /\ answer' = [answer EXCEPT ![r] = [value |-> "raised", fee |-> 0]]
    BY <1>5 DEF RequestFails, Goto, Reply, receiptVars
  <2>2. /\ \A q \in Readers : at'[q] = "runtime" => at[q] = "runtime"
        /\ \A q \in Readers : answer'[q] = answer[q] \/ answer'[q].value = "raised"
    BY <1>0, <2>1 DEF TypeOK
  <2>. QED BY <2>1, <2>2, QuietTruth
<1>6. CASE UNCHANGED vars
  <2>1. UNCHANGED <<events, error, success, at, answer>>
    BY <1>6 DEF vars, receiptVars
  <2>. QED BY <2>1, QuietTruth
<1>. QED BY <1>1, <1>2, <1>3, <1>4, <1>5, <1>6, AskTruth DEF Next

\* Whatever reads of a receipt overlap or fail, is_success says no only of an
\* extrinsic that failed, and yes only where success is the last outcome and the last
\* failure, if there is one, is an error that has no text.
THEOREM VerdictCorrect == Spec => []VerdictTrue
<1>. DEFINE Inv == BaseInv /\ TruthInv
<1>1. Init => Inv
  BY InitBase, InitTruth
<1>2. Inv /\ [Next]_vars => Inv'
  BY NextBase, NextTruth
<1>3. Inv => VerdictTrue
  BY DEF TruthInv
<1>. QED BY <1>1, <1>2, <1>3, PTL DEF Spec

-----------------------------------------------------------------------------
(* Reads that do not overlap.                                              *)

\* Every extrinsic has an outcome.
HasOutcome == \A h \in Histories : \E i \in DOMAIN h : h[i] \in Failures \cup {"success"}

Paid == "feepaid" \in ToSet(events)

\* The fee counted before the n-th event.
Counted(n) == IF Paid THEN 1 ELSE Cardinality({i \in DOMAIN events : i < n /\ events[i] = "deposit"})

\* A reader that suspended knows the verdict, and has counted what it has seen.
ReadInv ==
  clean =>
    /\ \A q, r \in Readers : at[q] # "idle" /\ at[r] # "idle" => q = r
    /\ \A r \in Readers : at[r] = "block" => listed = Nobody
    /\ \A r \in Readers : at[r] = "events" => listed = r /\ copies[r] = 0
    /\ listed # Nobody /\ (\A r \in Readers : at[r] # "events") => copies[listed] = 1
    /\ \A r \in Readers : at[r] = "runtime" =>
         /\ work[r].list = listed /\ work[r].next <= Len(events) + 1
         /\ (work[r].paid <=> Paid) /\ fee = Counted(work[r].next) /\ success # "unset"
    /\ priced /\ (\A r \in Readers : at[r] # "runtime") => fee = Amount
    /\ ReadTrue

LEMMA InitRead == Init => ReadInv
BY DEF Init, ReadInv, ReadTrue, NoAnswer

LEMMA CountedIs ==
  ASSUME events \in Histories
  PROVE  /\ Counted(1) = (IF Paid THEN 1 ELSE 0)
         /\ Counted(Len(events) + 1) = Amount
         /\ \A n \in Nat : Counted(n) \in Nat
<1>. DEFINE L == Len(events)
            D(n) == {i \in 1 .. L : i < n /\ events[i] = "deposit"}
<1>1. L \in Nat \ {0} /\ DOMAIN events = 1 .. L
  BY HistoryType
<1>2. D(1) = {}
  OBVIOUS
<1>3. D(L + 1) = {n \in DOMAIN events : events[n] = "deposit"}
  BY <1>1
<1>4. ASSUME NEW n \in Nat PROVE Cardinality(D(n)) \in Nat
  <2>1. IsFiniteSet(1 .. L) /\ D(n) \in SUBSET (1 .. L)
    BY <1>1, FS_Interval
  <2>. HIDE DEF D
  <2>. QED BY <2>1, FS_Subset, FS_CardinalityType
<1>5. \A n : Counted(n) = IF Paid THEN 1 ELSE Cardinality(D(n))
  BY <1>1 DEF Counted
<1>6. Amount = IF Paid THEN 1 ELSE Cardinality(D(L + 1))
  BY <1>3 DEF Amount, Paid
<1>7. Cardinality(D(1)) = 0
  BY <1>2, FS_EmptySet
<1>. HIDE DEF D
<1>. QED BY <1>4, <1>5, <1>6, <1>7

\* Counting goes on where it stopped.
LEMMA CountOn ==
  ASSUME events \in Histories, NEW n \in Nat \ {0}, NEW e \in Nat, n <= e + 1, e <= Len(events)
  PROVE  Counted(e + 1) = Counted(n) + (IF Paid THEN 0 ELSE Cardinality(Of(n, e, {"deposit"})))
<1>. DEFINE L == Len(events)
            D(k) == {i \in 1 .. L : i < k /\ events[i] = "deposit"}
            X == Of(n, e, {"deposit"})
<1>1. L \in Nat \ {0} /\ DOMAIN events = 1 .. L
  BY HistoryType
<1>2. ASSUME NEW i \in n .. e PROVE Event(i) = events[i] /\ i \in 1 .. L
  <2>1. i \in 1 .. L /\ i \in Nat \ {0}
    BY <1>1
  <2>2. Place(i, L) = i
    BY <1>1, <2>1, FirstCopy
  <2>. QED BY <2>1, <2>2, EventIs
<1>3. X = {i \in n .. e : events[i] = "deposit"}
  BY <1>2 DEF Of
<1>4. D(e + 1) = D(n) \cup X /\ D(n) \cap X = {}
  BY <1>1, <1>2, <1>3
<1>5. IsFiniteSet(D(n)) /\ IsFiniteSet(X)
  <2>1. IsFiniteSet(1 .. L)
    BY <1>1, FS_Interval
  <2>2. D(n) \in SUBSET (1 .. L)
    OBVIOUS
  <2>3. X \in SUBSET (1 .. L)
    BY <1>2, <1>3
  <2>. HIDE DEF D, X
  <2>. QED BY <2>1, <2>2, <2>3, FS_Subset
<1>6. \A k : Counted(k) = IF Paid THEN 1 ELSE Cardinality(D(k))
  BY <1>1 DEF Counted
<1>. HIDE DEF D, X
<1>7. Cardinality(D(e + 1)) = Cardinality(D(n)) + Cardinality(X)
  <2>1. Cardinality(D(n) \cap X) = 0
    BY <1>4, FS_EmptySet
  <2>2. Cardinality(D(n)) \in Nat /\ Cardinality(X) \in Nat
    BY <1>5, FS_CardinalityType
  <2>3. Cardinality(D(n) \cup X) = Cardinality(D(n)) + Cardinality(X) - Cardinality(D(n) \cap X)
    BY <1>5, FS_Union
  <2>4. Cardinality(D(e + 1)) = Cardinality(D(n) \cup X)
    BY <1>4
  <2>. QED BY <2>1, <2>2, <2>3, <2>4
<1>8. Cardinality(D(n)) \in Nat
  BY <1>5, FS_CardinalityType
<1>. QED BY <1>6, <1>7, <1>8 DEF X

\* What a stretch over a list with every event once leaves in the fee.
Counts(r, l) ==
  \/ fee' = Amount /\ \E p \in {"idle", "begin"} : at' = [at EXCEPT ![r] = p]
  \/ /\ at' = [at EXCEPT ![r] = "runtime"]
     /\ work'[r].list = l /\ work'[r].next <= Len(events) + 1 /\ (work'[r].paid <=> Paid)
     /\ fee' = Counted(work'[r].next)

LEMMA StretchAmount ==
  ASSUME events \in Histories, TypeOK,
         NEW r \in Readers, NEW l \in Readers, NEW n \in Nat \ {0}, NEW paid \in BOOLEAN,
         NEW failed \in BOOLEAN, NEW amount \in Nat,
         copies'[l] = 1, n <= Len(events) + 1, paid <=> Paid, amount = Counted(n),
         Stretch(r, l, n, paid, FALSE, failed, amount)
  PROVE  Counts(r, l)
<1>. DEFINE m == copies'[l] * Len(events)
            e == End(n, m)
            good == IF Of(n, e, Failures \cup {"success"}) = {} THEN FALSE
                    ELSE LastIs(n, e, "success", Failures \cup {"success"})
            ended == Of(n, m, {"module"}) = {}
<1>1. Len(events) \in Nat \ {0} /\ m = Len(events)
  <2>1. Len(events) \in Nat \ {0}
    BY HistoryType
  <2>2. \A k \in Nat : 1 * k = k
    OBVIOUS
  <2>. QED BY <2>1, <2>2
<1>2. /\ fee' = amount + (IF paid THEN 0 ELSE Cardinality(Of(n, e, {"deposit"})))
      /\ work' = [work EXCEPT ![r] = IF ended THEN NoWork
                                     ELSE [list |-> l, next |-> e + 1, paid |-> paid, possible |-> good]]
      /\ IF ended THEN Done(r) ELSE at' = [at EXCEPT ![r] = "runtime"]
  BY DEF Stretch, Goto
<1>3. e \in Nat /\ n <= e + 1 /\ e <= Len(events) /\ (ended => e = Len(events))
  BY <1>1, EndIs
<1>. HIDE DEF m, e, good, ended
<1>4. fee' = Counted(e + 1)
  BY <1>2, <1>3, CountOn
<1>5. CASE ended
  <2>1. fee' = Amount
    BY <1>3, <1>4, <1>5, CountedIs
  <2>. QED BY <1>2, <1>5, <2>1 DEF Counts, Done, Goto
<1>6. CASE ~ended
  <2>1. work'[r] = [list |-> l, next |-> e + 1, paid |-> paid, possible |-> good]
    BY <1>2, <1>6 DEF TypeOK
  <2>2. work'[r].list = l /\ work'[r].next = e + 1 /\ work'[r].paid = paid
    BY <2>1
  <2>. QED BY <1>2, <1>3, <1>4, <1>6, <2>2 DEF Counts
<1>. QED BY <1>5, <1>6

\* A run that reads every event sets the verdict.
LEMMA StretchOutcome ==
  ASSUME HasOutcome, events \in Histories,
         NEW r \in Readers, NEW l \in Readers, NEW n \in Nat \ {0}, NEW paid \in BOOLEAN,
         NEW failed \in BOOLEAN, NEW amount \in Nat,
         copies'[l] \in Nat \ {0}, failed => Failed, n = 1 \/ success # "unset",
         Stretch(r, l, n, paid, FALSE, failed, amount)
  PROVE  success' # "unset"
<1>. DEFINE m == copies'[l] * Len(events)
            e == End(n, m)
            All == Failures \cup {"success"}
            good == IF Of(n, e, All) = {} THEN FALSE ELSE LastIs(n, e, "success", All)
            bad == IF Of(n, e, {"system", "unknown"}) = {} THEN failed
                   ELSE LastIs(n, e, "system", {"system", "unknown"})
            ended == Of(n, m, {"module"}) = {}
<1>1. Len(events) \in Nat \ {0} /\ m \in Nat
  BY HistoryType
<1>2. success' = Verdict(ended, good, bad, Of(n, e, Failures) # {})
  BY DEF Stretch
<1>3. CASE Of(n, e, Failures) # {}
  BY <1>2, <1>3 DEF Verdict
<1>4. CASE Of(n, e, Failures) = {} /\ success # "unset"
  BY <1>2, <1>4 DEF Verdict
<1>5. CASE Of(n, e, Failures) = {} /\ n = 1
  <2>1. ended /\ e = m
    <3>1. CASE ended
      BY <1>1, <3>1, EndIs
    <3>2. CASE ~ended
      <4>1. e \in n .. m /\ e \in Nat /\ Event(e) = "module"
        BY <1>1, <3>2, EndIs
      <4>. HIDE DEF e
      <4>2. e \in Of(n, e, Failures)
        BY <4>1 DEF Of, Failures
      <4>. QED BY <1>5, <4>2
    <3>. QED BY <3>1, <3>2
  <2>2. ASSUME NEW i \in DOMAIN events PROVE i \in 1 .. m /\ Event(i) = events[i]
    BY HappenedSeen
  <2>3. ~Failed
    <3>1. ASSUME NEW i \in DOMAIN events, events[i] \in Failures PROVE FALSE
      <4>1. i \in Of(n, e, Failures)
        BY <1>5, <2>1, <2>2, <3>1 DEF Of
      <4>. QED BY <1>5, <4>1
    <3>. QED BY <3>1 DEF Failed
  <2>4. PICK i \in DOMAIN events : events[i] = "success"
    BY <2>3 DEF HasOutcome, Failed
  <2>5. Of(n, m, All) # {}
    BY <1>5, <2>2, <2>4 DEF Of
  <2>6. LastIs(n, m, "success", All)
    <3>. DEFINE S == Of(n, m, All)
    <3>1. S \in SUBSET (1 .. m)
      BY <1>1, OfType
    <3>. HIDE DEF S
    <3>2. PICK x \in S : \A j \in S : j <= x
      BY <1>1, <2>5, <3>1, GreatestPlace DEF S
    <3>3. x \in Of(n, m, {"success"})
      BY <1>5, <2>1 DEF S, Of
    <3>. QED BY <3>2, <3>3 DEF S, LastIs
  <2>7. Of(n, e, {"system", "unknown"}) = {}
    BY <1>5 DEF Of, Failures
  <2>8. good /\ ~bad
    BY <2>1, <2>3, <2>5, <2>6, <2>7
  <2>. HIDE DEF good, bad, ended, e, m
  <2>. QED BY <1>2, <2>1, <2>8 DEF Verdict
<1>. QED BY <1>3, <1>4, <1>5

\* A stretch of the only read there is.
LEMMA StretchRead ==
  ASSUME HasOutcome, BaseInv, TruthInv, ReadInv,
         NEW r \in Readers, NEW n \in Nat \ {0}, NEW paid \in BOOLEAN,
         NEW failed \in BOOLEAN, NEW amount \in Nat,
         listed \in Readers, at[r] # "idle",
         failed => Failed, n = 1 \/ success # "unset",
         clean => copies'[listed] = 1 /\ n <= Len(events) + 1 /\ (paid <=> Paid) /\ amount = Counted(n),
         copies'[listed] \in Nat \ {0},
         UNCHANGED <<events, listed, asked, clean>>,
         Stretch(r, listed, n, paid, FALSE, failed, amount)
  PROVE  ReadInv'
<1>0. TypeOK /\ events \in Histories
  BY DEF BaseInv
<1>1. SUFFICES ASSUME clean PROVE ReadInv'
  BY DEF ReadInv
<1>2. \A q \in Readers \ {r} : at[q] = "idle"
  BY <1>1 DEF ReadInv
<1>3. Leaves(r, listed, paid)
  BY <1>0, StretchType
<1>4. Says(r, listed, n)
  BY StretchSays
<1>5. success' # "unset" /\ success' \in {"yes", "no"}
  <2>1. success' # "unset"
    BY <1>0, StretchOutcome
  <2>. QED BY <1>3, <2>1 DEF Leaves
<1>6. \/ fee' = Amount /\ \E p \in {"idle", "begin"} : at' = [at EXCEPT ![r] = p]
      \/ /\ at' = [at EXCEPT ![r] = "runtime"]
         /\ work'[r].list = listed /\ work'[r].next <= Len(events) + 1 /\ (work'[r].paid <=> Paid)
         /\ fee' = Counted(work'[r].next)
  <2>1. Counts(r, listed)
    BY <1>0, <1>1, StretchAmount
  <2>. QED BY <2>1 DEF Counts
<1>7. /\ Amount' = Amount /\ (Paid' <=> Paid) /\ \A k : Counted(k)' = Counted(k)
  BY DEF Amount, Paid, Counted
<1>8. \A q \in Readers \ {r} : at'[q] = "idle"
  BY <1>0, <1>2, <1>6 DEF TypeOK
<1>9. at'[r] \in {"idle", "begin", "runtime"}
  BY <1>0, <1>6 DEF TypeOK
<1>10. at'[r] = "runtime" => /\ work'[r].list = listed /\ work'[r].next <= Len(events) + 1 /\ (work'[r].paid <=> Paid)
                             /\ fee' = Counted(work'[r].next)
  BY <1>0, <1>6 DEF TypeOK
<1>11. at'[r] # "runtime" => fee' = Amount
  BY <1>0, <1>6 DEF TypeOK
<1>12. ASSUME NEW q \in Readers, at'[q] = "idle"
       PROVE  /\ answer'[q].value = "fee" => answer'[q].fee = Amount
              /\ answer'[q].value = "none" => asked[q] # "is_success" \/ answer'[q] = NoAnswer
  <2>1. CASE q # r
    <3>1. answer'[q] = answer[q] /\ at[q] = "idle"
      BY <1>0, <1>2, <1>4, <2>1 DEF Says, TypeOK
    <3>. QED BY <1>1, <3>1 DEF ReadInv, ReadTrue
  <2>2. CASE q = r
    <3>1. Done(r)
      <4>1. at'[r] = "idle"
        BY <1>12, <2>2
      <4>. QED BY <1>0, <4>1 DEF Stretch, Goto, TypeOK
    <3>2. answer'[r].value = Value(asked[r], success', error') /\ answer'[r].fee = fee'
      <4>1. ~(pass[r] = 1 /\ success' # "yes")
        BY <1>0, <1>12, <2>2, <3>1 DEF Done, Goto, TypeOK
      <4>2. answer' = [answer EXCEPT ![r] = [value |-> Value(asked[r], success', error'), fee |-> fee']]
        BY <3>1, <4>1 DEF Done, Reply
      <4>. QED BY <1>0, <4>2 DEF TypeOK
    <3>3. fee' = Amount
      BY <1>11, <1>12, <2>2
    <3>4. asked[r] = "is_success" => Value(asked[r], success', error') = success'
      BY <1>5 DEF Value
    <3>. QED BY <1>5, <2>2, <3>2, <3>3, <3>4
  <2>. QED BY <2>1, <2>2
<1>13. ReadTrue'
  BY <1>7, <1>12 DEF ReadTrue
<1>14. copies'[listed] = 1
  BY <1>1
<1>. QED BY <1>1, <1>5, <1>7, <1>8, <1>9, <1>10, <1>11, <1>13, <1>14 DEF ReadInv

LEMMA AskRead ==
  ASSUME BaseInv, ReadInv, NEW r \in Readers, NEW a \in Attributes, Ask(r, a)
  PROVE  ReadInv'
<1>0. TypeOK /\ events \in Histories
  BY DEF BaseInv
<1>1. SUFFICES ASSUME clean' PROVE ReadInv'
  BY DEF ReadInv
<1>2. /\ clean /\ \A q \in Readers : at[q] = "idle"
      /\ UNCHANGED <<events, receiptVars, work>>
      /\ asked' = [asked EXCEPT ![r] = a]
  BY <1>1 DEF Ask
<1>3. UNCHANGED <<events, located, listed, copies, success, error, fee, priced, work>>
  BY <1>2 DEF receiptVars
<1>4. \/ /\ Cached(a) /\ UNCHANGED at
         /\ answer' = [answer EXCEPT ![r] = [value |-> Value(a, success, error), fee |-> fee]]
      \/ /\ at' = [at EXCEPT ![r] = "begin"]
         /\ answer' = [answer EXCEPT ![r] = [value |-> "none", fee |-> 0]]
  BY DEF Ask, Reply, Goto
<1>5. Amount' = Amount /\ (Paid' <=> Paid) /\ \A k : Counted(k)' = Counted(k)
  BY <1>3 DEF Amount, Paid, Counted
<1>6. \A q \in Readers : at'[q] \in {"idle", "begin"} /\ (q # r => at'[q] = "idle" /\ answer'[q] = answer[q] /\ asked'[q] = asked[q])
  BY <1>0, <1>2, <1>4 DEF TypeOK
<1>7. ASSUME at'[r] = "idle"
      PROVE  /\ answer'[r].value = "fee" => answer'[r].fee = Amount
             /\ answer'[r].value = "none" => asked'[r] # "is_success"
  <2>1. Cached(a) /\ answer' = [answer EXCEPT ![r] = [value |-> Value(a, success, error), fee |-> fee]]
    BY <1>0, <1>4, <1>7 DEF TypeOK
  <2>2. answer'[r].value = Value(a, success, error) /\ answer'[r].fee = fee /\ asked'[r] = a
    BY <1>0, <1>2, <2>1 DEF TypeOK
  <2>3. a = "is_success" => Value(a, success, error) # "none"
    BY <1>0, <2>1 DEF Cached, Value, TypeOK
  <2>4. Value(a, success, error) = "fee" => a = "total_fee_amount"
    BY <1>0 DEF Value, TypeOK, Attributes
  <2>5. a = "total_fee_amount" => fee = Amount
    BY <1>2, <2>1 DEF Cached, ReadInv
  <2>. QED BY <2>2, <2>3, <2>4, <2>5
<1>8. ReadTrue'
  <2>1. ASSUME NEW q \in Readers, at'[q] = "idle"
        PROVE  /\ answer'[q].value = "fee" => answer'[q].fee = Amount
               /\ answer'[q].value = "none" => asked'[q] # "is_success" \/ answer'[q] = NoAnswer
    <3>1. CASE q = r
      BY <1>7, <2>1, <3>1
    <3>2. CASE q # r
      BY <1>2, <1>6, <3>2 DEF ReadInv, ReadTrue
    <3>. QED BY <3>1, <3>2
  <2>. QED BY <1>5, <2>1 DEF ReadTrue
<1>. QED BY <1>2, <1>3, <1>5, <1>6, <1>8 DEF ReadInv

LEMMA LocateRead ==
  ASSUME BaseInv, ReadInv, NEW r \in Readers, Locate(r) \/ Located(r)
  PROVE  ReadInv'
<1>0. TypeOK
  BY DEF BaseInv
<1>1. SUFFICES ASSUME clean' PROVE ReadInv'
  BY DEF ReadInv
<1>2. /\ UNCHANGED <<events, copies, success, error, fee, priced, asked, pass, work, answer, clean>>
      /\ \/ at' = [at EXCEPT ![r] = "events"] /\ listed' = r
         \/ at' = [at EXCEPT ![r] = "block"] /\ listed' = listed
      /\ at[r] \in {"begin", "block"}
  BY DEF Locate, Located, Lists, Goto
<1>3. \A q \in Readers \ {r} : at[q] = "idle"
  BY <1>1, <1>2 DEF ReadInv
<1>4. listed = Nobody
  BY <1>1, <1>2 DEF ReadInv, Locate, Located
<1>5. copies[r] = 0
  BY <1>4 DEF BaseInv, ListInv
<1>6. Amount' = Amount /\ (Paid' <=> Paid) /\ \A k : Counted(k)' = Counted(k)
  BY <1>2 DEF Amount, Paid, Counted
<1>7. /\ \A q \in Readers \ {r} : at'[q] = "idle"
      /\ \/ at'[r] = "events" /\ listed' = r
         \/ at'[r] = "block" /\ listed' = Nobody
  BY <1>0, <1>2, <1>3, <1>4 DEF TypeOK
<1>8. \A q \in Readers : at'[q] = "idle" => at[q] = "idle"
  BY <1>3, <1>7
<1>9. ReadTrue'
  BY <1>1, <1>2, <1>6, <1>8 DEF ReadInv, ReadTrue
<1>10. \A q \in Readers : at[q] # "runtime" /\ at'[q] # "runtime"
  BY <1>2, <1>3, <1>7
<1>11. priced => fee = Amount
  BY <1>1, <1>2, <1>10 DEF ReadInv
<1>. QED BY <1>2, <1>5, <1>6, <1>7, <1>9, <1>10, <1>11 DEF ReadInv

\* A run begins with nothing counted but what TransactionFeePaid says.
LEMMA ProcessCounts ==
  ASSUME events \in Histories, NEW r \in Readers, Process(r)
  PROVE  \E n \in Nat \ {0}, paid \in BOOLEAN, amount \in Nat :
            /\ n = 1 /\ n <= Len(events) + 1 /\ (paid <=> Paid) /\ amount = Counted(n)
            /\ Stretch(r, listed, n, paid, FALSE, error, amount)
<1>1. PICK n \in Nat \ {0}, paid \in BOOLEAN, amount \in Nat :
         /\ n = 1 /\ (paid <=> "feepaid" \in ToSet(events)) /\ amount = (IF paid THEN 1 ELSE 0)
         /\ Stretch(r, listed, n, paid, FALSE, error, amount)
  BY ProcessIs
<1>2. n <= Len(events) + 1
  <2>1. Len(events) \in Nat
    BY HistoryType
  <2>. QED BY <1>1, <2>1
<1>3. paid <=> Paid
  BY <1>1 DEF Paid
<1>4. Counted(1) = (IF Paid THEN 1 ELSE 0)
  BY CountedIs
<1>5. amount = Counted(n)
  BY <1>1, <1>3, <1>4
<1>. QED BY <1>1, <1>2, <1>3, <1>5

LEMMA NextRead ==
  ASSUME HasOutcome, BaseInv, TruthInv, ReadInv, [Next]_vars
  PROVE  ReadInv'
<1>0. TypeOK /\ events \in Histories
  BY DEF BaseInv
<1>1. ASSUME NEW r \in Readers, Listed(r) PROVE ReadInv'
  <2>1. listed \in Readers /\ error \in BOOLEAN /\ at[r] = "begin" /\ UNCHANGED <<events, listed, asked, clean, copies>>
    BY <1>0, <1>1 DEF Listed, TypeOK
  <2>2. clean => copies[listed] = 1
    <3>1. ASSUME clean, NEW q \in Readers PROVE at[q] # "events"
      <4>1. at[q] # "idle" => q = r
        BY <2>1, <3>1 DEF ReadInv
      <4>. QED BY <2>1, <4>1
    <3>2. listed # Nobody
      BY <1>1 DEF Listed
    <3>. QED BY <3>1, <3>2 DEF ReadInv
  <2>3. CASE copies[listed] = 0
    <3>1. ~clean'
      BY <2>1, <2>2, <2>3
    <3>. QED BY <3>1 DEF ReadInv
  <2>4. CASE copies[listed] # 0
    <3>1. Process(r)
      BY <1>1, <2>4 DEF Listed
    <3>2. PICK n \in Nat \ {0}, paid \in BOOLEAN, amount \in Nat :
             /\ n = 1 /\ n <= Len(events) + 1 /\ (paid <=> Paid) /\ amount = Counted(n)
             /\ Stretch(r, listed, n, paid, FALSE, error, amount)
      BY <1>0, <3>1, ProcessCounts
    <3>4. copies'[listed] \in Nat \ {0} /\ (clean => copies'[listed] = 1) /\ (error => Failed)
      BY <1>0, <2>1, <2>2, <2>4, ReadersCount DEF TypeOK, TruthInv
    <3>5. /\ copies'[listed] \in Nat \ {0} /\ (error => Failed) /\ at[r] # "idle" /\ (n = 1 \/ success # "unset")
          /\ clean => copies'[listed] = 1 /\ n <= Len(events) + 1 /\ (paid <=> Paid) /\ amount = Counted(n)
          /\ UNCHANGED <<events, listed, asked, clean>>
      BY <2>1, <3>2, <3>4
    <3>6. Stretch(r, listed, n, paid, FALSE, error, amount)
      BY <3>2
    <3>. QED BY <2>1, <3>5, <3>6, StretchRead
  <2>. QED BY <2>3, <2>4
<1>2. ASSUME NEW r \in Readers, Fetched(r) PROVE ReadInv'
  <2>1. listed \in Readers /\ error \in BOOLEAN /\ at[r] = "events" /\ UNCHANGED <<events, listed, asked, clean>>
    BY <1>0, <1>2 DEF Fetched, TypeOK, BaseInv, ListInv
  <2>2. Process(r) /\ copies'[listed] = copies[listed] + 1
    BY <1>0, <1>2, <2>1 DEF Fetched, TypeOK
  <2>3. clean => copies[listed] = 0
    BY <2>1 DEF ReadInv
  <2>4. PICK n \in Nat \ {0}, paid \in BOOLEAN, amount \in Nat :
           /\ n = 1 /\ n <= Len(events) + 1 /\ (paid <=> Paid) /\ amount = Counted(n)
           /\ Stretch(r, listed, n, paid, FALSE, error, amount)
    BY <1>0, <2>2, ProcessCounts
  <2>6. copies'[listed] \in Nat \ {0} /\ (clean => copies'[listed] = 1) /\ (error => Failed)
    BY <1>0, <2>1, <2>2, <2>3, ReadersCount DEF TypeOK, TruthInv
  <2>7. /\ copies'[listed] \in Nat \ {0} /\ (error => Failed) /\ at[r] # "idle" /\ (n = 1 \/ success # "unset")
        /\ clean => copies'[listed] = 1 /\ n <= Len(events) + 1 /\ (paid <=> Paid) /\ amount = Counted(n)
        /\ UNCHANGED <<events, listed, asked, clean>>
    BY <2>1, <2>4, <2>6
  <2>8. Stretch(r, listed, n, paid, FALSE, error, amount)
    BY <2>4
  <2>. QED BY <2>1, <2>7, <2>8, StretchRead
<1>3. ASSUME NEW r \in Readers, Resolved(r) PROVE ReadInv'
  <2>. DEFINE n == work[r].next
              paid == work[r].paid
  <2>1. at[r] = "runtime" /\ UNCHANGED <<events, listed, asked, copies, clean>>
    BY <1>3 DEF Resolved
  <2>2. /\ n \in Nat \ {0} /\ paid \in BOOLEAN /\ work[r].possible = FALSE /\ fee \in Nat /\ TRUE \in BOOLEAN
        /\ listed \in Readers
    BY <1>0, <2>1 DEF BaseInv, RunInv, ListInv, TypeOK
  <2>3. CASE ~clean
    BY <2>1, <2>3 DEF ReadInv
  <2>4. CASE clean
    <3>1. work[r].list = listed /\ n <= Len(events) + 1 /\ (paid <=> Paid) /\ fee = Counted(n) /\ success # "unset"
      BY <2>1, <2>4 DEF ReadInv
    <3>2. ASSUME NEW q \in Readers PROVE at[q] # "events"
      <4>1. at[q] # "idle" => q = r
        BY <2>1, <2>4 DEF ReadInv
      <4>. QED BY <2>1, <4>1
    <3>3. listed # Nobody
      BY <2>2, ReceiptAssumption
    <3>4. copies'[listed] = 1
      BY <2>1, <2>4, <3>2, <3>3 DEF ReadInv
    <3>5. Stretch(r, listed, n, paid, FALSE, TRUE, fee)
      BY <1>3, <2>2, <3>1 DEF Resolved
    <3>6. Failed
      BY <2>1 DEF TruthInv
    <3>7. /\ copies'[listed] \in Nat \ {0} /\ UNCHANGED <<events, listed, asked, clean>> /\ at[r] # "idle"
          /\ n \in Nat \ {0} /\ paid \in BOOLEAN /\ fee \in Nat /\ listed \in Readers /\ TRUE \in BOOLEAN
      BY <2>1, <2>2, <3>4
    <3>. HIDE DEF n, paid
    <3>. QED BY <3>1, <3>4, <3>5, <3>6, <3>7, StretchRead
  <2>. QED BY <2>3, <2>4
<1>4. ASSUME NEW r \in Readers, RequestFails(r) PROVE ReadInv'
  BY <1>4 DEF RequestFails, ReadInv
<1>5. CASE UNCHANGED vars
  <2>1. UNCHANGED <<events, located, listed, copies, success, error, fee, priced, at, asked, pass, work, answer, clean>>
    BY <1>5 DEF vars, receiptVars
  <2>2. Amount' = Amount /\ (Paid' <=> Paid) /\ \A k : Counted(k)' = Counted(k)
    BY <2>1 DEF Amount, Paid, Counted
  <2>3. ReadTrue' <=> ReadTrue
    BY <2>1, <2>2 DEF ReadTrue
  <2>. QED BY <2>1, <2>2, <2>3 DEF ReadInv
<1>. QED BY <1>1, <1>2, <1>3, <1>4, <1>5, AskRead, LocateRead DEF Next

\* Read one after the other, is_success has an answer and total_fee_amount is the
\* fee, however many runs of process_events it took.
THEOREM ReadsCorrect ==
  ASSUME HasOutcome
  PROVE  Spec => []ReadTrue
<1>. DEFINE Inv == BaseInv /\ TruthInv /\ ReadInv
<1>1. Init => Inv
  BY InitBase, InitTruth, InitRead
<1>2. Inv /\ [Next]_vars => Inv'
  BY NextBase, NextTruth, NextRead
<1>3. Inv => ReadTrue
  BY DEF ReadInv, ReadTrue
<1>. QED BY <1>1, <1>2, <1>3, PTL DEF Spec
=============================================================================
