------------------------ MODULE CachedFetcherProofs ------------------------
EXTENDS CachedFetcher, SequenceTheorems, TLAPS
(***************************************************************************)
(* Theorems about CachedFetcher, for every value of its constants.         *)
(***************************************************************************)
-----------------------------------------------------------------------------
(* The LRU cache, whatever the set S its entries come from.                *)

LEMMA WithoutType ==
  ASSUME NEW S, cache \in Seq(S), NEW k
  PROVE  /\ Without(k) \in Seq(S)
         /\ Len(cache) \in Nat /\ Len(Without(k)) \in Nat
         /\ Len(Without(k)) <= Len(cache)
         /\ Places(k) # {} => Len(Without(k)) = Len(cache) - 1
<1>1. CASE Places(k) # {}
  <2>. DEFINE i == CHOOSE i \in Places(k) : TRUE
  <2>1. i \in 1 .. Len(cache)
    BY <1>1 DEF Places
  <2>. HIDE DEF i
  <2>2. \A j \in 1 .. Len(cache) : cache[j] \in S
    BY ElementOfSeq
  <2>3. Len(cache) \in Nat
    BY LenProperties
  <2>4. /\ SubSeq(cache, 1, i - 1) \in Seq(S)
        /\ Len(SubSeq(cache, 1, i - 1)) = i - 1
    BY <2>1, <2>2, <2>3, SubSeqProperties
  <2>5. /\ SubSeq(cache, i + 1, Len(cache)) \in Seq(S)
        /\ Len(SubSeq(cache, i + 1, Len(cache))) = Len(cache) - i
    BY <2>1, <2>2, <2>3, SubSeqProperties
  <2>6. Without(k) = SubSeq(cache, 1, i - 1) \o SubSeq(cache, i + 1, Len(cache))
    BY <1>1 DEF Without, RemoveAt, i
  <2>7. /\ Without(k) \in Seq(S)
        /\ Len(Without(k)) = (i - 1) + (Len(cache) - i)
    BY <2>4, <2>5, <2>6, ConcatProperties
  <2>. QED BY <2>1, <2>3, <2>7
<1>2. CASE Places(k) = {}
  BY <1>2, LenProperties DEF Without
<1>. QED BY <1>1, <1>2

LEMMA TouchedType ==
  ASSUME NEW S, cache \in Seq(S), NEW k
  PROVE  Touched(k) \in Seq(S) /\ Len(Touched(k)) = Len(cache)
<1>1. CASE Places(k) # {}
  <2>. DEFINE i == CHOOSE i \in Places(k) : TRUE
  <2>1. i \in 1 .. Len(cache)
    BY <1>1 DEF Places
  <2>2. cache[i] \in S
    BY <2>1, ElementOfSeq
  <2>3. Touched(k) = Append(Without(k), cache[i])
    BY <1>1 DEF Touched
  <2>. HIDE DEF i
  <2>. QED BY <1>1, <2>2, <2>3, WithoutType, AppendProperties
<1>2. CASE Places(k) = {}
  BY <1>2 DEF Touched
<1>. QED BY <1>1, <1>2

LEMMA StoredType ==
  ASSUME NEW S, cache \in Seq(S), NEW k, NEW n, NEW value,
         [key |-> k, fetch |-> n, value |-> value] \in S,
         Len(cache) <= MaxSize
  PROVE  Stored(k, n, value) \in Seq(S) /\ Len(Stored(k, n, value)) <= MaxSize
<1>. DEFINE grown == Append(Without(k), [key |-> k, fetch |-> n, value |-> value])
<1>1. /\ grown \in Seq(S)
      /\ Len(grown) = Len(Without(k)) + 1
      /\ grown # <<>>
  BY WithoutType, AppendProperties
<1>2. Len(Without(k)) \in Nat /\ Len(Without(k)) <= MaxSize /\ MaxSize \in Nat
  BY WithoutType, FetcherAssumption
<1>3. Stored(k, n, value) = IF Len(grown) > MaxSize THEN Tail(grown) ELSE grown
  BY DEF Stored
<1>. HIDE DEF grown
<1>. QED BY <1>1, <1>2, <1>3, HeadTailProperties

-----------------------------------------------------------------------------
(* The inductive invariant.                                                *)

\* Entries of the cache name a fetch that was started for their key.
Entries ==
  {e \in [key : Memoized, fetch : Fetches, value : {"some", "null"}] :
     future[e.fetch] # "unused" /\ keyOf[e.fetch] = e.key}

\* A leader's future is the one callers with its key find; leaders are apart.
LeadersOK ==
  /\ \A c \in Callers : st[c] = "fetching" =>
       /\ inflight[asked[c]] = on[c]
       /\ keyOf[on[c]] = asked[c]
       /\ future[on[c]] \in {"pending", "cancelled"}
  /\ \A c, d \in Callers : st[c] = "fetching" /\ st[d] = "fetching" /\ on[c] = on[d] => c = d

FollowersOK ==
  \A c \in Callers : st[c] = "following" =>
    future[on[c]] # "unused" /\ keyOf[on[c]] = asked[c]

\* What a call that has not ended awaits is not outdated.
AwaitsFresh ==
  \A c \in Callers : st[c] # "idle" /\ asked[c] \notin Memoized => on[c] \notin over[c]

AnswersOK == AnswerFits /\ \A c \in Callers : answer[c] # 0 => future[answer[c]] # "unused"

KeysOK == \A k \in Keys : inflight[k] # 0 => keyOf[inflight[k]] = k

IInv ==
  /\ TypeOK
  /\ cache \in Seq(Entries)
  /\ LeadersOK /\ FollowersOK /\ KeysOK
  /\ NoneLeftBehind
  /\ AwaitsFresh /\ AnswersOK

LEMMA CacheTyped ==
  cache \in Seq(Entries) => cache \in Seq([key : Memoized, fetch : Fetches, value : {"some", "null"}])
<1>1. Entries \subseteq [key : Memoized, fetch : Fetches, value : {"some", "null"}]
  BY DEF Entries
<1>. QED BY <1>1, SeqMonotonic

LEMMA InitInv == Init => IInv
<1>. SUFFICES ASSUME Init PROVE IInv
  OBVIOUS
<1>1. cache \in Seq(Entries) /\ Len(cache) <= MaxSize
  BY FetcherAssumption, EmptySeq DEF Init
<1>2. (CHOOSE k \in Keys : TRUE) \in Keys
  BY FetcherAssumption
<1>3. cache \in Seq([key : Memoized, fetch : Fetches, value : {"some", "null"}])
  BY <1>1, CacheTyped
<1>. QED BY <1>1, <1>2, <1>3 DEF Init, IInv, TypeOK, LeadersOK, FollowersOK, KeysOK, NoneLeftBehind,
            AwaitsFresh, AnswersOK, AnswerFits

\* Entries stay what they are: a fetch that was started keeps its key.
LEMMA CacheStays ==
  ASSUME \A n \in Fetches : future[n] # "unused" => future'[n] # "unused" /\ keyOf'[n] = keyOf[n],
         cache' \in Seq(Entries)
  PROVE  /\ cache' \in Seq(Entries')
         /\ cache' \in Seq([key : Memoized, fetch : Fetches, value : {"some", "null"}])
<1>1. Entries \subseteq Entries'
  BY DEF Entries
<1>2. Entries \subseteq [key : Memoized, fetch : Fetches, value : {"some", "null"}]
  BY DEF Entries
<1>. QED BY <1>1, <1>2, SeqMonotonic

LEMMA BeginCache ==
  ASSUME IInv, NEW c \in Callers, NEW k \in Keys, Begin(c, k)
  PROVE  cache' \in Seq(Entries) /\ Len(cache') <= MaxSize
BY TouchedType DEF IInv, TypeOK, Begin

LEMMA HitInv ==
  ASSUME IInv, NEW c \in Callers, NEW k \in Keys, Hit(c, k)
  PROVE  IInv'
<1>1. cache' \in Seq(Entries) /\ Len(cache') <= MaxSize
  BY BeginCache DEF Hit
<1>2. /\ cache' \in Seq(Entries')
      /\ cache' \in Seq([key : Memoized, fetch : Fetches, value : {"some", "null"}])
  BY <1>1, CacheStays DEF Hit
<1>3. \A n \in Hits(k) : n \in Fetches /\ future[n] # "unused" /\ keyOf[n] = k
  <2>1. \A i \in DOMAIN cache : cache[i] \in Entries
    BY ElementOfSeq, LenProperties DEF IInv
  <2>. QED BY <2>1 DEF Hits, Places, Entries
<1>4. TypeOK'
  BY <1>1, <1>2, <1>3 DEF IInv, TypeOK, Hit, Begin, Started
<1>5. (LeadersOK /\ FollowersOK /\ KeysOK /\ NoneLeftBehind /\ AwaitsFresh)'
  BY DEF IInv, TypeOK, Hit, Begin, LeadersOK, FollowersOK, KeysOK, NoneLeftBehind, AwaitsFresh, Running
<1>6. AnswersOK'
  BY <1>3 DEF IInv, TypeOK, Hit, Begin, AnswersOK, AnswerFits
<1>. QED BY <1>2, <1>4, <1>5, <1>6 DEF IInv

LEMMA FollowInv ==
  ASSUME IInv, NEW c \in Callers, NEW k \in Keys, Follow(c, k)
  PROVE  IInv'
<1>1. cache' \in Seq(Entries) /\ Len(cache') <= MaxSize
  BY BeginCache DEF Follow
<1>2. /\ cache' \in Seq(Entries')
      /\ cache' \in Seq([key : Memoized, fetch : Fetches, value : {"some", "null"}])
  BY <1>1, CacheStays DEF Follow
<1>3. inflight[k] \in Running /\ future[inflight[k]] # "unused" /\ keyOf[inflight[k]] = k
  BY DEF IInv, NoneLeftBehind, LeadersOK, KeysOK, Follow, Running
<1>4. TypeOK'
  BY <1>1, <1>2 DEF IInv, TypeOK, Follow, Begin, Started
<1>5. Running' = Running
  BY DEF IInv, TypeOK, Follow, Begin, Running
<1>6. (LeadersOK /\ KeysOK /\ NoneLeftBehind)'
  BY <1>3, <1>5 DEF IInv, TypeOK, Follow, Begin, LeadersOK, KeysOK, NoneLeftBehind
<1>7. (FollowersOK /\ AwaitsFresh /\ AnswersOK)'
  BY <1>3 DEF IInv, TypeOK, Follow, Begin, FollowersOK, AwaitsFresh, AnswersOK, AnswerFits
<1>. QED BY <1>2, <1>4, <1>6, <1>7 DEF IInv

LEMMA LeadInv ==
  ASSUME IInv, NEW c \in Callers, NEW k \in Keys, Lead(c, k)
  PROVE  IInv'
<1>1. cache' \in Seq(Entries) /\ Len(cache') <= MaxSize
  BY BeginCache DEF Lead
<1>2. PICK n \in Fetches :
        /\ future[n] = "unused"
        /\ future' = [future EXCEPT ![n] = "pending"]
        /\ inflight' = [inflight EXCEPT ![k] = n]
        /\ keyOf' = [keyOf EXCEPT ![n] = k]
        /\ on' = [on EXCEPT ![c] = n]
  BY DEF Lead
<1>3. /\ cache' \in Seq(Entries')
      /\ cache' \in Seq([key : Memoized, fetch : Fetches, value : {"some", "null"}])
  BY <1>1, <1>2, CacheStays DEF IInv, TypeOK
<1>4. n # 0
  BY DEF Fetches
<1>5. TypeOK'
  BY <1>1, <1>2, <1>3, <1>4 DEF IInv, TypeOK, Lead, Begin, Started
<1>6. Running' = Running \cup {n}
  BY <1>2 DEF IInv, TypeOK, Lead, Begin, Running
<1>7. LeadersOK'
  <2>1. \A d \in Callers : st'[d] = "fetching" /\ d # c =>
          /\ st[d] = "fetching"
          /\ on'[d] = on[d] /\ asked'[d] = asked[d]
          /\ on[d] # n /\ asked[d] # k
    BY <1>2 DEF IInv, TypeOK, Lead, Begin, LeadersOK
  <2>2. st'[c] = "fetching" /\ on'[c] = n /\ asked'[c] = k
    BY <1>2 DEF IInv, TypeOK, Lead, Begin
  <2>3. /\ inflight'[k] = n /\ future'[n] = "pending" /\ keyOf'[n] = k
        /\ \A j \in Keys : j # k => inflight'[j] = inflight[j]
        /\ \A m \in Fetches : m # n => future'[m] = future[m] /\ keyOf'[m] = keyOf[m]
    BY <1>2 DEF IInv, TypeOK
  <2>. QED BY <2>1, <2>2, <2>3, SMTT(40) DEF IInv, TypeOK, LeadersOK
<1>8. (FollowersOK /\ KeysOK)'
  <2>1. \A j \in Keys : inflight[j] # 0 => future[inflight[j]] # "unused"
    BY DEF IInv, NoneLeftBehind, LeadersOK, Running
  <2>. QED BY <1>2, <2>1 DEF IInv, TypeOK, Lead, Begin, FollowersOK, KeysOK
<1>9. NoneLeftBehind'
  BY <1>2, <1>6 DEF IInv, TypeOK, Lead, Begin, NoneLeftBehind, FollowersOK
<1>10. AwaitsFresh'
  BY <1>2 DEF IInv, TypeOK, Lead, Begin, AwaitsFresh, Started
<1>11. AnswersOK'
  BY <1>2 DEF IInv, TypeOK, Lead, Begin, AnswersOK, AnswerFits
<1>. QED BY <1>3, <1>5, <1>7, <1>8, <1>9, <1>10, <1>11 DEF IInv

\* A call that ends, whoever ends it and however.
LEMMA EndFacts ==
  ASSUME IInv, NEW c \in Callers, NEW how, NEW n, EndCall(c, how, n), st[c] # "idle"
  PROVE  /\ st'[c] = "idle" /\ on'[c] = 0 /\ answer'[c] = n
         /\ \A d \in Callers \ {c} : st'[d] = st[d] /\ on'[d] = on[d] /\ answer'[d] = answer[d]
         /\ st[c] = "fetching" => Running' = Running \ {on[c]}
         /\ st[c] = "following" => Running' = Running
<1>1. /\ st'[c] = "idle" /\ on'[c] = 0 /\ answer'[c] = n
      /\ \A d \in Callers \ {c} : st'[d] = st[d] /\ on'[d] = on[d] /\ answer'[d] = answer[d]
  BY DEF IInv, TypeOK, EndCall
<1>. QED BY <1>1 DEF IInv, LeadersOK, Running

\* The leader's call ends: its future is done, and nobody finds it any more.
LEMMA LeaderEndsInv ==
  ASSUME IInv, NEW c \in Callers, st[c] = "fetching",
         inflight' = [inflight EXCEPT ![asked[c]] = 0],
         NEW state \in {"some", "null", "cancelled"},
         future' = [future EXCEPT ![on[c]] = state],
         NEW how \in {"value", "error", "cancelled", "invalid"},
         NEW n \in {0, on[c]}, EndCall(c, how, n),
         cache' \in Seq(Entries), Len(cache') <= MaxSize
  PROVE  IInv'
<1>1. /\ cache' \in Seq(Entries')
      /\ cache' \in Seq([key : Memoized, fetch : Fetches, value : {"some", "null"}])
  BY CacheStays DEF IInv, TypeOK, EndCall
<1>2. TypeOK'
  BY <1>1 DEF IInv, TypeOK, EndCall
<1>3. on[c] \in Fetches /\ keyOf[on[c]] = asked[c] /\ inflight[asked[c]] = on[c] /\ on[c] \in Running
  BY DEF IInv, TypeOK, LeadersOK, Running
<1>4. \A d \in Callers : st[d] = "fetching" /\ d # c => on[d] # on[c] /\ asked[d] # asked[c]
  BY DEF IInv, LeadersOK
<1>5. LeadersOK'
  BY <1>3, <1>4, EndFacts DEF IInv, TypeOK, LeadersOK, EndCall
<1>6. (FollowersOK /\ KeysOK)'
  BY <1>3, EndFacts DEF IInv, TypeOK, FollowersOK, KeysOK, EndCall
<1>7. NoneLeftBehind'
  <2>1. \A k \in Keys \ {asked[c]} : inflight[k] # on[c] \/ inflight[k] = 0
    BY <1>3 DEF IInv, KeysOK
  <2>. QED BY <1>3, <2>1, EndFacts, SMTT(40) DEF IInv, TypeOK, NoneLeftBehind
<1>8. AwaitsFresh'
  BY EndFacts DEF IInv, AwaitsFresh, EndCall
<1>9. AnswersOK'
  BY <1>3, EndFacts DEF IInv, TypeOK, AnswersOK, AnswerFits, AwaitsFresh, EndCall
<1>. QED BY <1>1, <1>2, <1>5, <1>6, <1>7, <1>8, <1>9 DEF IInv

LEMMA ReturnsInv ==
  ASSUME IInv, NEW c \in Callers, Returns(c)
  PROVE  IInv'
<1>1. PICK result \in {"some", "null"} :
        /\ cache' = IF asked[c] \in Memoized THEN Stored(asked[c], on[c], result) ELSE cache
        /\ future' = [future EXCEPT ![on[c]] = IF @ = "pending" THEN result ELSE @]
  BY DEF Returns
<1>2. /\ on[c] \in Fetches
      /\ asked[c] \in Memoized => [key |-> asked[c], fetch |-> on[c], value |-> result] \in Entries
      /\ future[on[c]] \in {"pending", "cancelled"}
  BY DEF IInv, TypeOK, LeadersOK, Returns, Entries
<1>3. cache' \in Seq(Entries) /\ Len(cache') <= MaxSize
  BY <1>1, <1>2, StoredType DEF IInv, TypeOK
<1>4. CASE future[on[c]] = "pending"
  <2>1. future' = [future EXCEPT ![on[c]] = result] /\ EndCall(c, "value", on[c])
    BY <1>1, <1>2, <1>4 DEF IInv, TypeOK, Returns
  <2>. QED BY <1>3, <2>1, LeaderEndsInv DEF Returns
<1>5. CASE future[on[c]] = "cancelled"
  <2>1. future' = [future EXCEPT ![on[c]] = "cancelled"] /\ EndCall(c, "invalid", 0)
    BY <1>1, <1>2, <1>5 DEF IInv, TypeOK, Returns
  <2>. QED BY <1>3, <2>1, LeaderEndsInv DEF Returns
<1>. QED BY <1>2, <1>4, <1>5

LEMMA RaisesInv ==
  ASSUME IInv, NEW c \in Callers, NEW how \in {"error", "cancelled"}, Raises(c, how)
  PROVE  IInv'
BY LeaderEndsInv DEF Raises, IInv, TypeOK

LEMMA ResumesInv ==
  ASSUME IInv, NEW c \in Callers, Resumes(c)
  PROVE  IInv'
<1>1. PICK how \in {"value", "collateral"} : \E n \in {0, on[c]} : EndCall(c, how, n)
  BY DEF Resumes
<1>2. PICK n \in {0, on[c]} : EndCall(c, how, n)
  BY <1>1
<1>3. /\ cache' \in Seq(Entries')
      /\ cache' \in Seq([key : Memoized, fetch : Fetches, value : {"some", "null"}])
  BY <1>2, CacheStays DEF IInv, Resumes, EndCall
<1>4. TypeOK'
  BY <1>2, <1>3 DEF IInv, TypeOK, EndCall, Resumes
<1>5. (LeadersOK /\ FollowersOK /\ KeysOK /\ NoneLeftBehind /\ AwaitsFresh)'
  <2>1. Running' = Running /\ UNCHANGED <<inflight, future, keyOf, asked, over>>
    BY <1>2, EndFacts DEF Resumes, EndCall
  <2>2. \A d \in Callers : st'[d] # "idle" => d # c /\ st'[d] = st[d] /\ on'[d] = on[d]
    BY <1>2, EndFacts DEF Resumes
  <2>3. (LeadersOK /\ KeysOK)'
    BY <2>1, <2>2 DEF IInv, LeadersOK, KeysOK
  <2>4. (FollowersOK /\ NoneLeftBehind /\ AwaitsFresh)'
    BY <2>1, <2>2 DEF IInv, FollowersOK, NoneLeftBehind, AwaitsFresh
  <2>. QED BY <2>3, <2>4
<1>6. AnswersOK'
  BY <1>2, EndFacts DEF IInv, AnswersOK, AnswerFits, AwaitsFresh, FollowersOK, EndCall, Resumes
<1>. QED BY <1>3, <1>4, <1>5, <1>6 DEF IInv

LEMMA FollowerCancelledInv ==
  ASSUME IInv, NEW c \in Callers, FollowerCancelled(c)
  PROVE  IInv'
<1>1. \A n \in Fetches :
        future'[n] = future[n] \/ (future[n] = "pending" /\ future'[n] = "cancelled")
  BY DEF IInv, TypeOK, FollowerCancelled
<1>2. /\ cache' \in Seq(Entries')
      /\ cache' \in Seq([key : Memoized, fetch : Fetches, value : {"some", "null"}])
  BY <1>1, CacheStays DEF IInv, FollowerCancelled, EndCall
<1>3. TypeOK'
  BY <1>2 DEF IInv, TypeOK, EndCall, FollowerCancelled
<1>4. (LeadersOK /\ FollowersOK /\ KeysOK /\ AwaitsFresh)'
  BY <1>1, EndFacts DEF IInv, TypeOK, LeadersOK, FollowersOK, KeysOK, AwaitsFresh, EndCall, FollowerCancelled
<1>5. NoneLeftBehind'
  BY <1>1, EndFacts DEF IInv, TypeOK, NoneLeftBehind, FollowerCancelled
<1>6. AnswersOK'
  BY <1>1, EndFacts DEF IInv, TypeOK, AnswersOK, AnswerFits, EndCall, FollowerCancelled
<1>. QED BY <1>2, <1>3, <1>4, <1>5, <1>6 DEF IInv

LEMMA StepInv == IInv /\ [Next]_vars => IInv'
<1>1. CASE UNCHANGED vars
  BY <1>1 DEF vars, callVars, IInv, TypeOK, Entries, LeadersOK, FollowersOK, KeysOK, NoneLeftBehind,
     Running, AwaitsFresh, AnswersOK, AnswerFits
<1>2. CASE IInv /\ Next
  BY <1>2, HitInv, FollowInv, LeadInv, ReturnsInv, RaisesInv, ResumesInv, FollowerCancelledInv
     DEF Next, CallEnds, LeaderCancelled
<1>. QED BY <1>1, <1>2

LEMMA Invariant == Spec => []IInv
BY InitInv, StepInv, PTL DEF Spec

-----------------------------------------------------------------------------
\* The cache never holds more than max_size entries, and a caller that runs or
\* follows a fetch knows which.
THEOREM TypeCorrect == Spec => []TypeOK
<1>1. IInv => TypeOK
  BY DEF IInv
<1>. QED BY <1>1, Invariant, PTL

\* However calls, cancellations and failures interleave, the method runs at
\* most once at a time for a key.
THEOREM OneFetchAtATime == Spec => []OneFetch
<1>1. IInv => OneFetch
  BY DEF IInv, LeadersOK, OneFetch
<1>. QED BY <1>1, Invariant, PTL

\* Whoever waits for a future waits for one that a running fetch will settle.
THEOREM FollowersHaveLeaders == Spec => []NoneLeftBehind
<1>1. IInv => NoneLeftBehind
  BY DEF IInv
<1>. QED BY <1>1, Invariant, PTL

\* A call returns what a fetch for its own key returned, and without a cache
\* one that was still running when the call began.
THEOREM AnswersFit == Spec => []AnswerFits
<1>1. IInv => AnswerFits
  BY DEF IInv, AnswersOK
<1>. QED BY <1>1, Invariant, PTL
=============================================================================
