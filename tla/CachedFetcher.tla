--------------------------- MODULE CachedFetcher ---------------------------
(***************************************************************************)
(* CachedFetcher of utils/cache.py: concurrent calls with the same key     *)
(* share the future of one fetch, and a memoizing fetcher keeps the        *)
(* results in an LRU cache.  The first caller (the leader) runs the method *)
(* itself; the others await its future.  asyncio cancels a task by         *)
(* cancelling the future it awaits, which here is the shared one.          *)
(***************************************************************************)
EXTENDS Naturals, Sequences, FiniteSets, SequencesExt

CONSTANTS
  Callers,      \* tasks that call the fetcher, again and again
  Keys,         \* what make_cache_key returns
  Memoized,     \* keys of a fetcher with cache_results; the others belong to one without
  MaxSize,      \* max_size of the LRU cache
  Cancellable,  \* callers whose task may be cancelled
  MaxFetches    \* bound: runs of the cached method

Fetches == 1 .. MaxFetches

ASSUME FetcherAssumption ==
  /\ MaxSize \in Nat
  /\ MaxFetches \in Nat \ {0}
  /\ Keys # {}
  /\ Memoized \subseteq Keys
  /\ Cancellable \subseteq Callers

VARIABLES
  inflight,  \* self._inflight: the fetch whose future each key has, or 0
  future,    \* state of each fetch's future; "some" and "null" (None) are results
  keyOf,     \* key each fetch was started for
  cache,     \* self._cache, the least recently used entry first
  st,        \* what each caller is doing
  on,        \* the fetch each caller runs or follows, or 0
  asked,     \* key of each caller's last call
  ended,     \* how its last call ended
  answer,    \* the fetch whose result its last call returned, or 0
  over       \* the fetches that had ended when its last call began (results not kept)

callVars == <<st, on, asked, ended, answer, over>>
vars == <<inflight, future, keyOf, cache, callVars>>

Running == {on[c] : c \in {c \in Callers : st[c] = "fetching"}}
Started == {n \in Fetches : future[n] # "unused"}

Init ==
  /\ inflight = [k \in Keys |-> 0]
  /\ future = [n \in Fetches |-> "unused"]
  /\ keyOf = [n \in Fetches |-> CHOOSE k \in Keys : TRUE]
  /\ cache = <<>>
  /\ st = [c \in Callers |-> "idle"]
  /\ on = [c \in Callers |-> 0]
  /\ asked = [c \in Callers |-> CHOOSE k \in Keys : TRUE]
  /\ ended = [c \in Callers |-> "none"]
  /\ answer = [c \in Callers |-> 0]
  /\ over = [c \in Callers |-> {}]

-----------------------------------------------------------------------------
(* LRUCache.                                                               *)

Places(k) == {i \in DOMAIN cache : cache[i].key = k}
Without(k) == IF Places(k) = {} THEN cache ELSE RemoveAt(cache, CHOOSE i \in Places(k) : TRUE)

\* get moves what it finds to the end; a result None reads as a miss.
Touched(k) == IF Places(k) = {} THEN cache ELSE Append(Without(k), cache[CHOOSE i \in Places(k) : TRUE])
Hits(k) == {cache[i].fetch : i \in {i \in Places(k) : cache[i].value = "some"}}

\* MUTANT: the cache may hold one entry more.
Stored_OneMore(k, n, value) ==
  LET grown == Append(Without(k), [key |-> k, fetch |-> n, value |-> value])
  IN  IF Len(grown) > MaxSize + 1 THEN Tail(grown) ELSE grown

\* set puts the key at the end and drops the first entry of a cache too large.
Stored(k, n, value) ==
  LET grown == Append(Without(k), [key |-> k, fetch |-> n, value |-> value])
  IN  IF Len(grown) > MaxSize THEN Tail(grown) ELSE grown

-----------------------------------------------------------------------------
(* __call__                                                                *)

Begin(c, k) ==
  /\ st[c] = "idle"
  /\ asked' = [asked EXCEPT ![c] = k]
  /\ over' = [over EXCEPT ![c] = IF k \in Memoized THEN {} ELSE Started \ Running]
  /\ cache' = IF k \in Memoized THEN Touched(k) ELSE cache

\* The result is in the cache.
Hit(c, k) ==
  /\ Begin(c, k)
  /\ k \in Memoized
  /\ \E n \in Hits(k) : answer' = [answer EXCEPT ![c] = n]
  /\ ended' = [ended EXCEPT ![c] = "value"]
  /\ UNCHANGED <<inflight, future, keyOf, st, on>>

Missed(k) == k \in Memoized => Hits(k) = {}

\* A call with the same key is running: await its future.
Follow(c, k) ==
  /\ Begin(c, k)
  /\ Missed(k)
  /\ inflight[k] # 0
  /\ st' = [st EXCEPT ![c] = "following"]
  /\ on' = [on EXCEPT ![c] = inflight[k]]
  /\ ended' = [ended EXCEPT ![c] = "none"]
  /\ answer' = [answer EXCEPT ![c] = 0]
  /\ UNCHANGED <<inflight, future, keyOf>>

\* Otherwise run the method, with a future for whoever comes meanwhile.
Lead(c, k) ==
  /\ Begin(c, k)
  /\ Missed(k)
  /\ inflight[k] = 0
  /\ \E n \in Fetches :
       /\ future[n] = "unused" /\ \A m \in Fetches : m < n => future[m] # "unused"
       /\ future' = [future EXCEPT ![n] = "pending"]
       /\ inflight' = [inflight EXCEPT ![k] = n]
       /\ keyOf' = [keyOf EXCEPT ![n] = k]
       /\ on' = [on EXCEPT ![c] = n]
  /\ st' = [st EXCEPT ![c] = "fetching"]
  /\ ended' = [ended EXCEPT ![c] = "none"]
  /\ answer' = [answer EXCEPT ![c] = 0]

EndCall(c, how, n) ==
  /\ st' = [st EXCEPT ![c] = "idle"]
  /\ on' = [on EXCEPT ![c] = 0]
  /\ ended' = [ended EXCEPT ![c] = how]
  /\ answer' = [answer EXCEPT ![c] = n]
  /\ UNCHANGED <<keyOf, asked, over>>

\* MUTANT: the future stays in _inflight for the next calls.
Returns_Keeps(c) ==
  /\ st[c] = "fetching"
  /\ \E result \in {"some", "null"} :
       /\ cache' = IF asked[c] \in Memoized THEN Stored(asked[c], on[c], result) ELSE cache
       /\ future' = [future EXCEPT ![on[c]] = IF @ = "pending" THEN result ELSE @]
  /\ IF future[on[c]] = "pending" THEN EndCall(c, "value", on[c]) ELSE EndCall(c, "invalid", 0)
  /\ UNCHANGED inflight

\* The method returns.  If the shared future was cancelled meanwhile the
\* result is stored all the same, and set_result raises InvalidStateError.
Returns(c) ==
  /\ st[c] = "fetching"
  /\ inflight' = [inflight EXCEPT ![asked[c]] = 0]
  /\ \E result \in {"some", "null"} :
       /\ cache' = IF asked[c] \in Memoized THEN Stored(asked[c], on[c], result) ELSE cache
       /\ future' = [future EXCEPT ![on[c]] = IF @ = "pending" THEN result ELSE @]
  /\ IF future[on[c]] = "pending" THEN EndCall(c, "value", on[c]) ELSE EndCall(c, "invalid", 0)

\* The method raises, or the leader's task is cancelled: followers get a
\* CancelledError either way.
Raises(c, how) ==
  /\ st[c] = "fetching"
  /\ inflight' = [inflight EXCEPT ![asked[c]] = 0]
  /\ future' = [future EXCEPT ![on[c]] = "cancelled"]
  /\ EndCall(c, how, 0)
  /\ UNCHANGED cache

\* MUTANT: no finally clause: a cancelled leader leaves its future behind.
LeaderCancelled_Bare(c) ==
  /\ c \in Cancellable
  /\ st[c] = "fetching"
  /\ EndCall(c, "cancelled", 0)
  /\ UNCHANGED <<inflight, future, cache>>

LeaderCancelled(c) == c \in Cancellable /\ Raises(c, "cancelled")

\* The shared future is done: a follower goes on with what it holds.
Resumes(c) ==
  /\ st[c] = "following"
  /\ \/ future[on[c]] \in {"some", "null"} /\ EndCall(c, "value", on[c])
     \/ future[on[c]] = "cancelled" /\ EndCall(c, "collateral", 0)
  /\ UNCHANGED <<inflight, future, cache>>

\* MUTANT: who cancels the shared future drops it, for the next call to lead.
FollowerCancelled_Drops(c) ==
  /\ c \in Cancellable
  /\ st[c] = "following"
  /\ future' = [future EXCEPT ![on[c]] = IF @ = "pending" THEN "cancelled" ELSE @]
  /\ inflight' = [k \in Keys |-> IF inflight[k] = on[c] THEN 0 ELSE inflight[k]]
  /\ EndCall(c, "cancelled", 0)
  /\ UNCHANGED cache

\* A follower's task is cancelled, and with it the future it awaits.
FollowerCancelled(c) ==
  /\ c \in Cancellable
  /\ st[c] = "following"
  /\ future' = [future EXCEPT ![on[c]] = IF @ = "pending" THEN "cancelled" ELSE @]
  /\ EndCall(c, "cancelled", 0)
  /\ UNCHANGED <<inflight, cache>>

CallEnds(c) == Returns(c) \/ Raises(c, "error") \/ Resumes(c)

Next ==
  \E c \in Callers :
    \/ \E k \in Keys : Hit(c, k) \/ Follow(c, k) \/ Lead(c, k)
    \/ CallEnds(c) \/ LeaderCancelled(c) \/ FollowerCancelled(c)

Spec == Init /\ [][Next]_vars

-----------------------------------------------------------------------------
TypeOK ==
  /\ inflight \in [Keys -> Fetches \cup {0}]
  /\ future \in [Fetches -> {"unused", "pending", "some", "null", "cancelled"}]
  /\ keyOf \in [Fetches -> Keys]
  /\ cache \in Seq([key : Memoized, fetch : Fetches, value : {"some", "null"}])
  /\ Len(cache) <= MaxSize
  /\ st \in [Callers -> {"idle", "fetching", "following"}]
  /\ on \in [Callers -> Fetches \cup {0}]
  /\ \A c \in Callers : st[c] # "idle" => on[c] # 0
  /\ asked \in [Callers -> Keys]
  /\ ended \in [Callers -> {"none", "value", "error", "cancelled", "collateral", "invalid"}]
  /\ answer \in [Callers -> Fetches \cup {0}]
  /\ over \in [Callers -> SUBSET Fetches]

\* The method runs at most once at a time for a key: whoever comes while it
\* runs follows it, also after a cancellation of any of them.
OneFetch ==
  \A c, d \in Callers : st[c] = "fetching" /\ st[d] = "fetching" /\ asked[c] = asked[d] => c = d

\* Nobody waits for a future that nobody is going to settle: while a follower's
\* future is pending its fetch runs, and every entry of _inflight is of a running
\* fetch, whichever caller was cancelled or failed.
NoneLeftBehind ==
  /\ \A c \in Callers : st[c] = "following" /\ future[on[c]] = "pending" => on[c] \in Running
  /\ \A k \in Keys : inflight[k] # 0 => inflight[k] \in Running

\* What a call returns comes from a fetch for its own key; and where results
\* are not kept (the head of the chain) from one that was still running when
\* the call began, so that no caller is given an outdated result.
AnswerFits ==
  \A c \in Callers : answer[c] # 0 =>
    /\ keyOf[answer[c]] = asked[c]
    /\ asked[c] \notin Memoized => answer[c] \notin over[c]
=============================================================================
