----------------------------- MODULE Interface -----------------------------
(***************************************************************************)
(* The account nonces of an AsyncSubstrateInterface, asked for through the *)
(* retries of RetryAsyncSubstrate: create_signed_extrinsic takes the next  *)
(* index from a cache that one lock protects, and its requests may fail    *)
(* over to another chain while the lock is held.                           *)
(***************************************************************************)
EXTENDS Failover

CONSTANTS
  Plans  \* what the tasks may do: see Kinds

\* "auto" signs without a nonce, "given" asks for the next index itself and passes
\* it, "estimate" is get_payment_info: it reads the index past the cache, and what
\* it signs with it (_skip_cache_update) is not submitted.
Kinds == {"auto", "given", "estimate"}

ASSUME InterfaceAssumption == Plans \subseteq [Tasks -> Kinds]

NoNonce == 0

VARIABLES
  uses,    \* what each task does
  cached,  \* _nonces of the account, or NoNonce; the account's first index is 1
  lock,    \* self._lock: its holder, or {}
  st,      \* where each task is
  nonce,   \* the nonce it has
  pooled   \* nonces of the account that the nodes have seen

nonceVars == <<cached, lock, st, nonce, pooled>>
vars == <<failoverVars, uses, nonceVars>>

Init ==
  /\ FailoverInit
  /\ uses \in Plans
  /\ cached = NoNonce
  /\ lock = {}
  /\ st = [t \in Tasks |-> "idle"]
  /\ nonce = [t \in Tasks |-> NoNonce]
  /\ pooled = {}

-----------------------------------------------------------------------------
Goto(t, place) == st' = [st EXCEPT ![t] = place]

\* account_nextIndex: after those that can be applied in a row.
NextIndex == CHOOSE n \in 1 .. Cardinality(pooled) + 1 : n \notin pooled /\ 1 .. n - 1 \subseteq pooled

Start(t) ==
  /\ st[t] = "idle"
  /\ IF uses[t] = "estimate" THEN Goto(t, "reading") /\ Request(t, 3) ELSE Goto(t, "index") /\ UNCHANGED <<call, on, depth>>
  /\ UNCHANGED <<up, sock, made, endpoint, taken, used, target, tried, cached, lock, nonce, pooled>>

\* get_account_next_index under the lock: the first one asks the chain ...
FetchIndex(t) ==
  /\ st[t] = "index" /\ lock = {} /\ cached = NoNonce
  /\ lock' = {t}
  /\ Goto(t, "fetching")
  /\ Request(t, IF uses[t] = "given" THEN 2 ELSE 3)
  /\ UNCHANGED <<up, sock, made, endpoint, taken, used, target, tried, cached, nonce, pooled>>

\* What a task does with the index: "given" passes it on to create_signed_extrinsic.
GotIndex(t, n) ==
  /\ nonce' = [nonce EXCEPT ![t] = n]
  /\ Goto(t, IF uses[t] = "given" THEN "passing" ELSE "signing")

\* ... and the others count on.
CountOn(t) ==
  /\ st[t] = "index" /\ lock = {} /\ cached # NoNonce
  /\ cached' = cached + 1
  /\ GotIndex(t, cached + 1)
  /\ UNCHANGED <<failoverVars, lock, pooled>>

\* MUTANT: the cache is filled after the lock is released.
Fetched_Unrecorded(t) ==
  /\ st[t] = "fetching"
  /\ Answered(t)
  /\ used' = [used EXCEPT ![t] = {l \in @ : l > 2}]
  /\ cached' = NoNonce
  /\ lock' = {}
  /\ GotIndex(t, NextIndex)
  /\ UNCHANGED pooled

Fetched(t) ==
  /\ st[t] = "fetching"
  /\ Answered(t)
  /\ used' = [used EXCEPT ![t] = {l \in @ : l > 2}]
  /\ cached' = NextIndex
  /\ lock' = {}
  /\ GotIndex(t, NextIndex)
  /\ UNCHANGED pooled

\* MUTANT: an estimate fills the cache.
Read_Cached(t) ==
  /\ st[t] = "reading"
  /\ Answered(t)
  /\ used' = [used EXCEPT ![t] = {}]
  /\ nonce' = [nonce EXCEPT ![t] = NextIndex]
  /\ cached' = NextIndex
  /\ Goto(t, "done")
  /\ UNCHANGED <<lock, pooled>>

\* use_cache=False: neither the cache nor the lock.
Read(t) ==
  /\ st[t] = "reading"
  /\ Answered(t)
  /\ used' = [used EXCEPT ![t] = {}]
  /\ nonce' = [nonce EXCEPT ![t] = NextIndex]
  /\ Goto(t, "done")
  /\ UNCHANGED <<cached, lock, pooled>>

\* create_signed_extrinsic with a nonce writes it to the cache.
Pass(t) ==
  /\ st[t] = "passing" /\ lock = {}
  /\ cached' = nonce[t]
  /\ Goto(t, "signing")
  /\ UNCHANGED <<failoverVars, lock, nonce, pooled>>

\* The era of the extrinsic needs the current block: a request after the nonce.
AskEra(t) ==
  /\ st[t] = "signing"
  /\ Goto(t, "era")
  /\ Request(t, 3)
  /\ UNCHANGED <<up, sock, made, endpoint, taken, used, target, tried, cached, lock, nonce, pooled>>

Sign(t) ==
  /\ st[t] = "era"
  /\ Answered(t)
  /\ used' = [used EXCEPT ![t] = {}]
  /\ Goto(t, "signed")
  /\ UNCHANGED <<cached, lock, nonce, pooled>>

Submit(t) ==
  /\ st[t] = "signed"
  /\ pooled' = pooled \cup {nonce[t]}
  /\ Goto(t, "done")
  /\ UNCHANGED <<failoverVars, cached, lock, nonce>>

\* MUTANT: an error leaves the lock taken.
Fails_Locked(t) == RequestFails(t) /\ UNCHANGED nonceVars

\* The request fails: the lock is held until its own retry has failed too.
Fails(t) ==
  /\ RequestFails(t)
  /\ lock' = IF 1 \in Unused(t) THEN lock ELSE lock \ {t}
  /\ UNCHANGED <<cached, st, nonce, pooled>>

\* After a fail-over: the request again (level 1), the method that made it (level
\* 2), or create_signed_extrinsic as a whole (level 3), which takes another nonce
\* unless it was given one.
Again(t) ==
  /\ call[t] = "ready"
  /\ Retries(t)
  /\ IF RetryLevel(t) = 1 \/ st[t] = "reading" \/ (RetryLevel(t) = 2 /\ st[t] = "era")
     THEN Request(t, depth[t]) /\ UNCHANGED st
     ELSE /\ call' = [call EXCEPT ![t] = "none"]
          /\ Goto(t, IF st[t] = "era" /\ uses[t] = "given" THEN "passing" ELSE "index")
          /\ UNCHANGED <<on, depth>>
  /\ UNCHANGED <<up, sock, made, endpoint, taken, target, tried, cached, lock, nonce, pooled>>

\* MUTANT: an error of a fail-over leaves the lock taken.
Raise_Locked(t) ==
  /\ call[t] = "raised" /\ st[t] # "failed"
  /\ Goto(t, "failed")
  /\ UNCHANGED <<failoverVars, cached, lock, nonce, pooled>>

\* The error reaches the caller; it may come from a fail-over inside the lock.
Raise(t) ==
  /\ call[t] = "raised" /\ st[t] # "failed"
  /\ lock' = lock \ {t}
  /\ Goto(t, "failed")
  /\ UNCHANGED <<failoverVars, cached, nonce, pooled>>

Step(t) ==
  \/ FetchIndex(t) \/ CountOn(t) \/ Fetched(t) \/ Read(t) \/ Pass(t) \/ AskEra(t) \/ Sign(t) \/ Submit(t)
  \/ Fails(t) \/ Again(t) \/ Raise(t)
  \/ FailsOver(t) /\ UNCHANGED nonceVars

Next ==
  \/ \E t \in Tasks : (Start(t) \/ Step(t)) /\ UNCHANGED uses
  \/ \E c \in Chains : GoesDown(c) /\ UNCHANGED <<uses, nonceVars>>

Spec == Init /\ [][Next]_vars

\* Tasks run when they can, a chain that is up answers, and the websocket's own
\* retries end.
FairSpec == Spec /\ \A t \in Tasks : WF_vars(Step(t) /\ UNCHANGED uses)

-----------------------------------------------------------------------------
TypeOK ==
  /\ FailoverTypeOK
  /\ uses \in Plans
  /\ cached \in Nat /\ lock \subseteq Tasks
  /\ st \in [Tasks -> {"idle", "index", "fetching", "reading", "passing", "signing", "era", "signed",
                       "done", "failed"}]
  /\ nonce \in [Tasks -> Nat]
  /\ pooled \subseteq Nat
  /\ \A s, t \in lock : s = t /\ st[t] = "fetching"

Signs(t) == uses[t] # "estimate" /\ st[t] \in {"signed", "done"}

\* No two extrinsics are signed with the same nonce, whatever fails over meanwhile:
\* calls that run together count on from one another.
Distinct == \A s, t \in Tasks : s # t /\ Signs(s) /\ Signs(t) => nonce[s] # nonce[t]

\* While no request has failed the nonces are taken without gaps, so that every
\* signed extrinsic can be applied.
NoGap ==
  (\A t \in Tasks : tried[t] = {} /\ (uses[t] # "estimate" => Signs(t))) =>
    {nonce[t] : t \in {t \in Tasks : Signs(t)}} = 1 .. Cardinality({t \in Tasks : Signs(t)})

\* Every call ends, signed or with an error, unless a fail-over of another task has
\* shut the websocket of some request down.
EndsUnlessCut ==
  \A t \in Tasks : st[t] # "idle" ~> (st[t] \in {"done", "failed"} \/ \E q \in Tasks : call[q] = "stranded")
=============================================================================
