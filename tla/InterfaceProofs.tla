--------------------------- MODULE InterfaceProofs ---------------------------
EXTENDS Interface, FiniteSetTheorems, TLAPS
(***************************************************************************)
(* Theorems about Interface, for every value of its constants.             *)
(***************************************************************************)
-----------------------------------------------------------------------------
(* What account_nextIndex returns.                                         *)

\* Among sets of subsets of a finite set there is one that is minimal.
LEMMA Minimal ==
  ASSUME NEW S, IsFiniteSet(S), NEW T \in SUBSET SUBSET S, T # {}
  PROVE  \E m \in T : \A u \in T : ~(u \subseteq m /\ u # m)
<1>1. IsWellFoundedOn(StrictSubsetOrdering(S), SUBSET S)
  BY FS_StrictSubsetOrderingWellFounded, FS_FiniteSubsetsOfFinite
<1>2. \E x \in T : \A y \in T : ~(<<y, x>> \in StrictSubsetOrdering(S))
  BY <1>1, WFMin
<1>. QED BY <1>2 DEF StrictSubsetOrdering

\* A finite set of numbers leaves one out, and the numbers below the first it
\* leaves out are all in it.
LEMMA NextIndexIs ==
  ASSUME IsFiniteSet(pooled)
  PROVE  /\ NextIndex \in Nat \ {0}
         /\ NextIndex \notin pooled
         /\ 1 .. NextIndex - 1 \subseteq pooled
<1>. DEFINE N == Cardinality(pooled) + 1
            Out == {n \in 1 .. N : n \notin pooled}
            T == {1 .. n : n \in Out}
<1>1. N \in Nat /\ N > Cardinality(pooled) /\ Cardinality(pooled) \in Nat
  BY FS_CardinalityType
<1>2. IsFiniteSet(1 .. N) /\ Cardinality(1 .. N) = N
  BY <1>1, FS_Interval
<1>3. ~(1 .. N \subseteq pooled)
  BY <1>1, <1>2, FS_Subset
<1>4. T # {}
  BY <1>3
<1>5. T \in SUBSET SUBSET (1 .. N)
  <2>1. \A n \in 1 .. N : 1 .. n \subseteq 1 .. N
    BY <1>1
  <2>. QED BY <2>1
<1>6. PICK m \in T : \A u \in T : ~(u \subseteq m /\ u # m)
  <2>. DEFINE S == 1 .. N
  <2>1. IsFiniteSet(S) /\ T \in SUBSET SUBSET S
    BY <1>2, <1>5
  <2>. HIDE DEF S, T
  <2>. QED BY <1>4, <2>1, Minimal
<1>7. PICK n \in Out : m = 1 .. n
  BY <1>6
<1>8. ASSUME NEW j \in 1 .. n - 1 PROVE j \in pooled
  <2>1. j \in 1 .. N /\ j < n /\ n \in Nat
    BY <1>1
  <2>2. 1 .. j \subseteq 1 .. n /\ n \in 1 .. n /\ n \notin 1 .. j
    BY <2>1
  <2>3. j \in Out => 1 .. j \in T
    OBVIOUS
  <2>. HIDE DEF T
  <2>4. j \notin Out
    BY <1>6, <1>7, <2>2, <2>3
  <2>. QED BY <2>1, <2>4
<1>9. n \in 1 .. Cardinality(pooled) + 1 /\ n \notin pooled /\ 1 .. n - 1 \subseteq pooled
  BY <1>8
<1>10. /\ NextIndex \in 1 .. Cardinality(pooled) + 1
       /\ NextIndex \notin pooled /\ 1 .. NextIndex - 1 \subseteq pooled
  <2>. HIDE DEF N, Out
  <2>. QED BY <1>9 DEF NextIndex
<1>. QED BY <1>1, <1>10

\* The level that retries is the innermost of those that have not.
LEMMA RetryLevelIs ==
  ASSUME NEW t \in Tasks, depth[t] \in 1 .. 3, Unused(t) # {}
  PROVE  RetryLevel(t) \in Unused(t) /\ (RetryLevel(t) = 1 <=> 1 \in Unused(t)) /\ RetryLevel(t) \in 1 .. 3
<1>1. Unused(t) \subseteq 1 .. depth[t] /\ Unused(t) \subseteq 1 .. 3
  BY DEF Unused
<1>2. \E l \in Unused(t) : \A m \in Unused(t) : l <= m
  <2>1. CASE 1 \in Unused(t)
    BY <1>1, <2>1
  <2>2. CASE 1 \notin Unused(t) /\ 2 \in Unused(t)
    BY <1>1, <2>2
  <2>3. CASE 1 \notin Unused(t) /\ 2 \notin Unused(t)
    BY <1>1, <2>3
  <2>. QED BY <2>1, <2>2, <2>3
<1>3. RetryLevel(t) \in Unused(t) /\ \A m \in Unused(t) : RetryLevel(t) <= m
  BY <1>2 DEF RetryLevel
<1>. QED BY <1>1, <1>3

-----------------------------------------------------------------------------
(* Type correctness.                                                       *)

USE DEF TypeOK, FailoverTypeOK, failoverVars, callVars, nonceVars, Goto, NoNonce, Chains, Sockets

\* What the nodes have seen is finite, so that there is a next index.
TypeInv == TypeOK /\ IsFiniteSet(pooled)

\* What a task's call is about, and which failures it has had.
Failing == {"failing", "closing", "closed", "ready"}

CallInv ==
  \A t \in Tasks :
    /\ call[t] # "none" => st[t] \in {"fetching", "reading", "era", "failed"}
    /\ st[t] = "failed" => call[t] = "raised"
    /\ call[t] \in Failing => Unused(t) # {}
    /\ call[t] \in Failing \cup {"raised"} => tried[t] # {}
    /\ uses[t] = "estimate" => st[t] \in {"idle", "reading", "done", "failed"}
    /\ st[t] = "reading" => uses[t] = "estimate"
    /\ st[t] = "passing" => uses[t] = "given"

\* The lock is held while the first index is fetched, as long as the request can
\* be made again inside it.
LockInv ==
  \A t \in Tasks :
    /\ st[t] = "fetching" /\ call[t] = "sent" => t \in lock
    /\ st[t] = "fetching" /\ call[t] \in Failing => (t \in lock <=> 1 \in Unused(t))
    /\ t \in lock => cached = NoNonce

BaseInv == TypeInv /\ CallInv /\ LockInv

LEMMA FollowingType == taken \in Nat => Following \in Chains
BY FailoverAssumption DEF Following

\* Making a request.
LEMMA RequestType ==
  ASSUME TypeOK, NEW t \in Tasks, NEW d, d \in 1 .. 3, Request(t, d)
  PROVE  /\ call' = [call EXCEPT ![t] = "sent"] /\ depth' = [depth EXCEPT ![t] = d]
         /\ call' \in [Tasks -> {"none", "sent", "failing", "closing", "closed", "ready", "stranded", "raised"}]
         /\ on' \in [Tasks -> Sockets]
         /\ depth' \in [Tasks -> 1 .. 3]
<1>1. sock \in Sockets
  BY FailoverAssumption
<1>. QED BY <1>1 DEF Request

LEMMA InitBase == Init => BaseInv
<1>. SUFFICES ASSUME Init PROVE BaseInv
  OBVIOUS
<1>1. TypeOK
  BY FailoverAssumption DEF Init, FailoverInit
<1>2. IsFiniteSet(pooled)
  BY FS_EmptySet DEF Init
<1>. QED BY <1>1, <1>2 DEF BaseInv, TypeInv, CallInv, LockInv, Failing, Init, FailoverInit

\* A request goes out with what the task is about.
LEMMA StartBase ==
  ASSUME BaseInv, NEW t \in Tasks, Start(t), UNCHANGED uses
  PROVE  BaseInv'
<1>. USE DEF BaseInv, TypeInv
<1>1. /\ st[t] = "idle" /\ UNCHANGED <<up, sock, made, endpoint, taken, used, target, tried, cached, lock, nonce, pooled>>
      /\ call[t] = "none" /\ t \notin lock
  BY DEF Start, CallInv
<1>2. CASE uses[t] = "estimate" /\ st' = [st EXCEPT ![t] = "reading"] /\ Request(t, 3)
  <2>1. /\ call' = [call EXCEPT ![t] = "sent"] /\ depth' = [depth EXCEPT ![t] = 3]
        /\ call' \in [Tasks -> {"none", "sent", "failing", "closing", "closed", "ready", "stranded", "raised"}]
        /\ on' \in [Tasks -> Sockets] /\ depth' \in [Tasks -> 1 .. 3]
    <3>1. 3 \in 1 .. 3
      OBVIOUS
    <3>. QED BY <1>2, <3>1, RequestType
  <2>2. TypeInv'
    BY <1>1, <1>2, <2>1
  <2>3. CallInv'
    BY <1>1, <1>2, <2>1, SMTT(40) DEF CallInv, Unused, Failing
  <2>4. LockInv'
    BY <1>1, <1>2, <2>1 DEF LockInv, Unused, Failing
  <2>. QED BY <2>2, <2>3, <2>4
<1>3. CASE uses[t] # "estimate" /\ st' = [st EXCEPT ![t] = "index"] /\ UNCHANGED <<call, on, depth>>
  <2>1. TypeInv'
    BY <1>1, <1>3
  <2>2. CallInv' /\ LockInv'
    BY <1>1, <1>3 DEF CallInv, LockInv, Unused, Failing
  <2>. QED BY <2>1, <2>2
<1>. QED BY <1>2, <1>3 DEF Start

LEMMA IndexBase ==
  ASSUME BaseInv, NEW t \in Tasks, FetchIndex(t) \/ CountOn(t), UNCHANGED uses
  PROVE  BaseInv'
<1>. USE DEF BaseInv, TypeInv
<1>0. uses[t] \in Kinds
  BY InterfaceAssumption
<1>1. CASE FetchIndex(t)
  <2>0. PICK d \in 1 .. 3 : Request(t, d)
    BY <1>1 DEF FetchIndex
  <2>a. /\ call' \in [Tasks -> {"none", "sent", "failing", "closing", "closed", "ready", "stranded", "raised"}]
        /\ on' \in [Tasks -> Sockets] /\ depth' \in [Tasks -> 1 .. 3]
    BY <2>0, RequestType
  <2>1. TypeInv'
    BY <1>1, <2>a DEF FetchIndex
  <2>2. CallInv'
    BY <1>1 DEF FetchIndex, Request, CallInv, Unused, Failing
  <2>3. LockInv'
    BY <1>1 DEF FetchIndex, Request, LockInv, Unused, Failing
  <2>. QED BY <2>1, <2>2, <2>3
<1>2. CASE CountOn(t)
  <2>1. TypeInv'
    BY <1>2 DEF CountOn, GotIndex
  <2>2. CallInv'
    BY <1>0, <1>2 DEF CountOn, GotIndex, CallInv, Unused, Failing
  <2>3. LockInv'
    BY <1>2 DEF CountOn, GotIndex, LockInv, Unused, Failing
  <2>. QED BY <2>1, <2>2, <2>3
<1>. QED BY <1>1, <1>2

LEMMA AnswerBase ==
  ASSUME BaseInv, NEW t \in Tasks, Fetched(t) \/ Read(t) \/ Sign(t), UNCHANGED uses
  PROVE  BaseInv'
<1>. USE DEF BaseInv, TypeInv
<1>0. NextIndex \in Nat \ {0}
  BY NextIndexIs
<1>1. CASE Fetched(t)
  <2>1. TypeInv'
    BY <1>0, <1>1 DEF Fetched, Answered, GotIndex
  <2>2. CallInv'
    BY <1>1 DEF Fetched, Answered, GotIndex, CallInv, Unused, Failing
  <2>3. LockInv'
    BY <1>1 DEF Fetched, Answered, GotIndex, LockInv, Unused, Failing
  <2>. QED BY <2>1, <2>2, <2>3
<1>2. CASE Read(t)
  <2>1. TypeInv'
    BY <1>0, <1>2 DEF Read, Answered
  <2>2. CallInv'
    BY <1>2 DEF Read, Answered, CallInv, Unused, Failing
  <2>3. LockInv'
    BY <1>2 DEF Read, Answered, LockInv, Unused, Failing
  <2>. QED BY <2>1, <2>2, <2>3
<1>3. CASE Sign(t)
  <2>1. TypeInv'
    BY <1>3 DEF Sign, Answered
  <2>2. CallInv'
    BY <1>3 DEF Sign, Answered, CallInv, Unused, Failing
  <2>3. LockInv'
    BY <1>3 DEF Sign, Answered, LockInv, Unused, Failing
  <2>. QED BY <2>1, <2>2, <2>3
<1>. QED BY <1>1, <1>2, <1>3

LEMMA SignBase ==
  ASSUME BaseInv, NEW t \in Tasks, Pass(t) \/ AskEra(t) \/ Submit(t), UNCHANGED uses
  PROVE  BaseInv'
<1>. USE DEF BaseInv, TypeInv
<1>1. CASE Pass(t)
  <2>1. TypeInv'
    BY <1>1 DEF Pass
  <2>2. CallInv'
    BY <1>1 DEF Pass, CallInv, Unused, Failing
  <2>3. LockInv'
    BY <1>1 DEF Pass, LockInv, Unused, Failing
  <2>. QED BY <2>1, <2>2, <2>3
<1>2. CASE AskEra(t)
  <2>0. 3 \in 1 .. 3 /\ Request(t, 3)
    BY <1>2 DEF AskEra
  <2>a. /\ call' \in [Tasks -> {"none", "sent", "failing", "closing", "closed", "ready", "stranded", "raised"}]
        /\ on' \in [Tasks -> Sockets] /\ depth' \in [Tasks -> 1 .. 3]
    BY <2>0, RequestType
  <2>1. TypeInv'
    BY <1>2, <2>a DEF AskEra
  <2>2. CallInv'
    BY <1>2 DEF AskEra, Request, CallInv, Unused, Failing
  <2>3. LockInv'
    BY <1>2 DEF AskEra, Request, LockInv, Unused, Failing
  <2>. QED BY <2>1, <2>2, <2>3
<1>3. CASE Submit(t)
  <2>1. TypeOK'
    <3>1. nonce[t] \in Nat
      OBVIOUS
    <3>2. pooled' \subseteq Nat
      BY <1>3, <3>1 DEF Submit
    <3>. QED BY <1>3, <3>2 DEF Submit
  <2>2. IsFiniteSet(pooled')
    BY <1>3, FS_AddElement DEF Submit
  <2>3. CallInv'
    BY <1>3 DEF Submit, CallInv, Unused, Failing
  <2>4. LockInv'
    BY <1>3 DEF Submit, LockInv, Unused, Failing
  <2>. QED BY <2>1, <2>2, <2>3, <2>4
<1>. QED BY <1>1, <1>2, <1>3

LEMMA FailBase ==
  ASSUME BaseInv, NEW t \in Tasks, Fails(t) \/ Raise(t), UNCHANGED uses
  PROVE  BaseInv'
<1>. USE DEF BaseInv, TypeInv
<1>1. CASE Fails(t)
  <2>1. TypeInv'
    BY <1>1 DEF Fails, RequestFails
  <2>2. CallInv'
    <3>1. /\ call[t] = "sent" /\ tried' = [tried EXCEPT ![t] = @ \cup {endpoint[on[t]]}]
          /\ call' = [call EXCEPT ![t] = IF Unused(t) = {} THEN "raised" ELSE "failing"]
          /\ UNCHANGED <<depth, used, st, uses>>
      BY <1>1 DEF Fails, RequestFails
    <3>2. \A q \in Tasks : Unused(q)' = Unused(q)
      BY <3>1 DEF Unused
    <3>3. st[t] \in {"fetching", "reading", "era"}
      BY <3>1 DEF CallInv
    <3>4. \A q \in Tasks : tried[q] # {} => tried'[q] # {}
      BY <3>1
    <3>5. tried'[t] # {}
      BY <3>1
    <3>. QED BY <3>1, <3>2, <3>3, <3>4, <3>5 DEF CallInv, Failing
  <2>3. LockInv'
    BY <1>1 DEF Fails, RequestFails, LockInv, Unused, Failing
  <2>. QED BY <2>1, <2>2, <2>3
<1>2. CASE Raise(t)
  <2>1. TypeInv'
    BY <1>2 DEF Raise
  <2>2. CallInv'
    BY <1>2 DEF Raise, CallInv, Unused, Failing
  <2>3. LockInv'
    BY <1>2 DEF Raise, LockInv, Unused, Failing
  <2>. QED BY <2>1, <2>2, <2>3
<1>. QED BY <1>1, <1>2

LEMMA AgainBase ==
  ASSUME BaseInv, NEW t \in Tasks, Again(t), UNCHANGED uses
  PROVE  BaseInv'
<1>. USE DEF BaseInv, TypeInv
<1>1. call[t] = "ready" /\ Unused(t) # {} /\ st[t] \in {"fetching", "reading", "era"}
  BY DEF Again, CallInv, Failing
<1>2. RetryLevel(t) \in Unused(t) /\ (RetryLevel(t) = 1 <=> 1 \in Unused(t)) /\ RetryLevel(t) \in 1 .. 3
  BY <1>1, RetryLevelIs
<1>3. \A q \in Tasks \ {t} : UNCHANGED <<used[q], depth[q], call[q], st[q]>>
  BY DEF Again, Retries, Request
<1>4. used' \in [Tasks -> SUBSET (1 .. 3)] /\ UNCHANGED <<up, sock, made, endpoint, taken, target, tried, cached, lock, nonce, pooled>>
  BY <1>2 DEF Again, Retries
<1>5. \/ Request(t, depth[t]) /\ UNCHANGED st /\ (RetryLevel(t) = 1 \/ st[t] \in {"reading", "era"})
      \/ /\ RetryLevel(t) # 1 /\ st[t] \in {"fetching", "era"} /\ call' = [call EXCEPT ![t] = "none"] /\ UNCHANGED <<on, depth>>
         /\ \/ st' = [st EXCEPT ![t] = "passing"] /\ uses[t] = "given" /\ st[t] = "era"
            \/ st' = [st EXCEPT ![t] = "index"]
  BY <1>1 DEF Again
<1>6. RetryLevel(t) # 1 /\ st[t] = "fetching" => t \notin lock
  BY <1>1, <1>2 DEF LockInv, Failing
<1>7. \A q \in Tasks \ {t} : Unused(q)' = Unused(q)
  BY <1>3 DEF Unused
<1>8. CASE Request(t, depth[t]) /\ UNCHANGED st /\ (RetryLevel(t) = 1 \/ st[t] \in {"reading", "era"})
  <2>1. /\ call' = [call EXCEPT ![t] = "sent"]
        /\ call' \in [Tasks -> {"none", "sent", "failing", "closing", "closed", "ready", "stranded", "raised"}]
        /\ on' \in [Tasks -> Sockets] /\ depth' \in [Tasks -> 1 .. 3]
    BY <1>8, RequestType
  <2>2. TypeInv'
    BY <1>4, <1>8, <2>1
  <2>3. CallInv'
    BY <1>1, <1>4, <1>7, <1>8, <2>1, SMTT(40) DEF CallInv, Failing
  <2>4. LockInv'
    BY <1>1, <1>2, <1>4, <1>7, <1>8, <2>1, SMTT(40) DEF LockInv, Failing
  <2>. QED BY <2>2, <2>3, <2>4
<1>9. CASE /\ RetryLevel(t) # 1 /\ st[t] \in {"fetching", "era"} /\ call' = [call EXCEPT ![t] = "none"] /\ UNCHANGED <<on, depth>>
           /\ \/ st' = [st EXCEPT ![t] = "passing"] /\ uses[t] = "given" /\ st[t] = "era"
              \/ st' = [st EXCEPT ![t] = "index"]
  <2>1. t \notin lock
    BY <1>6, <1>9
  <2>2. TypeInv'
    BY <1>4, <1>9, <2>1
  <2>3. CallInv'
    BY <1>1, <1>4, <1>7, <1>9, SMTT(40) DEF CallInv, Failing
  <2>4. LockInv'
    BY <1>4, <1>7, <1>9, <2>1, SMTT(40) DEF LockInv, Failing
  <2>. QED BY <2>2, <2>3, <2>4
<1>. QED BY <1>5, <1>8, <1>9

LEMMA FailsOverBase ==
  ASSUME BaseInv, NEW t \in Tasks, FailsOver(t), UNCHANGED <<uses, nonceVars>>
  PROVE  BaseInv'
<1>. USE DEF BaseInv, TypeInv
<1>1. CASE NextChain(t)
  <2>1. TypeInv'
    <3>1. Following \in Chains
      BY FollowingType
    <3>. HIDE DEF Chains
    <3>2. UNCHANGED <<up, sock, made, endpoint, on, depth, used, tried>>
      BY <1>1 DEF NextChain
    <3>3. taken' \in Nat /\ target' \in [Tasks -> Chains]
      <4>1. \/ UNCHANGED <<taken, target>>
            \/ taken' = taken + 1 /\ target' = [target EXCEPT ![t] = Following]
        BY <1>1 DEF NextChain
      <4>2. taken \in Nat /\ target \in [Tasks -> Chains]
        OBVIOUS
      <4>3. taken' \in Nat
        BY <4>1, <4>2
      <4>. HIDE DEF TypeOK
      <4>4. target' \in [Tasks -> Chains]
        BY <3>1, <4>1, <4>2
      <4>. QED BY <4>3, <4>4
    <3>4. call' \in [Tasks -> {"none", "sent", "failing", "closing", "closed", "ready", "stranded", "raised"}]
      <4>1. call' = call \/ \E x \in {"closing", "raised"} : call' = [call EXCEPT ![t] = x]
        BY <1>1 DEF NextChain
      <4>2. call \in [Tasks -> {"none", "sent", "failing", "closing", "closed", "ready", "stranded", "raised"}]
        OBVIOUS
      <4>. HIDE DEF TypeOK
      <4>. QED BY <4>1, <4>2
    <3>. QED BY <3>2, <3>3, <3>4
  <2>2. CallInv'
    BY <1>1, SMTT(40) DEF NextChain, CallInv, Unused, Failing
  <2>3. LockInv'
    BY <1>1, SMTT(40) DEF NextChain, LockInv, Unused, Failing
  <2>. QED BY <2>1, <2>2, <2>3
<1>2. CASE Shutdown(t)
  <2>1. TypeInv'
    BY <1>2 DEF Shutdown
  <2>2. CallInv'
    BY <1>2, SMTT(40) DEF Shutdown, CutOff, CallInv, Unused, Failing
  <2>3. LockInv'
    BY <1>2, SMTT(40) DEF Shutdown, CutOff, LockInv, Unused, Failing
  <2>. QED BY <2>1, <2>2, <2>3
<1>3. CASE Replace(t)
  <2>1. TypeInv'
    <3>1. target[t] \in Chains
      OBVIOUS
    <3>2. made' \in Sockets /\ sock' \in 1 .. made'
      BY <1>3, FailoverAssumption DEF Replace
    <3>3. endpoint' \in [Sockets -> Chains]
      BY <1>3, <3>1 DEF Replace
    <3>. QED BY <1>3, <3>2, <3>3 DEF Replace
  <2>2. CallInv' /\ LockInv'
    BY <1>3 DEF Replace, CallInv, LockInv, Unused, Failing
  <2>. QED BY <2>1, <2>2
<1>. QED BY <1>1, <1>2, <1>3 DEF FailsOver

LEMMA QuietBase ==
  ASSUME BaseInv, UNCHANGED <<uses, nonceVars, sock, made, endpoint, taken, callVars>>, up' \subseteq up
  PROVE  BaseInv'
BY DEF BaseInv, TypeInv, CallInv, LockInv, Unused

LEMMA NextBase ==
  ASSUME BaseInv, [Next]_vars
  PROVE  BaseInv'
<1>1. ASSUME NEW t \in Tasks, Start(t) \/ Step(t), UNCHANGED uses PROVE BaseInv'
  BY <1>1, StartBase, IndexBase, AnswerBase, SignBase, FailBase, AgainBase, FailsOverBase DEF Step
<1>2. ASSUME NEW c \in Chains, GoesDown(c), UNCHANGED <<uses, nonceVars>> PROVE BaseInv'
  BY <1>2, QuietBase DEF GoesDown
<1>3. CASE UNCHANGED vars
  BY <1>3, QuietBase DEF vars
<1>. QED BY <1>1, <1>2, <1>3 DEF Next

\* Every variable keeps the type of what it models; who holds the nonce lock is
\* alone with it and is fetching the account's first index.
THEOREM TypeCorrect == Spec => []TypeOK
<1>1. BaseInv => TypeOK
  BY DEF BaseInv, TypeInv
<1>. QED BY <1>1, InitBase, NextBase, PTL DEF Spec

-----------------------------------------------------------------------------
(* The nonces of the extrinsics being signed.                              *)

Signers == {t \in Tasks : uses[t] # "estimate"}

\* Those that have a nonce to sign with.
Got == {t \in Signers : st[t] \in {"passing", "signing", "era", "signed", "done"}}

\* A call that passes its nonce on writes it to the cache again, where it may be
\* behind: with two other signers one of them would then count on from it.
Apart ==
  \A p \in Plans :
    \/ \A t \in Tasks : p[t] # "given"
    \/ \A r, s, t \in Tasks : p[r] # "estimate" /\ p[s] # "estimate" /\ p[t] # "estimate" => r = s \/ s = t \/ r = t

\* No signer that may still count on from the cache would find a nonce that
\* another one has.
CacheInv ==
  /\ \A t \in Got : cached # NoNonce /\ nonce[t] # NoNonce
  /\ pooled # {} => cached # NoNonce
  /\ \A s, t \in Signers : s # t /\ s \in Got /\ (uses[t] = "auto" \/ st[t] \in {"idle", "index", "fetching"})
                             => nonce[s] <= cached

NoncesApart == \A s, t \in Got : s # t => nonce[s] # nonce[t]

NonceInv == BaseInv /\ CacheInv /\ NoncesApart

LEMMA InitNonces == Init => CacheInv /\ NoncesApart
BY DEF Init, CacheInv, NoncesApart, Got, Signers

\* Nobody gets a nonce, and the cache keeps its value.
LEMMA NoncesQuiet ==
  ASSUME NonceInv, UNCHANGED <<uses, cached, nonce>>,
         Got' \subseteq Got,
         pooled' # {} => pooled # {} \/ Got # {},
         \A t \in Signers : uses[t] = "auto" \/ st'[t] \notin {"idle", "index", "fetching"} \/ st[t] \in {"idle", "index", "fetching"}
  PROVE  CacheInv' /\ NoncesApart'
<1>1. Signers' = Signers
  BY DEF Signers
<1>2. \A t \in Got' : cached' # NoNonce /\ nonce'[t] # NoNonce
  BY DEF NonceInv, CacheInv
<1>3. pooled' # {} => cached' # NoNonce
  BY DEF NonceInv, CacheInv
<1>4. \A s, t \in Signers : s # t /\ s \in Got' /\ (uses[t] = "auto" \/ st'[t] \in {"idle", "index", "fetching"})
                             => nonce'[s] <= cached'
  BY DEF NonceInv, CacheInv
<1>5. NoncesApart'
  BY DEF NonceInv, NoncesApart
<1>. QED BY <1>1, <1>2, <1>3, <1>4, <1>5 DEF CacheInv

\* A signer takes a nonce that is above those of the others.
LEMMA NonceTaken ==
  ASSUME NonceInv, UNCHANGED <<uses, pooled>>, NEW t \in Signers, NEW n \in Nat \ {0},
         \A s \in Got \ {t} : nonce[s] < n,
         cached' = n, nonce' = [nonce EXCEPT ![t] = n],
         Got' = Got \cup {t},
         \A s \in Signers \ {t} : st'[s] = st[s]
  PROVE  CacheInv' /\ NoncesApart'
<1>. USE DEF NonceInv, BaseInv, TypeInv
<1>0. Signers' = Signers /\ Got \subseteq Tasks /\ t \in Tasks
  BY DEF Signers, Got
<1>1. nonce'[t] = n /\ \A s \in Got \ {t} : nonce'[s] = nonce[s] /\ nonce[s] \in Nat
  BY <1>0
<1>. HIDE DEF TypeOK
<1>2. \A s \in Got' : cached' # NoNonce /\ nonce'[s] # NoNonce
  BY <1>1 DEF CacheInv
<1>3. \A s \in Got' : nonce'[s] <= cached'
  BY <1>1
<1>4. NoncesApart'
  BY <1>1 DEF NoncesApart
<1>. QED BY <1>0, <1>2, <1>3, <1>4 DEF CacheInv

LEMMA CountOnNonces ==
  ASSUME NonceInv, NEW t \in Tasks, CountOn(t), UNCHANGED uses
  PROVE  CacheInv' /\ NoncesApart'
<1>. USE DEF NonceInv, BaseInv, TypeInv
<1>1. /\ st[t] = "index" /\ cached' = cached + 1 /\ nonce' = [nonce EXCEPT ![t] = cached + 1] /\ pooled' = pooled
      /\ \E where \in {"passing", "signing"} : st' = [st EXCEPT ![t] = where]
  BY DEF CountOn, GotIndex
<1>2. t \in Signers /\ t \notin Got
  BY <1>1 DEF Signers, Got, CallInv
<1>3. Got' = Got \cup {t} /\ \A s \in Signers \ {t} : st'[s] = st[s]
  BY <1>1, <1>2 DEF Got, Signers
<1>4. \A s \in Got \ {t} : nonce[s] < cached + 1
  <2>1. ASSUME NEW s \in Got \ {t} PROVE nonce[s] < cached + 1
    <3>1. s \in Signers /\ s \in Tasks
      BY DEF Got, Signers
    <3>2. nonce[s] <= cached
      BY <1>1, <1>2, <3>1 DEF CacheInv
    <3>3. nonce[s] \in Nat /\ cached \in Nat
      BY <3>1
    <3>. QED BY <3>2, <3>3
  <2>. QED BY <2>1
<1>5. cached + 1 \in Nat \ {0}
  OBVIOUS
<1>. QED BY <1>1, <1>2, <1>3, <1>4, <1>5, NonceTaken

\* The first index is fetched when nobody has one and nothing was submitted.
LEMMA FetchedNonces ==
  ASSUME NonceInv, NEW t \in Tasks, Fetched(t), UNCHANGED uses
  PROVE  CacheInv' /\ NoncesApart' /\ NextIndex = 1 /\ Got = {} /\ t \in Signers
<1>. USE DEF NonceInv, BaseInv, TypeInv
<1>1. /\ st[t] = "fetching" /\ call[t] = "sent" /\ cached' = NextIndex /\ nonce' = [nonce EXCEPT ![t] = NextIndex] /\ pooled' = pooled
      /\ \E where \in {"passing", "signing"} : st' = [st EXCEPT ![t] = where]
  BY DEF Fetched, Answered, GotIndex
<1>2. cached = NoNonce
  BY <1>1 DEF LockInv
<1>3. Got = {} /\ pooled = {}
  BY <1>2 DEF CacheInv
<1>4. t \in Signers
  BY <1>1 DEF Signers, CallInv
<1>5. Got' = Got \cup {t} /\ \A s \in Signers \ {t} : st'[s] = st[s]
  BY <1>1, <1>4 DEF Got, Signers
<1>6. NextIndex \in Nat \ {0} /\ 1 .. NextIndex - 1 \subseteq pooled
  BY NextIndexIs
<1>7. NextIndex = 1
  <2>1. NextIndex > 1 => 1 \in 1 .. NextIndex - 1
    BY <1>6
  <2>2. ~(NextIndex > 1)
    BY <1>3, <1>6, <2>1
  <2>. QED BY <1>6, <2>2
<1>. QED BY <1>1, <1>3, <1>4, <1>5, <1>6, <1>7, NonceTaken

\* What is passed on was the task's own nonce.
LEMMA PassNonces ==
  ASSUME Apart, NonceInv, NEW t \in Tasks, Pass(t), UNCHANGED uses
  PROVE  CacheInv' /\ NoncesApart'
<1>. USE DEF NonceInv, BaseInv, TypeInv
<1>1. /\ st[t] = "passing" /\ cached' = nonce[t] /\ st' = [st EXCEPT ![t] = "signing"] /\ UNCHANGED <<nonce, pooled>>
  BY DEF Pass
<1>2. uses[t] = "given" /\ t \in Signers /\ t \in Got
  BY <1>1 DEF CallInv, Signers, Got
<1>3. Got' = Got /\ Signers' = Signers
  BY <1>1, <1>2 DEF Got, Signers
<1>4. \A r, s \in Signers : r = s \/ r = t \/ s = t
  BY <1>2 DEF Apart, Signers
<1>5. nonce[t] # NoNonce /\ nonce[t] \in Nat
  BY <1>2 DEF CacheInv
<1>6. \A s, r \in Signers : s # r /\ s \in Got' /\ (uses[r] = "auto" \/ st'[r] \in {"idle", "index", "fetching"})
                             => nonce'[s] <= cached'
  <2>. SUFFICES ASSUME NEW s \in Signers, NEW r \in Signers, s # r, uses[r] = "auto" \/ st'[r] \in {"idle", "index", "fetching"}
                PROVE  nonce'[s] <= cached'
    OBVIOUS
  <2>1. r # t
    BY <1>1, <1>2
  <2>2. s = t
    BY <1>4, <2>1
  <2>. QED BY <1>1, <1>5, <2>2
<1>7. CacheInv'
  BY <1>1, <1>3, <1>5, <1>6 DEF CacheInv
<1>8. NoncesApart'
  BY <1>1, <1>3 DEF NoncesApart
<1>. QED BY <1>7, <1>8

LEMMA OtherNonces ==
  ASSUME NonceInv, NEW t \in Tasks, UNCHANGED uses,
         \/ Start(t) \/ FetchIndex(t) \/ Read(t) \/ AskEra(t) \/ Sign(t) \/ Submit(t)
         \/ Fails(t) \/ Again(t) \/ Raise(t)
         \/ FailsOver(t) /\ UNCHANGED nonceVars
  PROVE  CacheInv' /\ NoncesApart'
<1>. USE DEF NonceInv, BaseInv, TypeInv
<1>1. CASE Read(t)
  <2>1. /\ st[t] = "reading" /\ st' = [st EXCEPT ![t] = "done"] /\ UNCHANGED <<cached, pooled>>
        /\ \A s \in Tasks \ {t} : nonce'[s] = nonce[s]
    BY <1>1 DEF Read
  <2>2. t \notin Signers
    BY <2>1 DEF CallInv, Signers
  <2>3. Signers' = Signers /\ Got' = Got /\ \A s \in Signers : nonce'[s] = nonce[s] /\ st'[s] = st[s]
    BY <2>1, <2>2 DEF Signers, Got
  <2>4. Got \subseteq Signers
    BY DEF Got
  <2>. HIDE DEF TypeOK
  <2>5. NoncesApart'
    BY <2>3, <2>4 DEF NoncesApart
  <2>6. CacheInv'
    BY <2>1, <2>3, <2>4 DEF CacheInv
  <2>. QED BY <2>5, <2>6
<1>2. CASE Start(t) \/ FetchIndex(t) \/ AskEra(t) \/ Sign(t) \/ Submit(t) \/ Raise(t)
  <2>1. /\ UNCHANGED <<cached, nonce>>
        /\ \/ st[t] = "idle" /\ uses[t] # "estimate" /\ st' = [st EXCEPT ![t] = "index"] /\ UNCHANGED pooled
           \/ uses[t] = "estimate" /\ st[t] = "idle" /\ st' = [st EXCEPT ![t] = "reading"] /\ UNCHANGED pooled
           \/ st[t] = "index" /\ st' = [st EXCEPT ![t] = "fetching"] /\ UNCHANGED pooled
           \/ st[t] = "signing" /\ st' = [st EXCEPT ![t] = "era"] /\ UNCHANGED pooled
           \/ st[t] = "era" /\ st' = [st EXCEPT ![t] = "signed"] /\ UNCHANGED pooled
           \/ st[t] = "signed" /\ st' = [st EXCEPT ![t] = "done"] 
           \/ st' = [st EXCEPT ![t] = "failed"] /\ UNCHANGED pooled
    BY <1>2 DEF Start, FetchIndex, AskEra, Sign, Submit, Raise
  <2>2. Got' \subseteq Got
    BY <2>1 DEF Got, Signers
  <2>3. pooled' # {} => pooled # {} \/ Got # {}
    BY <2>1 DEF Got, Signers, CallInv
  <2>4. \A s \in Signers : uses[s] = "auto" \/ st'[s] \notin {"idle", "index", "fetching"} \/ st[s] \in {"idle", "index", "fetching"}
    BY <2>1 DEF Signers
  <2>. QED BY <2>1, <2>2, <2>3, <2>4, NoncesQuiet
<1>3. CASE Again(t)
  <2>1. UNCHANGED <<cached, nonce, pooled>> /\ st[t] \in {"fetching", "reading", "era"}
    BY <1>3 DEF Again, CallInv
  <2>2. \/ UNCHANGED st
        \/ st[t] = "era" /\ uses[t] = "given" /\ st' = [st EXCEPT ![t] = "passing"]
        \/ ~(st[t] = "era" /\ uses[t] = "given") /\ st' = [st EXCEPT ![t] = "index"]
    BY <1>3 DEF Again
  <2>3. uses[t] \in Kinds
    BY InterfaceAssumption
  <2>4. Got' \subseteq Got
    BY <2>1, <2>2 DEF Got, Signers
  <2>5. \A s \in Signers : uses[s] = "auto" \/ st'[s] \notin {"idle", "index", "fetching"} \/ st[s] \in {"idle", "index", "fetching"}
    BY <2>1, <2>2, <2>3 DEF Signers, Kinds, CallInv
  <2>. QED BY <2>1, <2>4, <2>5, NoncesQuiet
<1>4. CASE Fails(t) \/ (FailsOver(t) /\ UNCHANGED nonceVars)
  <2>1. UNCHANGED <<cached, nonce, pooled, st>>
    BY <1>4 DEF Fails
  <2>2. Got' = Got
    BY <2>1 DEF Got, Signers
  <2>. QED BY <2>1, <2>2, NoncesQuiet
<1>. QED BY <1>1, <1>2, <1>3, <1>4

LEMMA NextNonces ==
  ASSUME Apart, NonceInv, [Next]_vars
  PROVE  NonceInv'
<1>. USE DEF NonceInv
<1>0. BaseInv'
  BY NextBase
<1>1. ASSUME NEW t \in Tasks, Start(t) \/ Step(t), UNCHANGED uses PROVE CacheInv' /\ NoncesApart'
  <2>. HIDE DEF TypeOK, NonceInv
  <2>1. CASE CountOn(t)
    BY <1>1, <2>1, CountOnNonces
  <2>2. CASE Fetched(t)
    BY <1>1, <2>2, FetchedNonces
  <2>3. CASE Pass(t)
    BY <1>1, <2>3, PassNonces
  <2>4. CASE \/ Start(t) \/ FetchIndex(t) \/ Read(t) \/ AskEra(t) \/ Sign(t) \/ Submit(t)
             \/ Fails(t) \/ Again(t) \/ Raise(t)
             \/ FailsOver(t) /\ UNCHANGED nonceVars
    BY <1>1, <2>4, OtherNonces
  <2>5. \/ CountOn(t) \/ Fetched(t) \/ Pass(t)
        \/ Start(t) \/ FetchIndex(t) \/ Read(t) \/ AskEra(t) \/ Sign(t) \/ Submit(t)
        \/ Fails(t) \/ Again(t) \/ Raise(t)
        \/ FailsOver(t) /\ UNCHANGED nonceVars
    BY <1>1 DEF Step
  <2>. QED BY <2>1, <2>2, <2>3, <2>4, <2>5
<1>2. ASSUME UNCHANGED <<uses, nonceVars>> PROVE CacheInv' /\ NoncesApart'
  <2>1. Got' = Got
    BY <1>2 DEF Got, Signers
  <2>2. Signers \subseteq Tasks
    BY DEF Signers
  <2>. HIDE DEF NonceInv
  <2>. QED BY <1>2, <2>1, <2>2, NoncesQuiet
<1>. QED BY <1>0, <1>1, <1>2 DEF Next, vars

\* Extrinsics that are signed together have nonces of their own, through any
\* failures and fail-overs, as long as no nonce is passed in while two other
\* calls sign.
THEOREM NoncesDistinct ==
  ASSUME Apart
  PROVE  Spec => []Distinct
<1>1. Init => NonceInv
  BY InitBase, InitNonces DEF NonceInv
<1>2. NonceInv => Distinct
  BY DEF NonceInv, NoncesApart, Distinct, Signs, Got, Signers
<1>. QED BY <1>1, <1>2, NextNonces, PTL DEF Spec

-----------------------------------------------------------------------------
(* The nonces are taken in a row.                                          *)

NoneTried == \A t \in Tasks : tried[t] = {}

\* Until a request fails, the nonces taken are the first ones, and who takes the
\* next counts on from the last.
RowInv ==
  /\ IsFiniteSet(Got)
  /\ NoneTried => /\ {nonce[t] : t \in Got} = 1 .. Cardinality(Got)
                  /\ Signers # Got => cached = Cardinality(Got)

LEMMA InitRow == Init => RowInv
<1>. SUFFICES ASSUME Init PROVE RowInv
  OBVIOUS
<1>1. Got = {} /\ cached = 0
  BY DEF Init, Got, Signers
<1>2. IsFiniteSet(Got) /\ Cardinality(Got) = 0
  BY <1>1, FS_EmptySet
<1>. QED BY <1>1, <1>2 DEF RowInv

LEMMA RowQuiet ==
  ASSUME RowInv, Got' = Got, Signers' = Signers, cached' = cached, NoneTried' => NoneTried,
         \A t \in Got : nonce'[t] = nonce[t]
  PROVE  RowInv'
<1>. {nonce'[t] : t \in Got'} = {nonce[t] : t \in Got}
  OBVIOUS
<1>. QED BY DEF RowInv

\* One signer more has a nonce, the one after those before.
LEMMA RowGrows ==
  ASSUME TypeOK, RowInv, NEW t \in Signers \ Got, NEW n, UNCHANGED <<tried, uses>>,
         NoneTried => n = Cardinality(Got) + 1,
         cached' = n, nonce' = [nonce EXCEPT ![t] = n], Got' = Got \cup {t}
  PROVE  RowInv'
<1>1. IsFiniteSet(Got) /\ Cardinality(Got) \in Nat /\ Got \subseteq Tasks
  BY FS_CardinalityType DEF RowInv, Got, Signers
<1>2. IsFiniteSet(Got') /\ Cardinality(Got') = Cardinality(Got) + 1
  BY <1>1, FS_AddElement
<1>3. nonce'[t] = n /\ \A s \in Got : nonce'[s] = nonce[s]
  BY <1>1 DEF Signers
<1>4. {nonce'[s] : s \in Got'} = {nonce[s] : s \in Got} \cup {n}
  <2>. HIDE DEF TypeOK
  <2>. QED BY <1>3
<1>5. ASSUME NoneTried' PROVE {nonce'[s] : s \in Got'} = 1 .. Cardinality(Got') /\ cached' = Cardinality(Got')
  <2>1. NoneTried
    BY <1>5 DEF NoneTried
  <2>. HIDE DEF TypeOK
  <2>2. n = Cardinality(Got) + 1 /\ {nonce[s] : s \in Got} = 1 .. Cardinality(Got)
    BY <2>1 DEF RowInv
  <2>3. 1 .. Cardinality(Got) + 1 = (1 .. Cardinality(Got)) \cup {Cardinality(Got) + 1}
    BY <1>1
  <2>. QED BY <1>2, <1>4, <2>2, <2>3
<1>. QED BY <1>2, <1>5 DEF RowInv

LEMMA TakeRow ==
  ASSUME NonceInv, RowInv, NEW t \in Tasks, CountOn(t) \/ Fetched(t), UNCHANGED uses
  PROVE  RowInv'
<1>. USE DEF NonceInv, BaseInv, TypeInv
<1>1. CASE CountOn(t)
  <2>1. /\ st[t] = "index" /\ cached' = cached + 1 /\ nonce' = [nonce EXCEPT ![t] = cached + 1] /\ UNCHANGED tried
        /\ \E where \in {"passing", "signing"} : st' = [st EXCEPT ![t] = where]
    BY <1>1 DEF CountOn, GotIndex
  <2>2. t \in Signers \ Got
    BY <2>1 DEF Signers, Got, CallInv
  <2>3. Got' = Got \cup {t}
    BY <2>1, <2>2 DEF Got, Signers
  <2>4. NoneTried => cached + 1 = Cardinality(Got) + 1
    BY <2>2 DEF RowInv
  <2>. QED BY <2>1, <2>2, <2>3, <2>4, RowGrows
<1>2. CASE Fetched(t)
  <2>1. /\ st[t] = "fetching" /\ cached' = NextIndex /\ nonce' = [nonce EXCEPT ![t] = NextIndex] /\ UNCHANGED tried
        /\ \E where \in {"passing", "signing"} : st' = [st EXCEPT ![t] = where]
    BY <1>2 DEF Fetched, Answered, GotIndex
  <2>2. NextIndex = 1 /\ Got = {} /\ t \in Signers
    BY <1>2, FetchedNonces
  <2>3. Got' = Got \cup {t}
    BY <2>1, <2>2 DEF Got, Signers
  <2>4. Cardinality(Got) = 0
    BY <2>2, FS_EmptySet
  <2>5. t \in Signers \ Got /\ NextIndex = Cardinality(Got) + 1
    BY <2>2, <2>4
  <2>. QED BY <2>1, <2>3, <2>5, RowGrows
<1>. QED BY <1>1, <1>2

LEMMA PassRow ==
  ASSUME Apart, NonceInv, RowInv, NEW t \in Tasks, Pass(t), UNCHANGED uses
  PROVE  RowInv'
<1>. USE DEF NonceInv, BaseInv, TypeInv
<1>1. /\ st[t] = "passing" /\ cached' = nonce[t] /\ st' = [st EXCEPT ![t] = "signing"] /\ UNCHANGED <<nonce, tried>>
  BY DEF Pass
<1>2. uses[t] = "given" /\ t \in Signers /\ t \in Got
  BY <1>1 DEF CallInv, Signers, Got
<1>3. Got' = Got /\ Signers' = Signers
  BY <1>1, <1>2 DEF Got, Signers
<1>4. \A r, s \in Signers : r = s \/ r = t \/ s = t
  BY <1>2 DEF Apart, Signers
<1>5. Got \subseteq Signers
  BY DEF Got
<1>6. ASSUME NoneTried, Signers # Got PROVE nonce[t] = Cardinality(Got)
  <2>. HIDE DEF TypeOK
  <2>1. Got = {t}
    BY <1>2, <1>4, <1>5, <1>6
  <2>2. Cardinality(Got) = 1
    BY <2>1, FS_Singleton
  <2>3. {nonce[s] : s \in Got} = 1 .. 1
    BY <1>6, <2>2 DEF RowInv
  <2>. QED BY <2>1, <2>2, <2>3
<1>7. NoneTried' = NoneTried
  BY <1>1 DEF NoneTried
<1>. HIDE DEF TypeOK
<1>. QED BY <1>1, <1>3, <1>6, <1>7 DEF RowInv

\* Once a request has failed, only that the signers are finitely many is left to
\* show; before, nothing fails over and nothing is retried.
LEMMA OtherRow ==
  ASSUME NonceInv, RowInv, NEW t \in Tasks, UNCHANGED uses,
         \/ Start(t) \/ FetchIndex(t) \/ Read(t) \/ AskEra(t) \/ Sign(t) \/ Submit(t)
         \/ Fails(t) \/ Again(t) \/ Raise(t)
         \/ FailsOver(t) /\ UNCHANGED nonceVars
  PROVE  RowInv'
<1>. USE DEF NonceInv, BaseInv, TypeInv
<1>1. CASE Start(t) \/ FetchIndex(t) \/ Read(t) \/ AskEra(t) \/ Sign(t) \/ Submit(t)
  <2>1. /\ UNCHANGED <<cached, tried>>
        /\ \A s \in Tasks \ {t} : nonce'[s] = nonce[s]
        /\ \/ st[t] = "idle" /\ uses[t] # "estimate" /\ st' = [st EXCEPT ![t] = "index"] /\ UNCHANGED nonce
           \/ st[t] = "reading" /\ st' = [st EXCEPT ![t] = "done"]
           \/ uses[t] = "estimate" /\ st[t] = "idle" /\ st' = [st EXCEPT ![t] = "reading"] /\ UNCHANGED nonce
           \/ st[t] = "index" /\ st' = [st EXCEPT ![t] = "fetching"] /\ UNCHANGED nonce
           \/ st[t] = "signing" /\ st' = [st EXCEPT ![t] = "era"] /\ UNCHANGED nonce
           \/ st[t] = "era" /\ st' = [st EXCEPT ![t] = "signed"] /\ UNCHANGED nonce
           \/ st[t] = "signed" /\ st' = [st EXCEPT ![t] = "done"] /\ UNCHANGED nonce
    BY <1>1 DEF Start, FetchIndex, Read, AskEra, Sign, Submit, Answered
  <2>2. Got' = Got /\ Signers' = Signers
    BY <2>1 DEF Got, Signers, CallInv
  <2>3. \A s \in Got : nonce'[s] = nonce[s]
    BY <2>1 DEF Got, Signers, CallInv
  <2>4. NoneTried' => NoneTried
    BY <2>1 DEF NoneTried
  <2>. QED BY <2>1, <2>2, <2>3, <2>4, RowQuiet
<1>2. CASE \/ Fails(t) \/ Again(t) \/ Raise(t)
           \/ FailsOver(t) /\ UNCHANGED nonceVars
  <2>1. ~NoneTried'
    <3>1. CASE Fails(t)
      <4>1. tried' = [tried EXCEPT ![t] = @ \cup {endpoint[on[t]]}]
        BY <3>1 DEF Fails, RequestFails
      <4>2. tried'[t] # {}
        BY <4>1
      <4>. QED BY <4>2 DEF NoneTried
    <3>2. CASE Again(t) \/ Raise(t) \/ FailsOver(t)
      <4>1. call[t] \in Failing \cup {"raised"} /\ tried' = tried
        BY <3>2 DEF Again, Raise, FailsOver, NextChain, Shutdown, Replace, Failing
      <4>2. tried'[t] # {}
        BY <4>1 DEF CallInv
      <4>. QED BY <4>2 DEF NoneTried
    <3>. QED BY <1>2, <3>1, <3>2
  <2>2. Got' \subseteq Got
    <3>1. CASE Fails(t) \/ (FailsOver(t) /\ UNCHANGED nonceVars)
      <4>1. UNCHANGED st
        BY <3>1 DEF Fails
      <4>. QED BY <4>1 DEF Got, Signers
    <3>2. CASE Raise(t)
      <4>1. st' = [st EXCEPT ![t] = "failed"]
        BY <3>2 DEF Raise
      <4>. QED BY <4>1 DEF Got, Signers
    <3>3. CASE Again(t)
      <4>1. \/ UNCHANGED st
            \/ st[t] = "era" /\ st' = [st EXCEPT ![t] = "passing"]
            \/ st' = [st EXCEPT ![t] = "index"]
        BY <3>3 DEF Again
      <4>. QED BY <4>1 DEF Got, Signers
    <3>. QED BY <1>2, <3>1, <3>2, <3>3
  <2>3. IsFiniteSet(Got')
    <3>1. IsFiniteSet(Got)
      BY DEF RowInv
    <3>. QED BY <2>2, <3>1, FS_Subset
  <2>. QED BY <2>1, <2>3 DEF RowInv
<1>. QED BY <1>1, <1>2

LEMMA NextRow ==
  ASSUME Apart, NonceInv, RowInv, [Next]_vars
  PROVE  RowInv'
<1>1. ASSUME NEW t \in Tasks, Start(t) \/ Step(t), UNCHANGED uses PROVE RowInv'
  <2>1. CASE CountOn(t) \/ Fetched(t)
    BY <1>1, <2>1, TakeRow
  <2>2. CASE Pass(t)
    BY <1>1, <2>2, PassRow
  <2>3. CASE \/ Start(t) \/ FetchIndex(t) \/ Read(t) \/ AskEra(t) \/ Sign(t) \/ Submit(t)
             \/ Fails(t) \/ Again(t) \/ Raise(t)
             \/ FailsOver(t) /\ UNCHANGED nonceVars
    BY <1>1, <2>3, OtherRow
  <2>. QED BY <1>1, <2>1, <2>2, <2>3 DEF Step
<1>2. ASSUME UNCHANGED <<uses, nonceVars, tried>> PROVE RowInv'
  <2>1. Got' = Got /\ Signers' = Signers /\ NoneTried' = NoneTried
    BY <1>2 DEF Got, Signers, NoneTried
  <2>. QED BY <1>2, <2>1, RowQuiet
<1>. QED BY <1>1, <1>2 DEF Next, vars, GoesDown

\* As long as no request fails, the signed extrinsics have the account's next
\* nonces without a gap, so that every one of them can be applied.
THEOREM NoncesInARow ==
  ASSUME Apart
  PROVE  Spec => []NoGap
<1>. DEFINE Inv == NonceInv /\ RowInv
<1>1. Init => Inv
  BY InitBase, InitNonces, InitRow DEF NonceInv
<1>2. Inv /\ [Next]_vars => Inv'
  BY NextNonces, NextRow
<1>3. Inv => NoGap
  <2>. SUFFICES ASSUME Inv, \A t \in Tasks : tried[t] = {} /\ (uses[t] # "estimate" => Signs(t))
                PROVE  {nonce[t] : t \in {t \in Tasks : Signs(t)}} = 1 .. Cardinality({t \in Tasks : Signs(t)})
    BY DEF NoGap
  <2>1. NoneTried
    BY DEF NoneTried
  <2>2. {t \in Tasks : Signs(t)} = Got
    BY DEF Signs, Got, Signers
  <2>. QED BY <2>1, <2>2 DEF RowInv
<1>. QED BY <1>1, <1>2, <1>3, PTL DEF Spec
=============================================================================
