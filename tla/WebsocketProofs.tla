--------------------------- MODULE WebsocketProofs ---------------------------
EXTENDS Websocket, SequenceTheorems, FiniteSetTheorems, TLAPS
(***************************************************************************)
(* Theorems about Websocket, for every value of its constants.             *)
(***************************************************************************)
-----------------------------------------------------------------------------
(* What the helpers on the lock queue and the send queue return.           *)

LEMMA LeaveType ==
  ASSUME NEW S, NEW q \in Seq(S), NEW p
  PROVE  Leave(q, p) \in Seq(S)
<1>1. CASE p \in ToSet(q)
  <2>. DEFINE i == CHOOSE i \in DOMAIN q : q[i] = p
  <2>1. i \in 1 .. Len(q)
    BY <1>1 DEF ToSet
  <2>. HIDE DEF i
  <2>2. \A j \in 1 .. Len(q) : q[j] \in S
    BY ElementOfSeq
  <2>3. Len(q) \in Nat
    BY LenProperties
  <2>4. SubSeq(q, 1, i - 1) \in Seq(S)
    BY <2>1, <2>2, <2>3, SubSeqProperties
  <2>5. SubSeq(q, i + 1, Len(q)) \in Seq(S)
    BY <2>1, <2>2, <2>3, SubSeqProperties
  <2>. QED BY <1>1, <2>4, <2>5, ConcatProperties DEF Leave, RemoveAt, i
<1>2. CASE p \notin ToSet(q)
  BY <1>2 DEF Leave
<1>. QED BY <1>1, <1>2

LEMMA ServedType ==
  ASSUME NEW S, lockq \in Seq(S)
  PROVE  Served \in Seq(S)
BY HeadTailProperties DEF Served

LEMMA ResentType ==
  ASSUME inflight \in [Ids -> Frames \cup {NoFrame}], NEW s \in SetToSeqs(InflightFrames)
  PROVE  s \in Seq(Frames)
<1>1. InflightFrames \subseteq Frames
  BY DEF InflightFrames
<1>2. IsFiniteSet(Ids)
  BY FS_Interval, BoundsAssumption DEF Ids
<1>3. IsFiniteSet({inflight[i] : i \in Ids})
  <2>. DEFINE f == [i \in Ids |-> inflight[i]]
              T == {inflight[i] : i \in Ids}
  <2>1. f \in Surjection(Ids, T)
    BY DEF Surjection
  <2>. QED BY <1>2, <2>1, FS_Surjection
<1>4. Cardinality(InflightFrames) \in Nat
  BY <1>3, FS_Subset, FS_CardinalityType DEF InflightFrames
<1>5. s \in [1 .. Cardinality(InflightFrames) -> InflightFrames]
  BY DEF SetToSeqs
<1>. QED BY <1>1, <1>4, <1>5

LEMMA TaskType ==
  ASSUME NEW h \in Handlers
  PROVE  {Handler(h), Sender(h), Receiver(h)} \subseteq Tasks
BY DEF Handler, Sender, Receiver, Tasks

LEMMA WithoutPumpsType ==
  ASSUME NEW S, lockq \in Seq(S), NEW h \in Handlers
  PROVE  WithoutPumps(h) \in Seq(S)
BY LeaveType DEF WithoutPumps

-----------------------------------------------------------------------------
(* The count of marked clients.                                            *)

LEMMA MarkedFinite ==
  /\ IsFiniteSet(Marked)
  /\ Cardinality(Marked) \in Nat
BY ClientsAssumption, FS_Subset, FS_CardinalityType DEF Marked

\* A client that is to be unmarked is counted.
LEMMA MarkedPositive ==
  ASSUME NEW c \in Clients, pc[c] = "unmark"
  PROVE  Cardinality(Marked) \in Nat \ {0}
<1>1. c \in Marked
  BY DEF Marked
<1>. QED BY <1>1, MarkedFinite, FS_EmptySet

-----------------------------------------------------------------------------
(* Sums over finite sets.  tlapm cannot instantiate an induction theorem;  *)
(* a minimal counterexample does instead.                                  *)

\* Among sets of subsets of a finite set there is one that is minimal: what a
\* proof by induction over a finite set needs.
LEMMA Minimal ==
  ASSUME NEW S, IsFiniteSet(S), NEW T \in SUBSET SUBSET S, T # {}
  PROVE  \E m \in T : \A u \in T : ~(u \subseteq m /\ u # m)
<1>1. IsWellFoundedOn(StrictSubsetOrdering(S), SUBSET S)
  BY FS_StrictSubsetOrderingWellFounded, FS_FiniteSubsetsOfFinite
<1>2. \E x \in T : \A y \in T : ~(<<y, x>> \in StrictSubsetOrdering(S))
  BY <1>1, WFMin
<1>. QED BY <1>2 DEF StrictSubsetOrdering

\* A sum as a count: n units for each element that f maps to n.
Units(f, s) == {u \in s \X Nat : u[2] \in 1 .. f[u[1]]}

LEMMA UnitsOfOne ==
  ASSUME NEW f, NEW x, f[x] \in Nat
  PROVE  IsFiniteSet(Units(f, {x})) /\ Cardinality(Units(f, {x})) = f[x]
<1>. DEFINE g == [n \in 1 .. f[x] |-> <<x, n>>]
<1>1. g \in Bijection(1 .. f[x], Units(f, {x}))
  <2>1. g \in [1 .. f[x] -> Units(f, {x})]
    BY DEF Units
  <2>2. \A m, n \in 1 .. f[x] : g[m] = g[n] => m = n
    OBVIOUS
  <2>3. \A u \in Units(f, {x}) : u[2] \in 1 .. f[x] /\ g[u[2]] = u
    BY DEF Units
  <2>4. \A u \in Units(f, {x}) : \E n \in 1 .. f[x] : g[n] = u
    BY <2>3
  <2>. HIDE DEF g
  <2>5. g \in Injection(1 .. f[x], Units(f, {x}))
    BY <2>1, <2>2 DEF Injection, IsInjective
  <2>6. g \in Surjection(1 .. f[x], Units(f, {x}))
    BY <2>1, <2>4 DEF Surjection
  <2>. QED BY <2>5, <2>6 DEF Bijection
<1>2. ExistsBijection(1 .. f[x], Units(f, {x}))
  BY <1>1 DEF ExistsBijection
<1>3. IsFiniteSet(1 .. f[x]) /\ Cardinality(1 .. f[x]) = f[x]
  BY FS_Interval, SMTT(40)
<1>. QED BY <1>2, <1>3, FS_Bijection

LEMMA UnitsSplit ==
  ASSUME NEW f, NEW s, NEW x \in s, f[x] \in Nat, IsFiniteSet(Units(f, s \ {x}))
  PROVE  /\ IsFiniteSet(Units(f, s))
         /\ Cardinality(Units(f, s)) = f[x] + Cardinality(Units(f, s \ {x}))
<1>1. Units(f, s) = Units(f, {x}) \cup Units(f, s \ {x})
  BY DEF Units
<1>2. Units(f, {x}) \cap Units(f, s \ {x}) = {}
  BY DEF Units
<1>. DEFINE one == Units(f, {x})
            rest == Units(f, s \ {x})
<1>3. IsFiniteSet(one) /\ Cardinality(one) = f[x] /\ Cardinality(rest) \in Nat
  BY UnitsOfOne, FS_CardinalityType
<1>4. IsFiniteSet(one \cup rest) /\ Cardinality(one \cup rest) = Cardinality(one) + Cardinality(rest) - Cardinality(one \cap rest)
  <2>. HIDE DEF one, rest
  <2>1. IsFiniteSet(rest)
    BY DEF rest
  <2>. QED BY <1>3, <2>1, FS_Union
<1>5. Units(f, s) = one \cup rest /\ Cardinality(one \cap rest) = 0
  BY <1>1, <1>2, FS_EmptySet
<1>. HIDE DEF one
<1>. QED BY <1>3, <1>4, <1>5

LEMMA UnitsFinite ==
  ASSUME NEW f, NEW S, IsFiniteSet(S), \A x \in S : f[x] \in Nat
  PROVE  \A s \in SUBSET S : IsFiniteSet(Units(f, s)) /\ Cardinality(Units(f, s)) \in Nat
<1>. DEFINE Bad == {s \in SUBSET S : ~IsFiniteSet(Units(f, s))}
<1>1. ASSUME Bad # {} PROVE FALSE
  <2>1. PICK m \in Bad : \A u \in Bad : ~(u \subseteq m /\ u # m)
    <3>1. Bad \in SUBSET SUBSET S
      OBVIOUS
    <3>. HIDE DEF Bad
    <3>. QED BY <1>1, <3>1, Minimal
  <2>2. CASE m = {}
    BY <2>1, <2>2, FS_EmptySet DEF Units
  <2>3. CASE m # {}
    <3>1. PICK x \in m : TRUE
      BY <2>3
    <3>2. IsFiniteSet(Units(f, m \ {x}))
      BY <2>1
    <3>. QED BY <2>1, <3>2, UnitsSplit
  <2>. QED BY <2>2, <2>3
<1>. QED BY <1>1, FS_CardinalityType

\* The recursive function a sum is defined by.
Adds(f, S, g) ==
  g = [s \in SUBSET S |-> IF s = {} THEN 0 ELSE f[CHOOSE x \in s : TRUE] + g[s \ {CHOOSE x \in s : TRUE}]]

LEMMA SumIsCount ==
  ASSUME NEW f, NEW S, IsFiniteSet(S), \A x \in S : f[x] \in Nat
  PROVE  SumFunctionOnSet(f, S) = Cardinality(Units(f, S))
<1>. DEFINE count == [s \in SUBSET S |-> Cardinality(Units(f, s))]
            g == CHOOSE g : Adds(f, S, g)
<1>1. Adds(f, S, count)
  <2>1. ASSUME NEW s \in SUBSET S
        PROVE  count[s] = IF s = {} THEN 0 ELSE f[CHOOSE x \in s : TRUE] + count[s \ {CHOOSE x \in s : TRUE}]
    <3>1. CASE s = {}
      BY <3>1, FS_EmptySet DEF Units
    <3>2. CASE s # {}
      <4>. DEFINE x == CHOOSE x \in s : TRUE
      <4>1. x \in s
        BY <3>2
      <4>. HIDE DEF x
      <4>2. s \ {x} \in SUBSET S /\ f[x] \in Nat
        BY <4>1
      <4>3. count[s] = f[x] + count[s \ {x}]
        <5>1. IsFiniteSet(Units(f, s \ {x}))
          BY <4>2, UnitsFinite
        <5>. QED BY <4>1, <4>2, <5>1, UnitsSplit
      <4>. QED BY <3>2, <4>3 DEF x
    <3>. QED BY <3>1, <3>2
  <2>. QED BY <2>1 DEF Adds
<1>2. Adds(f, S, g)
  BY <1>1
<1>3. SumFunctionOnSet(f, S) = g[S]
  BY DEF SumFunctionOnSet, FoldFunctionOnSet, MapThenFoldSet, Adds
<1>. HIDE DEF g
<1>. DEFINE Bad == {s \in SUBSET S : g[s] # count[s]}
<1>4. ASSUME Bad # {} PROVE FALSE
  <2>1. PICK m \in Bad : \A u \in Bad : ~(u \subseteq m /\ u # m)
    <3>1. Bad \in SUBSET SUBSET S
      OBVIOUS
    <3>. HIDE DEF Bad
    <3>. QED BY <1>4, <3>1, Minimal
  <2>2. m # {}
    BY <1>1, <1>2, <2>1 DEF Adds
  <2>. DEFINE x == CHOOSE x \in m : TRUE
  <2>3. x \in m
    BY <2>2
  <2>4. g[m] = f[x] + g[m \ {x}] /\ count[m] = f[x] + count[m \ {x}]
    BY <1>1, <1>2, <2>2 DEF Adds
  <2>. HIDE DEF x
  <2>5. g[m \ {x}] = count[m \ {x}]
    BY <2>1, <2>3
  <2>. QED BY <2>1, <2>4, <2>5
<1>. QED BY <1>3, <1>4

-----------------------------------------------------------------------------
(* What is used of sums.                                                   *)

LEMMA SumType ==
  ASSUME NEW f, NEW S, IsFiniteSet(S), \A x \in S : f[x] \in Nat
  PROVE  SumFunctionOnSet(f, S) \in Nat
BY SumIsCount, UnitsFinite

LEMMA SumSplit ==
  ASSUME NEW f, NEW S, IsFiniteSet(S), \A x \in S : f[x] \in Nat, NEW c \in S
  PROVE  SumFunctionOnSet(f, S) = f[c] + SumFunctionOnSet(f, S \ {c})
<1>1. IsFiniteSet(S \ {c})
  BY FS_RemoveElement
<1>2. IsFiniteSet(Units(f, S \ {c}))
  BY UnitsFinite
<1>3. Cardinality(Units(f, S)) = f[c] + Cardinality(Units(f, S \ {c}))
  BY <1>2, UnitsSplit
<1>4. SumFunctionOnSet(f, S \ {c}) = Cardinality(Units(f, S \ {c}))
  BY <1>1, SumIsCount
<1>. QED BY <1>3, <1>4, SumIsCount

LEMMA SumSame ==
  ASSUME NEW f, NEW g, NEW S, IsFiniteSet(S), \A x \in S : f[x] \in Nat /\ g[x] = f[x]
  PROVE  SumFunctionOnSet(g, S) = SumFunctionOnSet(f, S)
<1>1. Units(g, S) = Units(f, S)
  BY DEF Units
<1>. QED BY <1>1, SumIsCount

LEMMA SumZero ==
  ASSUME NEW f, NEW S, IsFiniteSet(S), \A x \in S : f[x] = 0
  PROVE  SumFunctionOnSet(f, S) = 0
<1>1. Units(f, S) = {}
  BY DEF Units
<1>. QED BY <1>1, SumIsCount, FS_EmptySet

\* One element changes: the sum changes by as much.
LEMMA SumUpdate ==
  ASSUME NEW f, NEW g, NEW S, IsFiniteSet(S), \A x \in S : f[x] \in Nat /\ g[x] \in Nat,
         NEW c \in S, \A x \in S \ {c} : g[x] = f[x]
  PROVE  SumFunctionOnSet(g, S) + f[c] = SumFunctionOnSet(f, S) + g[c]
<1>1. IsFiniteSet(S \ {c})
  BY FS_RemoveElement
<1>2. SumFunctionOnSet(g, S \ {c}) = SumFunctionOnSet(f, S \ {c}) /\ SumFunctionOnSet(f, S \ {c}) \in Nat
  BY <1>1, SumSame, SumType
<1>3. SumFunctionOnSet(f, S) = f[c] + SumFunctionOnSet(f, S \ {c})
  BY SumSplit
<1>4. SumFunctionOnSet(g, S) = g[c] + SumFunctionOnSet(g, S \ {c})
  BY SumSplit
<1>. QED BY <1>2, <1>3, <1>4

\* What one element loses, another count gains.
LEMMA SumBalance ==
  ASSUME NEW f, NEW g, NEW S, IsFiniteSet(S), \A x \in S : f[x] \in Nat /\ g[x] \in Nat,
         NEW c \in S, \A x \in S \ {c} : g[x] = f[x],
         NEW m \in Nat, NEW n \in Nat, n + g[c] = m + f[c], NEW total, m + SumFunctionOnSet(f, S) = total
  PROVE  n + SumFunctionOnSet(g, S) = total
<1>1. SumFunctionOnSet(g, S) + f[c] = SumFunctionOnSet(f, S) + g[c]
  BY SumUpdate
<1>2. SumFunctionOnSet(g, S) \in Nat /\ SumFunctionOnSet(f, S) \in Nat
  BY SumType
<1>. QED BY <1>1, <1>2

LEMMA DisjointCount ==
  ASSUME NEW s, NEW t, IsFiniteSet(s), IsFiniteSet(t), s \cap t = {}
  PROVE  Cardinality(s \cup t) = Cardinality(s) + Cardinality(t)
<1>1. Cardinality(s \cup t) = Cardinality(s) + Cardinality(t) - Cardinality(s \cap t)
  BY FS_Union
<1>2. Cardinality(s \cap t) = 0 /\ Cardinality(s) \in Nat /\ Cardinality(t) \in Nat
  BY FS_EmptySet, FS_CardinalityType
<1>. QED BY <1>1, <1>2

-----------------------------------------------------------------------------
(* Type correctness, action by action.                                     *)

USE DEF TypeOK, LoopTypeOK, ObjectTypeOK, NetworkTypeOK, HandlerTypeOK, ClientTypeOK,
        loopVars, bookVars, netVars, pumpVars, handlerVars, clientVars, stopVars,
        CanRun, Suspend, Continue, GoTo, Nobody

LEMMA NetworkType ==
  ASSUME TypeOK, NetworkStep
  PROVE  TypeOK'
<1>1. CASE \E k \in Conns : NodeReplies(k)
  BY <1>1 DEF NodeReplies
<1>2. CASE \E k \in Conns : ConnLost(k)
  BY <1>2, BoundsAssumption DEF ConnLost
<1>. QED BY <1>1, <1>2 DEF NetworkStep

LEMMA BlockType ==
  ASSUME TypeOK, NEW p \in Clients \cup Tasks, Block(p)
  PROVE  TypeOK'
<1>1. Append(lockq, p) \in Seq(Clients \cup Tasks)
  OBVIOUS
<1>. QED BY <1>1 DEF Block

LEMMA HandlerType ==
  ASSUME TypeOK, NEW h \in Handlers, HandlerStep(h)
  PROVE  TypeOK'
<1>1. CASE Wake(h)
  <2>1. LoopTypeOK'
    BY <1>1, WithoutPumpsType, TaskType DEF Wake, StopPumps, HandlerDead, HandlerLive
  <2>2. ObjectTypeOK'
    BY <1>1, WithoutPumpsType, TaskType DEF Wake, StopPumps, HandlerDead, HandlerLive
  <2>3. NetworkTypeOK'
    BY <1>1, WithoutPumpsType, TaskType DEF Wake, StopPumps, HandlerDead, HandlerLive
  <2>4. HandlerTypeOK'
    <3>1. \E state \in {"finished", "failed", "resubmit"} : hst' = [hst EXCEPT ![h] = state]
      BY <1>1 DEF Wake
    <3>. QED BY <1>1, <3>1 DEF Wake, StopPumps, HandlerDead, HandlerLive
  <2>5. ClientTypeOK'
    BY <1>1, WithoutPumpsType, TaskType DEF Wake, StopPumps, HandlerDead, HandlerLive
  <2>. QED BY <2>1, <2>2, <2>3, <2>4, <2>5
<1>2. CASE Resubmit(h)
  BY <1>2, ServedType, TaskType, ResentType, ConcatProperties, SMTT(40) DEF Resubmit, HandlerLive, Recaptured
<1>3. CASE Reconnect(h)
  BY <1>3, ServedType, TaskType, ZenonT(40) DEF Reconnect, BeginConnect, Deafened, HandlerLive
<1>4. CASE Reconnected(h)
  BY <1>4 DEF Reconnected, EndConnect, FreshConn, Created, FreshHandler, HandlerLive, Conns
<1>5. CASE ReconnectFails(h)
  BY <1>5 DEF ReconnectFails, FailConnect, HandlerLive, HandlerDead
<1>6. CASE Block(Handler(h))
  BY <1>6, BlockType, TaskType
<1>. QED BY <1>1, <1>2, <1>3, <1>4, <1>5, <1>6 DEF HandlerStep

LEMMA ReceiverType ==
  ASSUME TypeOK, NEW h \in Handlers, ReceiverStep(h)
  PROVE  TypeOK'
<1>1. CASE Receive(h)
  BY <1>1, TaskType DEF Receive, Receiving, Frames
<1>2. CASE Dispatch(h)
  BY <1>2, ServedType, TaskType DEF Dispatch
<1>3. CASE DispatchTwice(h)
  BY <1>3, ServedType DEF DispatchTwice, Failed, PumpEnded
<1>4. CASE ReceiveClosed(h)
  <2>1. LoopTypeOK'
    BY <1>4 DEF ReceiveClosed, EndReceiver, PumpEnded
  <2>2. ObjectTypeOK'
    BY <1>4 DEF ReceiveClosed, EndReceiver, PumpEnded
  <2>3. NetworkTypeOK'
    BY <1>4 DEF ReceiveClosed, EndReceiver, PumpEnded
  <2>4. HandlerTypeOK'
    <3>1. \E result \in {"ok", "lost"} : rcv' = [rcv EXCEPT ![h] = result]
      BY <1>4 DEF ReceiveClosed, EndReceiver
    <3>. QED BY <1>4, <3>1 DEF ReceiveClosed, EndReceiver, PumpEnded
  <2>5. ClientTypeOK'
    BY <1>4 DEF ReceiveClosed, EndReceiver, PumpEnded
  <2>. QED BY <2>1, <2>2, <2>3, <2>4, <2>5
<1>5. CASE ReceiveTimeout(h)
  BY <1>5 DEF ReceiveTimeout, EndReceiver, PumpEnded
<1>6. CASE ReceiveConflict(h)
  BY <1>6 DEF ReceiveConflict, EndReceiver, Failed, PumpEnded
<1>7. CASE Block(Receiver(h))
  BY <1>7, BlockType, TaskType
<1>. QED BY <1>1, <1>2, <1>3, <1>4, <1>5, <1>6, <1>7 DEF ReceiverStep

LEMMA MalformedType ==
  ASSUME TypeOK, NEW h \in Handlers, ReceiveMalformed(h)
  PROVE  TypeOK'
BY DEF ReceiveMalformed, EndReceiver, Failed, PumpEnded

LEMMA SenderType ==
  ASSUME TypeOK, NEW h \in Handlers, SenderStep(h)
  PROVE  TypeOK'
<1>1. CASE TakeFrame(h)
  BY <1>1, HeadTailProperties, TaskType DEF TakeFrame
<1>2. CASE SendFrame(h)
  <2>1. LoopTypeOK'
    BY <1>2, ServedType DEF SendFrame, PumpEnded
  <2>2. ObjectTypeOK'
    BY <1>2, ServedType DEF SendFrame, PumpEnded
  <2>3. NetworkTypeOK'
    <3>1. wire' \in {wire, [wire EXCEPT ![hconn[h]] = @ \cup {shand[h]}]}
      BY <1>2 DEF SendFrame
    <3>2. shand[h] \in Frames
      BY <1>2 DEF SendFrame
    <3>3. UNCHANGED <<link, replies>>
      BY <1>2 DEF SendFrame
    <3>4. hconn[h] \in Conns
      BY <1>2 DEF SendFrame
    <3>5. wire' \in [Conns -> SUBSET Frames]
      <4>. DEFINE k == hconn[h]
      <4>1. CASE wire' = wire
        BY <4>1
      <4>2. CASE wire' = [wire EXCEPT ![k] = @ \cup {shand[h]}]
        <5>. HIDE DEF k
        <5>1. k \in Conns /\ wire[k] \cup {shand[h]} \in SUBSET Frames
          BY <3>2, <3>4 DEF k
        <5>. QED BY <4>2, <5>1
      <4>. QED BY <3>1, <4>1, <4>2
    <3>. QED BY <3>3, <3>5
  <2>4. HandlerTypeOK'
    <3>1. snd' \in {snd, [snd EXCEPT ![h] = "ok"], [snd EXCEPT ![h] = "lost"]}
      BY <1>2 DEF SendFrame
    <3>2. shand' = [shand EXCEPT ![h] = NoFrame] /\ UNCHANGED <<hst, hconn, rcv, rhand>>
      BY <1>2 DEF SendFrame
    <3>. QED BY <3>1, <3>2, ZenonT(40) DEF PumpEnded
  <2>5. ClientTypeOK'
    BY <1>2, ServedType DEF SendFrame, PumpEnded
  <2>. QED BY <2>1, <2>2, <2>3, <2>4, <2>5
<1>3. CASE Block(Sender(h))
  BY <1>3, BlockType, TaskType
<1>. QED BY <1>1, <1>2, <1>3 DEF SenderStep

LEMMA ClientType ==
  ASSUME TypeOK, MarksCounted, NEW c \in Clients, ClientStep(c)
  PROVE  TypeOK'
<1>1. CASE Revive(c)
  BY <1>1, ServedType, ZenonT(40) DEF Revive, BeginConnect, Deafened
<1>2. CASE Connect(c)
  BY <1>2, ServedType DEF Connect, BeginConnect, Deafened
<1>3. CASE NoNeed(c)
  <2>1. LoopTypeOK'
    BY <1>3, ServedType DEF NoNeed
  <2>2. ObjectTypeOK'
    BY <1>3, ServedType DEF NoNeed
  <2>3. NetworkTypeOK'
    BY <1>3, ServedType DEF NoNeed
  <2>4. HandlerTypeOK'
    BY <1>3, ServedType DEF NoNeed
  <2>5. ClientTypeOK'
    BY <1>3, ServedType DEF NoNeed
  <2>. QED BY <2>1, <2>2, <2>3, <2>4, <2>5
<1>4. CASE Connected(c)
  BY <1>4, SMTT(40) DEF Connected, EndConnect, FreshConn, Created, FreshHandler, HandlerLive, Conns
<1>5. CASE ConnectFails(c)
  BY <1>5 DEF ConnectFails, FailConnect
<1>6. CASE Mark(c)
  BY <1>6, ServedType DEF Mark
<1>7. CASE Acquire(c)
  <2>1. LoopTypeOK'
    BY <1>7 DEF Acquire
  <2>2. ObjectTypeOK'
    BY <1>7 DEF Acquire
  <2>3. NetworkTypeOK'
    BY <1>7 DEF Acquire
  <2>4. HandlerTypeOK'
    BY <1>7 DEF Acquire
  <2>5. ClientTypeOK'
    <3>1. \E where \in {"acquire", "register"} : pc' = [pc EXCEPT ![c] = where]
      BY <1>7 DEF Acquire
    <3>2. acquired' \in {acquired, [acquired EXCEPT ![c] = @ + 1]}
      BY <1>7 DEF Acquire
    <3>3. UNCHANGED <<sent, pending, captured, outcome, watched>>
      BY <1>7 DEF Acquire
    <3>. QED BY <3>1, <3>2, <3>3
  <2>. QED BY <2>1, <2>2, <2>3, <2>4, <2>5
<1>8. CASE Register(c)
  <2>1. LoopTypeOK'
    BY <1>8, ServedType DEF Register, NextIds, FreeIds, Frames
  <2>2. ObjectTypeOK'
    BY <1>8, ServedType DEF Register, NextIds, FreeIds, Frames
  <2>3. NetworkTypeOK'
    BY <1>8, ServedType DEF Register, NextIds, FreeIds, Frames
  <2>4. HandlerTypeOK'
    BY <1>8, ServedType DEF Register, NextIds, FreeIds, Frames
  <2>5. ClientTypeOK'
    <3>1. \E where \in {"acquire", "await"} : pc' = [pc EXCEPT ![c] = where]
      BY <1>8 DEF Register
    <3>2. \E S \in SUBSET Ids : pending' = [pending EXCEPT ![c] = @ \cup S]
      BY <1>8 DEF Register, NextIds, FreeIds
    <3>3. \E h \in Handlers \cup {0} : watched' \in {watched, [watched EXCEPT ![c] = h]}
      BY <1>8 DEF Register
    <3>. QED BY <1>8, <3>1, <3>2, <3>3, SMTT(40) DEF Register
  <2>. QED BY <2>1, <2>2, <2>3, <2>4, <2>5
<1>9. CASE Retrieve(c)
  <2>1. LoopTypeOK'
    BY <1>9 DEF Retrieve, EndRequest
  <2>2. ObjectTypeOK'
    BY <1>9 DEF Retrieve, EndRequest
  <2>3. NetworkTypeOK'
    BY <1>9 DEF Retrieve, EndRequest
  <2>4. HandlerTypeOK'
    BY <1>9 DEF Retrieve, EndRequest
  <2>5. ClientTypeOK'
    <3>1. \E where \in {"await", "unmark"} : pc' = [pc EXCEPT ![c] = where]
      BY <1>9 DEF Retrieve, Looks, EndRequest
    <3>2. outcome' \in {outcome, [outcome EXCEPT ![c] = "answered"]}
      BY <1>9 DEF Retrieve, EndRequest
    <3>3. captured' \in {captured, [captured EXCEPT ![c] = "same"]}
      BY <1>9 DEF Retrieve, EndRequest
    <3>4. \E i \in Ids : pending' = [pending EXCEPT ![c] = @ \ {i}]
      BY <1>9 DEF Retrieve
    <3>5. UNCHANGED <<sent, acquired, watched>>
      BY <1>9 DEF Retrieve
    <3>6. pending' \in [Clients -> SUBSET Ids]
      BY <3>4
    <3>7. captured' \in [Clients -> {"same", "pending", "done"}]
      BY <3>3
    <3>8. outcome' \in [Clients -> {"none", "answered", "failed", "cancelled"}]
      BY <3>2
    <3>9. pc' \in [Clients -> {"idle", "revive", "reviving", "connect", "connecting", "mark", "acquire",
                              "register", "await", "unmark", "discard", "exit", "done"}]
      BY <3>1
    <3>. QED BY <3>5, <3>6, <3>7, <3>8, <3>9
  <2>. QED BY <2>1, <2>2, <2>3, <2>4, <2>5
<1>10. CASE RetrieveRaises(c)
  BY <1>10 DEF RetrieveRaises, EndRequest
<1>11. CASE Rewatch(c)
  BY <1>11 DEF Rewatch
<1>12. CASE Unmark(c)
  <2>1. LoopTypeOK'
    BY <1>12, ServedType, MarkedPositive DEF Unmark
  <2>2. ObjectTypeOK'
    <3>1. waiting - 1 \in Nat
      BY <1>12, MarkedPositive DEF Unmark, MarksCounted
    <3>. QED BY <1>12, <3>1 DEF Unmark
  <2>3. NetworkTypeOK'
    BY <1>12, ServedType, MarkedPositive DEF Unmark
  <2>4. HandlerTypeOK'
    BY <1>12, ServedType, MarkedPositive DEF Unmark
  <2>5. ClientTypeOK'
    BY <1>12, ServedType, MarkedPositive DEF Unmark
  <2>. QED BY <2>1, <2>2, <2>3, <2>4, <2>5
<1>13. CASE Discard(c)
  BY <1>13, ServedType DEF Discard
<1>14. CASE Exit(c)
  BY <1>14 DEF Exit
<1>15. CASE Block(c)
  BY <1>15, BlockType
<1>. QED BY <1>1, <1>2, <1>3, <1>4, <1>5, <1>6, <1>7, <1>8, <1>9, <1>10, <1>11, <1>12, <1>13, <1>14, <1>15 DEF ClientStep

LEMMA EnterType ==
  ASSUME TypeOK, NEW c \in Clients, Enter(c)
  PROVE  TypeOK'
BY DEF Enter

LEMMA CancelType ==
  ASSUME TypeOK, NEW c \in Clients, Cancel(c)
  PROVE  TypeOK'
BY LeaveType DEF Cancel, CancelledTo

LEMMA CloserType ==
  ASSUME TypeOK, CloserStep
  PROVE  TypeOK'
<1>1. CASE TimerFires
  BY <1>1 DEF TimerFires
<1>2. CASE \E h \in Handlers : CancelHandler(h)
  BY <1>2, LeaveType DEF CancelHandler, StopPumps, WithoutPumps, HandlerDead
<1>3. CASE CloseConn
  BY <1>3, ZenonT(40) DEF CloseConn
<1>4. CASE ShutdownEnds
  BY <1>4 DEF ShutdownEnds, NotClosing
<1>. QED BY <1>1, <1>2, <1>3, <1>4 DEF CloserStep

LEMMA InitType == Init => TypeOK /\ MarksCounted
<1>. SUFFICES ASSUME Init PROVE TypeOK /\ MarksCounted
  OBVIOUS
<1>1. TypeOK
  BY BoundsAssumption DEF Init, NotClosing, Frames, NoFrame
<1>2. Marked = {}
  BY DEF Init, Marked
<1>. QED BY <1>1, <1>2, FS_EmptySet DEF Init, MarksCounted

LEMMA NextType ==
  ASSUME TypeOK, MarksCounted, [Next]_vars
  PROVE  TypeOK'
<1>1. CASE Next
  BY <1>1, EnterType, ClientType, CancelType, HandlerType, ReceiverType, SenderType, CloserType,
     MalformedType, NetworkType DEF Next
<1>2. CASE UNCHANGED vars
  BY <1>2 DEF vars
<1>. QED BY <1>1, <1>2

-----------------------------------------------------------------------------
(* Every step keeps the count.                                             *)

\* Who is no longer marked may go on being counted.
LEMMA FewerMarked ==
  ASSUME TypeOK, MarksCounted, Marked' \subseteq Marked, UNCHANGED waiting
  PROVE  MarksCounted'
<1>1. /\ Cardinality(Marked') \in Nat
      /\ Cardinality(Marked') <= Cardinality(Marked)
  BY MarkedFinite, FS_Subset, FS_CardinalityType
<1>2. Cardinality(Marked) \in Nat /\ waiting \in Nat
  BY MarkedFinite
<1>. QED BY <1>1, <1>2 DEF MarksCounted

LEMMA ClientMarks ==
  ASSUME TypeOK, MarksCounted, NEW c \in Clients, ClientStep(c)
  PROVE  MarksCounted'
<1>1. CASE Revive(c)
  BY <1>1, FewerMarked DEF Revive, Marked
<1>2. CASE Connect(c)
  BY <1>2, FewerMarked DEF Connect, Marked
<1>3. CASE NoNeed(c)
  BY <1>3, FewerMarked DEF NoNeed, Marked
<1>4. CASE Connected(c)
  BY <1>4, FewerMarked DEF Connected, Marked
<1>5. CASE ConnectFails(c)
  BY <1>5, FewerMarked DEF ConnectFails, Marked
<1>6. CASE Acquire(c)
  BY <1>6, FewerMarked, SMTT(40) DEF Acquire, Marked
<1>7. CASE Register(c)
  BY <1>7, FewerMarked, SMTT(40) DEF Register, Marked
<1>8. CASE Retrieve(c)
  BY <1>8, FewerMarked DEF Retrieve, Looks, EndRequest, Marked
<1>9. CASE RetrieveRaises(c)
  BY <1>9, FewerMarked DEF RetrieveRaises, Looks, EndRequest, Marked
<1>10. CASE Rewatch(c)
  BY <1>10, FewerMarked DEF Rewatch, Marked
<1>11. CASE Discard(c)
  BY <1>11, FewerMarked DEF Discard, Marked
<1>12. CASE Exit(c)
  BY <1>12, FewerMarked DEF Exit, Marked
<1>13. CASE Block(c)
  BY <1>13, FewerMarked DEF Block, Marked
<1>14. CASE Mark(c)
  <2>1. Marked' = Marked \cup {c} /\ c \notin Marked /\ waiting' = waiting + 1
    BY <1>14 DEF Mark, Marked
  <2>2. Cardinality(Marked \cup {c}) = Cardinality(Marked) + 1
    BY <2>1, MarkedFinite, FS_AddElement
  <2>3. Cardinality(Marked) \in Nat /\ waiting \in Nat
    BY MarkedFinite
  <2>. QED BY <2>1, <2>2, <2>3 DEF MarksCounted
<1>15. CASE Unmark(c)
  <2>1. Marked' = Marked \ {c} /\ c \in Marked /\ waiting' = waiting - 1
    BY <1>15 DEF Unmark, Marked
  <2>2. Cardinality(Marked \ {c}) = Cardinality(Marked) - 1
    BY <2>1, MarkedFinite, FS_RemoveElement
  <2>3. Cardinality(Marked) \in Nat /\ waiting \in Nat
    BY MarkedFinite
  <2>. QED BY <2>1, <2>2, <2>3 DEF MarksCounted
<1>. QED BY <1>1, <1>2, <1>3, <1>4, <1>5, <1>6, <1>7, <1>8, <1>9, <1>10, <1>11, <1>12, <1>13, <1>14, <1>15 DEF ClientStep

LEMMA OtherMarks ==
  ASSUME TypeOK, MarksCounted, NEW c \in Clients, Enter(c) \/ Cancel(c)
  PROVE  MarksCounted'
<1>1. CASE Enter(c)
  BY <1>1, FewerMarked DEF Enter, Marked
<1>2. CASE Cancel(c)
  BY <1>2, FewerMarked DEF Cancel, CancelledTo, Marked
<1>. QED BY <1>1, <1>2

\* Nobody but a client changes what the clients are counted by.
LEMMA PumpMarks ==
  ASSUME TypeOK, MarksCounted, NEW h \in Handlers,
         HandlerStep(h) \/ ReceiverStep(h) \/ ReceiveMalformed(h) \/ SenderStep(h)
  PROVE  MarksCounted'
<1>1. UNCHANGED <<pc, waiting>>
  BY DEF HandlerStep, Wake, Resubmit, Reconnect, Reconnected, ReconnectFails, Block,
         ReceiverStep, Receive, Dispatch, DispatchTwice, ReceiveClosed, ReceiveTimeout, ReceiveConflict,
         ReceiveMalformed, EndReceiver, SenderStep, TakeFrame, SendFrame
<1>. QED BY <1>1, FewerMarked DEF Marked

LEMMA EnvironmentMarks ==
  ASSUME TypeOK, MarksCounted, CloserStep \/ NetworkStep
  PROVE  MarksCounted'
<1>1. UNCHANGED <<pc, waiting>>
  BY DEF CloserStep, TimerFires, CancelHandler, CloseConn, ShutdownEnds, NetworkStep, NodeReplies, ConnLost
<1>. QED BY <1>1, FewerMarked DEF Marked

LEMMA NextMarks ==
  ASSUME TypeOK, MarksCounted, [Next]_vars
  PROVE  MarksCounted'
<1>1. CASE Next
  BY <1>1, ClientMarks, OtherMarks, PumpMarks, EnvironmentMarks DEF Next
<1>2. CASE UNCHANGED vars
  BY <1>2, FewerMarked DEF vars, Marked
<1>. QED BY <1>1, <1>2

\* Every state of the object is typed, whatever clients there are and whatever
\* they send: in particular the count of waiting callers never goes below 0.
THEOREM TypeCorrect == Spec => []TypeOK
<1>. DEFINE Inv == TypeOK /\ MarksCounted
<1>1. Init => Inv
  BY InitType
<1>2. Inv /\ [Next]_vars => Inv'
  BY NextType, NextMarks
<1>3. Inv => TypeOK
  OBVIOUS
<1>. QED BY <1>1, <1>2, <1>3, PTL DEF Spec

\* A client that waits for a response is counted, through failures and
\* cancellations: neither the exit timer nor a graceful close takes the object
\* for unused meanwhile.
THEOREM WaitersCounted == Spec => []MarksCounted
<1>. DEFINE Inv == TypeOK /\ MarksCounted
<1>1. Init => Inv
  BY InitType
<1>2. Inv /\ [Next]_vars => Inv'
  BY NextType, NextMarks
<1>3. Inv => MarksCounted
  OBVIOUS
<1>. QED BY <1>1, <1>2, <1>3, PTL DEF Spec

-----------------------------------------------------------------------------
(* One handler and one connection, as long as no exit timer shuts the      *)
(* object down.                                                            *)

NeverClosing == exitTask = "none" /\ closer = NotClosing

OwnInv == TypeOK /\ NeverClosing /\ ConnectionOwned

LEMMA Distinct ==
  /\ \A p \in Clients \cup Tasks : p # Nobody
  /\ \A c \in Clients : \A h \in Handlers : c # Handler(h)
BY NamesAssumption DEF Tasks, Handler

\* Nothing of what ConnectionOwned is about changes.
LEMMA Quiet ==
  ASSUME OwnInv, UNCHANGED <<lock, ws, task, link, hst, stopVars>>
  PROVE  NeverClosing' /\ ConnectionOwned'
BY DEF OwnInv, NeverClosing, ConnectionOwned, Open, Alive

\* A task that gets the lock to connect fails the open connection, if any.
LEMMA BeginOwned ==
  ASSUME OwnInv, NEW p \in Clients \cup Tasks, NEW force \in BOOLEAN, BeginConnect(p, force),
         force \/ ~Open, UNCHANGED <<ws, closer>>
  PROVE  /\ NeverClosing'
         /\ \A k \in Conns : link'[k] = "open" => k = ws'
         /\ ~Open'
BY BoundsAssumption DEF OwnInv, NeverClosing, ConnectionOwned, BeginConnect, Open

\* A connect that succeeds replaces nothing that is open, and its handler
\* replaces none that is alive.
LEMMA EndOwned ==
  ASSUME OwnInv, NEW p \in Clients \cup Tasks, NEW own \in SUBSET Handlers, EndConnect(p, own),
         \A h \in own : p = Handler(h), UNCHANGED stopVars
  PROVE  NeverClosing' /\ ConnectionOwned'
<1>1. PICK k \in FreshConn, new \in Created :
        /\ link' = [link EXCEPT ![k] = "open"]
        /\ ws' = k
        /\ task' \in IF new = {} THEN {task} ELSE new
        /\ hst' = [h \in Handlers |-> IF h \in own \cup new THEN "pumping" ELSE hst[h]]
  BY DEF EndConnect
<1>2. lock = p /\ lock' = Nobody /\ ~Open
  BY Distinct DEF EndConnect, OwnInv, ConnectionOwned
<1>3. \A j \in Conns : link'[j] = "open" => j = ws'
  BY <1>1, <1>2 DEF OwnInv, ConnectionOwned, FreshConn, Open, Conns
<1>4. \A h \in own : Alive(h) /\ h = task
  <2>. TAKE h \in own
  <2>1. h \in Handlers /\ lock = Handler(h)
    BY <1>2
  <2>2. hst[h] = "connecting"
    BY <2>1 DEF OwnInv, ConnectionOwned
  <2>3. h # 0
    BY <2>1 DEF Handlers
  <2>4. Alive(h)
    BY <2>2, <2>3 DEF Alive, HandlerLive
  <2>. QED BY <2>1, <2>4 DEF OwnInv, ConnectionOwned
<1>5. \A h \in Handlers : Alive(h)' => h = task'
  <2>1. CASE Alive(task)
    BY <1>1, <1>4, <2>1 DEF Created, OwnInv, ConnectionOwned, Alive
  <2>2. CASE ~Alive(task)
    <3>1. \A h \in Handlers : ~Alive(h)
      BY <2>2 DEF OwnInv, ConnectionOwned
    <3>2. PICK g \in FreshHandler : new = {g}
      BY <1>1, <2>2 DEF Created
    <3>3. own = {} /\ task' = g
      BY <1>1, <1>4, <2>2, <3>1, <3>2
    <3>. QED BY <1>1, <3>1, <3>2, <3>3 DEF Alive
  <2>. QED BY <2>1, <2>2
<1>6. NeverClosing'
  BY DEF OwnInv, NeverClosing
<1>. QED BY <1>2, <1>3, <1>5, <1>6, TaskType, Distinct DEF ConnectionOwned

LEMMA HandlerOwned ==
  ASSUME OwnInv, NEW h \in Handlers, HandlerStep(h)
  PROVE  NeverClosing' /\ ConnectionOwned'
<1>. USE DEF OwnInv
<1>1. CASE Wake(h)
  <2>1. hst[h] = "pumping" /\ UNCHANGED <<lock, ws, task, link, stopVars>>
    BY <1>1 DEF Wake
  <2>2. \E state \in {"finished", "failed", "resubmit"} : hst' = [hst EXCEPT ![h] = state]
    BY <1>1 DEF Wake
  <2>3. \A g \in Handlers : Alive(g)' => Alive(g)
    BY <2>1, <2>2 DEF Alive, HandlerLive
  <2>. QED BY <2>1, <2>2, <2>3 DEF NeverClosing, ConnectionOwned, Open
<1>2. CASE Resubmit(h)
  <2>1. lock = Nobody /\ hst[h] = "resubmit" /\ UNCHANGED <<lock, ws, task, link, stopVars>>
    BY <1>2 DEF Resubmit, Turn
  <2>2. hst' = [hst EXCEPT ![h] = "reconnect"]
    BY <1>2 DEF Resubmit
  <2>3. \A g \in Handlers : Alive(g)' => Alive(g)
    BY <2>1, <2>2 DEF Alive, HandlerLive
  <2>. QED BY <2>1, <2>2, <2>3, TaskType, Distinct DEF NeverClosing, ConnectionOwned, Open
<1>3. CASE Reconnect(h)
  <2>1. /\ hst[h] = "reconnect" /\ hst' = [hst EXCEPT ![h] = "connecting"]
        /\ BeginConnect(Handler(h), TRUE) /\ UNCHANGED <<ws, task, closer>>
    BY <1>3 DEF Reconnect
  <2>2. /\ NeverClosing' /\ ~Open'
        /\ \A k \in Conns : link'[k] = "open" => k = ws'
    BY <2>1, BeginOwned, TaskType
  <2>3. \A g \in Handlers : Alive(g)' => Alive(g)
    BY <2>1 DEF Alive, HandlerLive
  <2>4. \A g \in Handlers : lock' = Handler(g) => g = h
    BY <2>1 DEF BeginConnect, Handler
  <2>. QED BY <2>1, <2>2, <2>3, <2>4 DEF ConnectionOwned
<1>4. CASE Reconnected(h)
  <2>1. EndConnect(Handler(h), {h}) /\ UNCHANGED stopVars
    BY <1>4 DEF Reconnected
  <2>2. Handler(h) \in Clients \cup Tasks /\ {h} \in SUBSET Handlers
    BY TaskType
  <2>3. \A g \in {h} : Handler(h) = Handler(g)
    OBVIOUS
  <2>. QED BY <2>1, <2>2, <2>3, EndOwned, ZenonT(40)
<1>5. CASE ReconnectFails(h)
  <2>1. lock = Handler(h) /\ lock' = Nobody /\ UNCHANGED <<ws, task, link, stopVars>>
    BY <1>5 DEF ReconnectFails, FailConnect
  <2>2. \E state \in {"failed", "reconnect"} : hst' = [hst EXCEPT ![h] = state]
    BY <1>5 DEF ReconnectFails
  <2>3. \A g \in Handlers : Alive(g)' => Alive(g)
    BY <2>1, <2>2 DEF Alive, HandlerLive, ConnectionOwned, Handlers
  <2>. QED BY <2>1, <2>2, <2>3, TaskType, Distinct DEF NeverClosing, ConnectionOwned, Open
<1>6. CASE Block(Handler(h))
  BY <1>6, Quiet DEF Block
<1>. QED BY <1>1, <1>2, <1>3, <1>4, <1>5, <1>6 DEF HandlerStep

LEMMA PumpOwned ==
  ASSUME OwnInv, NEW h \in Handlers, ReceiverStep(h) \/ ReceiveMalformed(h) \/ SenderStep(h)
  PROVE  NeverClosing' /\ ConnectionOwned'
<1>1. UNCHANGED <<lock, ws, task, link, hst, stopVars>>
  BY DEF ReceiverStep, Receive, Dispatch, DispatchTwice, ReceiveClosed, ReceiveTimeout, ReceiveConflict,
         ReceiveMalformed, EndReceiver, SenderStep, TakeFrame, SendFrame, Block
<1>. QED BY <1>1, Quiet

LEMMA ClientOwned ==
  ASSUME OwnInv, ~AutoShutdown, NEW c \in Clients, Enter(c) \/ ClientStep(c) \/ Cancel(c)
  PROVE  NeverClosing' /\ ConnectionOwned'
<1>1. CASE Revive(c) \/ Connect(c)
  <2>1. /\ \E force \in BOOLEAN : BeginConnect(c, force) /\ (force \/ ~Open)
        /\ UNCHANGED <<ws, task, hst, closer>>
    BY <1>1 DEF Revive, Connect
  <2>2. /\ NeverClosing' /\ ~Open'
        /\ \A k \in Conns : link'[k] = "open" => k = ws'
    BY <2>1, BeginOwned
  <2>3. lock' = c
    BY <2>1 DEF BeginConnect
  <2>. QED BY <2>1, <2>2, <2>3, Distinct DEF OwnInv, ConnectionOwned, Alive
<1>2. CASE Connected(c)
  BY <1>2, EndOwned DEF Connected
<1>3. CASE ConnectFails(c) \/ Cancel(c)
  <2>1. lock' \in {lock, Nobody} /\ UNCHANGED <<ws, task, link, hst, stopVars>>
    BY <1>3 DEF ConnectFails, FailConnect, Cancel
  <2>. QED BY <2>1, TaskType, Distinct DEF OwnInv, NeverClosing, ConnectionOwned, Open, Alive
<1>4. CASE Exit(c)
  <2>1. UNCHANGED <<lock, ws, task, link, hst, stopVars>>
    BY <1>4 DEF Exit
  <2>. QED BY <2>1, Quiet
<1>5. CASE \/ Enter(c) \/ NoNeed(c) \/ Mark(c) \/ Acquire(c) \/ Register(c) \/ Retrieve(c) \/ RetrieveRaises(c)
           \/ Rewatch(c) \/ Unmark(c) \/ Discard(c) \/ Block(c)
  <2>1. UNCHANGED <<lock, ws, task, link, hst, stopVars>>
    BY <1>5 DEF Enter, NoNeed, Mark, Acquire, Register, Retrieve, RetrieveRaises, Rewatch, Unmark, Discard, Block
  <2>. QED BY <2>1, Quiet
<1>. QED BY <1>1, <1>2, <1>3, <1>4, <1>5 DEF ClientStep

LEMMA EnvironmentOwned ==
  ASSUME OwnInv, CloserStep \/ NetworkStep
  PROVE  NeverClosing' /\ ConnectionOwned'
<1>1. CASE CloserStep
  BY <1>1 DEF OwnInv, NeverClosing, NotClosing, CloserStep, TimerFires, CancelHandler, CloseConn, ShutdownEnds
<1>2. CASE \E k \in Conns : NodeReplies(k)
  BY <1>2, Quiet DEF NodeReplies
<1>3. CASE \E k \in Conns : ConnLost(k)
  <2>1. PICK k \in Conns, how \in Closures : link' = [link EXCEPT ![k] = how]
    BY <1>3 DEF ConnLost
  <2>2. UNCHANGED <<lock, ws, task, hst, stopVars>>
    BY <1>3 DEF ConnLost
  <2>3. how # "open"
    BY BoundsAssumption
  <2>. QED BY <2>1, <2>2, <2>3 DEF OwnInv, NeverClosing, ConnectionOwned, Open, Alive
<1>. QED BY <1>1, <1>2, <1>3 DEF NetworkStep

LEMMA NextOwned ==
  ASSUME OwnInv, ~AutoShutdown, [Next]_vars
  PROVE  NeverClosing' /\ ConnectionOwned'
<1>1. CASE Next
  BY <1>1, HandlerOwned, PumpOwned, ClientOwned, EnvironmentOwned DEF Next
<1>2. CASE UNCHANGED vars
  BY <1>2, Quiet DEF vars
<1>. QED BY <1>1, <1>2

LEMMA InitOwned == Init => NeverClosing /\ ConnectionOwned
BY TaskType, Distinct DEF Init, NeverClosing, ConnectionOwned, Open, Alive, HandlerLive, Handlers

\* A connection that is open is self.ws and a live handler is self._send_recv_task,
\* and while a task connects under the lock no connection is open: the checks
\* _connect_internal repeats with the lock are enough.
THEOREM Owned ==
  ASSUME ~AutoShutdown
  PROVE  Spec => []ConnectionOwned
<1>. DEFINE Inv == OwnInv /\ MarksCounted
<1>1. Init => Inv
  BY InitType, InitOwned DEF OwnInv
<1>2. Inv /\ [Next]_vars => Inv'
  BY NextType, NextMarks, NextOwned DEF OwnInv
<1>3. Inv => ConnectionOwned
  BY DEF OwnInv
<1>. QED BY <1>1, <1>2, <1>3, PTL DEF Spec

\* Requests are sent and answered by one pair of pumps at a time, through any
\* number of losses, reconnections and revivals.
THEOREM OneHandlerAlive ==
  ASSUME ~AutoShutdown
  PROVE  Spec => []OneHandler
<1>1. ConnectionOwned => OneHandler
  BY DEF ConnectionOwned, OneHandler
<1>. QED BY <1>1, Owned, PTL

\* No connect leaves another open connection behind.
THEOREM OneSocketOpen ==
  ASSUME ~AutoShutdown
  PROVE  Spec => []OneSocket
<1>1. ConnectionOwned => OneSocket
  BY DEF ConnectionOwned, OneSocket
<1>. QED BY <1>1, Owned, PTL

-----------------------------------------------------------------------------
(* What each client has booked at each point of its request.               *)

Entering == {"idle", "revive", "reviving", "connect", "connecting", "mark"}
Leaving  == {"unmark", "discard", "exit", "done"}

Booked(c) ==
  /\ pc[c] \in Entering => sent[c] = 0 /\ acquired[c] = 0 /\ pending[c] = {}
  /\ pc[c] = "acquire" => Unbooked(c) /\ acquired[c] < NextSize(c)
  /\ pc[c] = "register" => Unbooked(c) /\ acquired[c] = NextSize(c)
  /\ pc[c] = "await" => sent[c] = Len(Plan[c]) /\ acquired[c] = 0
  /\ pc[c] \in Leaving /\ outcome[c] # "cancelled" => acquired[c] = 0
  /\ pc[c] \in {"exit", "done"} /\ outcome[c] # "cancelled" => pending[c] = {}
  /\ outcome[c] = "none" <=> pc[c] \notin Leaving
  /\ outcome[c] = "answered" => pending[c] = {} /\ sent[c] = Len(Plan[c])
  /\ lock = c => pc[c] \in {"reviving", "connecting"}

BookInv ==
  /\ \A c \in Clients : Booked(c)
  /\ \A c, d \in Clients : c # d => pending[c] \cap pending[d] = {}
  /\ \A c \in Clients : \A i \in pending[c] : received[i] # "none"

\* A client's step is its own: the others' bookings stay as they are.
LEMMA OwnStep ==
  ASSUME TypeOK, BookInv, NEW c \in Clients,
         \A d \in Clients \ {c} :
           UNCHANGED <<pc[d], sent[d], acquired[d], pending[d], outcome[d]>>,
         lock' \in {lock, Nobody, c},
         Booked(c)',
         \A d \in Clients \ {c} : pending'[c] \cap pending[d] = {},
         \A d \in Clients : \A i \in pending'[d] : received'[i] # "none"
  PROVE  BookInv'
<1>1. ASSUME NEW d \in Clients \ {c} PROVE Booked(d)'
  <2>1. Booked(d) /\ (lock' = d => lock = d)
    BY NamesAssumption DEF BookInv
  <2>. QED BY <2>1 DEF Booked, Unbooked, NextSize
<1>2. ASSUME NEW d \in Clients, NEW e \in Clients, d # e PROVE pending'[d] \cap pending'[e] = {}
  <2>1. CASE d = c
    BY <1>2, <2>1
  <2>2. CASE e = c
    BY <1>2, <2>2
  <2>3. CASE d # c /\ e # c
    BY <1>2, <2>3 DEF BookInv
  <2>. QED BY <2>1, <2>2, <2>3
<1>. QED BY <1>1, <1>2 DEF BookInv

\* Steps of others: no client's bookings change.
LEMMA OthersStep ==
  ASSUME TypeOK, BookInv, UNCHANGED <<pc, sent, acquired, pending, outcome>>,
         lock' \in {lock} \cup Tasks \cup {Nobody},
         \A i \in Ids : received[i] # "none" => received'[i] # "none"
  PROVE  BookInv'
<1>1. ASSUME NEW d \in Clients PROVE Booked(d)'
  <2>1. Booked(d) /\ (lock' = d => lock = d)
    BY NamesAssumption DEF BookInv
  <2>. QED BY <2>1 DEF Booked, Unbooked, NextSize
<1>. QED BY <1>1 DEF BookInv

LEMMA PumpBooks ==
  ASSUME TypeOK, BookInv, NEW h \in Handlers,
         HandlerStep(h) \/ ReceiverStep(h) \/ ReceiveMalformed(h) \/ SenderStep(h)
  PROVE  BookInv' /\ UNCHANGED <<pc, sent, acquired, pending, outcome, permits>>
<1>1. UNCHANGED <<pc, sent, acquired, pending, outcome, permits>>
  BY DEF HandlerStep, Wake, Resubmit, Reconnect, Reconnected, ReconnectFails, Block,
         ReceiverStep, Receive, Dispatch, DispatchTwice, ReceiveClosed, ReceiveTimeout, ReceiveConflict,
         ReceiveMalformed, EndReceiver, SenderStep, TakeFrame, SendFrame
<1>2. lock' \in {lock} \cup Tasks \cup {Nobody}
  BY TaskType DEF HandlerStep, Wake, Resubmit, Reconnect, BeginConnect, Reconnected, EndConnect,
         ReconnectFails, FailConnect, Block,
         ReceiverStep, Receive, Dispatch, DispatchTwice, ReceiveClosed, ReceiveTimeout, ReceiveConflict,
         ReceiveMalformed, EndReceiver, SenderStep, TakeFrame, SendFrame
<1>3. \A i \in Ids : received[i] # "none" => received'[i] # "none"
  <2>1. CASE HandlerStep(h)
    <3>1. CASE Resubmit(h)
      <4>1. received' = [i \in Ids |-> IF i \in ResentIds THEN "pending" ELSE received[i]]
        BY <3>1 DEF Resubmit
      <4>. QED BY <4>1
    <3>2. CASE Wake(h) \/ Reconnect(h) \/ Reconnected(h) \/ ReconnectFails(h) \/ Block(Handler(h))
      BY <3>2 DEF Wake, Reconnect, Reconnected, ReconnectFails, Block
    <3>. QED BY <2>1, <3>1, <3>2 DEF HandlerStep
  <2>2. CASE Dispatch(h)
    BY <2>2, NamesAssumption DEF Dispatch
  <2>3. CASE ReceiverStep(h) /\ ~Dispatch(h)
    BY <2>3 DEF ReceiverStep, Receive, DispatchTwice, ReceiveClosed, ReceiveTimeout, ReceiveConflict,
         EndReceiver, Failed, Block
  <2>4. CASE ReceiveMalformed(h)
    BY <2>4 DEF ReceiveMalformed, EndReceiver, Failed
  <2>5. CASE SenderStep(h)
    BY <2>5 DEF SenderStep, TakeFrame, SendFrame, Block
  <2>. QED BY <2>1, <2>2, <2>3, <2>4, <2>5
<1>. QED BY <1>1, <1>2, <1>3, OthersStep

LEMMA EnvironmentBooks ==
  ASSUME TypeOK, BookInv, CloserStep \/ NetworkStep
  PROVE  BookInv' /\ UNCHANGED <<pc, sent, acquired, pending, outcome, permits>>
<1>1. UNCHANGED <<pc, sent, acquired, pending, outcome, permits, received>> /\ lock' \in {lock, Nobody}
  BY DEF CloserStep, TimerFires, CancelHandler, CloseConn, ShutdownEnds, NetworkStep, NodeReplies, ConnLost
<1>. QED BY <1>1, OthersStep

\* What a client's steps do to its booking and to the permits.
LEMMA EnterBooks ==
  ASSUME TypeOK, BookInv, NEW c \in Clients,
         Enter(c) \/ Revive(c) \/ Connect(c) \/ NoNeed(c) \/ Connected(c) \/ Mark(c) \/ Block(c)
  PROVE  BookInv' /\ UNCHANGED <<sent, acquired, pending, outcome, permits>>
<1>1. UNCHANGED <<sent, acquired, pending, outcome, permits, received>> /\ lock' \in {lock, Nobody, c}
  BY DEF Enter, Revive, Connect, BeginConnect, NoNeed, Connected, EndConnect, Mark, Block
<1>2. \A d \in Clients \ {c} : pc'[d] = pc[d]
  BY DEF Enter, Revive, Connect, BeginConnect, NoNeed, Connected, EndConnect, Mark, Block
<1>3. Booked(c)
  BY DEF BookInv
<1>4. Plan[c] \in Seq(Nat \ {0}) /\ Len(Plan[c]) \in Nat \ {0}
  BY ClientsAssumption, EmptySeq
<1>5. Booked(c)'
  <2>1. CASE Enter(c)
    BY <1>3, <2>1 DEF Enter, Booked, Entering, Leaving
  <2>2. CASE Revive(c) \/ Connect(c)
    BY <1>3, <2>2 DEF Revive, Connect, BeginConnect, Booked, Entering, Leaving
  <2>3. CASE NoNeed(c)
    BY <1>3, <2>3, NamesAssumption DEF NoNeed, Turn, Booked, Entering, Leaving
  <2>4. CASE Connected(c)
    BY <1>3, <2>4, NamesAssumption DEF Connected, EndConnect, Booked, Entering, Leaving
  <2>5. CASE Mark(c)
    <3>1. pc[c] = "mark" /\ pc' = [pc EXCEPT ![c] = "acquire"] /\ lock' = Nobody
      BY <2>5 DEF Mark, Turn
    <3>2. Plan[c][1] \in Nat \ {0}
      BY <1>4
    <3>. QED BY <1>1, <1>3, <1>4, <3>1, <3>2, NamesAssumption DEF Booked, Entering, Leaving, Unbooked, NextSize
  <2>6. CASE Block(c)
    BY <1>3, <2>6 DEF Block, Booked, Unbooked, NextSize
  <2>. QED BY <2>1, <2>2, <2>3, <2>4, <2>5, <2>6
<1>. QED BY <1>1, <1>2, <1>5, OwnStep, ZenonT(40) DEF BookInv

LEMMA AcquireBooks ==
  ASSUME TypeOK, BookInv, NEW c \in Clients, Acquire(c)
  PROVE  BookInv'
<1>1. /\ pc[c] = "acquire" /\ Booked(c)
      /\ UNCHANGED <<lock, sent, pending, outcome, received>>
      /\ \/ UNCHANGED <<acquired, pc>>
         \/ /\ acquired' = [acquired EXCEPT ![c] = @ + 1]
            /\ pc' = [pc EXCEPT ![c] = IF acquired[c] + 1 = NextSize(c) THEN "register" ELSE "acquire"]
  BY DEF Acquire, BookInv
<1>2. Plan[c] \in Seq(Nat \ {0}) /\ Len(Plan[c]) \in Nat \ {0} /\ NextSize(c) \in Nat
  <2>1. Plan[c] \in Seq(Nat \ {0})
    BY ClientsAssumption
  <2>. QED BY <1>1, <2>1, ClientsAssumption, EmptySeq DEF Booked, Unbooked, NextSize
<1>3. Booked(c)'
  BY <1>1, <1>2, SMTT(40) DEF Booked, Entering, Leaving, Unbooked, NextSize
<1>4. \A d \in Clients \ {c} : pc'[d] = pc[d] /\ acquired'[d] = acquired[d]
  BY <1>1
<1>. QED BY <1>1, <1>3, <1>4, OwnStep, ZenonT(40) DEF BookInv

LEMMA RegisterBooks ==
  ASSUME TypeOK, BookInv, NEW c \in Clients, Register(c)
  PROVE  BookInv'
<1>1. PICK S \in NextIds(NextSize(c)) :
        /\ received' = [i \in Ids |-> IF i \in S THEN "pending" ELSE received[i]]
        /\ pending' = [pending EXCEPT ![c] = @ \cup S]
  BY DEF Register
<1>2. /\ pc[c] = "register" /\ Booked(c)
      /\ lock' = Nobody /\ UNCHANGED outcome
      /\ acquired' = [acquired EXCEPT ![c] = 0] /\ sent' = [sent EXCEPT ![c] = @ + 1]
      /\ pc' = [pc EXCEPT ![c] = IF sent[c] + 1 < Len(Plan[c]) THEN "acquire" ELSE "await"]
  BY DEF Register, Turn, BookInv
<1>3. S \subseteq Ids /\ \A d \in Clients : S \cap pending[d] = {}
  BY DEF NextIds, FreeIds
<1>4. Plan[c] \in Seq(Nat \ {0}) /\ Len(Plan[c]) \in Nat \ {0}
  BY ClientsAssumption, EmptySeq
<1>5. Booked(c)'
  <2>1. sent[c] + 1 < Len(Plan[c]) => Plan[c][sent[c] + 2] \in Nat \ {0}
    BY <1>4, SMTT(40)
  <2>. QED BY <1>2, <1>4, <2>1, NamesAssumption, SMTT(40) DEF Booked, Entering, Leaving, Unbooked, NextSize
<1>6. \A d \in Clients : \A i \in pending'[d] : received'[i] # "none"
  BY <1>1, <1>3 DEF BookInv
<1>7. \A d \in Clients \ {c} : pending'[c] \cap pending[d] = {}
  BY <1>1, <1>3 DEF BookInv
<1>8. \A d \in Clients \ {c} : UNCHANGED <<pc[d], sent[d], acquired[d], pending[d], outcome[d]>>
  BY <1>1, <1>2
<1>. QED BY <1>2, <1>5, <1>6, <1>7, <1>8, OwnStep

\* A response is consumed, or given up.
LEMMA FewerPending ==
  ASSUME TypeOK, BookInv, NEW c \in Clients, NEW i \in pending[c],
         received' = [received EXCEPT ![i] = "none"], pending' = [pending EXCEPT ![c] = @ \ {i}]
  PROVE  /\ \A d \in Clients : \A j \in pending'[d] : received'[j] # "none"
         /\ \A d \in Clients \ {c} : pending'[c] \cap pending[d] = {} /\ pending'[d] = pending[d]
<1>1. \A d \in Clients : \A j \in pending'[d] : j # i /\ j \in pending[d] /\ j \in Ids
  BY DEF BookInv
<1>. QED BY <1>1 DEF BookInv

LEMMA RetrieveBooks ==
  ASSUME TypeOK, BookInv, NEW c \in Clients, Retrieve(c)
  PROVE  BookInv'
<1>1. PICK i \in pending[c] :
        /\ received' = [received EXCEPT ![i] = "none"]
        /\ pending' = [pending EXCEPT ![c] = @ \ {i}]
        /\ IF pending[c] = {i} THEN EndRequest(c, "answered") ELSE UNCHANGED <<pc, outcome, captured, running>>
  BY DEF Retrieve
<1>2. pc[c] = "await" /\ Booked(c) /\ UNCHANGED <<lock, sent, acquired>>
  BY DEF Retrieve, Looks, BookInv
<1>3. /\ \A d \in Clients : \A j \in pending'[d] : received'[j] # "none"
      /\ \A d \in Clients \ {c} : pending'[c] \cap pending[d] = {} /\ pending'[d] = pending[d]
  BY <1>1, FewerPending
<1>4. \/ pending[c] = {i} /\ pc' = [pc EXCEPT ![c] = "unmark"] /\ outcome' = [outcome EXCEPT ![c] = "answered"]
      \/ pending[c] # {i} /\ UNCHANGED <<pc, outcome>>
  BY <1>1 DEF EndRequest
<1>5. Booked(c)'
  BY <1>1, <1>2, <1>4 DEF Booked, Entering, Leaving, Unbooked, NextSize
<1>6. \A d \in Clients \ {c} : UNCHANGED <<pc[d], sent[d], acquired[d], pending[d], outcome[d]>>
  BY <1>2, <1>3, <1>4
<1>. QED BY <1>2, <1>3, <1>5, <1>6, OwnStep

LEMMA DiscardBooks ==
  ASSUME TypeOK, BookInv, NEW c \in Clients, Discard(c)
  PROVE  BookInv'
<1>1. PICK i \in pending[c] :
        /\ received' = [received EXCEPT ![i] = "none"]
        /\ pending' = [pending EXCEPT ![c] = @ \ {i}]
        /\ pc' = [pc EXCEPT ![c] = IF pending[c] = {i} THEN "exit" ELSE "discard"]
  BY DEF Discard
<1>2. pc[c] = "discard" /\ Booked(c) /\ lock' = Nobody /\ UNCHANGED <<sent, acquired, outcome>>
  BY DEF Discard, Turn, BookInv
<1>3. /\ \A d \in Clients : \A j \in pending'[d] : received'[j] # "none"
      /\ \A d \in Clients \ {c} : pending'[c] \cap pending[d] = {} /\ pending'[d] = pending[d]
  BY <1>1, FewerPending
<1>5. Booked(c)'
  BY <1>1, <1>2, NamesAssumption DEF Booked, Entering, Leaving, Unbooked, NextSize
<1>6. \A d \in Clients \ {c} : UNCHANGED <<pc[d], sent[d], acquired[d], pending[d], outcome[d]>>
  BY <1>1, <1>2, <1>3
<1>. QED BY <1>2, <1>3, <1>5, <1>6, OwnStep

LEMMA LeaveBooks ==
  ASSUME TypeOK, BookInv, NEW c \in Clients,
         ConnectFails(c) \/ RetrieveRaises(c) \/ Rewatch(c) \/ Unmark(c) \/ Exit(c) \/ Cancel(c)
  PROVE  BookInv' /\ UNCHANGED <<sent, acquired, pending, permits>>
<1>1. UNCHANGED <<sent, acquired, pending, permits, received>> /\ lock' \in {lock, Nobody} /\ Booked(c)
  BY DEF ConnectFails, FailConnect, RetrieveRaises, Rewatch, Unmark, Exit, Cancel, BookInv
<1>2. \A d \in Clients \ {c} : pc'[d] = pc[d] /\ outcome'[d] = outcome[d]
  BY DEF ConnectFails, FailConnect, RetrieveRaises, EndRequest, Rewatch, Unmark, Exit, Cancel
<1>3. Booked(c)'
  <2>1. CASE ConnectFails(c)
    BY <1>1, <2>1, NamesAssumption DEF ConnectFails, FailConnect, Booked, Entering, Leaving
  <2>2. CASE RetrieveRaises(c)
    BY <1>1, <2>2 DEF RetrieveRaises, Looks, EndRequest, Booked, Entering, Leaving
  <2>3. CASE Rewatch(c)
    BY <1>1, <2>3 DEF Rewatch, Booked, Entering, Leaving, Unbooked, NextSize
  <2>4. CASE Unmark(c)
    BY <1>1, <2>4, NamesAssumption DEF Unmark, Turn, Booked, Entering, Leaving
  <2>5. CASE Exit(c)
    BY <1>1, <2>5 DEF Exit, Booked, Entering, Leaving
  <2>6. CASE Cancel(c)
    <3>1. /\ lock' # c /\ outcome' = [outcome EXCEPT ![c] = "cancelled"]
          /\ pc' = [pc EXCEPT ![c] = CancelledTo(c)] /\ CancelledTo(c) \in {"done", "unmark", "exit"}
      BY <2>6, NamesAssumption DEF Cancel, CancelledTo
    <3>. QED BY <1>1, <3>1 DEF Booked, Entering, Leaving
  <2>. QED BY <2>1, <2>2, <2>3, <2>4, <2>5, <2>6
<1>. QED BY <1>1, <1>2, <1>3, OwnStep, ZenonT(40) DEF BookInv

LEMMA InitBooks == Init => BookInv
BY NamesAssumption DEF Init, BookInv, Booked, Entering, Leaving, Unbooked, NextSize

LEMMA NextBooks ==
  ASSUME TypeOK, BookInv, [Next]_vars
  PROVE  BookInv'
<1>1. CASE Next
  BY <1>1, PumpBooks, EnvironmentBooks, EnterBooks, AcquireBooks, RegisterBooks, RetrieveBooks, DiscardBooks,
     LeaveBooks DEF Next, ClientStep
<1>2. CASE UNCHANGED vars
  BY <1>2, OthersStep DEF vars
<1>. QED BY <1>1, <1>2

-----------------------------------------------------------------------------
(* Every permit is accounted for.                                          *)

HeldInNat == \A c \in Clients : IsFiniteSet(pending[c]) /\ Cardinality(pending[c]) \in Nat /\ Held(c) \in Nat

LEMMA HeldType == TypeOK => HeldInNat
<1>1. IsFiniteSet(Ids)
  BY FS_Interval, BoundsAssumption DEF Ids
<1>. SUFFICES ASSUME TypeOK, NEW c \in Clients
              PROVE  IsFiniteSet(pending[c]) /\ Cardinality(pending[c]) \in Nat /\ Held(c) \in Nat
  BY DEF HeldInNat
<1>2. IsFiniteSet(pending[c])
  BY <1>1, FS_Subset
<1>3. Cardinality(pending[c]) \in Nat
  BY <1>2, FS_CardinalityType
<1>. QED BY <1>2, <1>3 DEF Held

\* Who holds what is unchanged but for one client.
LEMMA OneHolder ==
  ASSUME TypeOK, TypeOK', NEW c \in Clients,
         \A d \in Clients \ {c} : acquired'[d] = acquired[d] /\ pending'[d] = pending[d],
         permits' + acquired'[c] + Cardinality(pending'[c]) = permits + acquired[c] + Cardinality(pending[c]),
         PermitsAccounted
  PROVE  PermitsAccounted'
<1>1. PICK f : f = [d \in Clients |-> Held(d)]
  OBVIOUS
<1>2. PICK g : g = [d \in Clients |-> Held(d)']
  OBVIOUS
<1>3. (TypeOK => HeldInNat)'
  <2>. HIDE DEF TypeOK
  <2>. QED BY HeldType, PTL
<1>4. \A d \in Clients : f[d] \in Nat /\ g[d] \in Nat
  BY <1>1, <1>2, <1>3, HeldType DEF HeldInNat
<1>5. \A d \in Clients \ {c} : g[d] = f[d]
  BY <1>1, <1>2 DEF Held
<1>6. permits' + g[c] = permits + f[c] /\ permits \in Nat /\ permits' \in Nat
  <2>1. f[c] = acquired[c] + Cardinality(pending[c]) /\ g[c] = acquired'[c] + Cardinality(pending'[c])
    BY <1>1, <1>2 DEF Held
  <2>2. acquired[c] \in Nat /\ acquired'[c] \in Nat /\ permits \in Nat /\ permits' \in Nat
    OBVIOUS
  <2>3. Cardinality(pending[c]) \in Nat /\ Cardinality(pending'[c]) \in Nat
    BY <1>3, HeldType DEF HeldInNat
  <2>. HIDE DEF TypeOK
  <2>. QED BY <2>1, <2>2, <2>3
<1>7. permits + SumFunctionOnSet(f, Clients) = MaxPermits
  BY <1>1 DEF PermitsAccounted, SumFunction
<1>8. permits' + SumFunctionOnSet(g, Clients) = MaxPermits
  <2>1. IsFiniteSet(Clients)
    BY ClientsAssumption
  <2>. HIDE DEF TypeOK
  <2>. QED BY <1>4, <1>5, <1>6, <1>7, <2>1, SumBalance
<1>. QED BY <1>2, <1>8 DEF PermitsAccounted, SumFunction

LEMMA SameHolders ==
  ASSUME PermitsAccounted, UNCHANGED <<acquired, pending, permits>>
  PROVE  PermitsAccounted'
BY DEF PermitsAccounted, Held

\* A permit taken is held; at the registration it passes from the task to the id.
LEMMA AcquirePermits ==
  ASSUME TypeOK, TypeOK', PermitsAccounted, NEW c \in Clients, Acquire(c)
  PROVE  PermitsAccounted'
<1>1. CASE UNCHANGED <<acquired, pending, permits>>
  BY <1>1, SameHolders
<1>2. CASE permits > 0
  <2>1. permits' = permits - 1 /\ acquired' = [acquired EXCEPT ![c] = @ + 1] /\ UNCHANGED pending
    BY <1>2 DEF Acquire
  <2>2. acquired'[c] = acquired[c] + 1 /\ acquired[c] \in Nat /\ permits \in Nat
    BY <2>1
  <2>3. Cardinality(pending[c]) \in Nat
    BY HeldType DEF HeldInNat
  <2>4. permits' + acquired'[c] + Cardinality(pending'[c]) = permits + acquired[c] + Cardinality(pending[c])
    <3>. HIDE DEF TypeOK
    <3>. QED BY <2>1, <2>2, <2>3
  <2>5. \A d \in Clients \ {c} : acquired'[d] = acquired[d] /\ pending'[d] = pending[d]
    BY <2>1
  <2>. HIDE DEF TypeOK
  <2>. QED BY <2>4, <2>5, OneHolder
<1>. QED BY <1>1, <1>2 DEF Acquire

LEMMA RegisterPermits ==
  ASSUME TypeOK, TypeOK', BookInv, PermitsAccounted, NEW c \in Clients, Register(c)
  PROVE  PermitsAccounted'
<1>1. PICK S \in NextIds(NextSize(c)) : pending' = [pending EXCEPT ![c] = @ \cup S]
  BY DEF Register
<1>2. acquired[c] = NextSize(c) /\ acquired' = [acquired EXCEPT ![c] = 0] /\ UNCHANGED permits
  BY DEF Register, BookInv, Booked
<1>3. Cardinality(S) = acquired[c] /\ S \cap pending[c] = {} /\ S \subseteq Ids
  BY <1>2 DEF NextIds, FreeIds
<1>4. IsFiniteSet(S) /\ IsFiniteSet(pending[c])
  <2>1. IsFiniteSet(Ids)
    BY FS_Interval, BoundsAssumption DEF Ids
  <2>. QED BY <1>3, <2>1, FS_Subset, HeldType DEF HeldInNat
<1>5. \A d \in Clients \ {c} : acquired'[d] = acquired[d] /\ pending'[d] = pending[d]
  BY <1>1, <1>2
<1>6. pending'[c] = pending[c] \cup S /\ acquired'[c] = 0 /\ acquired[c] \in Nat /\ permits' = permits
  BY <1>1, <1>2
<1>7. permits \in Nat
  OBVIOUS
<1>. HIDE DEF TypeOK
<1>8. Cardinality(pending[c] \cup S) = Cardinality(pending[c]) + acquired[c]
  BY <1>3, <1>4, DisjointCount
<1>9. Cardinality(pending[c]) \in Nat
  BY <1>4, FS_CardinalityType
<1>10. permits' + acquired'[c] + Cardinality(pending'[c]) = permits + acquired[c] + Cardinality(pending[c])
  BY <1>6, <1>7, <1>8, <1>9
<1>. QED BY <1>5, <1>10, OneHolder

\* The permit of an id goes back when its client has done with it.
LEMMA ReleasePermits ==
  ASSUME TypeOK, TypeOK', PermitsAccounted, NEW c \in Clients, NEW i \in pending[c],
         pending' = [pending EXCEPT ![c] = @ \ {i}], permits' = permits + 1, UNCHANGED acquired
  PROVE  PermitsAccounted'
<1>1. IsFiniteSet(pending[c]) /\ acquired[c] \in Nat /\ permits \in Nat
  BY HeldType DEF HeldInNat
<1>2. \A d \in Clients \ {c} : acquired'[d] = acquired[d] /\ pending'[d] = pending[d]
  OBVIOUS
<1>3. pending'[c] = pending[c] \ {i} /\ acquired'[c] = acquired[c] /\ permits' = permits + 1
  OBVIOUS
<1>. HIDE DEF TypeOK
<1>4. Cardinality(pending[c] \ {i}) = Cardinality(pending[c]) - 1 /\ Cardinality(pending[c]) \in Nat
  BY <1>1, FS_RemoveElement, FS_CardinalityType
<1>5. Cardinality(pending'[c]) = Cardinality(pending[c]) - 1
  BY <1>3, <1>4
<1>6. permits' + acquired'[c] + Cardinality(pending'[c]) = permits + acquired[c] + Cardinality(pending[c])
  BY <1>1, <1>3, <1>4, <1>5
<1>. QED BY <1>2, <1>6, OneHolder

LEMMA NextPermits ==
  ASSUME TypeOK, TypeOK', BookInv, PermitsAccounted, [Next]_vars
  PROVE  PermitsAccounted'
<1>1. CASE \E c \in Clients : Acquire(c) \/ Register(c)
  BY <1>1, AcquirePermits, RegisterPermits
<1>2. CASE \E c \in Clients : Retrieve(c)
  <2>1. PICK c \in Clients : Retrieve(c)
    BY <1>2
  <2>2. PICK i \in pending[c] : pending' = [pending EXCEPT ![c] = @ \ {i}]
    BY <2>1 DEF Retrieve
  <2>3. permits' = permits + 1 /\ UNCHANGED acquired
    BY <2>1 DEF Retrieve
  <2>. QED BY <2>2, <2>3, ReleasePermits
<1>3. CASE \E c \in Clients : Discard(c)
  <2>1. PICK c \in Clients : Discard(c)
    BY <1>3
  <2>2. PICK i \in pending[c] :
          /\ pending' = [pending EXCEPT ![c] = @ \ {i}]
          /\ permits' = IF received[i] = "none" THEN permits ELSE permits + 1
    BY <2>1 DEF Discard
  <2>3. received[i] # "none"
    BY DEF BookInv
  <2>4. UNCHANGED acquired
    BY <2>1 DEF Discard
  <2>. QED BY <2>2, <2>3, <2>4, ReleasePermits
<1>4. CASE UNCHANGED vars
  BY <1>4, SameHolders DEF vars
<1>5. CASE \E c \in Clients :
             \/ Enter(c) \/ Revive(c) \/ Connect(c) \/ NoNeed(c) \/ Connected(c) \/ Mark(c) \/ Block(c)
             \/ ConnectFails(c) \/ RetrieveRaises(c) \/ Rewatch(c) \/ Unmark(c) \/ Exit(c) \/ Cancel(c)
  BY <1>5, EnterBooks, LeaveBooks, SameHolders
<1>6. CASE \E h \in Handlers : HandlerStep(h) \/ ReceiverStep(h) \/ ReceiveMalformed(h) \/ SenderStep(h)
  BY <1>6, PumpBooks, SameHolders
<1>7. CASE CloserStep \/ NetworkStep
  BY <1>7, EnvironmentBooks, SameHolders
<1>. QED BY <1>1, <1>2, <1>3, <1>4, <1>5, <1>6, <1>7 DEF Next, ClientStep

LEMMA InitPermits == Init => PermitsAccounted
<1>. SUFFICES ASSUME Init PROVE PermitsAccounted
  OBVIOUS
<1>1. PICK f : f = [c \in Clients |-> Held(c)]
  OBVIOUS
<1>2. \A c \in Clients : f[c] = 0
  BY <1>1, FS_EmptySet DEF Init, Held
<1>3. SumFunctionOnSet(f, Clients) = 0
  BY <1>2, SumZero, ClientsAssumption
<1>. QED BY <1>1, <1>3, BoundsAssumption DEF Init, PermitsAccounted, SumFunction

\* Every permit is in the semaphore or held by one client, for any number of
\* clients and payloads, through errors, cancellations, losses and shutdowns.
THEOREM PermitsConserved == Spec => []PermitsAccounted
<1>. DEFINE Inv == TypeOK /\ MarksCounted /\ BookInv /\ PermitsAccounted
<1>1. Init => Inv
  BY InitType, InitBooks, InitPermits
<1>2. Inv /\ [Next]_vars => Inv'
  BY NextType, NextMarks, NextBooks, NextPermits
<1>3. Inv => PermitsAccounted
  OBVIOUS
<1>. QED BY <1>1, <1>2, <1>3, PTL DEF Spec

-----------------------------------------------------------------------------
(* Whoever is counted is marked, or was cancelled.                         *)

Countable == Marked \cup {c \in Clients : outcome[c] = "cancelled"}
CountedOnce == waiting <= Cardinality(Countable)

LEMMA CountableFinite ==
  /\ IsFiniteSet(Countable)
  /\ Cardinality(Countable) \in Nat
<1>1. Countable \subseteq Clients
  BY DEF Countable, Marked
<1>. QED BY <1>1, ClientsAssumption, FS_Subset, FS_CardinalityType

LEMMA MoreCountable ==
  ASSUME TypeOK, CountedOnce, Countable \subseteq Countable', UNCHANGED waiting
  PROVE  CountedOnce'
<1>1. Countable' \subseteq Clients
  BY DEF Countable, Marked
<1>2. IsFiniteSet(Countable')
  BY <1>1, ClientsAssumption, FS_Subset
<1>3. waiting \in Nat /\ waiting' = waiting
  OBVIOUS
<1>. HIDE DEF TypeOK
<1>4. Cardinality(Countable) <= Cardinality(Countable') /\ Cardinality(Countable') \in Nat
  BY <1>2, FS_Subset, FS_CardinalityType
<1>. QED BY <1>3, <1>4, CountableFinite DEF CountedOnce

LEMMA MarkCounts ==
  ASSUME TypeOK, BookInv, CountedOnce, NEW c \in Clients, Mark(c)
  PROVE  CountedOnce'
<1>1. pc[c] = "mark" /\ pc' = [pc EXCEPT ![c] = "acquire"] /\ UNCHANGED outcome /\ waiting' = waiting + 1
  BY DEF Mark
<1>2. outcome[c] = "none"
  BY <1>1 DEF BookInv, Booked, Leaving
<1>3. c \notin Countable /\ Countable' = Countable \cup {c}
  BY <1>1, <1>2 DEF Countable, Marked
<1>4. waiting \in Nat
  OBVIOUS
<1>. HIDE DEF TypeOK
<1>5. Cardinality(Countable \cup {c}) = Cardinality(Countable) + 1
  BY <1>3, CountableFinite, FS_AddElement
<1>. QED BY <1>1, <1>3, <1>4, <1>5, CountableFinite DEF CountedOnce

LEMMA UnmarkCounts ==
  ASSUME TypeOK, MarksCounted, CountedOnce, NEW c \in Clients, Unmark(c)
  PROVE  CountedOnce'
<1>1. pc[c] = "unmark" /\ \E where \in {"exit", "discard"} : pc' = [pc EXCEPT ![c] = where]
  BY DEF Unmark
<1>2. UNCHANGED outcome /\ waiting' = waiting - 1 /\ waiting \in Nat
  BY DEF Unmark
<1>3. c \in Countable /\ (Countable' = Countable \/ Countable' = Countable \ {c})
  BY <1>1, <1>2 DEF Countable, Marked
<1>. HIDE DEF TypeOK
<1>4. Cardinality(Countable \ {c}) = Cardinality(Countable) - 1
  BY <1>3, CountableFinite, FS_RemoveElement
<1>. QED BY <1>2, <1>3, <1>4, CountableFinite DEF CountedOnce

LEMMA NextCounts ==
  ASSUME TypeOK, MarksCounted, BookInv, CountedOnce, [Next]_vars
  PROVE  CountedOnce'
<1>. USE DEF Countable, Marked
<1>1. CASE \E c \in Clients : Mark(c)
  BY <1>1, MarkCounts
<1>2. CASE \E c \in Clients : Unmark(c)
  BY <1>2, UnmarkCounts
<1>3. ASSUME NEW c \in Clients,
             \/ Enter(c) \/ Revive(c) \/ Connect(c) \/ NoNeed(c) \/ Connected(c) \/ Block(c)
             \/ ConnectFails(c) \/ Rewatch(c) \/ Discard(c) \/ Exit(c)
      PROVE  CountedOnce'
  <2>1. UNCHANGED waiting
    BY <1>3 DEF Enter, Revive, Connect, NoNeed, Connected, Block, ConnectFails, Rewatch, Discard, Exit
  <2>2. pc[c] \notin {"acquire", "register", "await", "unmark"} \/ UNCHANGED pc
    BY <1>3 DEF Enter, Revive, Connect, BeginConnect, NoNeed, Connected, EndConnect, Block, Discard, Exit,
                ConnectFails, FailConnect, Rewatch, BookInv, Booked
  <2>3. UNCHANGED pc \/ \E where : pc' = [pc EXCEPT ![c] = where]
    <3>1. CASE NoNeed(c)
      BY <3>1 DEF NoNeed
    <3>. QED BY <1>3, <3>1 DEF Enter, Revive, Connect, Connected, Block, ConnectFails, Rewatch, Discard, Exit
  <2>4. UNCHANGED outcome \/ (outcome[c] = "none" /\ \A d \in Clients \ {c} : outcome'[d] = outcome[d])
    <3>1. CASE ConnectFails(c)
      <4>1. lock = c /\ outcome' = [outcome EXCEPT ![c] = "failed"]
        BY <3>1 DEF ConnectFails, FailConnect
      <4>2. outcome[c] = "none"
        BY <4>1 DEF BookInv, Booked, Leaving
      <4>. QED BY <4>1, <4>2
    <3>2. CASE Rewatch(c) \/ Discard(c) \/ Exit(c)
      BY <3>2 DEF Rewatch, Discard, Exit
    <3>. QED BY <1>3, <3>1, <3>2, EnterBooks
  <2>5. Countable \subseteq Countable'
    BY <2>2, <2>3, <2>4
  <2>. QED BY <2>1, <2>5, MoreCountable
<1>4. ASSUME NEW c \in Clients, Acquire(c) \/ Register(c) \/ Retrieve(c) \/ RetrieveRaises(c)
      PROVE  CountedOnce'
  <2>1. UNCHANGED waiting
    BY <1>4 DEF Acquire, Register, Retrieve, RetrieveRaises
  <2>2. UNCHANGED pc \/ \E where \in {"acquire", "register", "await", "unmark"} : pc' = [pc EXCEPT ![c] = where]
    BY <1>4 DEF Acquire, Register, Retrieve, RetrieveRaises, EndRequest
  <2>3. pc[c] \in {"acquire", "register", "await"}
    BY <1>4 DEF Acquire, Register, Retrieve, RetrieveRaises, Looks
  <2>4. outcome[c] = "none"
    BY <2>3 DEF BookInv, Booked, Leaving
  <2>5. UNCHANGED outcome \/ \E how : outcome' = [outcome EXCEPT ![c] = how]
    BY <1>4 DEF Acquire, Register, Retrieve, RetrieveRaises, EndRequest
  <2>6. Countable \subseteq Countable'
    BY <2>2, <2>4, <2>5
  <2>. QED BY <2>1, <2>6, MoreCountable
<1>5. ASSUME NEW c \in Clients, Cancel(c)
      PROVE  CountedOnce'
  <2>1. /\ UNCHANGED waiting
        /\ \A d \in Clients \ {c} : pc'[d] = pc[d] /\ outcome'[d] = outcome[d]
        /\ outcome'[c] = "cancelled"
    BY <1>5 DEF Cancel
  <2>2. Countable \subseteq Countable'
    BY <2>1
  <2>. QED BY <2>1, <2>2, MoreCountable
<1>6. CASE UNCHANGED <<pc, outcome, waiting>>
  BY <1>6, MoreCountable
<1>7. CASE \E h \in Handlers : HandlerStep(h) \/ ReceiverStep(h) \/ ReceiveMalformed(h) \/ SenderStep(h)
  <2>1. UNCHANGED <<pc, outcome>>
    BY <1>7, PumpBooks
  <2>2. UNCHANGED waiting
    BY <1>7, ZenonT(40) DEF HandlerStep, Wake, Resubmit, Reconnect, Reconnected, ReconnectFails, Block,
         ReceiverStep, Receive, Dispatch, DispatchTwice, ReceiveClosed, ReceiveTimeout, ReceiveConflict,
         ReceiveMalformed, EndReceiver, SenderStep, TakeFrame, SendFrame
  <2>. QED BY <1>6, <2>1, <2>2
<1>8. CASE CloserStep \/ NetworkStep
  <2>1. UNCHANGED <<pc, outcome, waiting>>
    BY <1>8 DEF CloserStep, TimerFires, CancelHandler, CloseConn, ShutdownEnds, NetworkStep, NodeReplies, ConnLost
  <2>. QED BY <1>6, <2>1
<1>9. CASE UNCHANGED vars
  BY <1>6, <1>9 DEF vars
<1>. QED BY <1>1, <1>2, <1>3, <1>4, <1>5, <1>7, <1>8, <1>9 DEF Next, ClientStep

\* A request that ended, however, gave back its permits and its mark, and when
\* all of them did nobody is counted: the exit timer can fire.
THEOREM RequestsBalanced == Spec => []EndsBalanced
<1>. DEFINE Inv == TypeOK /\ MarksCounted /\ BookInv /\ CountedOnce
<1>1. Init => Inv
  <2>1. Init => CountedOnce
    BY CountableFinite DEF Init, CountedOnce
  <2>. QED BY <2>1, InitType, InitBooks
<1>2. Inv /\ [Next]_vars => Inv'
  BY NextType, NextMarks, NextBooks, NextCounts
<1>3. Inv => EndsBalanced
  <2>. SUFFICES ASSUME Inv PROVE EndsBalanced
    OBVIOUS
  <2>1. \A c \in Clients : pc[c] = "done" /\ outcome[c] # "cancelled" => acquired[c] = 0 /\ pending[c] = {}
    BY DEF BookInv, Booked, Leaving
  <2>2. ASSUME \A c \in Clients : pc[c] = "done" /\ outcome[c] # "cancelled" PROVE waiting = 0
    <3>1. Countable = {}
      BY <2>2 DEF Countable, Marked
    <3>. QED BY <3>1, FS_EmptySet DEF CountedOnce
  <2>. HIDE DEF TypeOK
  <2>3. \A c \in Clients : pc[c] = "done" /\ outcome[c] # "cancelled" => Held(c) = 0
    BY <2>1, FS_EmptySet DEF Held
  <2>. QED BY <2>2, <2>3 DEF EndsBalanced
<1>. QED BY <1>1, <1>2, <1>3, PTL DEF Spec

-----------------------------------------------------------------------------
(* Websocket implements RpcService.                                        *)

NoneCancelled == \A c \in Clients : outcome[c] # "cancelled"

LEMMA PlanType ==
  ASSUME NEW c \in Clients
  PROVE  /\ Len(Plan[c]) \in Nat \ {0} /\ DOMAIN Plan[c] = 1 .. Len(Plan[c])
         /\ \A n \in 1 .. Len(Plan[c]) : Plan[c][n] \in Nat \ {0}
<1>1. Plan[c] \in Seq(Nat \ {0}) /\ Plan[c] # <<>>
  BY ClientsAssumption
<1>. QED BY <1>1, EmptySeq

\* Payloads of the frames after the first n.
Rest(c, n) == SumFunctionOnSet(Plan[c], n + 1 .. Len(Plan[c]))

LEMMA SumLeft ==
  ASSUME NEW c \in Clients, NEW n \in Nat
  PROVE  /\ Rest(c, n) \in Nat
         /\ n < Len(Plan[c]) => Rest(c, n) = Plan[c][n + 1] + Rest(c, n + 1) /\ Rest(c, n + 1) \in Nat
         /\ n >= Len(Plan[c]) => Rest(c, n) = 0
<1>. DEFINE R(m) == m + 1 .. Len(Plan[c])
            f == Plan[c]
<1>1. Len(f) \in Nat /\ \A m \in 1 .. Len(f) : f[m] \in Nat
  BY PlanType
<1>2. ASSUME NEW m \in Nat PROVE IsFiniteSet(R(m)) /\ \A k \in R(m) : f[k] \in Nat
  <2>1. m + 1 \in Int /\ Len(f) \in Int
    BY <1>1
  <2>2. IsFiniteSet(R(m))
    BY <2>1, FS_Interval
  <2>3. \A k \in R(m) : k \in 1 .. Len(f)
    BY <1>1
  <2>. QED BY <1>1, <2>2, <2>3
<1>3. ASSUME NEW m \in Nat PROVE SumFunctionOnSet(f, R(m)) \in Nat
  <2>. HIDE DEF R, f
  <2>. QED BY <1>2, SumType
<1>4. ASSUME n < Len(f) PROVE SumFunctionOnSet(f, R(n)) = f[n + 1] + SumFunctionOnSet(f, R(n + 1))
  <2>1. n + 1 \in R(n) /\ R(n) \ {n + 1} = R(n + 1)
    BY <1>1, <1>4
  <2>. HIDE DEF R, f
  <2>2. SumFunctionOnSet(f, R(n)) = f[n + 1] + SumFunctionOnSet(f, R(n) \ {n + 1})
    BY <1>2, <2>1, SumSplit
  <2>. QED BY <2>1, <2>2
<1>5. ASSUME n >= Len(f) PROVE SumFunctionOnSet(f, R(n)) = 0
  <2>1. R(n) = {}
    BY <1>1, <1>5
  <2>. HIDE DEF R, f
  <2>. QED BY <1>2, <2>1, SumZero
<1>. QED BY <1>3, <1>4, <1>5, SMTT(40) DEF Rest

LEMMA MissingIs ==
  ASSUME NEW c \in Clients
  PROVE  Missing(c) = IF Status(c) \notin {"idle", "open"} THEN 0 ELSE Rest(c, sent[c]) + Cardinality(pending[c])
BY DEF Missing, Rest

LEMMA LeftType ==
  ASSUME TypeOK, NEW c \in Clients
  PROVE  /\ Rest(c, sent[c]) \in Nat
         /\ Unbooked(c) => NextSize(c) \in Nat /\ NextSize(c) <= Rest(c, sent[c])
         /\ sent[c] = Len(Plan[c]) => Rest(c, sent[c]) = 0
<1>1. sent[c] \in Nat
  OBVIOUS
<1>. HIDE DEF TypeOK
<1>2. sent[c] < Len(Plan[c]) => Plan[c][sent[c] + 1] \in Nat
  BY <1>1, PlanType
<1>3. Len(Plan[c]) \in Nat
  BY PlanType
<1>4. /\ Rest(c, sent[c]) \in Nat
      /\ sent[c] < Len(Plan[c]) => /\ Rest(c, sent[c]) = Plan[c][sent[c] + 1] + Rest(c, sent[c] + 1)
                                   /\ Rest(c, sent[c] + 1) \in Nat
      /\ sent[c] >= Len(Plan[c]) => Rest(c, sent[c]) = 0
  BY <1>1, SumLeft
<1>5. Unbooked(c) => NextSize(c) \in Nat /\ NextSize(c) <= Rest(c, sent[c])
  BY <1>2, <1>4 DEF Unbooked, NextSize
<1>. QED BY <1>1, <1>3, <1>4, <1>5

-----------------------------------------------------------------------------
(* The state the service sees.                                             *)

st == [c \in Clients |-> Status(c)]
mi == [c \in Clients |-> Missing(c)]
he == [c \in Clients |-> Held(c)]

LEMMA OneClient ==
  ASSUME NEW c \in Clients,
         \A d \in Clients \ {c} : UNCHANGED <<pc[d], sent[d], acquired[d], pending[d], outcome[d]>>
  PROVE  /\ st' = [st EXCEPT ![c] = Status(c)']
         /\ mi' = [mi EXCEPT ![c] = Missing(c)']
         /\ he' = [he EXCEPT ![c] = Held(c)']
<1>1. \A d \in Clients \ {c} : Status(d)' = Status(d)
  BY DEF Status
<1>2. \A d \in Clients \ {c} : Held(d)' = Held(d)
  BY DEF Held
<1>3. \A d \in Clients \ {c} : Missing(d)' = Missing(d)
  BY <1>1 DEF Missing
<1>. QED BY <1>1, <1>2, <1>3 DEF st, mi, he

Stutters == UNCHANGED <<st, mi, he, permits>>

LEMMA StutterIs == Stutters => UNCHANGED Service!vars
BY DEF Stutters, st, mi, he, Service!vars

\* A client whose status, missing payloads and permits stay the same stutters.
LEMMA OneStutters ==
  ASSUME NEW c \in Clients, UNCHANGED permits,
         \A d \in Clients \ {c} : UNCHANGED <<pc[d], sent[d], acquired[d], pending[d], outcome[d]>>,
         Status(c)' = Status(c), Missing(c)' = Missing(c), Held(c)' = Held(c)
  PROVE  Stutters
<1>1. /\ st' = [st EXCEPT ![c] = Status(c)]
      /\ mi' = [mi EXCEPT ![c] = Missing(c)]
      /\ he' = [he EXCEPT ![c] = Held(c)]
  BY OneClient
<1>2. /\ [st EXCEPT ![c] = Status(c)] = st
      /\ [mi EXCEPT ![c] = Missing(c)] = mi
      /\ [he EXCEPT ![c] = Held(c)] = he
  BY DEF st, mi, he
<1>. QED BY <1>1, <1>2 DEF Stutters

RefineInv == TypeOK /\ BookInv /\ NoneCancelled

\* The steps the service does not see: those that leave a client's booking, the
\* registration of a frame, and the end of the wait.
LEMMA QuietStutters ==
  ASSUME UNCHANGED <<pc, sent, acquired, pending, outcome, permits>>
  PROVE  Stutters
<1>1. \A c \in Clients : Status(c)' = Status(c) /\ Held(c)' = Held(c)
  BY DEF Status, Held
<1>2. \A c \in Clients : Missing(c)' = Missing(c)
  BY <1>1 DEF Missing
<1>. QED BY <1>1, <1>2 DEF Stutters, st, mi, he

LEMMA EnterMaps ==
  ASSUME RefineInv, NEW c \in Clients, Enter(c)
  PROVE  Service!Open(c)
<1>. USE DEF RefineInv
<1>1. /\ pc[c] = "idle" /\ \E where \in {"revive", "mark", "connect"} : pc' = [pc EXCEPT ![c] = where]
      /\ UNCHANGED <<sent, acquired, pending, outcome, permits>>
  BY DEF Enter
<1>2. outcome[c] = "none"
  BY <1>1 DEF BookInv, Booked, Leaving
<1>3. Status(c) = "idle" /\ Status(c)' = "open"
  BY <1>1, <1>2 DEF Status
<1>4. Missing(c)' = Missing(c) /\ Held(c)' = Held(c)
  BY <1>1, <1>3 DEF Missing, Held
<1>5. \A d \in Clients \ {c} : UNCHANGED <<pc[d], sent[d], acquired[d], pending[d], outcome[d]>>
  BY <1>1
<1>. HIDE DEF RefineInv
<1>6. st' = [st EXCEPT ![c] = "open"] /\ mi' = [mi EXCEPT ![c] = Missing(c)] /\ he' = [he EXCEPT ![c] = Held(c)]
  BY <1>3, <1>4, <1>5, OneClient
<1>7. st[c] = "idle" /\ mi' = mi /\ he' = he
  BY <1>3, <1>6 DEF st, mi, he
<1>. QED BY <1>1, <1>6, <1>7 DEF Service!Open, st, mi, he

\* Before the first permit, and after the last response, nothing is seen.
LEMMA ClientStutters ==
  ASSUME RefineInv, NEW c \in Clients,
         \/ Revive(c) \/ Connect(c) \/ NoNeed(c) \/ Connected(c) \/ Mark(c) \/ Block(c) \/ Rewatch(c) \/ Unmark(c)
  PROVE  Stutters
<1>. USE DEF RefineInv
<1>1. UNCHANGED <<sent, acquired, pending, outcome, permits>>
  BY EnterBooks DEF Rewatch, Unmark
<1>2. UNCHANGED pc \/ /\ pc[c] \notin {"idle", "done"}
                      /\ \E where : where \notin {"idle", "done"} /\ pc' = [pc EXCEPT ![c] = where]
  <2>1. CASE Revive(c) \/ Connect(c)
    BY <2>1 DEF Revive, Connect
  <2>2. CASE NoNeed(c)
    BY <2>2 DEF NoNeed
  <2>3. CASE Connected(c)
    <3>1. lock = c
      BY <2>3 DEF Connected, EndConnect
    <3>. QED BY <2>3, <3>1 DEF Connected, BookInv, Booked
  <2>4. CASE Mark(c) \/ Block(c) \/ Rewatch(c) \/ Unmark(c)
    BY <2>4 DEF Mark, Block, Rewatch, Unmark
  <2>. QED BY <2>1, <2>2, <2>3, <2>4
<1>3. Status(c)' = Status(c)
  BY <1>1, <1>2 DEF Status
<1>4. Missing(c)' = Missing(c) /\ Held(c)' = Held(c)
  BY <1>1, <1>3 DEF Missing, Held
<1>5. \A d \in Clients \ {c} : UNCHANGED <<pc[d], sent[d], acquired[d], pending[d], outcome[d]>>
  BY <1>1, <1>2
<1>. HIDE DEF RefineInv
<1>. QED BY <1>1, <1>3, <1>4, <1>5, OneStutters

\* A permit is asked for only while the frame to book needs one more.
LEMMA AcquireMaps ==
  ASSUME RefineInv, NEW c \in Clients, Acquire(c)
  PROVE  Service!Take(c) \/ Stutters
<1>. USE DEF RefineInv
<1>1. /\ pc[c] = "acquire" /\ UNCHANGED <<sent, pending, outcome>>
      /\ \/ UNCHANGED <<acquired, permits, pc>>
         \/ /\ permits > 0 /\ permits' = permits - 1
            /\ acquired' = [acquired EXCEPT ![c] = @ + 1]
            /\ \E where \in {"register", "acquire"} : pc' = [pc EXCEPT ![c] = where]
  BY DEF Acquire
<1>2. outcome[c] = "none" /\ Unbooked(c) /\ acquired[c] < NextSize(c)
  BY <1>1 DEF BookInv, Booked, Leaving
<1>3. Status(c) = "open" /\ Status(c)' = "open"
  BY <1>1, <1>2 DEF Status
<1>4. /\ acquired[c] \in Nat /\ Cardinality(pending[c]) \in Nat
      /\ Rest(c, sent[c]) \in Nat /\ NextSize(c) \in Nat /\ NextSize(c) <= Rest(c, sent[c])
  BY <1>2, HeldType, LeftType DEF HeldInNat
<1>5. Missing(c) = Rest(c, sent[c]) + Cardinality(pending[c]) /\ Missing(c)' = Missing(c)
  BY <1>1, <1>3, MissingIs DEF Missing
<1>6. \A d \in Clients \ {c} : UNCHANGED <<pc[d], sent[d], acquired[d], pending[d], outcome[d]>>
  BY <1>1
<1>7. UNCHANGED <<acquired, permits>> \/ acquired'[c] = acquired[c] + 1
  BY <1>1
<1>. HIDE DEF RefineInv, TypeOK
<1>8. Held(c) = acquired[c] + Cardinality(pending[c]) /\ Held(c)' = acquired'[c] + Cardinality(pending[c])
  BY <1>1 DEF Held
<1>9. CASE UNCHANGED <<acquired, permits, pc>>
  BY <1>1, <1>9, QuietStutters
<1>10. CASE permits > 0 /\ permits' = permits - 1 /\ acquired' = [acquired EXCEPT ![c] = @ + 1]
  <2>1. acquired'[c] = acquired[c] + 1
    BY <1>7, <1>10
  <2>2. Held(c)' = Held(c) + 1 /\ Held(c) < Missing(c)
    BY <1>2, <1>4, <1>5, <1>8, <2>1
  <2>3. st' = [st EXCEPT ![c] = Status(c)] /\ mi' = [mi EXCEPT ![c] = Missing(c)] /\ he' = [he EXCEPT ![c] = Held(c) + 1]
    BY <1>3, <1>5, <1>6, <2>2, OneClient
  <2>4. st' = st /\ mi' = mi /\ st[c] = "open" /\ he[c] = Held(c) /\ mi[c] = Missing(c)
    BY <1>3, <2>3 DEF st, mi, he
  <2>. QED BY <1>10, <2>2, <2>3, <2>4 DEF Service!Take, st, mi, he
<1>. QED BY <1>1, <1>9, <1>10

\* Booking a frame turns the permits acquired for it into ids.
LEMMA RegisterStutters ==
  ASSUME RefineInv, NEW c \in Clients, Register(c)
  PROVE  Stutters
<1>. USE DEF RefineInv
<1>1. PICK S \in NextIds(NextSize(c)) : pending' = [pending EXCEPT ![c] = @ \cup S]
  BY DEF Register
<1>2. /\ pc[c] = "register" /\ UNCHANGED <<outcome, permits>>
      /\ acquired' = [acquired EXCEPT ![c] = 0] /\ sent' = [sent EXCEPT ![c] = @ + 1]
      /\ \E where \in {"acquire", "await"} : pc' = [pc EXCEPT ![c] = where]
  BY DEF Register
<1>3. outcome[c] = "none" /\ Unbooked(c) /\ acquired[c] = NextSize(c)
  BY <1>2 DEF BookInv, Booked, Leaving
<1>4. Cardinality(S) = NextSize(c) /\ S \cap pending[c] = {} /\ S \subseteq Ids
  BY DEF NextIds, FreeIds
<1>5. IsFiniteSet(S) /\ IsFiniteSet(pending[c]) /\ Cardinality(pending[c]) \in Nat
  <2>1. IsFiniteSet(Ids)
    BY FS_Interval, BoundsAssumption DEF Ids
  <2>. QED BY <1>4, <2>1, FS_Subset, HeldType DEF HeldInNat
<1>6. \A d \in Clients \ {c} : UNCHANGED <<pc[d], sent[d], acquired[d], pending[d], outcome[d]>>
  BY <1>1, <1>2
<1>7. pending'[c] = pending[c] \cup S /\ acquired'[c] = 0 /\ sent[c] \in Nat /\ sent'[c] = sent[c] + 1
  BY <1>1, <1>2
<1>8. Status(c) = "open" /\ Status(c)' = "open"
  BY <1>2, <1>3 DEF Status
<1>. HIDE DEF RefineInv, TypeOK
<1>9. Cardinality(pending[c] \cup S) = Cardinality(pending[c]) + NextSize(c)
  BY <1>4, <1>5, DisjointCount
<1>10. NextSize(c) = Plan[c][sent[c] + 1] /\ sent[c] < Len(Plan[c])
  BY <1>3 DEF NextSize, Unbooked
<1>11. NextSize(c) \in Nat
  BY <1>7, <1>10, PlanType
<1>12. Rest(c, sent[c]) = NextSize(c) + Rest(c, sent[c] + 1) /\ Rest(c, sent[c] + 1) \in Nat
  BY <1>7, <1>10, SumLeft
<1>13. Held(c)' = Held(c)
  BY <1>3, <1>5, <1>7, <1>9, <1>11 DEF Held
<1>14. Missing(c) = Rest(c, sent[c]) + Cardinality(pending[c])
  BY <1>8 DEF Missing, Rest
<1>15. Missing(c)' = Rest(c, sent[c] + 1) + Cardinality(pending[c] \cup S)
  BY <1>7, <1>8 DEF Missing, Rest
<1>16. Missing(c)' = Missing(c)
  BY <1>5, <1>9, <1>11, <1>12, <1>14, <1>15
<1>. QED BY <1>2, <1>6, <1>8, <1>13, <1>16, OneStutters

LEMMA RetrieveMaps ==
  ASSUME RefineInv, NEW c \in Clients, Retrieve(c)
  PROVE  Service!Respond(c)
<1>. USE DEF RefineInv
<1>1. PICK i \in pending[c] :
        /\ pending' = [pending EXCEPT ![c] = @ \ {i}]
        /\ IF pending[c] = {i} THEN EndRequest(c, "answered") ELSE UNCHANGED <<pc, outcome, captured, running>>
  BY DEF Retrieve
<1>2. pc[c] = "await" /\ UNCHANGED <<sent, acquired>> /\ permits' = permits + 1
  BY DEF Retrieve, Looks
<1>3. outcome[c] = "none"
  BY <1>2 DEF BookInv, Booked, Leaving
<1>4. \/ pc' = [pc EXCEPT ![c] = "unmark"] /\ outcome' = [outcome EXCEPT ![c] = "answered"]
      \/ UNCHANGED <<pc, outcome>>
  BY <1>1 DEF EndRequest
<1>5. Status(c) = "open" /\ Status(c)' = "open"
  BY <1>2, <1>3, <1>4 DEF Status
<1>6. IsFiniteSet(pending[c]) /\ Cardinality(pending[c]) \in Nat /\ acquired[c] \in Nat /\ Rest(c, sent[c]) \in Nat
  BY HeldType, LeftType DEF HeldInNat
<1>7. \A d \in Clients \ {c} : UNCHANGED <<pc[d], sent[d], acquired[d], pending[d], outcome[d]>>
  BY <1>1, <1>2, <1>4
<1>8. pending'[c] = pending[c] \ {i}
  BY <1>1
<1>. HIDE DEF RefineInv, TypeOK
<1>9. Cardinality(pending[c] \ {i}) = Cardinality(pending[c]) - 1 /\ Cardinality(pending[c]) > 0
  <2>1. Cardinality(pending[c] \ {i}) = Cardinality(pending[c]) - 1
    BY <1>6, FS_RemoveElement
  <2>2. Cardinality(pending[c]) # 0
    BY <1>6, FS_EmptySet
  <2>. QED BY <1>6, <2>1, <2>2
<1>10. Held(c) > 0 /\ Held(c)' = Held(c) - 1
  BY <1>2, <1>6, <1>8, <1>9 DEF Held
<1>11. Missing(c)' = Missing(c) - 1
  <2>1. Missing(c) = Rest(c, sent[c]) + Cardinality(pending[c])
    BY <1>5 DEF Missing, Rest
  <2>2. Missing(c)' = Rest(c, sent[c]) + Cardinality(pending[c] \ {i})
    BY <1>2, <1>5, <1>8 DEF Missing, Rest
  <2>. QED BY <1>6, <1>9, <2>1, <2>2
<1>12. /\ st' = [st EXCEPT ![c] = Status(c)]
       /\ mi' = [mi EXCEPT ![c] = Missing(c) - 1]
       /\ he' = [he EXCEPT ![c] = Held(c) - 1]
  BY <1>5, <1>7, <1>10, <1>11, OneClient
<1>13. st' = st /\ st[c] = "open" /\ he[c] = Held(c) /\ mi[c] = Missing(c)
  BY <1>5, <1>12 DEF st, mi, he
<1>. QED BY <1>2, <1>10, <1>12, <1>13 DEF Service!Respond, st, mi, he

LEMMA RaisesMaps ==
  ASSUME RefineInv, NEW c \in Clients, RetrieveRaises(c)
  PROVE  Service!Abort(c)
<1>. USE DEF RefineInv
<1>1. /\ pc[c] = "await" /\ UNCHANGED <<sent, acquired, pending, permits>>
      /\ pc' = [pc EXCEPT ![c] = "unmark"] /\ outcome' = [outcome EXCEPT ![c] = "failed"]
  BY DEF RetrieveRaises, Looks, EndRequest
<1>2. outcome[c] = "none"
  BY <1>1 DEF BookInv, Booked, Leaving
<1>3. Status(c) = "open" /\ Status(c)' = "ending"
  BY <1>1, <1>2 DEF Status
<1>4. Missing(c)' = 0 /\ Held(c)' = Held(c)
  BY <1>1, <1>3 DEF Missing, Held
<1>5. \A d \in Clients \ {c} : UNCHANGED <<pc[d], sent[d], acquired[d], pending[d], outcome[d]>>
  BY <1>1
<1>. HIDE DEF RefineInv, TypeOK
<1>6. st' = [st EXCEPT ![c] = "ending"] /\ mi' = [mi EXCEPT ![c] = 0] /\ he' = [he EXCEPT ![c] = Held(c)]
  BY <1>3, <1>4, <1>5, OneClient
<1>7. st[c] = "open" /\ he' = he
  BY <1>3, <1>6 DEF st, he
<1>. QED BY <1>1, <1>6, <1>7 DEF Service!Abort, st, mi, he

\* Only a request that failed discards: one that was answered has no ids left.
LEMMA DiscardMaps ==
  ASSUME RefineInv, NEW c \in Clients, Discard(c)
  PROVE  Service!GiveBack(c)
<1>. USE DEF RefineInv
<1>1. PICK i \in pending[c] :
        /\ pending' = [pending EXCEPT ![c] = @ \ {i}]
        /\ permits' = IF received[i] = "none" THEN permits ELSE permits + 1
        /\ \E where \in {"exit", "discard"} : pc' = [pc EXCEPT ![c] = where]
  BY DEF Discard
<1>2. pc[c] = "discard" /\ UNCHANGED <<sent, acquired, outcome>>
  BY DEF Discard
<1>3. outcome[c] = "failed"
  BY <1>2 DEF BookInv, Booked, Leaving, NoneCancelled
<1>4. permits' = permits + 1
  BY <1>1 DEF BookInv
<1>5. Status(c) = "ending" /\ Status(c)' = "ending"
  BY <1>1, <1>2, <1>3 DEF Status
<1>6. Missing(c) = 0 /\ Missing(c)' = 0
  BY <1>5 DEF Missing
<1>7. IsFiniteSet(pending[c]) /\ Cardinality(pending[c]) \in Nat /\ acquired[c] \in Nat
  BY HeldType DEF HeldInNat
<1>8. \A d \in Clients \ {c} : UNCHANGED <<pc[d], sent[d], acquired[d], pending[d], outcome[d]>>
  BY <1>1, <1>2
<1>9. pending'[c] = pending[c] \ {i}
  BY <1>1
<1>. HIDE DEF RefineInv, TypeOK
<1>10. Cardinality(pending[c] \ {i}) = Cardinality(pending[c]) - 1 /\ Cardinality(pending[c]) > 0
  <2>1. Cardinality(pending[c] \ {i}) = Cardinality(pending[c]) - 1
    BY <1>7, FS_RemoveElement
  <2>2. Cardinality(pending[c]) # 0
    BY <1>7, FS_EmptySet
  <2>. QED BY <1>7, <2>1, <2>2
<1>11. Held(c) > 0 /\ Held(c)' = Held(c) - 1
  BY <1>2, <1>7, <1>9, <1>10 DEF Held
<1>12. st' = [st EXCEPT ![c] = Status(c)] /\ mi' = [mi EXCEPT ![c] = Missing(c)] /\ he' = [he EXCEPT ![c] = Held(c) - 1]
  BY <1>5, <1>6, <1>8, <1>11, OneClient
<1>13. st' = st /\ mi' = mi /\ st[c] = "ending" /\ he[c] = Held(c)
  BY <1>5, <1>12 DEF st, mi, he
<1>. QED BY <1>4, <1>11, <1>12, <1>13 DEF Service!GiveBack, st, mi, he

\* The end of a request, by __aexit__ or because __aenter__ raised.
LEMMA EndMaps ==
  ASSUME RefineInv, NEW c \in Clients, Exit(c) \/ ConnectFails(c)
  PROVE  \E how \in Service!Ended : Service!End(c, how)
<1>. USE DEF RefineInv
<1>1. UNCHANGED <<sent, acquired, pending, permits>> /\ pc' = [pc EXCEPT ![c] = "done"]
  BY DEF Exit, ConnectFails
<1>2. \A d \in Clients \ {c} : UNCHANGED <<pc[d], sent[d], acquired[d], pending[d], outcome[d]>>
  BY <1>1 DEF Exit, ConnectFails
<1>3. acquired[c] = 0 /\ pending[c] = {} /\ outcome'[c] \in {"answered", "failed"}
  <2>1. CASE Exit(c)
    <3>1. pc[c] = "exit" /\ UNCHANGED outcome
      BY <2>1 DEF Exit
    <3>. QED BY <3>1 DEF BookInv, Booked, Leaving, NoneCancelled
  <2>2. CASE ConnectFails(c)
    <3>1. lock = c /\ outcome' = [outcome EXCEPT ![c] = "failed"]
      BY <2>2 DEF ConnectFails, FailConnect
    <3>2. pc[c] \in {"reviving", "connecting"}
      BY <3>1 DEF BookInv, Booked
    <3>. QED BY <3>1, <3>2 DEF BookInv, Booked, Entering
  <2>. QED BY <2>1, <2>2
<1>4. \/ Status(c) \in {"open", "ending"} /\ outcome'[c] = "failed"
      \/ Status(c) = "open" /\ sent[c] = Len(Plan[c]) /\ outcome'[c] = "answered"
  <2>1. CASE Exit(c)
    <3>1. pc[c] = "exit" /\ UNCHANGED outcome
      BY <2>1 DEF Exit
    <3>. QED BY <1>3, <3>1 DEF Status, BookInv, Booked
  <2>2. CASE ConnectFails(c)
    <3>1. lock = c /\ outcome' = [outcome EXCEPT ![c] = "failed"]
      BY <2>2 DEF ConnectFails, FailConnect
    <3>2. pc[c] \in {"reviving", "connecting"} /\ outcome[c] = "none"
      BY <3>1 DEF BookInv, Booked, Leaving
    <3>. QED BY <3>1, <3>2 DEF Status
  <2>. QED BY <2>1, <2>2
<1>5. Status(c)' = outcome'[c]
  BY <1>1 DEF Status
<1>6. sent[c] = Len(Plan[c]) => Rest(c, sent[c]) = 0
  BY LeftType
<1>. HIDE DEF RefineInv, TypeOK
<1>7. Held(c) = 0 /\ Held(c)' = 0
  BY <1>1, <1>3, FS_EmptySet DEF Held
<1>8. Missing(c)' = 0
  BY <1>3, <1>5 DEF Missing
<1>9. outcome'[c] = "answered" => Missing(c) = 0
  <2>1. Cardinality(pending[c]) = 0
    BY <1>3, FS_EmptySet
  <2>. QED BY <1>4, <1>6, <2>1, MissingIs
<1>10. st' = [st EXCEPT ![c] = outcome'[c]] /\ mi' = [mi EXCEPT ![c] = 0] /\ he' = [he EXCEPT ![c] = Held(c)]
  BY <1>2, <1>5, <1>7, <1>8, OneClient
<1>11. he' = he /\ he[c] = 0 /\ st[c] = Status(c) /\ mi[c] = Missing(c)
  BY <1>7, <1>10 DEF st, mi, he
<1>12. Service!End(c, outcome'[c])
  BY <1>1, <1>3, <1>4, <1>9, <1>10, <1>11 DEF Service!End, st, mi, he
<1>. QED BY <1>3, <1>12 DEF Service!Ended

LEMMA NextMaps ==
  ASSUME RefineInv, Cancellable = {}, [Next]_vars
  PROVE  [Service!Next]_(Service!vars)
<1>. USE DEF Service!Next
<1>1. CASE \E c \in Clients :
             \/ Enter(c) \/ Acquire(c) \/ Retrieve(c) \/ RetrieveRaises(c) \/ Discard(c) \/ Exit(c) \/ ConnectFails(c)
  BY <1>1, EnterMaps, AcquireMaps, RetrieveMaps, RaisesMaps, DiscardMaps, EndMaps, StutterIs
<1>2. CASE \E c \in Clients :
             \/ Revive(c) \/ Connect(c) \/ NoNeed(c) \/ Connected(c) \/ Mark(c) \/ Block(c) \/ Rewatch(c) \/ Unmark(c)
             \/ Register(c)
  BY <1>2, ClientStutters, RegisterStutters, StutterIs
<1>3. CASE \E c \in Clients : Cancel(c)
  BY <1>3 DEF Cancel
<1>4. CASE \E h \in Handlers : HandlerStep(h) \/ ReceiverStep(h) \/ ReceiveMalformed(h) \/ SenderStep(h)
  BY <1>4, PumpBooks, QuietStutters, StutterIs DEF RefineInv
<1>5. CASE CloserStep \/ NetworkStep
  BY <1>5, EnvironmentBooks, QuietStutters, StutterIs DEF RefineInv
<1>6. CASE UNCHANGED vars
  BY <1>6, QuietStutters, StutterIs DEF vars
<1>. QED BY <1>1, <1>2, <1>3, <1>4, <1>5, <1>6 DEF Next, ClientStep

LEMMA NextNotCancelled ==
  ASSUME RefineInv, Cancellable = {}, [Next]_vars
  PROVE  NoneCancelled'
<1>1. CASE \E c \in Clients : Retrieve(c) \/ RetrieveRaises(c) \/ ConnectFails(c)
  <2>1. PICK c \in Clients, how \in {"answered", "failed"} :
          UNCHANGED outcome \/ outcome' = [outcome EXCEPT ![c] = how]
    BY <1>1 DEF Retrieve, RetrieveRaises, EndRequest, ConnectFails
  <2>. QED BY <2>1 DEF RefineInv, NoneCancelled
<1>2. CASE UNCHANGED outcome
  BY <1>2 DEF RefineInv, NoneCancelled
<1>3. CASE \E c \in Clients : Cancel(c)
  BY <1>3 DEF Cancel
<1>4. CASE \E c \in Clients :
             \/ Enter(c) \/ Revive(c) \/ Connect(c) \/ NoNeed(c) \/ Connected(c) \/ Mark(c) \/ Block(c)
  BY <1>2, <1>4, EnterBooks DEF RefineInv
<1>5. CASE \E c \in Clients : Acquire(c) \/ Register(c) \/ Rewatch(c) \/ Unmark(c) \/ Discard(c) \/ Exit(c)
  <2>1. UNCHANGED outcome
    BY <1>5 DEF Acquire, Register, Rewatch, Unmark, Discard, Exit
  <2>. QED BY <1>2, <2>1
<1>6. CASE \E h \in Handlers : HandlerStep(h) \/ ReceiverStep(h) \/ ReceiveMalformed(h) \/ SenderStep(h)
  BY <1>2, <1>6, PumpBooks DEF RefineInv
<1>7. CASE CloserStep \/ NetworkStep
  BY <1>2, <1>7, EnvironmentBooks DEF RefineInv
<1>8. CASE UNCHANGED vars
  BY <1>2, <1>8 DEF vars
<1>. QED BY <1>1, <1>3, <1>4, <1>5, <1>6, <1>7, <1>8 DEF Next, ClientStep

LEMMA InitMaps == Init => Service!Init /\ NoneCancelled
<1>. SUFFICES ASSUME Init PROVE Service!Init /\ NoneCancelled
  OBVIOUS
<1>1. \A c \in Clients : pc[c] = "idle" /\ sent[c] = 0 /\ acquired[c] = 0 /\ pending[c] = {} /\ outcome[c] = "none"
  BY DEF Init
<1>2. \A c \in Clients : Status(c) = "idle" /\ Held(c) = 0
  BY <1>1, FS_EmptySet, SMTT(40) DEF Status, Held
<1>3. ASSUME NEW c \in Clients PROVE Missing(c) = SumFunction(Plan[c])
  <2>1. Missing(c) = Rest(c, 0) + Cardinality({})
    BY <1>1, <1>2 DEF Missing, Rest
  <2>2. Cardinality({}) = 0 /\ Rest(c, 0) \in Nat
    BY FS_EmptySet, SumLeft
  <2>3. 0 + 1 .. Len(Plan[c]) = DOMAIN Plan[c]
    BY PlanType
  <2>. QED BY <2>1, <2>2, <2>3 DEF Rest, SumFunction
<1>4. permits = MaxPermits
  BY DEF Init
<1>. QED BY <1>1, <1>2, <1>3, <1>4 DEF Service!Init, Size, NoneCancelled

\* The object, with its queue, ids, connections, handlers and lock, is the pool
\* of permits RpcService describes: each step of a client is one step of the
\* service or none, whatever is lost, retried, revived or shut down meanwhile.
THEOREM Refines ==
  ASSUME Cancellable = {}
  PROVE  Spec => ImplementsService
<1>. DEFINE Inv == TypeOK /\ MarksCounted /\ BookInv /\ NoneCancelled
<1>1. Init => Inv /\ Service!Init
  BY InitType, InitBooks, InitMaps
<1>2. Inv /\ [Next]_vars => Inv'
  BY NextType, NextMarks, NextBooks, NextNotCancelled DEF RefineInv
<1>3. Inv /\ [Next]_vars => [Service!Next]_(Service!vars)
  BY NextMaps DEF RefineInv
<1>. QED BY <1>1, <1>2, <1>3, PTL DEF Spec, ImplementsService, Service!Spec

-----------------------------------------------------------------------------
(* Where a request can be, when no frame is a batch: in the queue, in the  *)
(* hand of a send pump, on the connection of handler that is pumping, or    *)
(* in the hand of its receive pump.                                        *)

Singles == \A c \in Clients : \A n \in DOMAIN Plan[c] : Plan[c][n] = 1

Single(f) == \E i \in Ids : f.ids = {i}

AllSingle ==
  /\ \A n \in DOMAIN sending : Single(sending[n])
  /\ \A h \in Handlers : shand[h] = NoFrame \/ Single(shand[h])
  /\ \A i \in Ids : inflight[i] = NoFrame \/ inflight[i].ids = {i}
  /\ \A k \in Conns : \A f \in wire[k] \cup replies[k] : Single(f)

\* Pumps that do not run have nothing in hand, and a connection starts empty.
HandsOff   == \A h \in Handlers : hst[h] # "pumping" => shand[h] = NoFrame /\ rhand[h] = {}
FreshEmpty == \A k \in Conns : link[k] = "unused" => wire[k] = {} /\ replies[k] = {}

FrameInv == AllSingle /\ HandsOff /\ FreshEmpty

LEMMA FramesQuiet ==
  ASSUME FrameInv, UNCHANGED <<sending, shand, rhand, inflight, hst, link, wire, replies>>
  PROVE  FrameInv'
BY DEF FrameInv, AllSingle, HandsOff, FreshEmpty, Single

\* What connecting, losing and giving up a connection does to the frames.
LEMMA FramesConnect ==
  ASSUME TypeOK, FrameInv,
         UNCHANGED <<sending, inflight, replies>>,
         \A h \in Handlers : shand'[h] \in {shand[h], NoFrame} /\ rhand'[h] \in {rhand[h], {}},
         \A h \in Handlers : hst'[h] # "pumping" => hst[h] # "pumping" \/ (shand'[h] = NoFrame /\ rhand'[h] = {}),
         \A k \in Conns : wire'[k] \in {wire[k], {}},
         \A k \in Conns : link'[k] = "unused" => link[k] = "unused"
  PROVE  FrameInv'
<1>1. AllSingle'
  <2>1. \A n \in DOMAIN sending' : Single(sending'[n])
    BY DEF FrameInv, AllSingle
  <2>2. \A h \in Handlers : shand'[h] = NoFrame \/ Single(shand'[h])
    BY DEF FrameInv, AllSingle
  <2>3. \A k \in Conns : \A f \in wire'[k] \cup replies'[k] : Single(f)
    BY DEF FrameInv, AllSingle
  <2>. QED BY <2>1, <2>2, <2>3 DEF FrameInv, AllSingle, Single
<1>2. HandsOff'
  BY DEF FrameInv, HandsOff
<1>3. FreshEmpty'
  BY DEF FrameInv, FreshEmpty
<1>. QED BY <1>1, <1>2, <1>3 DEF FrameInv

LEMMA BeginFrames ==
  ASSUME TypeOK, FrameInv, NEW p, NEW force \in BOOLEAN, BeginConnect(p, force)
  PROVE  /\ \A k \in Conns : wire'[k] \in {wire[k], {}}
         /\ \A k \in Conns : link'[k] = "unused" => link[k] = "unused"
BY DEF BeginConnect

LEMMA EndFrames ==
  ASSUME TypeOK, NEW p, NEW own \in SUBSET Handlers, EndConnect(p, own)
  PROVE  /\ \A h \in Handlers : hst'[h] # "pumping" => hst[h] # "pumping"
         /\ \A k \in Conns : link'[k] = "unused" => link[k] = "unused"
<1>1. PICK k \in FreshConn, new \in Created :
        /\ link' = [link EXCEPT ![k] = "open"]
        /\ hst' = [h \in Handlers |-> IF h \in own \cup new THEN "pumping" ELSE hst[h]]
  <2>. HIDE DEF TypeOK
  <2>. QED BY DEF EndConnect
<1>. QED BY <1>1

LEMMA HandlerFrames ==
  ASSUME OwnInv, FrameInv, NEW h \in Handlers, HandlerStep(h)
  PROVE  FrameInv'
<1>. USE DEF OwnInv
<1>1. CASE Wake(h)
  <2>1. /\ UNCHANGED <<sending, inflight, wire, replies, link>>
        /\ shand' = [shand EXCEPT ![h] = NoFrame] /\ rhand' = [rhand EXCEPT ![h] = {}]
        /\ \E where \in {"finished", "failed", "resubmit"} : hst' = [hst EXCEPT ![h] = where]
    BY <1>1 DEF Wake, StopPumps
  <2>. QED BY <2>1, FramesConnect
<1>2. CASE Resubmit(h)
  <2>1. PICK s \in SetToSeqs(InflightFrames) : sending' = sending \o s
    BY <1>2 DEF Resubmit
  <2>2. /\ hst[h] = "resubmit" /\ hst' = [hst EXCEPT ![h] = "reconnect"]
        /\ inflight' = [i \in Ids |-> NoFrame] /\ UNCHANGED <<shand, rhand, link, wire, replies>>
    BY <1>2 DEF Resubmit
  <2>3. \A f \in InflightFrames : Single(f)
    <3>1. ASSUME NEW f \in InflightFrames PROVE Single(f)
      <4>1. PICK i \in Ids : f = inflight[i] /\ f # NoFrame
        BY DEF InflightFrames
      <4>2. f.ids = {i}
        BY <4>1 DEF FrameInv, AllSingle
      <4>. QED BY <4>2 DEF Single
    <3>. QED BY <3>1
  <2>4. s \in Seq(Frames) /\ \A n \in DOMAIN s : s[n] \in InflightFrames
    BY ResentType DEF SetToSeqs
  <2>5. \A n \in DOMAIN sending' : Single(sending'[n])
    <3>1. ASSUME NEW n \in DOMAIN sending' PROVE \/ n \in DOMAIN sending /\ sending'[n] = sending[n]
                                                 \/ \E m \in DOMAIN s : sending'[n] = s[m]
      <4>1. sending' = sending \o s /\ sending \in Seq(Frames) /\ s \in Seq(Frames)
        BY <2>1, <2>4
      <4>. HIDE DEF TypeOK
      <4>. QED BY <4>1
    <3>. QED BY <2>3, <2>4, <3>1 DEF FrameInv, AllSingle
  <2>. QED BY <2>2, <2>5, ZenonT(40) DEF FrameInv, AllSingle, HandsOff, FreshEmpty, Single
<1>3. CASE Reconnect(h)
  <2>1. /\ UNCHANGED <<sending, inflight, replies, shand, rhand>>
        /\ hst[h] = "reconnect" /\ hst' = [hst EXCEPT ![h] = "connecting"] /\ BeginConnect(Handler(h), TRUE)
    BY <1>3 DEF Reconnect
  <2>2. /\ \A k \in Conns : wire'[k] \in {wire[k], {}}
        /\ \A k \in Conns : link'[k] = "unused" => link[k] = "unused"
    BY <2>1, BeginFrames
  <2>. QED BY <2>1, <2>2, FramesConnect
<1>4. CASE Reconnected(h)
  <2>1. UNCHANGED <<sending, inflight, replies, shand, rhand, wire>> /\ EndConnect(Handler(h), {h})
    BY <1>4 DEF Reconnected
  <2>2. /\ \A g \in Handlers : hst'[g] # "pumping" => hst[g] # "pumping"
        /\ \A k \in Conns : link'[k] = "unused" => link[k] = "unused"
    BY <2>1, EndFrames
  <2>. QED BY <2>1, <2>2, FramesConnect
<1>5. CASE ReconnectFails(h)
  <2>1. UNCHANGED <<sending, inflight, replies, shand, rhand, wire, link>>
    BY <1>5 DEF ReconnectFails
  <2>2. hst[h] = "connecting" /\ \E where \in {"failed", "reconnect"} : hst' = [hst EXCEPT ![h] = where]
    BY <1>5 DEF ReconnectFails, FailConnect, ConnectionOwned
  <2>. QED BY <2>1, <2>2, FramesConnect
<1>6. CASE Block(Handler(h))
  BY <1>6, FramesQuiet DEF Block
<1>. QED BY <1>1, <1>2, <1>3, <1>4, <1>5, <1>6 DEF HandlerStep

LEMMA PumpFrames ==
  ASSUME TypeOK, FrameInv, NEW h \in Handlers, ReceiverStep(h) \/ ReceiveMalformed(h) \/ SenderStep(h)
  PROVE  FrameInv'
<1>1. CASE Receive(h)
  <2>1. PICK f \in replies[hconn[h]] :
          /\ replies' = [replies EXCEPT ![hconn[h]] = @ \ {f}]
          /\ rhand' = [rhand EXCEPT ![h] = {[owner |-> f.owner, id |-> i] : i \in f.ids}]
    BY <1>1 DEF Receive
  <2>2. hst[h] = "pumping" /\ UNCHANGED <<sending, shand, inflight, hst, link, wire>>
    BY <1>1 DEF Receive, Receiving
  <2>3. \A k \in Conns : replies'[k] \subseteq replies[k]
    BY <2>1
  <2>4. \A g \in Handlers : rhand'[g] = rhand[g] \/ g = h
    BY <2>1
  <2>5. \A k \in Conns : \A e \in wire'[k] \cup replies'[k] : Single(e)
    BY <2>2, <2>3 DEF FrameInv, AllSingle
  <2>6. AllSingle'
    BY <2>2, <2>5 DEF FrameInv, AllSingle, Single
  <2>7. HandsOff'
    BY <2>2, <2>4 DEF FrameInv, HandsOff
  <2>8. FreshEmpty'
    BY <2>2, <2>3 DEF FrameInv, FreshEmpty
  <2>. QED BY <2>6, <2>7, <2>8 DEF FrameInv
<1>2. CASE Dispatch(h)
  <2>1. PICK r \in rhand[h] :
          /\ inflight' = [inflight EXCEPT ![r.id] = NoFrame]
          /\ rhand' = [rhand EXCEPT ![h] = @ \ {r}]
    BY <1>2 DEF Dispatch
  <2>2. hst[h] = "pumping" /\ UNCHANGED <<sending, shand, hst, link, wire, replies>>
    BY <1>2 DEF Dispatch
  <2>. QED BY <2>1, <2>2, ZenonT(40) DEF FrameInv, AllSingle, HandsOff, FreshEmpty, Single
<1>3. CASE DispatchTwice(h)
  <2>1. PICK r \in rhand[h] : inflight' = [inflight EXCEPT ![r.id] = NoFrame]
    BY <1>3 DEF DispatchTwice
  <2>2. rhand' = [rhand EXCEPT ![h] = {}] /\ UNCHANGED <<sending, shand, hst, link, wire, replies>>
    BY <1>3 DEF DispatchTwice
  <2>. QED BY <2>1, <2>2, ZenonT(40) DEF FrameInv, AllSingle, HandsOff, FreshEmpty, Single
<1>4. CASE ReceiveClosed(h) \/ ReceiveTimeout(h) \/ ReceiveConflict(h) \/ ReceiveMalformed(h) \/ Block(Receiver(h)) \/ Block(Sender(h))
  <2>1. UNCHANGED <<sending, shand, rhand, inflight, hst, link, wire, replies>>
    BY <1>4 DEF ReceiveClosed, ReceiveTimeout, ReceiveConflict, ReceiveMalformed, EndReceiver, Block
  <2>. QED BY <2>1, FramesQuiet
<1>5. CASE TakeFrame(h)
  <2>1. /\ hst[h] = "pumping" /\ sending # <<>>
        /\ shand' = [shand EXCEPT ![h] = Head(sending)] /\ sending' = Tail(sending)
        /\ UNCHANGED <<rhand, inflight, hst, link, wire, replies>>
    BY <1>5 DEF TakeFrame
  <2>2. sending \in Seq(Frames)
    OBVIOUS
  <2>3. /\ 1 \in DOMAIN sending /\ Head(sending) = sending[1]
        /\ \A n \in DOMAIN sending' : n + 1 \in DOMAIN sending /\ sending'[n] = sending[n + 1]
    <3>. HIDE DEF TypeOK
    <3>. QED BY <2>1, <2>2
  <2>4. \A n \in DOMAIN sending' : Single(sending'[n])
    BY <2>3 DEF FrameInv, AllSingle
  <2>5. \A g \in Handlers : shand'[g] = shand[g] \/ (g = h /\ shand'[g] = sending[1])
    BY <2>1, <2>3
  <2>6. \A g \in Handlers : shand'[g] = NoFrame \/ Single(shand'[g])
    BY <2>3, <2>5 DEF FrameInv, AllSingle
  <2>7. AllSingle'
    BY <2>1, <2>4, <2>6 DEF FrameInv, AllSingle, Single
  <2>8. HandsOff' /\ FreshEmpty'
    BY <2>1, <2>5 DEF FrameInv, HandsOff, FreshEmpty
  <2>. QED BY <2>7, <2>8 DEF FrameInv
<1>6. CASE SendFrame(h)
  <2>1. /\ hst[h] = "pumping" /\ shand[h] # NoFrame /\ shand' = [shand EXCEPT ![h] = NoFrame]
        /\ inflight' = [i \in Ids |-> IF i \in shand[h].ids THEN shand[h] ELSE inflight[i]]
        /\ UNCHANGED <<sending, rhand, hst, link, replies>>
    BY <1>6 DEF SendFrame
  <2>2. \/ wire' = wire
        \/ link[hconn[h]] = "open" /\ wire' = [wire EXCEPT ![hconn[h]] = @ \cup {shand[h]}]
    BY <1>6 DEF SendFrame
  <2>3. PICK i \in Ids : shand[h].ids = {i}
    BY <2>1 DEF FrameInv, AllSingle, Single
  <2>4. \A j \in Ids : inflight'[j] = NoFrame \/ inflight'[j].ids = {j}
    BY <2>1, <2>3 DEF FrameInv, AllSingle
  <2>5. /\ \A k \in Conns : \A f \in wire'[k] : f \in wire[k] \/ f = shand[h]
        /\ \A k \in Conns : wire'[k] = wire[k] \/ link[k] = "open"
    <3>1. CASE wire' = wire
      BY <3>1
    <3>2. CASE link[hconn[h]] = "open" /\ wire' = [wire EXCEPT ![hconn[h]] = @ \cup {shand[h]}]
      <4>. DEFINE k == hconn[h]
      <4>1. \A j \in Conns : wire'[j] = IF j = k THEN wire[j] \cup {shand[h]} ELSE wire[j]
        BY <3>2
      <4>. HIDE DEF k
      <4>2. link[k] = "open"
        BY <3>2 DEF k
      <4>3. \A j \in Conns : \A f \in wire'[j] : f \in wire[j] \/ f = shand[h]
        <5>. HIDE DEF TypeOK
        <5>. QED BY <4>1
      <4>4. \A j \in Conns : wire'[j] = wire[j] \/ link[j] = "open"
        <5>. HIDE DEF TypeOK
        <5>. QED BY <4>1, <4>2
      <4>. QED BY <4>3, <4>4
    <3>. QED BY <2>2, <3>1, <3>2
  <2>6a. Single(shand[h])
    BY <2>3 DEF Single
  <2>6. \A k \in Conns : \A f \in wire'[k] \cup replies'[k] : Single(f)
    <3>. HIDE DEF TypeOK
    <3>. QED BY <2>1, <2>6a, <2>5 DEF FrameInv, AllSingle
  <2>8. \A g \in Handlers : shand'[g] = NoFrame \/ Single(shand'[g])
    BY <2>1 DEF FrameInv, AllSingle
  <2>7. AllSingle'
    BY <2>1, <2>4, <2>6, <2>8 DEF FrameInv, AllSingle, Single
  <2>. QED BY <2>1, <2>5, <2>7, ZenonT(40) DEF FrameInv, HandsOff, FreshEmpty
<1>. QED BY <1>1, <1>2, <1>3, <1>4, <1>5, <1>6 DEF ReceiverStep, SenderStep

LEMMA RegisterSingle ==
  ASSUME Singles, TypeOK, BookInv, NEW c \in Clients, Register(c)
  PROVE  \E i \in FreeIds :
           /\ inUse' = inUse \cup {i}
           /\ received' = [j \in Ids |-> IF j = i THEN "pending" ELSE received[j]]
           /\ sending' = Append(sending, [owner |-> c, ids |-> {i}])
           /\ pending' = [pending EXCEPT ![c] = @ \cup {i}]
<1>1. Unbooked(c) /\ sent[c] \in Nat
  BY DEF Register, BookInv, Booked
<1>2. NextSize(c) = 1
  <2>1. Plan[c] \in Seq(Nat \ {0})
    BY ClientsAssumption
  <2>. QED BY <1>1, <2>1 DEF Unbooked, NextSize, Singles
<1>3. PICK S \in NextIds(1) :
        /\ inUse' = inUse \cup S
        /\ received' = [i \in Ids |-> IF i \in S THEN "pending" ELSE received[i]]
        /\ sending' = Append(sending, [owner |-> c, ids |-> S])
        /\ pending' = [pending EXCEPT ![c] = @ \cup S]
  BY <1>2 DEF Register
<1>4. S \subseteq FreeIds /\ Cardinality(S) = 1 /\ FreeIds \subseteq Ids
  BY DEF NextIds, FreeIds
<1>5. IsFiniteSet(S)
  <2>1. IsFiniteSet(Ids)
    BY FS_Interval, BoundsAssumption DEF Ids
  <2>. QED BY <1>4, <2>1, FS_Subset
<1>6. PICK i : S = {i}
  <2>. HIDE DEF TypeOK
  <2>. QED BY <1>4, <1>5, FS_Singleton
<1>. QED BY <1>3, <1>4, <1>6

LEMMA ClientFrames ==
  ASSUME Singles, TypeOK, BookInv, FrameInv, NEW c \in Clients, Enter(c) \/ ClientStep(c) \/ Cancel(c)
  PROVE  FrameInv'
<1>1. CASE Revive(c) \/ Connect(c)
  <2>1. /\ UNCHANGED <<sending, inflight, replies, shand, rhand, hst>>
        /\ \E force \in BOOLEAN : BeginConnect(c, force)
    BY <1>1 DEF Revive, Connect
  <2>2. /\ \A k \in Conns : wire'[k] \in {wire[k], {}}
        /\ \A k \in Conns : link'[k] = "unused" => link[k] = "unused"
    BY <2>1, BeginFrames
  <2>. QED BY <2>1, <2>2, FramesConnect
<1>2. CASE Connected(c)
  <2>1. UNCHANGED <<sending, inflight, replies, shand, rhand, wire>> /\ EndConnect(c, {})
    BY <1>2 DEF Connected
  <2>2. /\ \A g \in Handlers : hst'[g] # "pumping" => hst[g] # "pumping"
        /\ \A k \in Conns : link'[k] = "unused" => link[k] = "unused"
    BY <2>1, EndFrames
  <2>. QED BY <2>1, <2>2, FramesConnect
<1>3. CASE Register(c)
  <2>1. PICK i \in FreeIds : sending' = Append(sending, [owner |-> c, ids |-> {i}])
    BY <1>3, RegisterSingle
  <2>2. UNCHANGED <<shand, rhand, inflight, hst, link, wire, replies>> /\ i \in Ids /\ sending \in Seq(Frames)
    BY <1>3 DEF Register, FreeIds
  <2>3. \A n \in DOMAIN sending' : sending'[n].ids = {i} \/ (n \in DOMAIN sending /\ sending'[n] = sending[n])
    <3>. HIDE DEF TypeOK
    <3>. QED BY <2>1, <2>2
  <2>4. \A n \in DOMAIN sending' : Single(sending'[n])
    <3>1. \A f : f.ids = {i} => Single(f)
      BY <2>2 DEF Single
    <3>. QED BY <2>3, <3>1 DEF FrameInv, AllSingle
  <2>5. AllSingle'
    BY <2>2, <2>4 DEF FrameInv, AllSingle, Single
  <2>. QED BY <2>2, <2>5 DEF FrameInv, HandsOff, FreshEmpty
<1>4. CASE Discard(c)
  <2>1. PICK i \in pending[c] : inflight' = [inflight EXCEPT ![i] = NoFrame]
    BY <1>4 DEF Discard
  <2>2. UNCHANGED <<sending, shand, rhand, hst, link, wire, replies>>
    BY <1>4 DEF Discard
  <2>. QED BY <2>1, <2>2, ZenonT(40) DEF FrameInv, AllSingle, HandsOff, FreshEmpty, Single
<1>5. CASE \/ Enter(c) \/ NoNeed(c) \/ ConnectFails(c) \/ Mark(c) \/ Acquire(c) \/ Retrieve(c) \/ RetrieveRaises(c)
           \/ Rewatch(c) \/ Unmark(c) \/ Exit(c) \/ Block(c) \/ Cancel(c)
  <2>1. UNCHANGED <<sending, shand, rhand, inflight, hst, link, wire, replies>>
    BY <1>5 DEF Enter, NoNeed, ConnectFails, Mark, Acquire, Retrieve, RetrieveRaises, Rewatch, Unmark, Exit, Block, Cancel
  <2>. QED BY <2>1, FramesQuiet
<1>. QED BY <1>1, <1>2, <1>3, <1>4, <1>5 DEF ClientStep

LEMMA EnvironmentFrames ==
  ASSUME OwnInv, FrameInv, CloserStep \/ NetworkStep
  PROVE  FrameInv'
<1>. USE DEF OwnInv
<1>1. CASE CloserStep
  BY <1>1 DEF NeverClosing, NotClosing, CloserStep, TimerFires, CancelHandler, CloseConn, ShutdownEnds
<1>2. ASSUME NEW k \in Conns, NodeReplies(k) PROVE FrameInv'
  <2>1. PICK f \in wire[k] :
          wire' = [wire EXCEPT ![k] = @ \ {f}] /\ replies' = [replies EXCEPT ![k] = @ \cup {f}]
    BY <1>2 DEF NodeReplies
  <2>2. link[k] = "open" /\ UNCHANGED <<sending, shand, rhand, inflight, hst, link>>
    BY <1>2 DEF NodeReplies
  <2>3. \A j \in Conns : wire'[j] \cup replies'[j] = wire[j] \cup replies[j] /\ (j = k \/ UNCHANGED <<wire[j], replies[j]>>)
    BY <2>1
  <2>4. \A j \in Conns : \A g \in wire'[j] \cup replies'[j] : Single(g)
    BY <2>3 DEF FrameInv, AllSingle
  <2>5. AllSingle'
    BY <2>2, <2>4 DEF FrameInv, AllSingle, Single
  <2>6. HandsOff' /\ FreshEmpty'
    BY <2>2, <2>3 DEF FrameInv, HandsOff, FreshEmpty
  <2>. QED BY <2>5, <2>6 DEF FrameInv
<1>3. ASSUME NEW k \in Conns, ConnLost(k) PROVE FrameInv'
  <2>1. /\ wire' = [wire EXCEPT ![k] = {}] /\ link[k] = "open" /\ \E how \in Closures : link' = [link EXCEPT ![k] = how]
        /\ UNCHANGED <<sending, shand, rhand, inflight, hst, replies>>
    BY <1>3 DEF ConnLost
  <2>2. \A how \in Closures : how # "unused"
    BY BoundsAssumption
  <2>3. /\ \A j \in Conns : wire'[j] \in {wire[j], {}}
        /\ \A j \in Conns : link'[j] = "unused" => link[j] = "unused"
    BY <2>1, <2>2
  <2>. QED BY <2>1, <2>3, FramesConnect
<1>. QED BY <1>1, <1>2, <1>3 DEF NetworkStep

LEMMA NextFrames ==
  ASSUME Singles, OwnInv, BookInv, FrameInv, [Next]_vars
  PROVE  FrameInv'
<1>1. CASE Next
  BY <1>1, HandlerFrames, PumpFrames, ClientFrames, EnvironmentFrames DEF OwnInv, Next
<1>2. CASE UNCHANGED vars
  BY <1>2, FramesQuiet DEF vars
<1>. QED BY <1>1, <1>2

-----------------------------------------------------------------------------
(* Every id is in one place at most, and is reserved for the client whose  *)
(* frame is there.                                                         *)

Kinds == {"queued", "in hand", "on wire", "replied", "read"}

FrameOf(c, i) == [owner |-> c, ids |-> {i}]

Lies(i, t, x, c) ==
  \/ t = "queued"  /\ x \in DOMAIN sending /\ sending[x] = FrameOf(c, i)
  \/ t = "in hand" /\ x \in Handlers /\ shand[x] = FrameOf(c, i)
  \/ t = "on wire" /\ x \in Handlers /\ hst[x] = "pumping" /\ FrameOf(c, i) \in wire[hconn[x]]
  \/ t = "replied" /\ x \in Handlers /\ hst[x] = "pumping" /\ FrameOf(c, i) \in replies[hconn[x]]
  \/ t = "read"    /\ x \in Handlers /\ [owner |-> c, id |-> i] \in rhand[x]

Places == {p \in Ids \X Kinds \X (Handlers \cup DOMAIN sending) \X Clients : Lies(p[1], p[2], p[3], p[4])}

OnePlace == \A p, q \in Places : p[1] = q[1] => p = q

\* What is booked to be sent is not in flight.
BookedApart == \A p \in Places : p[2] \in {"queued", "in hand"} => inflight[p[1]] = NoFrame

\* An id stays reserved while a frame or a reply that carries it is about.
Reserved ==
  /\ \A p \in Places : p[1] \in inUse
  /\ \A i \in Ids : inflight[i] # NoFrame => i \in inUse

OwnersAgree ==
  \A c \in Clients : \A i \in pending[c] :
    /\ \A p \in Places : p[1] = i => p[4] = c
    /\ inflight[i] # NoFrame => inflight[i].owner = c
    /\ received[i] \in {"pending", "error", c}

PlaceInv == OnePlace /\ BookedApart /\ Reserved /\ OwnersAgree

LEMMA PlaceIs ==
  \A i \in Ids, t \in Kinds, c \in Clients : \A x : <<i, t, x, c>> \in Places <=> Lies(i, t, x, c)
<1>1. ASSUME NEW i \in Ids, NEW t \in Kinds, NEW c \in Clients, NEW x
      PROVE  <<i, t, x, c>> \in Places <=> Lies(i, t, x, c)
  <2>1. Lies(i, t, x, c) => x \in Handlers \cup DOMAIN sending
    BY DEF Lies
  <2>2. <<i, t, x, c>> \in Places <=> x \in Handlers \cup DOMAIN sending /\ Lies(i, t, x, c)
    BY DEF Places
  <2>. QED BY <2>1, <2>2
<1>. QED BY <1>1

LEMMA PlaceForm ==
  \A p \in Places : /\ p[1] \in Ids /\ p[2] \in Kinds /\ p[4] \in Clients
                    /\ p = <<p[1], p[2], p[3], p[4]>>
                    /\ Lies(p[1], p[2], p[3], p[4])
BY DEF Places

\* Nothing new is anywhere.
LEMMA Fades ==
  ASSUME TypeOK, PlaceInv, Places' \subseteq Places,
         \A i \in Ids : inflight'[i] \in {inflight[i], NoFrame},
         inUse \subseteq inUse',
         \A c \in Clients : pending'[c] \subseteq pending[c],
         \A c \in Clients : \A i \in pending'[c] : received'[i] \in {received[i], "pending", "error"}
  PROVE  PlaceInv'
<1>1. OnePlace'
  BY DEF PlaceInv, OnePlace
<1>2. BookedApart'
  BY PlaceForm DEF PlaceInv, BookedApart
<1>3. Reserved'
  BY DEF PlaceInv, Reserved
<1>4. OwnersAgree'
  BY DEF PlaceInv, OwnersAgree
<1>. QED BY <1>1, <1>2, <1>3, <1>4 DEF PlaceInv

LEMMA FewerPlaces ==
  ASSUME UNCHANGED sending,
         \A h \in Handlers : shand'[h] \in {shand[h], NoFrame} /\ rhand'[h] \subseteq rhand[h],
         \A h \in Handlers : hst'[h] = "pumping" =>
           \/ /\ hst[h] = "pumping"
              /\ wire'[hconn'[h]] \subseteq wire[hconn[h]]
              /\ replies'[hconn'[h]] \subseteq replies[hconn[h]]
           \/ wire'[hconn'[h]] = {} /\ replies'[hconn'[h]] = {}
  PROVE  Places' \subseteq Places
<1>1. ASSUME NEW i, NEW t, NEW x, NEW c \in Clients, Lies(i, t, x, c)'
      PROVE  Lies(i, t, x, c)
  <2>1. FrameOf(c, i) # NoFrame
    BY DEF FrameOf, NoFrame
  <2>. QED BY <1>1, <2>1 DEF Lies
<1>2. ASSUME NEW p \in Places' PROVE p \in Places
  <2>1. p \in Ids \X Kinds \X (Handlers \cup DOMAIN sending) \X Clients /\ Lies(p[1], p[2], p[3], p[4])'
    BY <1>2 DEF Places
  <2>2. Lies(p[1], p[2], p[3], p[4])
    BY <1>1, <2>1
  <2>. QED BY <2>1, <2>2 DEF Places
<1>. QED BY <1>2

LEMMA SamePlaces ==
  ASSUME UNCHANGED <<sending, shand, rhand, hst, hconn, wire, replies>>
  PROVE  Places' = Places
BY DEF Places, Lies

\* Nothing of what the places are about changes.
LEMMA PlacesQuiet ==
  ASSUME TypeOK, PlaceInv, UNCHANGED <<sending, shand, rhand, hst, hconn, wire, replies>>,
         UNCHANGED <<inflight, inUse, pending, received>>
  PROVE  PlaceInv'
BY SamePlaces, Fades

\* Every place comes from one before, and no two from the same: a frame moved.
LEMMA Moves ==
  ASSUME TypeOK, PlaceInv, NEW m,
         \A p \in Places' : m[p] \in Places /\ m[p][1] = p[1] /\ m[p][4] = p[4],
         \A p, q \in Places' : m[p] = m[q] => p = q,
         \A i \in Ids : \/ inflight'[i] \in {inflight[i], NoFrame}
                        \/ \E p \in Places : p[1] = i /\ inflight'[i].owner = p[4],
         UNCHANGED <<inUse, pending>>,
         \A i \in Ids : received'[i] \in {received[i], "pending", "error"},
         BookedApart'
  PROVE  PlaceInv'
<1>1. OnePlace'
  <2>1. ASSUME NEW p \in Places', NEW q \in Places', p[1] = q[1] PROVE p = q
    <3>1. m[p] \in Places /\ m[q] \in Places /\ m[p][1] = m[q][1]
      BY <2>1
    <3>2. m[p] = m[q]
      BY <3>1 DEF PlaceInv, OnePlace
    <3>. QED BY <3>2
  <2>. QED BY <2>1 DEF OnePlace
<1>2. Reserved'
  <2>1. \A p \in Places' : p[1] \in inUse'
    <3>. HIDE DEF TypeOK
    <3>. QED BY DEF PlaceInv, Reserved
  <2>2. ASSUME NEW i \in Ids, inflight'[i] # NoFrame PROVE i \in inUse'
    <3>1. CASE inflight'[i] \in {inflight[i], NoFrame}
      BY <2>2, <3>1 DEF PlaceInv, Reserved
    <3>2. ASSUME NEW p \in Places, p[1] = i PROVE i \in inUse'
      BY <3>2 DEF PlaceInv, Reserved
    <3>. QED BY <3>1, <3>2
  <2>. QED BY <2>1, <2>2 DEF Reserved
<1>3. OwnersAgree'
  <2>. SUFFICES ASSUME NEW c \in Clients, NEW i \in pending[c]
                PROVE  /\ \A p \in Places' : p[1] = i => p[4] = c
                       /\ inflight'[i] # NoFrame => inflight'[i].owner = c
                       /\ received'[i] \in {"pending", "error", c}
    BY DEF OwnersAgree
  <2>1. i \in Ids
    OBVIOUS
  <2>2. /\ \A p \in Places : p[1] = i => p[4] = c
        /\ inflight[i] # NoFrame => inflight[i].owner = c
        /\ received[i] \in {"pending", "error", c}
    BY DEF PlaceInv, OwnersAgree
  <2>. HIDE DEF TypeOK
  <2>3. ASSUME NEW p \in Places', p[1] = i PROVE p[4] = c
    <3>1. m[p] \in Places /\ m[p][1] = i /\ m[p][4] = p[4]
      BY <2>3
    <3>. QED BY <2>2, <3>1
  <2>4. inflight'[i] # NoFrame => inflight'[i].owner = c
    <3>1. CASE inflight'[i] \in {inflight[i], NoFrame}
      BY <2>2, <3>1
    <3>2. ASSUME NEW p \in Places, p[1] = i, inflight'[i].owner = p[4] PROVE inflight'[i].owner = c
      BY <2>2, <3>2
    <3>. QED BY <2>1, <3>1, <3>2
  <2>5. received'[i] \in {received[i], "pending", "error"}
    BY <2>1
  <2>6. received'[i] \in {"pending", "error", c}
    BY <2>2, <2>5
  <2>. QED BY <2>3, <2>4, <2>6
<1>. QED BY <1>1, <1>2, <1>3 DEF PlaceInv

LEMMA BeginPlaces ==
  ASSUME TypeOK, NEW p, NEW force \in BOOLEAN, BeginConnect(p, force),
         UNCHANGED <<sending, replies, hconn, rhand, shand>>,
         \A h \in Handlers : hst'[h] = "pumping" => hst[h] = "pumping"
  PROVE  Places' \subseteq Places
<1>1. \A k \in Conns : wire'[k] \subseteq wire[k]
  BY ZenonT(40) DEF BeginConnect
<1>. QED BY <1>1, FewerPlaces

\* A connection starts empty, and a handler that starts to pump has empty hands.
LEMMA EndPlaces ==
  ASSUME TypeOK, FrameInv, NEW p, NEW own \in SUBSET Handlers, EndConnect(p, own),
         UNCHANGED <<sending, wire, replies, rhand, shand>>
  PROVE  Places' \subseteq Places
<1>1. PICK k \in FreshConn, new \in Created :
        /\ hst' = [h \in Handlers |-> IF h \in own \cup new THEN "pumping" ELSE hst[h]]
        /\ hconn' = [h \in Handlers |-> IF h \in own \cup new THEN k ELSE hconn[h]]
  <2>. HIDE DEF TypeOK
  <2>. QED BY DEF EndConnect
<1>2. wire[k] = {} /\ replies[k] = {}
  BY DEF FreshConn, FrameInv, FreshEmpty
<1>. QED BY <1>1, <1>2, FewerPlaces

LEMMA Received == 
  ASSUME TypeOK
  PROVE  \A i \in Ids : Failed[i] \in {received[i], "error"}
BY DEF Failed

LEMMA HandlerPlaces ==
  ASSUME OwnInv, FrameInv, PlaceInv, NEW h \in Handlers, HandlerStep(h), ~Resubmit(h)
  PROVE  PlaceInv'
<1>. USE DEF OwnInv
<1>1. CASE Wake(h)
  <2>1. /\ UNCHANGED <<sending, inflight, wire, replies, hconn, inUse, pending, received>>
        /\ shand' = [shand EXCEPT ![h] = NoFrame] /\ rhand' = [rhand EXCEPT ![h] = {}]
        /\ \E where \in {"finished", "failed", "resubmit"} : hst' = [hst EXCEPT ![h] = where]
    BY <1>1 DEF Wake, StopPumps
  <2>2. Places' \subseteq Places
    BY <2>1, FewerPlaces
  <2>. QED BY <2>1, <2>2, Fades
<1>2. CASE Reconnect(h)
  <2>1. /\ UNCHANGED <<sending, inflight, replies, hconn, shand, rhand, inUse, pending, received>>
        /\ hst' = [hst EXCEPT ![h] = "connecting"] /\ BeginConnect(Handler(h), TRUE)
    BY <1>2 DEF Reconnect
  <2>2. Places' \subseteq Places
    BY <2>1, BeginPlaces
  <2>. QED BY <2>1, <2>2, Fades
<1>3. CASE Reconnected(h)
  <2>1. UNCHANGED <<sending, inflight, replies, shand, rhand, wire, inUse, pending, received>> /\ EndConnect(Handler(h), {h})
    BY <1>3 DEF Reconnected
  <2>2. Places' \subseteq Places
    BY <2>1, EndPlaces
  <2>. QED BY <2>1, <2>2, Fades
<1>4. CASE ReconnectFails(h)
  <2>1. UNCHANGED <<sending, inflight, replies, shand, rhand, wire, hconn, inUse, pending, received>>
    BY <1>4 DEF ReconnectFails
  <2>2. \E where \in {"failed", "reconnect"} : hst' = [hst EXCEPT ![h] = where]
    BY <1>4 DEF ReconnectFails
  <2>3. Places' \subseteq Places
    BY <2>1, <2>2, FewerPlaces
  <2>. QED BY <2>1, <2>3, Fades
<1>5. CASE Block(Handler(h))
  BY <1>5, PlacesQuiet DEF Block
<1>. QED BY <1>1, <1>2, <1>3, <1>4, <1>5 DEF HandlerStep

\* The steps of the pumps that move no frame.
LEMMA PumpPlaces ==
  ASSUME TypeOK, PlaceInv, NEW h \in Handlers,
         \/ DispatchTwice(h) \/ ReceiveClosed(h) \/ ReceiveTimeout(h) \/ ReceiveConflict(h) \/ ReceiveMalformed(h)
         \/ Block(Receiver(h)) \/ Block(Sender(h))
  PROVE  PlaceInv'
<1>1. CASE DispatchTwice(h)
  <2>1. PICK r \in rhand[h] : inflight' = [inflight EXCEPT ![r.id] = NoFrame]
    BY <1>1 DEF DispatchTwice
  <2>2. /\ rhand' = [rhand EXCEPT ![h] = {}] /\ received' = Failed
        /\ UNCHANGED <<sending, shand, hst, hconn, wire, replies, inUse, pending>>
    BY <1>1 DEF DispatchTwice
  <2>3. Places' \subseteq Places
    BY <2>2, FewerPlaces
  <2>4. \A i \in Ids : inflight'[i] \in {inflight[i], NoFrame}
    BY <2>1
  <2>. QED BY <2>2, <2>3, <2>4, Fades, Received
<1>2. CASE ReceiveConflict(h) \/ ReceiveMalformed(h)
  <2>1. received' = Failed /\ UNCHANGED <<sending, shand, rhand, hst, hconn, wire, replies, inflight, inUse, pending>>
    BY <1>2 DEF ReceiveConflict, ReceiveMalformed, EndReceiver
  <2>. QED BY <2>1, SamePlaces, Fades, Received
<1>3. CASE ReceiveClosed(h) \/ ReceiveTimeout(h) \/ Block(Receiver(h)) \/ Block(Sender(h))
  <2>1. UNCHANGED <<sending, shand, rhand, hst, hconn, wire, replies, inflight, inUse, pending, received>>
    BY <1>3 DEF ReceiveClosed, ReceiveTimeout, EndReceiver, Block
  <2>. QED BY <2>1, PlacesQuiet
<1>. QED BY <1>1, <1>2, <1>3

LEMMA ClientPlaces ==
  ASSUME TypeOK, BookInv, FrameInv, PlaceInv, NEW c \in Clients, Enter(c) \/ ClientStep(c) \/ Cancel(c), ~Register(c)
  PROVE  PlaceInv'
<1>1. CASE Revive(c) \/ Connect(c)
  <2>1. /\ UNCHANGED <<sending, inflight, replies, shand, rhand, hst, hconn, inUse, pending, received>>
        /\ \E force \in BOOLEAN : BeginConnect(c, force)
    BY <1>1 DEF Revive, Connect
  <2>2. Places' \subseteq Places
    BY <2>1, BeginPlaces
  <2>. QED BY <2>1, <2>2, Fades
<1>2. CASE Connected(c)
  <2>1. UNCHANGED <<sending, inflight, replies, shand, rhand, wire, inUse, pending, received>> /\ EndConnect(c, {})
    BY <1>2 DEF Connected
  <2>2. Places' \subseteq Places
    BY <2>1, EndPlaces
  <2>. QED BY <2>1, <2>2, Fades
<1>3. CASE Retrieve(c) \/ Discard(c)
  <2>1. PICK i \in pending[c] : /\ received' = [received EXCEPT ![i] = "none"]
                                /\ pending' = [pending EXCEPT ![c] = @ \ {i}]
                                /\ inflight' = inflight \/ inflight' = [inflight EXCEPT ![i] = NoFrame]
    BY <1>3 DEF Retrieve, Discard
  <2>2. UNCHANGED <<sending, shand, rhand, hst, hconn, wire, replies, inUse>>
    BY <1>3 DEF Retrieve, Discard
  <2>3. \A d \in Clients : \A j \in pending'[d] : j # i /\ j \in pending[d] /\ received'[j] = received[j]
    BY <2>1 DEF BookInv
  <2>4. \A j \in Ids : inflight'[j] \in {inflight[j], NoFrame}
    BY <2>1
  <2>5. \A d \in Clients : pending'[d] \subseteq pending[d]
    BY <2>1
  <2>. QED BY <2>2, <2>3, <2>4, <2>5, SamePlaces, Fades
<1>4. CASE \/ Enter(c) \/ NoNeed(c) \/ ConnectFails(c) \/ Mark(c) \/ Acquire(c) \/ RetrieveRaises(c)
           \/ Rewatch(c) \/ Unmark(c) \/ Exit(c) \/ Block(c) \/ Cancel(c)
  <2>1. UNCHANGED <<sending, shand, rhand, hst, hconn, wire, replies, inflight, inUse, pending, received>>
    BY <1>4 DEF Enter, NoNeed, ConnectFails, Mark, Acquire, RetrieveRaises, Rewatch, Unmark, Exit, Block, Cancel
  <2>. QED BY <2>1, PlacesQuiet
<1>. QED BY <1>1, <1>2, <1>3, <1>4 DEF ClientStep

LEMMA LossPlaces ==
  ASSUME TypeOK, PlaceInv, NEW k \in Conns, ConnLost(k)
  PROVE  PlaceInv'
<1>1. /\ wire' = [wire EXCEPT ![k] = {}]
      /\ UNCHANGED <<sending, shand, rhand, inflight, hst, hconn, replies, inUse, pending, received>>
  BY DEF ConnLost
<1>2. Places' \subseteq Places
  BY <1>1, FewerPlaces
<1>. QED BY <1>1, <1>2, Fades

LEMMA FrameForm ==
  \A f \in Frames : Single(f) => \E c \in Clients, i \in Ids : f = FrameOf(c, i)
<1>1. ASSUME NEW f \in Frames, NEW i \in Ids, f.ids = {i} PROVE f = FrameOf(f.owner, i) /\ f.owner \in Clients
  BY <1>1 DEF Frames, FrameOf
<1>. QED BY <1>1 DEF Single

\* One frame moves from p to q.
LEMMA Moved ==
  ASSUME TypeOK, PlaceInv, NEW p \in Places, NEW q, q[1] = p[1], q[4] = p[4],
         Places' \subseteq (Places \ {p}) \cup {q},
         \A i \in Ids : \/ inflight'[i] \in {inflight[i], NoFrame}
                        \/ p[1] = i /\ inflight'[i].owner = p[4],
         q[2] \notin {"queued", "in hand"},
         UNCHANGED <<inUse, pending, received>>
  PROVE  PlaceInv'
<1>. DEFINE m == [r \in Places' |-> IF r = q THEN p ELSE r]
<1>. HIDE DEF TypeOK
<1>1. \A r \in Places' : m[r] \in Places /\ m[r][1] = r[1] /\ m[r][4] = r[4]
  OBVIOUS
<1>2. \A r, u \in Places' : m[r] = m[u] => r = u
  OBVIOUS
<1>3. \A r \in Places' : r[2] \in {"queued", "in hand"} => r \in Places /\ r[1] # p[1]
  BY DEF PlaceInv, OnePlace
<1>4. BookedApart'
  <2>1. ASSUME NEW r \in Places', r[2] \in {"queued", "in hand"} PROVE inflight'[r[1]] = NoFrame
    <3>1. r \in Places /\ r[1] # p[1] /\ r[1] \in Ids /\ inflight[r[1]] = NoFrame
      BY <2>1, <1>3, PlaceForm DEF PlaceInv, BookedApart
    <3>. QED BY <3>1
  <2>. QED BY <2>1 DEF BookedApart
<1>5. \A i \in Ids : received'[i] \in {received[i], "pending", "error"}
  OBVIOUS
<1>6. \A i \in Ids : \/ inflight'[i] \in {inflight[i], NoFrame}
                     \/ \E r \in Places : r[1] = i /\ inflight'[i].owner = r[4]
  OBVIOUS
<1>. HIDE DEF m
<1>. QED BY <1>1, <1>2, <1>4, <1>5, <1>6, Moves

LEMMA ReplyPlaces ==
  ASSUME OwnInv, FrameInv, PlaceInv, NEW k \in Conns, NodeReplies(k)
  PROVE  PlaceInv'
<1>. USE DEF OwnInv
<1>1. PICK f \in wire[k] :
        wire' = [wire EXCEPT ![k] = @ \ {f}] /\ replies' = [replies EXCEPT ![k] = @ \cup {f}]
  BY DEF NodeReplies
<1>2. UNCHANGED <<sending, shand, rhand, inflight, hst, hconn, inUse, pending, received>>
  BY DEF NodeReplies
<1>3. PICK c \in Clients, i \in Ids : f = FrameOf(c, i)
  BY FrameForm DEF FrameInv, AllSingle
<1>4. CASE \E h \in Handlers : hst[h] = "pumping" /\ hconn[h] = k
  <2>1. PICK h \in Handlers : hst[h] = "pumping" /\ hconn[h] = k
    BY <1>4
  <2>2. \A g \in Handlers : hst[g] = "pumping" => g = h
    BY <2>1 DEF ConnectionOwned, Alive, HandlerLive, Handlers
  <2>. DEFINE p == <<i, "on wire", h, c>>
              q == <<i, "replied", h, c>>
  <2>3. p \in Places
    BY <1>3, <2>1, PlaceIs DEF Kinds, Lies
  <2>a. p[1] = i /\ p[2] = "on wire" /\ p[3] = h /\ p[4] = c
    <3>. HIDE DEF TypeOK
    <3>. QED OBVIOUS
  <2>b. \A r : r = <<r[1], r[2], r[3], r[4]>> /\ r[1] \in Ids /\ r[2] \in Kinds /\ r[4] \in Clients
                /\ Lies(r[1], r[2], r[3], r[4]) => r \in Places
    BY PlaceIs
  <2>4. ASSUME NEW r \in Places', r # q PROVE r \in Places /\ r # p
    <3>1. r[1] \in Ids /\ r[2] \in Kinds /\ r[4] \in Clients /\ r = <<r[1], r[2], r[3], r[4]>> /\ Lies(r[1], r[2], r[3], r[4])'
      BY DEF Places
    <3>2. /\ wire'[k] = wire[k] \ {f} /\ replies'[k] = replies[k] \cup {f}
      BY <1>1
    <3>3. FrameOf(r[4], r[1]) = f <=> r[4] = c /\ r[1] = i
      BY <1>3, ZenonT(40) DEF FrameOf
    <3>4. r[2] = "replied" /\ r[3] = h => ~(r[4] = c /\ r[1] = i)
      BY <2>4, <3>1
    <3>. HIDE DEF TypeOK
    <3>5. CASE r[2] = "on wire"
      <4>1. r[3] = h /\ FrameOf(r[4], r[1]) \in wire'[k]
        BY <1>2, <2>1, <2>2, <3>1, <3>5 DEF Lies
      <4>2. Lies(r[1], r[2], r[3], r[4])
        BY <1>2, <2>1, <3>2, <3>5, <4>1 DEF Lies
      <4>3. ~(r[4] = c /\ r[1] = i)
        BY <3>2, <3>3, <4>1
      <4>. QED BY <2>a, <2>b, <3>1, <4>2, <4>3
    <3>6. CASE r[2] = "replied"
      <4>1. r[3] = h /\ FrameOf(r[4], r[1]) \in replies'[k]
        BY <1>2, <2>1, <2>2, <3>1, <3>6 DEF Lies
      <4>2. FrameOf(r[4], r[1]) \in replies[k]
        BY <3>2, <3>3, <3>4, <3>6, <4>1
      <4>3. Lies(r[1], r[2], r[3], r[4])
        BY <2>1, <3>6, <4>1, <4>2 DEF Lies
      <4>. QED BY <2>a, <2>b, <3>1, <3>6, <4>3
    <3>7. CASE r[2] \notin {"on wire", "replied"}
      <4>1. Lies(r[1], r[2], r[3], r[4])
        BY <1>2, <3>1, <3>7 DEF Lies
      <4>. QED BY <2>a, <2>b, <3>1, <3>7, <4>1
    <3>. QED BY <3>5, <3>6, <3>7
  <2>5. Places' \subseteq (Places \ {p}) \cup {q}
    BY <2>4
  <2>6. q[1] = p[1] /\ q[4] = p[4] /\ q[2] \notin {"queued", "in hand"}
    OBVIOUS
  <2>7. \A j \in Ids : inflight'[j] \in {inflight[j], NoFrame}
    BY <1>2
  <2>. HIDE DEF p, q
  <2>. QED BY <1>2, <2>3, <2>5, <2>6, <2>7, Moved
<1>5. CASE ~\E h \in Handlers : hst[h] = "pumping" /\ hconn[h] = k
  <2>1. \A h \in Handlers : hst[h] = "pumping" =>
           wire'[hconn[h]] = wire[hconn[h]] /\ replies'[hconn[h]] = replies[hconn[h]]
    BY <1>1, <1>5
  <2>2. Places' \subseteq Places
    BY <1>2, <2>1, FewerPlaces
  <2>. QED BY <1>2, <2>2, Fades
<1>. QED BY <1>4, <1>5

LEMMA ReceivePlaces ==
  ASSUME OwnInv, FrameInv, PlaceInv, NEW h \in Handlers, Receive(h)
  PROVE  PlaceInv'
<1>. USE DEF OwnInv
<1>. DEFINE k == hconn[h]
<1>1. PICK f \in replies[k] :
        /\ replies' = [replies EXCEPT ![k] = @ \ {f}]
        /\ rhand' = [rhand EXCEPT ![h] = {[owner |-> f.owner, id |-> i] : i \in f.ids}]
  BY DEF Receive
<1>2. UNCHANGED <<sending, shand, inflight, hst, hconn, wire, inUse, pending, received>>
  BY DEF Receive
<1>3. hst[h] = "pumping" /\ k \in Conns /\ rhand[h] = {}
  BY DEF Receive, Receiving
<1>4. PICK c \in Clients, i \in Ids : f = FrameOf(c, i)
  BY <1>3, FrameForm DEF FrameInv, AllSingle
<1>5. \A g \in Handlers : hst[g] = "pumping" => g = h
  BY <1>3 DEF ConnectionOwned, Alive, HandlerLive, Handlers
<1>6. replies'[k] = replies[k] \ {f}
  BY <1>1, <1>3
<1>7. \A g \in Handlers : rhand'[g] = IF g = h THEN {[owner |-> c, id |-> i]} ELSE rhand[g]
  <2>1. {[owner |-> f.owner, id |-> j] : j \in f.ids} = {[owner |-> c, id |-> i]}
    BY <1>4 DEF FrameOf
  <2>. QED BY <1>1, <2>1
<1>. DEFINE p == <<i, "replied", h, c>>
            q == <<i, "read", h, c>>
<1>8. p \in Places
  BY <1>3, <1>4, PlaceIs DEF Kinds, Lies
<1>9. ASSUME NEW r \in Places', r # q PROVE r \in Places /\ r # p
  <2>1. r[1] \in Ids /\ r[2] \in Kinds /\ r[4] \in Clients /\ r = <<r[1], r[2], r[3], r[4]>> /\ Lies(r[1], r[2], r[3], r[4])'
    BY DEF Places
  <2>2. FrameOf(r[4], r[1]) = f <=> r[4] = c /\ r[1] = i
    BY <1>4, ZenonT(40) DEF FrameOf
  <2>3. r[2] = "read" /\ r[3] = h => ~(r[4] = c /\ r[1] = i)
    BY <1>9, <2>1
  <2>. HIDE DEF TypeOK
  <2>4. CASE r[2] = "replied"
    <3>1. r[3] = h /\ FrameOf(r[4], r[1]) \in replies'[k]
      BY <1>2, <1>5, <2>1, <2>4 DEF Lies
    <3>2. Lies(r[1], r[2], r[3], r[4])
      BY <1>3, <1>6, <2>4, <3>1 DEF Lies
    <3>3. ~(r[4] = c /\ r[1] = i)
      BY <1>6, <2>2, <3>1
    <3>. QED BY <2>1, <3>2, <3>3, PlaceIs
  <2>5. CASE r[2] = "read"
    <3>1. r[3] \in Handlers /\ [owner |-> r[4], id |-> r[1]] \in rhand'[r[3]]
      BY <2>1, <2>5 DEF Lies
    <3>2. r[3] # h
      BY <1>7, <2>3, <2>5, <3>1
    <3>3. Lies(r[1], r[2], r[3], r[4])
      BY <1>7, <2>5, <3>1, <3>2 DEF Lies
    <3>. QED BY <2>1, <2>5, <3>3, PlaceIs
  <2>6. CASE r[2] \notin {"replied", "read"}
    <3>1. Lies(r[1], r[2], r[3], r[4])
      BY <1>2, <2>1, <2>6 DEF Lies
    <3>. QED BY <2>1, <2>6, <3>1, PlaceIs
  <2>. QED BY <2>4, <2>5, <2>6
<1>10. Places' \subseteq (Places \ {p}) \cup {q}
  BY <1>9
<1>11. q[1] = p[1] /\ q[4] = p[4] /\ q[2] \notin {"queued", "in hand"}
  OBVIOUS
<1>12. \A j \in Ids : inflight'[j] \in {inflight[j], NoFrame}
  BY <1>2
<1>. HIDE DEF p, q
<1>. QED BY <1>2, <1>8, <1>10, <1>11, <1>12, Moved

LEMMA SendPlaces ==
  ASSUME OwnInv, FrameInv, PlaceInv, NEW h \in Handlers, SendFrame(h)
  PROVE  PlaceInv'
<1>. USE DEF OwnInv
<1>. DEFINE k == hconn[h]
<1>1. /\ hst[h] = "pumping" /\ shand[h] # NoFrame /\ shand' = [shand EXCEPT ![h] = NoFrame]
      /\ inflight' = [i \in Ids |-> IF i \in shand[h].ids THEN shand[h] ELSE inflight[i]]
      /\ UNCHANGED <<sending, rhand, hst, hconn, replies, inUse, pending, received>>
      /\ wire' = wire \/ wire' = [wire EXCEPT ![k] = @ \cup {shand[h]}]
  BY DEF SendFrame
<1>2. k \in Conns
  BY <1>1
<1>3. PICK c \in Clients, i \in Ids : shand[h] = FrameOf(c, i)
  BY <1>1, FrameForm DEF FrameInv, AllSingle
<1>4. \A g \in Handlers : hst[g] = "pumping" => g = h
  BY <1>1 DEF ConnectionOwned, Alive, HandlerLive, Handlers
<1>5. wire'[k] \subseteq wire[k] \cup {FrameOf(c, i)}
  BY <1>1, <1>2, <1>3
<1>6. \A g \in Handlers : shand'[g] = IF g = h THEN NoFrame ELSE shand[g]
  BY <1>1
<1>. DEFINE p == <<i, "in hand", h, c>>
            q == <<i, "on wire", h, c>>
<1>8. p \in Places
  BY <1>3, PlaceIs DEF Kinds, Lies
<1>9. ASSUME NEW r \in Places', r # q PROVE r \in Places /\ r # p
  <2>1. r[1] \in Ids /\ r[2] \in Kinds /\ r[4] \in Clients /\ r = <<r[1], r[2], r[3], r[4]>> /\ Lies(r[1], r[2], r[3], r[4])'
    BY DEF Places
  <2>2. /\ FrameOf(r[4], r[1]) = FrameOf(c, i) <=> r[4] = c /\ r[1] = i
        /\ FrameOf(r[4], r[1]) # NoFrame
    BY ZenonT(40) DEF FrameOf, NoFrame
  <2>. HIDE DEF TypeOK
  <2>3. Lies(r[1], r[2], r[3], r[4])
    BY <1>1, <1>4, <1>5, <1>6, <1>9, <2>1, <2>2 DEF Lies
  <2>4. r # p
    <3>1. shand'[h] = NoFrame
      BY <1>6
    <3>2. r[2] = "in hand" => shand'[r[3]] # NoFrame
      BY <2>1, <2>2 DEF Lies
    <3>3. p[2] = "in hand" /\ p[3] = h
      OBVIOUS
    <3>. HIDE DEF p
    <3>. QED BY <3>1, <3>2, <3>3
  <2>. QED BY <2>1, <2>3, <2>4, PlaceIs
<1>10. Places' \subseteq (Places \ {p}) \cup {q}
  BY <1>9
<1>11. q[1] = p[1] /\ q[4] = p[4] /\ q[2] \notin {"queued", "in hand"}
  OBVIOUS
<1>12. \A j \in Ids : inflight'[j] \in {inflight[j], NoFrame} \/ (p[1] = j /\ inflight'[j].owner = p[4])
  BY <1>1, <1>3 DEF FrameOf
<1>. HIDE DEF p, q
<1>. QED BY <1>1, <1>8, <1>10, <1>11, <1>12, Moved

LEMMA TakePlaces ==
  ASSUME TypeOK, FrameInv, PlaceInv, NEW h \in Handlers, TakeFrame(h)
  PROVE  PlaceInv'
<1>1. /\ sending # <<>> /\ shand[h] = NoFrame
      /\ shand' = [shand EXCEPT ![h] = Head(sending)] /\ sending' = Tail(sending)
      /\ UNCHANGED <<rhand, inflight, hst, hconn, wire, replies, inUse, pending, received>>
  BY DEF TakeFrame
<1>2. sending \in Seq(Frames)
  OBVIOUS
<1>3. /\ 1 \in DOMAIN sending /\ Head(sending) = sending[1]
      /\ \A n \in DOMAIN sending' : n \in Nat /\ n # 0 /\ n + 1 \in DOMAIN sending /\ sending'[n] = sending[n + 1]
  <2>. HIDE DEF TypeOK
  <2>. QED BY <1>1, <1>2
<1>4. \A g \in Handlers : shand'[g] = IF g = h THEN sending[1] ELSE shand[g]
  BY <1>1, <1>3
<1>. DEFINE m == [r \in Places' |->
                    IF r[2] = "queued" THEN <<r[1], "queued", r[3] + 1, r[4]>>
                    ELSE IF r[2] = "in hand" /\ r[3] = h THEN <<r[1], "queued", 1, r[4]>> ELSE r]
<1>5. ASSUME NEW r \in Places'
      PROVE  /\ r[1] \in Ids /\ r[2] \in Kinds /\ r[4] \in Clients
             /\ r = <<r[1], r[2], r[3], r[4]>>
             /\ Lies(r[1], r[2], r[3], r[4])'
  BY DEF Places
<1>. HIDE DEF TypeOK
<1>6. ASSUME NEW r \in Places' PROVE m[r] \in Places /\ m[r][1] = r[1] /\ m[r][4] = r[4]
  <2>1. CASE r[2] = "queued"
    <3>1. Lies(r[1], "queued", r[3] + 1, r[4])
      BY <1>3, <1>5, <2>1 DEF Lies
    <3>2. <<r[1], "queued", r[3] + 1, r[4]>> \in Places
      BY <1>5, <3>1, PlaceIs DEF Kinds
    <3>. QED BY <2>1, <3>2
  <2>2. CASE r[2] = "in hand" /\ r[3] = h
    <3>1. Lies(r[1], "queued", 1, r[4])
      BY <1>3, <1>4, <1>5, <2>2 DEF Lies
    <3>2. <<r[1], "queued", 1, r[4]>> \in Places
      BY <1>5, <3>1, PlaceIs DEF Kinds
    <3>. QED BY <2>2, <3>2
  <2>3. CASE ~(r[2] = "queued") /\ ~(r[2] = "in hand" /\ r[3] = h)
    <3>1. Lies(r[1], r[2], r[3], r[4])
      BY <1>1, <1>4, <1>5, <2>3 DEF Lies
    <3>2. r \in Places
      BY <1>5, <3>1, PlaceIs
    <3>. QED BY <2>3, <3>2
  <2>. QED BY <2>1, <2>2, <2>3
<1>7. \A r \in Places' : r[2] = "queued" => r[3] \in Nat \ {0}
  BY <1>3, <1>5 DEF Lies
<1>8. ASSUME NEW r \in Places', NEW u \in Places', m[r] = m[u] PROVE r = u
  <2>1. /\ r = <<r[1], r[2], r[3], r[4]>> /\ u = <<u[1], u[2], u[3], u[4]>>
        /\ r[1] = u[1] /\ r[4] = u[4]
    BY <1>5, <1>6, <1>8
  <2>2. /\ r[2] = "queued" => m[r][2] = "queued" /\ m[r][3] = r[3] + 1 /\ r[3] \in Nat \ {0}
        /\ u[2] = "queued" => m[u][2] = "queued" /\ m[u][3] = u[3] + 1 /\ u[3] \in Nat \ {0}
    BY <1>7
  <2>3. /\ r[2] = "in hand" /\ r[3] = h => m[r][2] = "queued" /\ m[r][3] = 1
        /\ u[2] = "in hand" /\ u[3] = h => m[u][2] = "queued" /\ m[u][3] = 1
    OBVIOUS
  <2>4. /\ r[2] # "queued" /\ ~(r[2] = "in hand" /\ r[3] = h) => m[r] = r
        /\ u[2] # "queued" /\ ~(u[2] = "in hand" /\ u[3] = h) => m[u] = u
    OBVIOUS
  <2>. HIDE DEF m
  <2>5. r[2] = u[2] /\ r[3] = u[3]
    <3>1. CASE r[2] = "queued"
      <4>1. m[u][2] = "queued" /\ m[u][3] = r[3] + 1 /\ r[3] \in Nat \ {0}
        BY <1>8, <2>2, <3>1
      <4>2. u[2] = "queued"
        <5>1. ~(u[2] = "in hand" /\ u[3] = h)
          <6>1. r[3] + 1 # 1
            BY <4>1
          <6>. QED BY <2>3, <4>1, <6>1
        <5>. QED BY <2>4, <4>1, <5>1
      <4>. QED BY <2>2, <3>1, <4>1, <4>2
    <3>2. CASE r[2] = "in hand" /\ r[3] = h
      <4>1. m[u][2] = "queued" /\ m[u][3] = 1
        BY <1>8, <2>3, <3>2
      <4>2. u[2] # "queued"
        BY <2>2, <4>1
      <4>. QED BY <2>4, <3>2, <4>1, <4>2
    <3>3. CASE r[2] # "queued" /\ ~(r[2] = "in hand" /\ r[3] = h)
      <4>1. m[u] = r
        BY <1>8, <2>4, <3>3
      <4>2. u[2] # "queued"
        BY <2>2, <3>3, <4>1
      <4>3. ~(u[2] = "in hand" /\ u[3] = h)
        BY <2>3, <3>3, <4>1
      <4>. QED BY <2>4, <4>1, <4>2, <4>3
    <3>. QED BY <3>1, <3>2, <3>3
  <2>. QED BY <2>1, <2>5
<1>9. \A r \in Places' : r[2] \in {"queued", "in hand"} => m[r][2] \in {"queued", "in hand"}
  OBVIOUS
<1>. HIDE DEF m
<1>10. BookedApart'
  <2>1. ASSUME NEW r \in Places', r[2] \in {"queued", "in hand"} PROVE inflight'[r[1]] = NoFrame
    BY <1>1, <1>6, <1>9, <2>1 DEF PlaceInv, BookedApart
  <2>. QED BY <2>1 DEF BookedApart
<1>11. /\ \A i \in Ids : inflight'[i] \in {inflight[i], NoFrame}
       /\ \A i \in Ids : received'[i] \in {received[i], "pending", "error"}
  BY <1>1
<1>. QED BY <1>1, <1>6, <1>8, <1>10, <1>11, Moves

LEMMA DispatchPlaces ==
  ASSUME TypeOK, FrameInv, PlaceInv, NEW h \in Handlers, Dispatch(h)
  PROVE  PlaceInv'
<1>1. PICK e \in rhand[h] :
        /\ inflight' = [inflight EXCEPT ![e.id] = NoFrame]
        /\ received' = [received EXCEPT ![e.id] = IF @ = "none" THEN @ ELSE e.owner]
        /\ inUse' = inUse \ {e.id}
        /\ rhand' = [rhand EXCEPT ![h] = @ \ {e}]
  BY DEF Dispatch
<1>2. UNCHANGED <<sending, shand, hst, hconn, wire, replies, pending>>
  BY DEF Dispatch
<1>3. PICK c \in Clients, i \in Ids : e = [owner |-> c, id |-> i]
  OBVIOUS
<1>4. Places' \subseteq Places
  BY <1>1, <1>2, FewerPlaces
<1>. DEFINE p == <<i, "read", h, c>>
<1>5. p \in Places
  BY <1>3, PlaceIs DEF Kinds, Lies
<1>6. p \notin Places'
  <2>1. ~Lies(i, "read", h, c)'
    BY <1>1, <1>3 DEF Lies
  <2>. QED BY <2>1 DEF Places
<1>7. \A r \in Places' : r \in Places /\ r[1] # i
  BY <1>4, <1>5, <1>6 DEF PlaceInv, OnePlace
<1>8. OnePlace' /\ BookedApart'
  <2>1. OnePlace'
    BY <1>4 DEF PlaceInv, OnePlace
  <2>2. BookedApart'
    BY <1>1, <1>7, PlaceForm DEF PlaceInv, BookedApart
  <2>. QED BY <2>1, <2>2
<1>9. Reserved'
  BY <1>1, <1>3, <1>7 DEF PlaceInv, Reserved
<1>10. OwnersAgree'
  <2>. SUFFICES ASSUME NEW d \in Clients, NEW j \in pending[d]
                PROVE  /\ \A r \in Places' : r[1] = j => r[4] = d
                       /\ inflight'[j] # NoFrame => inflight'[j].owner = d
                       /\ received'[j] \in {"pending", "error", d}
    BY <1>2 DEF OwnersAgree
  <2>1. j \in Ids
    OBVIOUS
  <2>2. /\ \A r \in Places : r[1] = j => r[4] = d
        /\ inflight[j] # NoFrame => inflight[j].owner = d
        /\ received[j] \in {"pending", "error", d}
    BY DEF PlaceInv, OwnersAgree
  <2>3. i = j => c = d
    BY <1>5, <2>2
  <2>. QED BY <1>1, <1>3, <1>7, <2>1, <2>2, <2>3
<1>. QED BY <1>8, <1>9, <1>10 DEF PlaceInv

LEMMA RegisterPlaces ==
  ASSUME Singles, TypeOK, BookInv, FrameInv, PlaceInv, NEW c \in Clients, Register(c)
  PROVE  PlaceInv'
<1>1. PICK i \in FreeIds :
        /\ inUse' = inUse \cup {i}
        /\ received' = [j \in Ids |-> IF j = i THEN "pending" ELSE received[j]]
        /\ sending' = Append(sending, [owner |-> c, ids |-> {i}])
        /\ pending' = [pending EXCEPT ![c] = @ \cup {i}]
  BY RegisterSingle
<1>2. UNCHANGED <<shand, rhand, inflight, hst, hconn, wire, replies>>
  BY DEF Register
<1>3. i \in Ids /\ i \notin inUse /\ \A d \in Clients : i \notin pending[d]
  BY DEF FreeIds
<1>4. sending \in Seq(Frames)
  OBVIOUS
<1>. DEFINE q == <<i, "queued", Len(sending) + 1, c>>
<1>5. /\ \A n \in DOMAIN sending' : (n \in DOMAIN sending /\ sending'[n] = sending[n])
                                     \/ (n = Len(sending) + 1 /\ sending'[n] = FrameOf(c, i))
  <2>. HIDE DEF TypeOK
  <2>. QED BY <1>1, <1>4 DEF FrameOf
<1>6. ASSUME NEW r \in Places' PROVE r \in Places \/ r = q
  <2>1. r[1] \in Ids /\ r[2] \in Kinds /\ r[4] \in Clients /\ r = <<r[1], r[2], r[3], r[4]>> /\ Lies(r[1], r[2], r[3], r[4])'
    BY DEF Places
  <2>2. FrameOf(r[4], r[1]) = FrameOf(c, i) <=> r[4] = c /\ r[1] = i
    BY ZenonT(40) DEF FrameOf
  <2>. HIDE DEF TypeOK
  <2>3. CASE r[2] = "queued"
    <3>1. r[3] \in DOMAIN sending' /\ sending'[r[3]] = FrameOf(r[4], r[1])
      BY <2>1, <2>3 DEF Lies
    <3>2. CASE r[3] \in DOMAIN sending /\ sending'[r[3]] = sending[r[3]]
      <4>1. Lies(r[1], r[2], r[3], r[4])
        BY <2>3, <3>1, <3>2 DEF Lies
      <4>. QED BY <2>1, <4>1, PlaceIs
    <3>3. CASE r[3] = Len(sending) + 1 /\ sending'[r[3]] = FrameOf(c, i)
      BY <2>1, <2>2, <2>3, <3>1, <3>3
    <3>. QED BY <1>5, <3>1, <3>2, <3>3
  <2>4. CASE r[2] # "queued"
    <3>1. Lies(r[1], r[2], r[3], r[4])
      BY <1>2, <2>1, <2>4 DEF Lies
    <3>. QED BY <2>1, <3>1, PlaceIs
  <2>. QED BY <2>3, <2>4
<1>7. \A r \in Places : r[1] # i
  BY <1>3 DEF PlaceInv, Reserved
<1>8. q[1] = i /\ q[4] = c
  OBVIOUS
<1>. HIDE DEF q
<1>9. OnePlace'
  <2>1. ASSUME NEW r \in Places', NEW u \in Places', r[1] = u[1] PROVE r = u
    BY <1>6, <1>7, <1>8, <2>1 DEF PlaceInv, OnePlace
  <2>. QED BY <2>1 DEF OnePlace
<1>10. inflight[i] = NoFrame
  BY <1>3 DEF PlaceInv, Reserved
<1>11. BookedApart'
  <2>1. ASSUME NEW r \in Places', r[2] \in {"queued", "in hand"} PROVE inflight'[r[1]] = NoFrame
    BY <1>2, <1>6, <1>8, <1>10, <2>1 DEF PlaceInv, BookedApart
  <2>. QED BY <2>1 DEF BookedApart
<1>12. Reserved'
  <2>1. \A r \in Places' : r[1] \in inUse'
    BY <1>1, <1>6, <1>8 DEF PlaceInv, Reserved
  <2>2. \A j \in Ids : inflight'[j] # NoFrame => j \in inUse'
    BY <1>1, <1>2 DEF PlaceInv, Reserved
  <2>. QED BY <2>1, <2>2 DEF Reserved
<1>13. OwnersAgree'
  <2>. SUFFICES ASSUME NEW d \in Clients, NEW j \in pending'[d]
                PROVE  /\ \A r \in Places' : r[1] = j => r[4] = d
                       /\ inflight'[j] # NoFrame => inflight'[j].owner = d
                       /\ received'[j] \in {"pending", "error", d}
    BY DEF OwnersAgree
  <2>1. (j \in pending[d] /\ j # i) \/ (j = i /\ d = c)
    BY <1>1, <1>3
  <2>2. CASE j \in pending[d] /\ j # i
    <3>1. /\ \A r \in Places : r[1] = j => r[4] = d
          /\ inflight[j] # NoFrame => inflight[j].owner = d
          /\ received[j] \in {"pending", "error", d}
      BY <2>2 DEF PlaceInv, OwnersAgree
    <3>2. received'[j] = received[j]
      BY <1>1, <2>2
    <3>3. \A r \in Places' : r[1] = j => r[4] = d
      BY <1>6, <1>8, <2>2, <3>1
    <3>. QED BY <1>2, <3>1, <3>2, <3>3
  <2>3. CASE j = i /\ d = c
    <3>1. received'[j] = "pending"
      BY <1>1, <1>3, <2>3
    <3>2. \A r \in Places' : r[1] = j => r[4] = d
      BY <1>6, <1>7, <1>8, <2>3
    <3>. QED BY <1>2, <1>10, <2>3, <3>1, <3>2
  <2>. QED BY <2>1, <2>2, <2>3
<1>. QED BY <1>9, <1>11, <1>12, <1>13 DEF PlaceInv

\* While its handler resubmits, no frame and no reply is under way.
LEMMA ResubmitPlaces ==
  ASSUME OwnInv, FrameInv, PlaceInv, NEW h \in Handlers, Resubmit(h)
  PROVE  PlaceInv'
<1>. USE DEF OwnInv
<1>1. PICK s \in SetToSeqs(InflightFrames) : sending' = sending \o s
  BY DEF Resubmit
<1>2. /\ hst[h] = "resubmit" /\ hst' = [hst EXCEPT ![h] = "reconnect"]
      /\ inflight' = [i \in Ids |-> NoFrame]
      /\ received' = [i \in Ids |-> IF i \in ResentIds THEN "pending" ELSE received[i]]
      /\ UNCHANGED <<shand, rhand, hconn, wire, replies, inUse, pending>>
  BY DEF Resubmit
<1>3. /\ s \in Seq(Frames) /\ \A n \in DOMAIN s : s[n] \in InflightFrames
      /\ \A n, l \in DOMAIN s : s[n] = s[l] => n = l
  BY ResentType DEF SetToSeqs
<1>4. \A g \in Handlers : hst[g] # "pumping"
  BY <1>2 DEF ConnectionOwned, Alive, HandlerLive, Handlers
<1>5. \A g \in Handlers : hst'[g] # "pumping" /\ shand[g] = NoFrame /\ rhand[g] = {}
  BY <1>2, <1>4 DEF FrameInv, HandsOff
<1>6. sending \in Seq(Frames)
  OBVIOUS
<1>7. \A n \in DOMAIN sending' : \/ n \in DOMAIN sending /\ sending'[n] = sending[n]
                                 \/ n \in Nat /\ n - Len(sending) \in DOMAIN s /\ sending'[n] = s[n - Len(sending)]
  <2>. HIDE DEF TypeOK
  <2>. QED BY <1>1, <1>3, <1>6
<1>8. ASSUME NEW f \in InflightFrames, NEW c, NEW i, f = FrameOf(c, i)
      PROVE  i \in Ids /\ f = inflight[i] /\ inflight[i] # NoFrame /\ inflight[i].owner = c
  <2>1. PICK j \in Ids : f = inflight[j] /\ f # NoFrame
    BY DEF InflightFrames
  <2>2. f.ids = {j}
    BY <2>1 DEF FrameInv, AllSingle
  <2>3. f.ids = {i} /\ f.owner = c
    BY <1>8 DEF FrameOf
  <2>4. i = j
    BY <2>2, <2>3
  <2>. HIDE DEF TypeOK
  <2>. QED BY <2>1, <2>3, <2>4
\* Every place is in the queue, where it was or with a frame that was in flight.
<1>9. ASSUME NEW r \in Places'
      PROVE  /\ r = <<r[1], "queued", r[3], r[4]>> /\ r[1] \in Ids
             /\ \/ r \in Places /\ inflight[r[1]] = NoFrame
                \/ /\ r[3] \in Nat /\ r[3] - Len(sending) \in DOMAIN s /\ s[r[3] - Len(sending)] = inflight[r[1]]
                   /\ inflight[r[1]] # NoFrame /\ inflight[r[1]].owner = r[4]
  <2>1. r[1] \in Ids /\ r[2] \in Kinds /\ r[4] \in Clients /\ r = <<r[1], r[2], r[3], r[4]>> /\ Lies(r[1], r[2], r[3], r[4])'
    BY DEF Places
  <2>2. FrameOf(r[4], r[1]) # NoFrame
    BY DEF FrameOf, NoFrame
  <2>. HIDE DEF TypeOK
  <2>3. r[2] = "queued" /\ r[3] \in DOMAIN sending' /\ sending'[r[3]] = FrameOf(r[4], r[1])
    BY <1>2, <1>5, <2>1, <2>2 DEF Lies
  <2>4. CASE r[3] \in DOMAIN sending /\ sending'[r[3]] = sending[r[3]]
    <3>1. Lies(r[1], r[2], r[3], r[4])
      BY <2>3, <2>4 DEF Lies
    <3>2. r \in Places
      BY <2>1, <3>1, PlaceIs
    <3>3. inflight[r[1]] = NoFrame
      BY <2>3, <3>2 DEF PlaceInv, BookedApart
    <3>. QED BY <2>1, <2>3, <3>2, <3>3
  <2>5. CASE r[3] \in Nat /\ r[3] - Len(sending) \in DOMAIN s /\ sending'[r[3]] = s[r[3] - Len(sending)]
    <3>1. s[r[3] - Len(sending)] \in InflightFrames /\ s[r[3] - Len(sending)] = FrameOf(r[4], r[1])
      BY <1>3, <2>3, <2>5
    <3>. QED BY <1>8, <2>1, <2>3, <2>5, <3>1
  <2>. QED BY <1>7, <2>3, <2>4, <2>5
<1>10. OnePlace'
  <2>1. ASSUME NEW r \in Places', NEW u \in Places', r[1] = u[1] PROVE r = u
    <3>1. CASE inflight[r[1]] = NoFrame
      BY <1>9, <2>1, <3>1 DEF PlaceInv, OnePlace
    <3>2. CASE inflight[r[1]] # NoFrame
      <4>1. /\ r[3] \in Nat /\ u[3] \in Nat
            /\ r[3] - Len(sending) \in DOMAIN s /\ u[3] - Len(sending) \in DOMAIN s
            /\ s[r[3] - Len(sending)] = s[u[3] - Len(sending)]
            /\ r[4] = u[4]
        <5>1. /\ r[3] \in Nat /\ r[3] - Len(sending) \in DOMAIN s
              /\ s[r[3] - Len(sending)] = inflight[r[1]] /\ inflight[r[1]].owner = r[4]
          BY <1>9, <2>1, <3>2
        <5>2. /\ u[3] \in Nat /\ u[3] - Len(sending) \in DOMAIN s
              /\ s[u[3] - Len(sending)] = inflight[u[1]] /\ inflight[u[1]].owner = u[4]
          BY <1>9, <2>1, <3>2
        <5>. QED BY <2>1, <5>1, <5>2
      <4>2. Len(sending) \in Nat
        BY <1>6
      <4>. HIDE DEF TypeOK
      <4>3. r[3] = u[3]
        <5>1. r[3] - Len(sending) = u[3] - Len(sending)
          BY <1>3, <4>1
        <5>. QED BY <4>1, <4>2, <5>1
      <4>4. r = <<r[1], "queued", r[3], r[4]>> /\ u = <<u[1], "queued", u[3], u[4]>>
        BY <1>9
      <4>. QED BY <2>1, <4>1, <4>3, <4>4
    <3>. QED BY <3>1, <3>2
  <2>. QED BY <2>1 DEF OnePlace
<1>11. BookedApart'
  BY <1>2, <1>9 DEF BookedApart
<1>12. Reserved'
  <2>1. ASSUME NEW r \in Places' PROVE r[1] \in inUse'
    BY <1>2, <1>9 DEF PlaceInv, Reserved
  <2>. QED BY <1>2, <2>1 DEF Reserved
<1>13. OwnersAgree'
  <2>. SUFFICES ASSUME NEW d \in Clients, NEW j \in pending[d]
                PROVE  /\ \A r \in Places' : r[1] = j => r[4] = d
                       /\ inflight'[j] # NoFrame => inflight'[j].owner = d
                       /\ received'[j] \in {"pending", "error", d}
    BY <1>2 DEF OwnersAgree
  <2>1. j \in Ids
    OBVIOUS
  <2>2. /\ \A r \in Places : r[1] = j => r[4] = d
        /\ inflight[j] # NoFrame => inflight[j].owner = d
        /\ received[j] \in {"pending", "error", d}
    BY DEF PlaceInv, OwnersAgree
  <2>3. ASSUME NEW r \in Places', r[1] = j PROVE r[4] = d
    BY <1>9, <2>2, <2>3
  <2>. QED BY <1>2, <2>1, <2>2, <2>3
<1>. QED BY <1>10, <1>11, <1>12, <1>13 DEF PlaceInv

LEMMA InitFrames == Init => FrameInv
BY DEF Init, FrameInv, AllSingle, HandsOff, FreshEmpty

LEMMA InitPlaces == Init => PlaceInv
<1>. SUFFICES ASSUME Init PROVE PlaceInv
  OBVIOUS
<1>1. ASSUME NEW i, NEW t, NEW x, NEW c, Lies(i, t, x, c) PROVE FALSE
  <2>1. FrameOf(c, i) # NoFrame
    BY DEF FrameOf, NoFrame
  <2>2. sending = <<>> /\ \A h \in Handlers : hst[h] = "unborn" /\ shand[h] = NoFrame /\ rhand[h] = {}
    BY DEF Init
  <2>3. DOMAIN sending = {}
    BY <2>2
  <2>. QED BY <1>1, <2>1, <2>2, <2>3 DEF Lies
<1>2. Places = {}
  BY <1>1 DEF Places
<1>. QED BY <1>2 DEF Init, PlaceInv, OnePlace, BookedApart, Reserved, OwnersAgree

LEMMA NextPlaces ==
  ASSUME Singles, OwnInv, BookInv, FrameInv, PlaceInv, [Next]_vars
  PROVE  PlaceInv'
<1>. USE DEF OwnInv
<1>1. ASSUME NEW h \in Handlers, HandlerStep(h) PROVE PlaceInv'
  BY <1>1, HandlerPlaces, ResubmitPlaces
<1>2. ASSUME NEW h \in Handlers, ReceiverStep(h) \/ ReceiveMalformed(h) \/ SenderStep(h) PROVE PlaceInv'
  <2>. HIDE DEF TypeOK
  <2>. QED BY <1>2, PumpPlaces, ReceivePlaces, DispatchPlaces, TakePlaces, SendPlaces DEF ReceiverStep, SenderStep
<1>3. ASSUME NEW c \in Clients, Enter(c) \/ ClientStep(c) \/ Cancel(c) PROVE PlaceInv'
  BY <1>3, ClientPlaces, RegisterPlaces
<1>4. CASE CloserStep
  BY <1>4 DEF NeverClosing, NotClosing, CloserStep, TimerFires, CancelHandler, CloseConn, ShutdownEnds
<1>5. CASE NetworkStep
  BY <1>5, ReplyPlaces, LossPlaces DEF NetworkStep
<1>6. CASE UNCHANGED vars
  BY <1>6, PlacesQuiet DEF vars
<1>. QED BY <1>1, <1>2, <1>3, <1>4, <1>5, <1>6 DEF Next

\* The whole invariant.
MatchInv == OwnInv /\ MarksCounted /\ BookInv /\ FrameInv /\ PlaceInv

LEMMA Matched ==
  ASSUME ~AutoShutdown, Singles
  PROVE  Spec => []MatchInv
<1>1. Init => MatchInv
  BY InitType, InitOwned, InitBooks, InitFrames, InitPlaces DEF MatchInv, OwnInv
<1>2. MatchInv /\ [Next]_vars => MatchInv'
  <2>. SUFFICES ASSUME MatchInv, [Next]_vars PROVE MatchInv'
    OBVIOUS
  <2>1. TypeOK' /\ MarksCounted'
    BY NextType, NextMarks DEF MatchInv, OwnInv
  <2>2. NeverClosing' /\ ConnectionOwned'
    BY NextOwned DEF MatchInv, OwnInv
  <2>3. BookInv'
    BY NextBooks DEF MatchInv, OwnInv
  <2>4. FrameInv' /\ PlaceInv'
    BY NextFrames, NextPlaces DEF MatchInv
  <2>. HIDE DEF TypeOK
  <2>. QED BY <2>1, <2>2, <2>3, <2>4 DEF MatchInv, OwnInv
<1>. QED BY <1>1, <1>2, PTL DEF Spec

\* When no frame is a batch and there is no exit timer, what a client will
\* consume for an id is the node's answer to that client's request.
THEOREM AnswersMatched ==
  ASSUME ~AutoShutdown, Singles
  PROVE  Spec => []AnswersMatch
<1>1. MatchInv => AnswersMatch
  BY DEF MatchInv, PlaceInv, OwnersAgree, AnswersMatch
<1>. QED BY <1>1, Matched, PTL

\* Then a request is booked once at most: no reconnect sends it twice.
THEOREM BookedOnce ==
  ASSUME ~AutoShutdown, Singles
  PROVE  Spec => []SingleBooking
<1>1. ASSUME MatchInv PROVE SingleBooking
  <2>. USE DEF MatchInv, OwnInv
  <2>1. ASSUME NEW i \in Ids, NEW n \in DOMAIN sending, i \in sending[n].ids
        PROVE  \E c \in Clients : <<i, "queued", n, c>> \in Places
    <3>0. sending[n] \in Frames
      <4>1. sending \in Seq(Frames)
        BY <1>1
      <4>. HIDE DEF TypeOK
      <4>. QED BY <4>1
    <3>1. PICK c \in Clients, j \in Ids : sending[n] = FrameOf(c, j)
      BY <1>1, <3>0, FrameForm DEF FrameInv, AllSingle
    <3>2. j = i
      BY <2>1, <3>1 DEF FrameOf
    <3>3. Lies(i, "queued", n, c)
      BY <3>1, <3>2 DEF Lies
    <3>. QED BY <3>3, PlaceIs DEF Kinds
  <2>2. ASSUME NEW i \in Ids, NEW h \in Handlers, i \in shand[h].ids
        PROVE  \E c \in Clients : <<i, "in hand", h, c>> \in Places
    <3>0. shand[h] # NoFrame /\ shand[h] \in Frames
      BY <1>1, <2>2 DEF NoFrame
    <3>1. PICK c \in Clients, j \in Ids : shand[h] = FrameOf(c, j)
      BY <1>1, <3>0, FrameForm DEF FrameInv, AllSingle
    <3>2. j = i
      BY <2>2, <3>1 DEF FrameOf
    <3>3. Lies(i, "in hand", h, c)
      BY <3>1, <3>2 DEF Lies
    <3>. QED BY <3>3, PlaceIs DEF Kinds
  <2>3. ASSUME NEW i \in Ids, NEW a \in Bookings(i)
        PROVE  \/ \E c \in Clients : <<i, a[1], a[2], c>> \in Places /\ a[1] \in {"queued", "in hand"} /\ a = <<a[1], a[2]>>
               \/ a = <<"in flight", 0>> /\ inflight[i] # NoFrame
    <3>. HIDE DEF TypeOK
    <3>1. \/ \E n \in DOMAIN sending : i \in sending[n].ids /\ a = <<"queued", n>>
          \/ \E h \in Handlers : i \in shand[h].ids /\ a = <<"in hand", h>>
          \/ a = <<"in flight", 0>> /\ inflight[i] # NoFrame
      BY DEF Bookings
    <3>2. ASSUME NEW n \in DOMAIN sending, i \in sending[n].ids, a = <<"queued", n>>
          PROVE  \E c \in Clients : <<i, a[1], a[2], c>> \in Places /\ a[1] \in {"queued", "in hand"} /\ a = <<a[1], a[2]>>
      <4>1. a[1] = "queued" /\ a[2] = n
        BY <3>2
      <4>. QED BY <2>1, <3>2, <4>1
    <3>3. ASSUME NEW h \in Handlers, i \in shand[h].ids, a = <<"in hand", h>>
          PROVE  \E c \in Clients : <<i, a[1], a[2], c>> \in Places /\ a[1] \in {"queued", "in hand"} /\ a = <<a[1], a[2]>>
      <4>1. a[1] = "in hand" /\ a[2] = h
        BY <3>3
      <4>. QED BY <2>2, <3>3, <4>1
    <3>. QED BY <3>1, <3>2, <3>3
  <2>4. ASSUME NEW i \in Ids, NEW a \in Bookings(i), NEW b \in Bookings(i) PROVE a = b
    <3>1. \A c, d \in Clients : <<i, a[1], a[2], c>> \in Places /\ <<i, b[1], b[2], d>> \in Places => a[1] = b[1] /\ a[2] = b[2]
      BY <1>1 DEF PlaceInv, OnePlace
    <3>2. \A c \in Clients : <<i, a[1], a[2], c>> \in Places /\ a[1] \in {"queued", "in hand"} => inflight[i] = NoFrame
      BY <1>1 DEF PlaceInv, BookedApart
    <3>3. \A c \in Clients : <<i, b[1], b[2], c>> \in Places /\ b[1] \in {"queued", "in hand"} => inflight[i] = NoFrame
      BY <1>1 DEF PlaceInv, BookedApart
    <3>. HIDE DEF TypeOK
    <3>. QED BY <2>3, <3>1, <3>2, <3>3
  <2>. QED BY <2>4 DEF SingleBooking
<1>. QED BY <1>1, Matched, PTL
=============================================================================
