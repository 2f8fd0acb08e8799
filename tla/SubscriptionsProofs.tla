------------------------ MODULE SubscriptionsProofs ------------------------
EXTENDS Subscriptions, SequenceTheorems, TLAPS
(***************************************************************************)
(* Theorems about Subscriptions, for every value of its constants.         *)
(***************************************************************************)
-----------------------------------------------------------------------------
(* The inductive invariant.                                                *)

\* Who got the id of a subscription is the one it was made for.
Belongs ==
  /\ \A s \in Subs : gained[s] # 0 => s \notin asking /\ madeFor[gained[s]] = s
  /\ \A c \in Consumers : sub[c] # 0 => madeFor[sub[c]] = c
  /\ \A c \in Consumers : pc[c] \in {"answered", "polling", "handling", "ending"} => sub[c] # 0

\* The alias of a subscription was made for it; the maps are inverse.
AliasesOK ==
  /\ \A n \in Subs : originalOf[n] # 0 => madeFor[n] = originalOf[n]
  /\ MapsAgree

IInv == TypeOK /\ Belongs /\ AliasesOK

USE DEF TypeOK, NodeTypeOK, MapTypeOK, RecoveryTypeOK, ConsumerTypeOK, Belongs, AliasesOK, MapsAgree,
        nodeVars, mapVars, recoveryVars, consumerVars, GoTo

\* Subscriptions and consumers have names of their own.
LEMMA Apart ==
  /\ 0 \notin Subs /\ 0 \notin Consumers
  /\ \A c \in Consumers : c \notin Subs
BY SubscriptionsAssumption DEF Subs

LEMMA InitInv == Init => IInv
<1>. SUFFICES ASSUME Init PROVE IInv
  OBVIOUS
<1>1. NodeTypeOK
  BY SubscriptionsAssumption, EmptySeq DEF Init
<1>2. MapTypeOK
  BY EmptySeq DEF Init
<1>3. RecoveryTypeOK
  BY DEF Init
<1>4. ConsumerTypeOK
  BY DEF Init
<1>5. Belongs /\ AliasesOK
  BY Apart DEF Init
<1>. QED BY <1>1, <1>2, <1>3, <1>4, <1>5 DEF IInv

-----------------------------------------------------------------------------
(* The node and the network.                                               *)

LEMMA NodeSubscribesInv ==
  ASSUME IInv, NEW a \in Askers, NodeSubscribes(a)
  PROVE  IInv'
<1>. USE DEF IInv
<1>1. PICK s \in FreshSub :
        /\ madeFor' = [madeFor EXCEPT ![s] = a]
        /\ server' = server \cup {s}
        /\ wire' = Append(wire, [sub |-> s, no |-> 0])
  BY DEF NodeSubscribes
<1>2. s \in Subs /\ madeFor[s] = 0
  BY DEF FreshSub
<1>3. [sub |-> s, no |-> 0] \in Frames
  BY <1>2, SubscriptionsAssumption DEF Frames
<1>4. NodeTypeOK'
  BY <1>1, <1>2, <1>3, AppendProperties DEF NodeSubscribes
<1>5. MapTypeOK' /\ RecoveryTypeOK' /\ ConsumerTypeOK'
  BY DEF NodeSubscribes
<1>6. Belongs' /\ AliasesOK'
  BY <1>1, <1>2, Apart DEF NodeSubscribes
<1>. QED BY <1>4, <1>5, <1>6

LEMMA NodeNotifiesInv ==
  ASSUME IInv, NEW s \in Subs, NodeNotifies(s)
  PROVE  IInv'
<1>. USE DEF IInv
<1>1. count[s] + 1 \in 0 .. MaxNotes
  BY SubscriptionsAssumption DEF NodeNotifies
<1>2. [sub |-> s, no |-> count[s] + 1] \in Frames
  BY <1>1 DEF Frames
<1>3. NodeTypeOK'
  BY <1>1, <1>2, AppendProperties DEF NodeNotifies
<1>. QED BY <1>3 DEF NodeNotifies

LEMMA NodeUnsubscribesInv ==
  ASSUME IInv, NEW s \in Subs, NodeUnsubscribes(s)
  PROVE  IInv'
BY DEF IInv, NodeUnsubscribes

LEMMA ConnLostInv ==
  ASSUME IInv, ConnLost
  PROVE  IInv'
<1>. USE DEF IInv, Severed
<1>1. \A n \in 0 .. Len(wire) : SubSeq(wire, 1, n) \in Seq(Frames)
  BY SubSeqProperties, ElementOfSeq, LenProperties
<1>2. NodeTypeOK'
  BY <1>1 DEF ConnLost
<1>. QED BY <1>2 DEF ConnLost

-----------------------------------------------------------------------------
(* The handler.                                                            *)

LEMMA DispatchInv ==
  ASSUME IInv, Dispatch
  PROVE  IInv'
<1>. USE DEF IInv
<1>. DEFINE f == Head(wire)
<1>1. f \in Frames /\ Tail(wire) \in Seq(Frames)
  BY HeadTailProperties DEF Dispatch
<1>2. f.sub \in Subs /\ Target(f.sub) \in Subs
  BY <1>1 DEF Frames, Target
<1>. HIDE DEF f
<1>3. CASE DispatchResponse(f.sub)
  <2>1. NodeTypeOK' /\ MapTypeOK'
    BY <1>1, <1>3 DEF Dispatch, DispatchResponse
  <2>2. /\ asking' = asking \ {madeFor[f.sub]}
        /\ UNCHANGED <<madeFor, recovering, due, checked, last, aliasOf, originalOf>>
    BY <1>3 DEF Dispatch, DispatchResponse
  <2>3. CASE \E c \in Consumers :
               /\ madeFor[f.sub] = c /\ pc[c] = "asking"
               /\ pc' = [pc EXCEPT ![c] = "answered"]
               /\ sub' = [sub EXCEPT ![c] = f.sub]
               /\ UNCHANGED gained
    <3>1. PICK c \in Consumers :
            /\ madeFor[f.sub] = c
            /\ pc' = [pc EXCEPT ![c] = "answered"]
            /\ sub' = [sub EXCEPT ![c] = f.sub]
            /\ UNCHANGED gained
      BY <2>3
    <3>2. RecoveryTypeOK' /\ ConsumerTypeOK'
      BY <1>2, <2>2, <3>1
    <3>3. Belongs' /\ AliasesOK'
      BY <1>2, <2>2, <3>1, Apart
    <3>. QED BY <2>1, <3>2, <3>3
  <2>4. CASE /\ madeFor[f.sub] \in asking \cap Subs
             /\ gained' = [gained EXCEPT ![madeFor[f.sub]] = f.sub]
             /\ UNCHANGED <<pc, sub>>
    <3>1. RecoveryTypeOK' /\ ConsumerTypeOK'
      BY <1>2, <2>2, <2>4, Apart
    <3>2. Belongs' /\ AliasesOK'
      BY <1>2, <2>2, <2>4, Apart
    <3>. QED BY <2>1, <3>1, <3>2
  <2>5. CASE UNCHANGED <<gained, pc, sub>>
    BY <2>1, <2>2, <2>5
  <2>. QED BY <1>3, <2>3, <2>4, <2>5 DEF DispatchResponse
<1>4. CASE DispatchNotification(f)
  <2>1. Append(queue[Target(f.sub)], f) \in Seq(Frames)
    BY <1>1, <1>2, AppendProperties
  <2>2. NodeTypeOK' /\ MapTypeOK'
    BY <1>1, <1>2, <1>4, <2>1 DEF Dispatch, DispatchNotification
  <2>3. RecoveryTypeOK' /\ ConsumerTypeOK' /\ Belongs' /\ AliasesOK'
    BY <1>4 DEF Dispatch, DispatchNotification
  <2>. QED BY <2>2, <2>3
<1>. QED BY <1>3, <1>4 DEF Dispatch, f

LEMMA OrphanInv ==
  ASSUME MapTypeOK, Orphan, hand' \in {"pumping", "reconnecting", "dead", "reviving"}
  PROVE  MapTypeOK'
BY EmptySeq DEF Orphan, Orphans

LEMMA HandlerInv ==
  ASSUME IInv, HandlerStep
  PROVE  IInv'
<1>. USE DEF IInv
<1>1. CASE Dispatch
  BY <1>1, DispatchInv
<1>2. CASE Wake
  <2>1. MapTypeOK'
    BY <1>2, OrphanInv DEF Wake
  <2>. QED BY <1>2, <2>1 DEF Wake, Orphan
<1>3. CASE HandlerFails
  BY <1>3 DEF HandlerFails
<1>4. CASE Revive
  <2>1. MapTypeOK'
    BY <1>4, OrphanInv DEF Revive
  <2>2. NodeTypeOK'
    BY <1>4, EmptySeq DEF Revive, Severed
  <2>. QED BY <1>4, <2>1, <2>2 DEF Revive, Orphan
<1>5. CASE Connected
  <2>1. PICK gone \in SUBSET Discarded : asking' = asking \ gone
    BY <1>5 DEF Connected
  <2>2. conn' \in 1 .. MaxConns
    BY <1>5, SubscriptionsAssumption DEF Connected
  <2>3. NodeTypeOK'
    BY <1>5, <2>1, <2>2 DEF Connected
  <2>4. MapTypeOK' /\ RecoveryTypeOK' /\ ConsumerTypeOK'
    BY <1>5, <2>1 DEF Connected
  <2>5. Belongs' /\ AliasesOK'
    BY <1>5, <2>1 DEF Connected
  <2>. QED BY <2>3, <2>4, <2>5
<1>6. CASE ConnectFails
  BY <1>6 DEF ConnectFails
<1>. QED BY <1>1, <1>2, <1>3, <1>4, <1>5, <1>6 DEF HandlerStep

-----------------------------------------------------------------------------
(* The recoveries.                                                         *)

LEMMA StartRecoveryInv ==
  ASSUME IInv, StartRecovery
  PROVE  IInv'
<1>. USE DEF IInv
<1>1. NodeTypeOK' /\ MapTypeOK' /\ RecoveryTypeOK' /\ ConsumerTypeOK'
  BY DEF StartRecovery, Askers
<1>2. Belongs' /\ AliasesOK'
  BY DEF StartRecovery
<1>. QED BY <1>1, <1>2

LEMMA ReturnedInv ==
  ASSUME IInv, NEW s \in Subs, Returned(s)
  PROVE  IInv'
<1>. USE DEF IInv
<1>1. CASE s \in recoverers
  BY <1>1 DEF Returned
<1>2. CASE s \notin recoverers
  <2>1. NodeTypeOK' /\ MapTypeOK' /\ ConsumerTypeOK' /\ AliasesOK'
    BY DEF Returned
  <2>2. /\ s \notin asking /\ asking' = asking /\ due' = due
        /\ madeFor' = madeFor /\ pc' = pc /\ sub' = sub
    BY DEF Returned
  <2>3. Release(s)
    BY <1>2 DEF Returned
  <2>4. RecoveryTypeOK' /\ Belongs'
    BY <2>2, <2>3 DEF Release
  <2>. QED BY <2>1, <2>4
<1>. QED BY <1>1, <1>2

\* The alias that is replaced goes from both maps; the new one was made for s
\* and for nobody else, so no other subscription can have it.
LEMMA RecoveredInv ==
  ASSUME IInv, NEW s \in Subs, Recovered(s)
  PROVE  IInv'
<1>. USE DEF IInv
<1>. DEFINE n == gained[s]
<1>1. n \in Subs /\ madeFor[n] = s /\ s \notin asking
  BY DEF Recovered
<1>. HIDE DEF n
<1>2. Release(s) /\ Realias(s, n)
  BY DEF Recovered, n
<1>3. /\ queue[s] \o queue[n] \in Seq(Frames)
      /\ <<>> \in Seq(Frames)
  BY <1>1, ConcatProperties, EmptySeq
<1>4. NodeTypeOK' /\ ConsumerTypeOK'
  BY DEF Recovered
<1>5. MapTypeOK'
  <2>1. /\ received' \in SUBSET Subs /\ recoverers' \in SUBSET Subs /\ orphaned' \in SUBSET Subs
        /\ hand' \in {"pumping", "reconnecting", "dead", "reviving"}
    BY <1>2 DEF Recovered, Realias
  <2>2. queue' \in [Subs -> Seq(Frames)]
    BY <1>1, <1>2, <1>3, ZenonT(40) DEF Realias
  <2>3. \A r \in Subs : queue'[r] # <<>> => r \in received'
    BY <1>1, <1>2, <1>3 DEF Realias
  <2>4. aliasOf' \in [Subs -> Subs \cup {0}] /\ originalOf' \in [Subs -> Subs \cup {0}]
    BY <1>1, <1>2 DEF Realias
  <2>. QED BY <2>1, <2>2, <2>3, <2>4
<1>6. RecoveryTypeOK'
  BY <1>1, <1>2 DEF Recovered, Release
<1>7. Belongs'
  BY <1>1, <1>2 DEF Recovered, Release
<1>8. AliasesOK'
  BY <1>1, <1>2, Apart DEF Recovered, Realias
<1>. QED BY <1>4, <1>5, <1>6, <1>7, <1>8

LEMMA SettledInv ==
  ASSUME IInv, NEW s \in Subs, Settled(s)
  PROVE  IInv'
<1>. USE DEF IInv
<1>1. Injected(s) \in Frames
  BY SubscriptionsAssumption DEF Injected, Frames
<1>2. MapTypeOK'
  BY <1>1, AppendProperties DEF Settled
<1>3. NodeTypeOK' /\ RecoveryTypeOK' /\ ConsumerTypeOK'
  BY DEF Settled, Release
<1>4. Belongs' /\ AliasesOK'
  BY DEF Settled, Release
<1>. QED BY <1>2, <1>3, <1>4

-----------------------------------------------------------------------------
(* The consumers.                                                          *)

LEMMA ConsumerInv ==
  ASSUME IInv, NEW c \in Consumers, ConsumerStep(c)
  PROVE  IInv'
<1>. USE DEF IInv
<1>1. CASE Ask(c)
  <2>1. NodeTypeOK'
    BY <1>1 DEF Ask, Askers
  <2>2. MapTypeOK' /\ RecoveryTypeOK' /\ ConsumerTypeOK'
    BY <1>1, Apart DEF Ask
  <2>3. Belongs' /\ AliasesOK'
    BY <1>1, Apart DEF Ask
  <2>. QED BY <2>1, <2>2, <2>3
<1>2. CASE Open(c)
  BY <1>2 DEF Open
<1>3. CASE Take(c)
  <2>1. sub[c] \in Subs
    BY <1>3 DEF Take
  <2>2. Head(queue[sub[c]]) \in Frames /\ Tail(queue[sub[c]]) \in Seq(Frames)
    BY <1>3, <2>1, HeadTailProperties DEF Take
  <2>3. NodeTypeOK' /\ RecoveryTypeOK' /\ AliasesOK'
    BY <1>3 DEF Take
  <2>4. MapTypeOK'
    BY <1>3, <2>1, <2>2 DEF Take
  <2>5. /\ sub' = sub /\ UNCHANGED recoveryVars /\ asking' = asking /\ madeFor' = madeFor
    BY <1>3 DEF Take
  <2>6. pc' = [pc EXCEPT ![c] = "ending"] \/ pc' = [pc EXCEPT ![c] = "handling"]
    BY <1>3 DEF Take
  <2>7. last' \in [Consumers -> Frames \cup {Nothing}]
    <3>1. last' = last \/ last' = [last EXCEPT ![c] = Head(queue[sub[c]])]
      BY <1>3 DEF Take
    <3>2. \A f \in Frames : [last EXCEPT ![c] = f] \in [Consumers -> Frames \cup {Nothing}]
      OBVIOUS
    <3>. QED BY <2>2, <3>1, <3>2, SMTT(40)
  <2>8. pc' \in [Consumers -> {"idle", "asking", "answered", "polling", "handling", "ending", "done"}]
    <3>1. CASE pc' = [pc EXCEPT ![c] = "ending"]
      BY <3>1
    <3>2. CASE pc' = [pc EXCEPT ![c] = "handling"]
      BY <3>2
    <3>. QED BY <2>6, <3>1, <3>2
  <2>9. ConsumerTypeOK'
    BY <2>5, <2>7, <2>8
  <2>10. sub[c] # 0
    BY <2>1, Apart
  <2>11. Belongs'
    BY <2>5, <2>6, <2>10
  <2>. QED BY <2>3, <2>4, <2>9, <2>11
<1>4. CASE Handled(c)
  BY <1>4 DEF Handled
<1>5. CASE Finish(c)
  <2>. DEFINE s == sub[c]
              n == IF aliasOf[s] # 0 THEN aliasOf[s] ELSE s
  <2>1. s \in Subs /\ n \in Subs /\ madeFor[s] = c
    BY <1>5 DEF Finish
  <2>2. originalOf[s] = 0
    BY <2>1, Apart
  <2>3. /\ received' = received \ {s} /\ queue' = [queue EXCEPT ![s] = <<>>]
        /\ recoverers' = recoverers \ {s} /\ orphaned' = orphaned \ {s} /\ hand' = hand
        /\ aliasOf' = [aliasOf EXCEPT ![s] = 0] /\ originalOf' = [originalOf EXCEPT ![n] = 0]
        /\ madeFor' = madeFor
    BY <1>5 DEF Finish
  <2>4. NodeTypeOK' /\ RecoveryTypeOK' /\ ConsumerTypeOK' /\ Belongs'
    BY <1>5 DEF Finish
  <2>5. aliasOf[s] # 0 => aliasOf[s] = n /\ originalOf[n] = s
    BY <2>1
  <2>6. aliasOf[s] = 0 => n = s
    OBVIOUS
  <2>. HIDE DEF s, n
  <2>7. MapTypeOK'
    BY <2>1, <2>3, EmptySeq
  <2>8. AliasesOK'
    BY <2>1, <2>2, <2>3, <2>5, <2>6, Apart
  <2>. QED BY <2>4, <2>7, <2>8
<1>6. CASE PollRaises(c)
  BY <1>6 DEF PollRaises
<1>7. CASE Quit(c)
  BY <1>7 DEF Quit
<1>. QED BY <1>1, <1>2, <1>3, <1>4, <1>5, <1>6, <1>7 DEF ConsumerStep

-----------------------------------------------------------------------------
LEMMA NextInv ==
  ASSUME IInv, [Next]_vars
  PROVE  IInv'
<1>1. CASE \E c \in Consumers : ConsumerStep(c)
  BY <1>1, ConsumerInv
<1>2. CASE HandlerStep
  BY <1>2, HandlerInv
<1>3. CASE StartRecovery
  BY <1>3, StartRecoveryInv
<1>4. CASE \E s \in Subs : Returned(s) \/ Recovered(s) \/ Settled(s)
  BY <1>4, ReturnedInv, RecoveredInv, SettledInv
<1>5. CASE \E a \in Askers : NodeSubscribes(a)
  BY <1>5, NodeSubscribesInv
<1>6. CASE \E s \in Subs : NodeNotifies(s) \/ NodeUnsubscribes(s)
  BY <1>6, NodeNotifiesInv, NodeUnsubscribesInv
<1>7. CASE ConnLost
  BY <1>7, ConnLostInv
<1>8. CASE UNCHANGED vars
  BY <1>8 DEF IInv, vars
<1>. QED BY <1>1, <1>2, <1>3, <1>4, <1>5, <1>6, <1>7, <1>8 DEF Next

LEMMA Invariant == Spec => []IInv
<1>1. Init => IInv
  BY InitInv
<1>2. IInv /\ [Next]_vars => IInv'
  BY NextInv
<1>. QED BY <1>1, <1>2, PTL DEF Spec

\* Every reachable state has the types of its variables; in particular what
\* waits on a queue belongs to a tracked subscription, and a recovery that
\* awaits the node or the lock stays claimed in _recovering_subscriptions.
THEOREM TypeCorrect == Spec => []TypeOK
<1>1. IInv => TypeOK
  BY DEF IInv
<1>. QED BY <1>1, Invariant, PTL

\* _sub_original_to_alias and _sub_alias_to_original stay inverse to each other
\* through recoveries, recoveries that overlap and unsubscribe, for any number
\* of subscriptions, consumers and connections.
THEOREM AliasesAgree == Spec => []MapsAgree
<1>1. IInv => MapsAgree
  BY DEF IInv
<1>. QED BY <1>1, Invariant, PTL

-----------------------------------------------------------------------------
(* One feed for a consumer.                                                *)

HIDE DEF TypeOK, NodeTypeOK, MapTypeOK, RecoveryTypeOK, ConsumerTypeOK, Belongs, AliasesOK, MapsAgree

\* Subscriptions of this connection: those that live and those of which frames are
\* on their way.
Sent == {wire[i].sub : i \in DOMAIN wire}
Fed == server \cup Sent

\* Without a connection nothing lives at the node, and while the handler does not
\* pump nobody has a response or a first turn to come.
LinkInv ==
  /\ hand \in {"reconnecting", "reviving"} => link = "lost" /\ wire = <<>>
  /\ link = "lost" => server = {} /\ atNode = {} /\ leaving = {}
  /\ hand # "pumping" => Prompt
  /\ due => \A s \in Subs : gained[s] = 0

\* Who asks for a consumer: itself, until it has an id; then only that id.
AskInv ==
  /\ atNode \subseteq asking
  /\ \A c \in Consumers : pc[c] \in {"idle", "asking"} => sub[c] = 0
  /\ \A c \in Consumers : pc[c] = "idle" => c \notin asking /\ \A s \in Subs : madeFor[s] # c
  /\ \A c \in Consumers : sub[c] # 0 => c \notin asking
  /\ \A a \in (asking \cap Subs) \cup recoverers : madeFor[a] \in Consumers /\ sub[madeFor[a]] = a
  /\ \A s \in Subs : madeFor[s] \in Subs => madeFor[madeFor[s]] \in Consumers
  /\ \A s \in Fed : madeFor[s] # 0

RootOf(a) == IF a \in Consumers THEN a ELSE madeFor[a]

\* What feeds a consumer, or would when the node has answered, is one.  Before the
\* recoveries have had their first turn nobody has an answer.
FeedInv ==
  /\ \A r, s \in Fed : Root(r) = Root(s) => r = s
  /\ \A a \in atNode, s \in Fed : RootOf(a) # Root(s)
  /\ due => \A s \in Fed : madeFor[s] \in asking

SourceInv == LinkInv /\ AskInv /\ FeedInv

LEMMA Types ==
  ASSUME IInv
  PROVE  /\ wire \in Seq(Frames) /\ Fed \subseteq Subs
         /\ link \in {"open", "lost"} /\ hand \in {"pumping", "reconnecting", "dead", "reviving"}
         /\ due \in BOOLEAN
         /\ server \subseteq Subs /\ asking \subseteq Consumers \cup Subs /\ atNode \subseteq Consumers \cup Subs
         /\ recoverers \subseteq Subs /\ asking \cap Subs \subseteq recovering
         /\ madeFor \in [Subs -> Consumers \cup Subs \cup {0}]
         /\ pc \in [Consumers -> {"idle", "asking", "answered", "polling", "handling", "ending", "done"}]
         /\ sub \in [Consumers -> Subs \cup {0}] /\ gained \in [Subs -> Subs \cup {0}]
         /\ \A c \in Consumers : sub[c] # 0 => madeFor[sub[c]] = c
         /\ \A c \in Consumers : pc[c] \in {"answered", "polling", "handling", "ending"} => sub[c] # 0
         /\ \A s \in Subs : gained[s] # 0 => s \notin asking /\ madeFor[gained[s]] = s
<1>1. wire \in Seq(Frames) /\ server \subseteq Subs
  BY DEF IInv, TypeOK, NodeTypeOK
<1>2. \A i \in DOMAIN wire : wire[i].sub \in Subs
  <2>1. \A i \in DOMAIN wire : wire[i] \in Frames
    BY <1>1, LenProperties, ElementOfSeq
  <2>2. \A f \in Frames : f.sub \in Subs
    BY DEF Frames
  <2>. QED BY <2>1, <2>2
<1>3. Fed \subseteq Subs
  BY <1>1, <1>2 DEF Fed, Sent
<1>. QED
  BY <1>1, <1>3 DEF IInv, TypeOK, NodeTypeOK, MapTypeOK, RecoveryTypeOK, ConsumerTypeOK, Belongs, Askers

\* How Sent changes with the wire.
LEMMA SentAppend ==
  ASSUME wire \in Seq(Frames), NEW f \in Frames, wire' = Append(wire, f)
  PROVE  Sent' = Sent \cup {f.sub}
<1>. DEFINE n == Len(wire)
<1>1. /\ wire' \in Seq(Frames) /\ Len(wire') = n + 1
      /\ \A i \in 1 .. n : wire'[i] = wire[i]
      /\ wire'[n + 1] = f
  BY AppendProperties
<1>2. n \in Nat /\ DOMAIN wire = 1 .. n /\ DOMAIN wire' = 1 .. n + 1
  BY <1>1, LenProperties
<1>. HIDE DEF n
<1>3. DOMAIN wire' = DOMAIN wire \cup {n + 1}
  BY <1>2
<1>4. \A i \in DOMAIN wire : wire'[i] = wire[i]
  BY <1>1, <1>2
<1>. QED BY <1>1, <1>3, <1>4 DEF Sent

LEMMA SentSubset ==
  ASSUME wire \in Seq(Frames),
         \/ wire' = wire \/ wire' = <<>>
         \/ wire # <<>> /\ wire' = Tail(wire)
         \/ \E n \in 0 .. Len(wire) : wire' = SubSeq(wire, 1, n)
  PROVE  Sent' \subseteq Sent
<1>1. Len(wire) \in Nat /\ DOMAIN wire = 1 .. Len(wire)
  BY LenProperties
<1>2. \A i \in DOMAIN wire' : \E j \in DOMAIN wire : wire'[i] = wire[j]
  <2>1. CASE wire' = wire
    BY <2>1
  <2>2. CASE wire' = <<>>
    BY <2>2
  <2>3. CASE wire # <<>> /\ wire' = Tail(wire)
    <3>1. /\ Len(wire') = Len(wire) - 1 /\ DOMAIN wire' = 1 .. Len(wire')
          /\ \A i \in 1 .. Len(wire') : wire'[i] = wire[i + 1]
      BY <2>3, HeadTailProperties, LenProperties
    <3>2. \A i \in DOMAIN wire' : i + 1 \in DOMAIN wire
      <4>. DEFINE n == Len(wire)
      <4>1. n \in Nat /\ DOMAIN wire = 1 .. n /\ DOMAIN wire' = 1 .. n - 1
        BY <1>1, <3>1
      <4>. HIDE DEF n
      <4>2. \A i \in 1 .. n - 1 : i + 1 \in 1 .. n
        BY <4>1
      <4>. QED BY <4>1, <4>2
    <3>. QED BY <3>1, <3>2
  <2>4. ASSUME NEW n \in 0 .. Len(wire), wire' = SubSeq(wire, 1, n)
        PROVE  \A i \in DOMAIN wire' : \E j \in DOMAIN wire : wire'[i] = wire[j]
    <3>. DEFINE m == Len(wire)
    <3>1. m \in Nat /\ n \in 0 .. m /\ DOMAIN wire = 1 .. m
      BY <1>1
    <3>. HIDE DEF m
    <3>2. n \in Nat /\ 1 \in Int /\ n \in Int /\ \A i \in 1 .. n : i \in DOMAIN wire
      BY <3>1
    <3>3. DOMAIN wire' = 1 .. n /\ \A i \in 1 .. n : wire'[i] = wire[i]
      BY <2>4
    <3>. QED BY <3>2, <3>3
  <2>. QED BY <2>1, <2>2, <2>3, <2>4
<1>. QED BY <1>2 DEF Sent

LEMMA InitSource == Init => SourceInv
BY Apart DEF Init, SourceInv, LinkInv, AskInv, FeedInv, Prompt, Fed, Sent

\* The root of an asker is a consumer, and two that ask for one are one.
LEMMA RootsApart ==
  ASSUME IInv, AskInv, NEW a \in asking, NEW b \in asking, RootOf(a) = RootOf(b)
  PROVE  a = b /\ RootOf(a) \in Consumers
<1>1. \A x \in asking : x \in Consumers \/ x \in Subs
  BY Types
<1>2. \A x \in asking \cap Subs : x \notin Consumers /\ madeFor[x] \in Consumers /\ sub[madeFor[x]] = x /\ x # 0
  BY Apart DEF AskInv
<1>3. \A c \in asking \cap Consumers : sub[c] = 0
  BY DEF AskInv
<1>. QED BY <1>1, <1>2, <1>3 DEF RootOf

\* A step that adds neither askers nor subscriptions.
LEMMA SourceKept ==
  ASSUME IInv, SourceInv, UNCHANGED <<madeFor, asking, sub>>, Fed' \subseteq Fed, atNode' \subseteq atNode,
         recoverers' \subseteq recoverers, due' => due, LinkInv',
         \A c \in Consumers : pc'[c] = "idle" => pc[c] = "idle",
         \A c \in Consumers : pc'[c] = "asking" => pc[c] = "asking"
  PROVE  SourceInv'
<1>1. AskInv'
  BY DEF SourceInv, AskInv
<1>2. FeedInv'
  BY DEF SourceInv, FeedInv, Root, RootOf
<1>. QED BY <1>1, <1>2 DEF SourceInv

LEMMA NodeSubscribesSource ==
  ASSUME IInv, SourceInv, NEW a \in Askers, NodeSubscribes(a)
  PROVE  SourceInv'
<1>1. PICK s \in FreshSub :
        /\ madeFor' = [madeFor EXCEPT ![s] = a]
        /\ server' = server \cup {s}
        /\ wire' = Append(wire, [sub |-> s, no |-> 0])
  BY DEF NodeSubscribes
<1>2. s \in Subs /\ madeFor[s] = 0
  BY DEF FreshSub
<1>3. /\ a \in atNode /\ atNode' = atNode \ {a} /\ link = "open"
      /\ UNCHANGED <<link, hand, asking, leaving, due, gained, recoverers, pc, sub>>
  BY DEF NodeSubscribes
<1>4. a \in asking /\ a # 0 /\ (a \in Consumers \/ a \in Subs) /\ ~(a \in Consumers /\ a \in Subs)
  BY <1>3, Types, Apart DEF SourceInv, AskInv
<1>5. RootOf(a) \in Consumers /\ a # s
  <2>1. a \in Subs => madeFor[a] \in Consumers
    BY <1>4 DEF SourceInv, AskInv
  <2>. QED BY <1>2, <1>4, <2>1, Apart DEF RootOf
<1>6. \A r \in Subs \ {s} : madeFor'[r] = madeFor[r]
  BY <1>1, Types
<1>7. madeFor'[s] = a
  BY <1>1, <1>2, Types
<1>8. \A r \in Subs : madeFor[r] \in Subs => madeFor[r] # s
  BY <1>2, Apart DEF SourceInv, AskInv
<1>9. \A r \in Fed : r \in Subs \ {s}
  BY <1>2, Types DEF SourceInv, AskInv
<1>. DEFINE f == [sub |-> s, no |-> 0]
<1>10. f \in Frames /\ f.sub = s
  BY <1>2, SubscriptionsAssumption DEF Frames
<1>11. Fed' = Fed \cup {s}
  <2>. HIDE DEF f
  <2>1. Sent' = Sent \cup {f.sub}
    BY <1>1, <1>10, SentAppend, Types DEF f
  <2>. QED BY <1>1, <1>10, <2>1 DEF Fed
<1>. HIDE DEF f
<1>12. \A r \in Fed : Root(r)' = Root(r)
  <2>1. ASSUME NEW r \in Fed PROVE Root(r)' = Root(r)
    <3>1. madeFor'[r] = madeFor[r] /\ madeFor[r] # 0 /\ r \in Subs
      BY <1>6, <1>9 DEF SourceInv, AskInv
    <3>2. CASE madeFor[r] \in Consumers
      BY <3>1, <3>2 DEF Root
    <3>3. CASE madeFor[r] \in Subs
      <4>1. madeFor'[madeFor[r]] = madeFor[madeFor[r]]
        BY <1>6, <1>8, <3>1, <3>3
      <4>. QED BY <3>1, <4>1 DEF Root
    <3>. QED BY <3>1, <3>2, <3>3, Types
  <2>. QED BY <2>1
<1>13. Root(s)' = RootOf(a)
  <2>1. CASE a \in Consumers
    BY <1>7, <2>1 DEF Root, RootOf
  <2>2. CASE a \in Subs
    BY <1>4, <1>5, <1>6, <1>7, <2>2 DEF Root, RootOf
  <2>. QED BY <1>4, <2>1, <2>2
<1>14. \A b \in atNode : RootOf(b)' = RootOf(b)
  <2>1. ASSUME NEW b \in atNode, b \notin Consumers PROVE madeFor'[b] = madeFor[b]
    <3>1. b \in Subs /\ madeFor[b] \in Consumers
      BY <2>1, Types DEF SourceInv, AskInv
    <3>. QED BY <1>2, <1>6, <3>1, Apart
  <2>. QED BY <2>1 DEF RootOf
<1>15. LinkInv'
  BY <1>3 DEF SourceInv, LinkInv, Prompt
<1>16. AskInv'
  <2>1. atNode' \subseteq asking'
    BY <1>3 DEF SourceInv, AskInv
  <2>2. \A c \in Consumers : pc[c] = "idle" => c \notin asking /\ \A r \in Subs : madeFor'[r] # c
    BY <1>4, <1>6, <1>7 DEF SourceInv, AskInv
  <2>3. \A b \in (asking \cap Subs) \cup recoverers : madeFor'[b] \in Consumers /\ sub[madeFor'[b]] = b
    BY <1>2, <1>6, Types, Apart DEF SourceInv, AskInv
  <2>4. \A r \in Subs : madeFor'[r] \in Subs => madeFor'[madeFor'[r]] \in Consumers
    <3>1. ASSUME NEW r \in Subs, r # s, madeFor'[r] \in Subs PROVE madeFor'[madeFor'[r]] \in Consumers
      BY <1>6, <1>8, <3>1 DEF SourceInv, AskInv
    <3>2. a \in Subs => madeFor'[a] \in Consumers
      BY <1>4, <1>5, <1>6 DEF RootOf
    <3>. QED BY <1>7, <3>1, <3>2
  <2>5. \A r \in Fed' : madeFor'[r] # 0
    BY <1>11, <1>4, <1>6, <1>7, <1>9 DEF SourceInv, AskInv
  <2>. QED BY <1>3, <2>1, <2>2, <2>3, <2>4, <2>5 DEF SourceInv, AskInv
<1>17. FeedInv'
  <2>1. \A q, r \in Fed' : Root(q)' = Root(r)' => q = r
    <3>1. \A r \in Fed : Root(r)' # Root(s)'
      BY <1>3, <1>12, <1>13 DEF SourceInv, FeedInv
    <3>. QED BY <1>11, <1>12, <3>1 DEF SourceInv, FeedInv
  <2>2. \A b \in atNode', r \in Fed' : RootOf(b)' # Root(r)'
    <3>1. ASSUME NEW b \in atNode, b # a PROVE RootOf(b) # RootOf(a)
      BY <1>3, <1>4, <3>1, RootsApart DEF SourceInv, AskInv
    <3>. QED BY <1>11, <1>3, <1>12, <1>13, <1>14, <3>1 DEF SourceInv, FeedInv
  <2>3. due' => \A r \in Fed' : madeFor'[r] \in asking'
    BY <1>11, <1>3, <1>4, <1>6, <1>7, <1>9 DEF SourceInv, FeedInv
  <2>. QED BY <2>1, <2>2, <2>3 DEF FeedInv
<1>. QED BY <1>15, <1>16, <1>17 DEF SourceInv

LEMMA NodeSource ==
  ASSUME IInv, SourceInv,
         ConnLost \/ \E s \in Subs : NodeNotifies(s) \/ NodeUnsubscribes(s)
  PROVE  SourceInv'
<1>1. CASE ConnLost
  <2>1. /\ UNCHANGED <<hand, madeFor, asking, due, gained, recoverers, pc, sub>>
        /\ server' = {} /\ atNode' = {} /\ leaving' = {} /\ link = "open"
        /\ \E n \in 0 .. Len(wire) : wire' = SubSeq(wire, 1, n)
    BY <1>1 DEF ConnLost, Severed, mapVars, recoveryVars, consumerVars
  <2>2. Fed' \subseteq Fed
    BY <2>1, Types, SentSubset DEF Fed
  <2>3. LinkInv'
    BY <2>1 DEF SourceInv, LinkInv, Prompt
  <2>. QED BY <2>1, <2>2, <2>3, SourceKept
<1>2. ASSUME NEW s \in Subs, NodeNotifies(s) PROVE SourceInv'
  <2>. DEFINE f == [sub |-> s, no |-> count[s] + 1]
  <2>1. /\ UNCHANGED <<link, hand, server, atNode, leaving, madeFor, asking, due, gained, recoverers, pc, sub>>
        /\ s \in server /\ wire' = Append(wire, f)
    BY <1>2 DEF NodeNotifies, mapVars, recoveryVars, consumerVars
  <2>2. f \in Frames /\ f.sub = s
    <3>1. count[s] \in 0 .. MaxNotes /\ count[s] < MaxNotes
      BY <1>2 DEF NodeNotifies, IInv, TypeOK, NodeTypeOK
    <3>2. count[s] + 1 \in 0 .. MaxNotes
      BY <3>1, SubscriptionsAssumption
    <3>. QED BY <3>2 DEF Frames
  <2>. HIDE DEF f
  <2>3. Fed' = Fed
    BY <2>1, <2>2, Types, SentAppend DEF Fed
  <2>4. LinkInv'
    BY <2>1 DEF SourceInv, LinkInv, Prompt
  <2>. QED BY <2>1, <2>3, <2>4, SourceKept
<1>3. ASSUME NEW s \in Subs, NodeUnsubscribes(s) PROVE SourceInv'
  <2>1. /\ UNCHANGED <<link, hand, wire, atNode, madeFor, asking, due, gained, recoverers, pc, sub>>
        /\ server' \subseteq server /\ leaving' \subseteq leaving
    BY <1>3 DEF NodeUnsubscribes, mapVars, recoveryVars, consumerVars
  <2>2. Fed' \subseteq Fed
    BY <2>1 DEF Fed, Sent
  <2>3. LinkInv'
    BY <2>1 DEF SourceInv, LinkInv, Prompt
  <2>. QED BY <2>1, <2>2, <2>3, SourceKept
<1>. QED BY <1>1, <1>2, <1>3

LEMMA RootOfAsker ==
  ASSUME IInv, AskInv, NEW s \in Fed
  PROVE  Root(s) = RootOf(madeFor[s]) /\ s \in Subs
BY Types, Apart DEF AskInv, Root, RootOf

\* A response: its asker has no other request at the node.
LEMMA DispatchSource ==
  ASSUME IInv, SourceInv, Dispatch
  PROVE  SourceInv'
<1>. DEFINE s == Head(wire).sub
            a == madeFor[s]
<1>1. /\ hand = "pumping" /\ ~due /\ s \in Fed
      /\ wire # <<>> /\ wire' = Tail(wire)
      /\ UNCHANGED <<link, hand, server, madeFor, atNode, leaving, due, recoverers>>
  <2>1. 1 \in DOMAIN wire /\ Head(wire) = wire[1]
    BY Types, EmptySeq, LenProperties, HeadTailProperties DEF Dispatch
  <2>2. s \in Sent
    BY <2>1 DEF Sent
  <2>. QED BY <2>2 DEF Dispatch, Fed
<1>. HIDE DEF s
<1>2. LinkInv'
  <2>1. link = "lost" \/ link' = "open"
    BY <1>1, Types
  <2>. QED BY <1>1 DEF SourceInv, LinkInv
<1>3. Fed' \subseteq Fed
  BY <1>1, Types, SentSubset DEF Fed
<1>4. CASE UNCHANGED <<asking, gained, pc, sub>>
  BY <1>1, <1>2, <1>3, <1>4, SourceKept
<1>5. CASE DispatchResponse(s)
  <2>1. asking' = asking \ {a}
    BY <1>5 DEF DispatchResponse
  <2>2. a \notin atNode
    BY <1>1, RootOfAsker DEF SourceInv, FeedInv
  <2>3. \/ UNCHANGED <<pc, sub>>
        \/ /\ a \in Consumers /\ pc[a] = "asking"
           /\ pc' = [pc EXCEPT ![a] = "answered"] /\ sub' = [sub EXCEPT ![a] = s]
    BY <1>5 DEF DispatchResponse
  <2>4. AskInv'
    <3>1. atNode' \subseteq asking' /\ \A r \in Fed' : madeFor'[r] # 0
      BY <1>1, <1>3, <2>1, <2>2 DEF SourceInv, AskInv
    <3>2. CASE UNCHANGED <<pc, sub>>
      BY <1>1, <2>1, <3>1, <3>2 DEF SourceInv, AskInv
    <3>3. CASE /\ a \in Consumers /\ pc[a] = "asking"
               /\ pc' = [pc EXCEPT ![a] = "answered"] /\ sub' = [sub EXCEPT ![a] = s]
      <4>1. \A c \in Consumers : c # a => pc'[c] = pc[c] /\ sub'[c] = sub[c]
        BY <3>3, Types
      <4>2. pc'[a] = "answered" /\ sub'[a] = s /\ sub[a] = 0
        BY <3>3, Types DEF SourceInv, AskInv
      <4>3. \A b \in (asking \cap Subs) \cup recoverers : madeFor[b] # a /\ b # 0
        BY <4>2, Types, Apart DEF SourceInv, AskInv
      <4>4. \A b \in (asking' \cap Subs) \cup recoverers : madeFor[b] \in Consumers /\ sub'[madeFor[b]] = b
        BY <2>1, <4>1, <4>3 DEF SourceInv, AskInv
      <4>. QED BY <1>1, <2>1, <3>1, <4>1, <4>2, <4>4 DEF SourceInv, AskInv
    <3>. QED BY <2>3, <3>2, <3>3
  <2>5. FeedInv'
    BY <1>1, <1>3 DEF SourceInv, FeedInv, Root, RootOf
  <2>. QED BY <1>2, <2>4, <2>5 DEF SourceInv
<1>. QED BY <1>4, <1>5 DEF Dispatch, DispatchNotification, s

LEMMA HandlerSource ==
  ASSUME IInv, SourceInv, Wake \/ HandlerFails \/ Revive \/ ConnectFails
  PROVE  SourceInv'
<1>1. /\ UNCHANGED <<madeFor, asking, recoverers, recovering, due, gained, pc, sub>>
      /\ Prompt
  BY DEF Wake, HandlerFails, Revive, ConnectFails, Orphan, nodeVars, mapVars, recoveryVars, consumerVars,
         SourceInv, LinkInv
<1>2. /\ atNode' \subseteq atNode /\ server' \subseteq server
      /\ wire' = wire \/ wire' = <<>>
  BY DEF Wake, HandlerFails, Revive, Severed, ConnectFails, nodeVars
<1>3. Fed' \subseteq Fed
  BY <1>2, Types, SentSubset DEF Fed
<1>4. LinkInv'
  <2>1. Prompt'
    BY <1>1 DEF Prompt
  <2>2. \/ hand' = "dead" /\ UNCHANGED <<link, server, atNode, leaving>>
        \/ hand' = "reconnecting" /\ link = "lost" /\ wire = <<>> /\ UNCHANGED <<link, wire, server, atNode, leaving>>
        \/ link' = "lost" /\ wire' = <<>> /\ server' = {} /\ atNode' = {} /\ leaving' = {}
    BY DEF Wake, HandlerFails, Revive, Severed, ConnectFails, nodeVars
  <2>3. due' => \A s \in Subs : gained'[s] = 0
    BY <1>1 DEF SourceInv, LinkInv
  <2>. QED BY <2>1, <2>2, <2>3 DEF SourceInv, LinkInv
<1>. QED BY <1>1, <1>2, <1>3, <1>4, SourceKept

\* A new connection has no subscriptions, and nobody has an answer of the old one.
LEMMA ConnectedSource ==
  ASSUME IInv, SourceInv, Connected
  PROVE  SourceInv'
<1>1. PICK gone \in SUBSET Discarded : asking' = asking \ gone
  BY DEF Connected
<1>2. /\ UNCHANGED <<wire, server, madeFor, leaving, recoverers, gained, pc, sub>>
      /\ link' = "open" /\ hand' = "pumping"
      /\ hand \in {"reconnecting", "reviving"} /\ atNode' \subseteq asking'
  BY DEF Connected, mapVars, consumerVars
<1>3. wire = <<>> /\ server = {} /\ Prompt
  BY <1>2 DEF SourceInv, LinkInv
<1>4. Fed' = {}
  BY <1>2, <1>3 DEF Fed, Sent
<1>5. LinkInv'
  BY <1>2, <1>3 DEF LinkInv, Prompt
<1>6. AskInv'
  BY <1>1, <1>2, <1>4 DEF SourceInv, AskInv
<1>7. FeedInv'
  BY <1>4 DEF FeedInv
<1>. QED BY <1>5, <1>6, <1>7 DEF SourceInv

\* Whoever recovers has lost its subscription, and what the new connection has made
\* until now was for requests that are still without a response: not for the
\* consumer, which has its id, nor for a recovery of it, which would be claimed.
LEMMA StartRecoverySource ==
  ASSUME IInv, SourceInv, StartRecovery
  PROVE  SourceInv'
<1>. DEFINE new == recoverers \ recovering
<1>1. /\ UNCHANGED <<link, hand, wire, server, madeFor, leaving, recoverers, gained, pc, sub>>
      /\ due /\ due' = FALSE /\ asking' = asking \cup new
      /\ atNode' = (IF link = "open" THEN atNode \cup new ELSE atNode)
  BY DEF StartRecovery, mapVars, consumerVars
<1>2. \A r \in new : r \in recoverers /\ r \in Subs /\ r \notin asking
  BY Types
<1>3. \A r \in new : /\ madeFor[r] \in Consumers /\ sub[madeFor[r]] = r
                     /\ r # 0 /\ r \notin Consumers /\ RootOf(r) = madeFor[r]
  BY <1>2, Apart DEF SourceInv, AskInv, RootOf
<1>4. \A r \in new, s \in Fed : RootOf(r) # Root(s)
  <2>1. ASSUME NEW r \in new, NEW s \in Fed, RootOf(r) = Root(s) PROVE FALSE
    <3>1. madeFor[s] \in asking /\ Root(s) = RootOf(madeFor[s])
      BY <1>1, RootOfAsker DEF SourceInv, FeedInv
    <3>2. CASE madeFor[s] \in Consumers
      BY <1>3, <2>1, <3>1, <3>2 DEF RootOf, SourceInv, AskInv
    <3>3. CASE madeFor[s] \in Subs
      <4>1. sub[madeFor[madeFor[s]]] = madeFor[s] /\ RootOf(madeFor[s]) = madeFor[madeFor[s]]
        BY <3>1, <3>3, Apart DEF RootOf, SourceInv, AskInv
      <4>2. madeFor[s] = r
        BY <1>3, <2>1, <3>1, <4>1
      <4>. QED BY <1>2, <3>1, <4>2
    <3>. QED BY <3>1, <3>2, <3>3, Types
  <2>. QED BY <2>1
<1>. HIDE DEF new
<1>5. Fed' = Fed /\ LinkInv'
  <2>1. due => hand = "pumping"
    BY DEF SourceInv, LinkInv, Prompt
  <2>2. link # "open" => atNode' = atNode
    BY <1>1
  <2>3. link' = "lost" => server' = {} /\ atNode' = {} /\ leaving' = {}
    BY <1>1, <2>2 DEF SourceInv, LinkInv
  <2>. QED BY <1>1, <2>1, <2>3 DEF Fed, Sent, LinkInv
<1>6. atNode' \subseteq atNode \cup new
  BY <1>1
<1>7. AskInv'
  <2>1. atNode' \subseteq asking'
    BY <1>1, <1>6 DEF SourceInv, AskInv
  <2>2. \A c \in Consumers : c \in asking' => c \in asking
    BY <1>1, <1>3
  <2>3. \A a \in (asking' \cap Subs) \cup recoverers : a \in (asking \cap Subs) \cup recoverers
    BY <1>1, <1>2
  <2>. QED BY <1>1, <1>5, <2>1, <2>2, <2>3 DEF SourceInv, AskInv
<1>8. FeedInv'
  <2>1. \A s \in Fed : Root(s)' = Root(s)
    BY <1>1 DEF Root
  <2>2. \A a \in atNode' : RootOf(a)' = RootOf(a)
    BY <1>1 DEF RootOf
  <2>. QED BY <1>1, <1>4, <1>5, <1>6, <2>1, <2>2 DEF SourceInv, FeedInv
<1>. QED BY <1>5, <1>7, <1>8 DEF SourceInv

\* A recovery that returns an id, or has done with it.
LEMMA RecoverySource ==
  ASSUME IInv, SourceInv, NEW s \in Subs, Returned(s) \/ Recovered(s)
  PROVE  SourceInv'
<1>1. /\ UNCHANGED <<link, hand, wire, server, madeFor, asking, atNode, leaving, recoverers, due, pc, sub>>
      /\ gained' = gained \/ gained' = [gained EXCEPT ![s] = 0]
  BY DEF Returned, Recovered, Release, Realias, nodeVars, mapVars, consumerVars
<1>2. LinkInv'
  <2>1. \A r \in Subs : gained[r] = 0 => gained'[r] = 0
    BY <1>1, Types
  <2>. QED BY <1>1, <2>1 DEF SourceInv, LinkInv, Prompt
<1>3. Fed' = Fed
  BY <1>1 DEF Fed, Sent
<1>. QED BY <1>1, <1>2, <1>3, SourceKept

\* A recovery that ends without an id: until the recoveries have had their first
\* turn, the node has its request and so has made nothing for it.
LEMMA SettledSource ==
  ASSUME IInv, SourceInv, NEW s \in Subs, Settled(s)
  PROVE  SourceInv'
<1>1. /\ UNCHANGED <<link, hand, wire, server, madeFor, leaving, recoverers, due, pc, sub>>
      /\ gained' = [gained EXCEPT ![s] = 0] /\ s \in asking
      /\ s \in atNode \/ hand \in {"dead", "reviving"}
      /\ asking' = asking \ {s} /\ atNode' = atNode \ {s}
  BY DEF Settled, Release, consumerVars
<1>2. LinkInv'
  <2>1. \A r \in Subs : gained[r] = 0 => gained'[r] = 0
    BY <1>1, Types
  <2>. QED BY <1>1, <2>1 DEF SourceInv, LinkInv, Prompt
<1>3. Fed' = Fed
  BY <1>1 DEF Fed, Sent
<1>4. AskInv'
  BY <1>1, <1>3 DEF SourceInv, AskInv
<1>5. FeedInv'
  <2>1. ASSUME due, NEW r \in Fed PROVE madeFor[r] \in asking /\ madeFor[r] # s
    <3>1. s \in atNode
      BY <1>1, <2>1 DEF SourceInv, LinkInv, Prompt
    <3>. QED BY <2>1, <3>1, RootOfAsker DEF SourceInv, FeedInv
  <2>. QED BY <1>1, <1>3, <2>1 DEF SourceInv, FeedInv, Root, RootOf
<1>. QED BY <1>2, <1>4, <1>5 DEF SourceInv

LEMMA ConsumerSource ==
  ASSUME IInv, SourceInv, NEW c \in Consumers, ConsumerStep(c)
  PROVE  SourceInv'
<1>1. CASE Ask(c)
  <2>1. /\ UNCHANGED <<link, hand, wire, server, madeFor, leaving, recoverers, due, gained, sub>>
        /\ pc[c] = "idle" /\ pc' = [pc EXCEPT ![c] = "asking"]
        /\ asking' = asking \cup {c}
        /\ atNode' = (IF link = "open" THEN atNode \cup {c} ELSE atNode)
    BY <1>1 DEF Ask, GoTo, mapVars, recoveryVars
  <2>2. c \notin Subs /\ c # 0 /\ RootOf(c) = c
    BY Apart DEF RootOf
  <2>3. /\ pc'[c] = "asking" /\ sub[c] = 0
        /\ \A d \in Consumers \ {c} : pc'[d] = pc[d]
    BY <2>1, Types DEF SourceInv, AskInv
  <2>4. Fed' = Fed
    BY <2>1 DEF Fed, Sent
  <2>5. LinkInv'
    <3>1. \A d \in Consumers : pc'[d] = "answered" => pc[d] = "answered"
      BY <2>3
    <3>2. link # "open" => atNode' = atNode
      BY <2>1
    <3>. QED BY <2>1, <3>1, <3>2 DEF SourceInv, LinkInv, Prompt
  <2>6. AskInv'
    <3>1. atNode' \subseteq asking'
      BY <2>1 DEF SourceInv, AskInv
    <3>2. \A d \in Consumers : sub[d] # 0 => d \notin asking'
      BY <2>1, <2>3 DEF SourceInv, AskInv
    <3>3. asking' \cap Subs = asking \cap Subs
      BY <2>1, <2>2
    <3>4. \A d \in Consumers : pc'[d] = "idle" => d # c /\ pc[d] = "idle"
      BY <2>3
    <3>5. \A d \in Consumers : pc'[d] \in {"idle", "asking"} => sub[d] = 0
      BY <2>3 DEF SourceInv, AskInv
    <3>. QED BY <2>1, <2>4, <3>1, <3>2, <3>3, <3>4, <3>5 DEF SourceInv, AskInv
  <2>7. \A s \in Fed : Root(s) # c
    <3>1. \A s \in Subs : madeFor[s] # c
      BY <2>1 DEF SourceInv, AskInv
    <3>2. ASSUME NEW s \in Fed PROVE Root(s) # c
      <4>1. s \in Subs /\ madeFor[s] # c /\ madeFor[s] # 0 /\ madeFor[s] \in Consumers \cup Subs \cup {0}
        BY <3>1, Types DEF SourceInv, AskInv
      <4>. QED BY <3>1, <4>1 DEF Root
    <3>. QED BY <3>2
  <2>8. FeedInv'
    <3>1. \A s \in Fed : Root(s)' = Root(s)
      BY <2>1 DEF Root
    <3>2. \A a \in atNode' : RootOf(a)' = RootOf(a)
      BY <2>1 DEF RootOf
    <3>3. atNode' \subseteq atNode \cup {c}
      BY <2>1
    <3>. QED BY <2>1, <2>2, <2>4, <2>7, <3>1, <3>2, <3>3 DEF SourceInv, FeedInv
  <2>. QED BY <2>5, <2>6, <2>8 DEF SourceInv
<1>2. CASE Open(c)
  <2>1. /\ UNCHANGED <<link, hand, wire, server, madeFor, asking, atNode, leaving, due, gained, sub>>
        /\ pc[c] = "answered" /\ pc' = [pc EXCEPT ![c] = "polling"]
        /\ recoverers' \subseteq recoverers \cup {sub[c]}
    BY <1>2 DEF Open, GoTo, nodeVars, recoveryVars
  <2>2. madeFor[sub[c]] = c
    BY <2>1, Types
  <2>3. \A d \in Consumers : pc'[d] \in {"idle", "asking", "answered"} => pc'[d] = pc[d]
    BY <2>1, Types
  <2>4. Fed' = Fed
    BY <2>1 DEF Fed, Sent
  <2>5. LinkInv'
    BY <2>1, <2>3 DEF SourceInv, LinkInv, Prompt
  <2>6. AskInv'
    <3>1. \A a \in (asking \cap Subs) \cup recoverers' : madeFor[a] \in Consumers /\ sub[madeFor[a]] = a
      BY <2>1, <2>2 DEF SourceInv, AskInv
    <3>. QED BY <2>1, <2>3, <2>4, <3>1 DEF SourceInv, AskInv
  <2>7. FeedInv'
    BY <2>1, <2>4 DEF SourceInv, FeedInv, Root, RootOf
  <2>. QED BY <2>5, <2>6, <2>7 DEF SourceInv
<1>3. CASE Take(c) \/ Handled(c) \/ Finish(c) \/ PollRaises(c) \/ Quit(c)
  <2>1. /\ UNCHANGED <<link, hand, wire, server, madeFor, asking, atNode, due, gained, sub>>
        /\ \E where \in {"polling", "handling", "ending", "done"} : pc' = [pc EXCEPT ![c] = where]
        /\ recoverers' \subseteq recoverers
        /\ leaving' = leaving \/ \E n \in Subs \cup {0} : leaving' = leaving \cup ({n} \cap server)
    <3>1. CASE Take(c)
      BY <3>1 DEF Take, GoTo, nodeVars, recoveryVars
    <3>2. CASE Handled(c) \/ PollRaises(c) \/ Quit(c)
      BY <3>2 DEF Handled, PollRaises, Quit, GoTo, nodeVars, mapVars, recoveryVars
    <3>3. CASE Finish(c)
      <4>. DEFINE n == IF aliasOf[sub[c]] # 0 THEN aliasOf[sub[c]] ELSE sub[c]
      <4>1. n \in Subs \cup {0}
        BY <3>3 DEF IInv, TypeOK, MapTypeOK, ConsumerTypeOK, Belongs, Finish
      <4>2. leaving' = leaving \cup ({n} \cap server)
        BY <3>3 DEF Finish
      <4>3. recoverers' = recoverers \ {sub[c]}
        BY <3>3 DEF Finish
      <4>. HIDE DEF n
      <4>. QED BY <3>3, <4>1, <4>2, <4>3 DEF Finish, GoTo, recoveryVars
    <3>. QED BY <1>3, <3>1, <3>2, <3>3
  <2>2. \A d \in Consumers : pc'[d] \in {"idle", "asking", "answered"} => pc'[d] = pc[d]
    BY <2>1, Types
  <2>3. Fed' = Fed
    BY <2>1 DEF Fed, Sent
  <2>4. LinkInv'
    <3>1. server = {} /\ leaving = {} => leaving' = {}
      BY <2>1
    <3>. QED BY <2>1, <2>2, <3>1 DEF SourceInv, LinkInv, Prompt
  <2>. QED BY <2>1, <2>2, <2>3, <2>4, SourceKept
<1>. QED BY <1>1, <1>2, <1>3 DEF ConsumerStep

LEMMA NextSource ==
  ASSUME IInv, SourceInv, [Next]_vars
  PROVE  SourceInv'
<1>1. CASE \E c \in Consumers : ConsumerStep(c)
  BY <1>1, ConsumerSource
<1>2. CASE HandlerStep
  BY <1>2, DispatchSource, HandlerSource, ConnectedSource DEF HandlerStep
<1>3. CASE StartRecovery
  BY <1>3, StartRecoverySource
<1>4. CASE \E s \in Subs : Returned(s) \/ Recovered(s) \/ Settled(s)
  BY <1>4, RecoverySource, SettledSource
<1>5. CASE \E a \in Askers : NodeSubscribes(a)
  BY <1>5, NodeSubscribesSource
<1>6. CASE ConnLost \/ \E s \in Subs : NodeNotifies(s) \/ NodeUnsubscribes(s)
  BY <1>6, NodeSource
<1>7. CASE UNCHANGED vars
  <2>1. /\ UNCHANGED <<link, hand, wire, server, madeFor, asking, atNode, leaving, due, gained>>
        /\ UNCHANGED <<recoverers, pc, sub>>
    BY <1>7 DEF vars, nodeVars, mapVars, recoveryVars, consumerVars
  <2>2. Fed' = Fed
    BY <2>1 DEF Fed, Sent
  <2>3. LinkInv'
    BY <2>1 DEF SourceInv, LinkInv, Prompt
  <2>. QED BY <2>1, <2>2, <2>3, SourceKept
<1>. QED BY <1>1, <1>2, <1>3, <1>4, <1>5, <1>6, <1>7 DEF Next

\* At most one subscription on the connection feeds a consumer, for any number of
\* consumers, subscriptions, connections and overlapping recoveries: neither the
\* resubmission of the request, nor a recovery, nor both ever double one that lives.
THEOREM FedOnce == Spec => []OneFeed
<1>1. Init => SourceInv
  BY InitSource
<1>2. IInv /\ SourceInv /\ [Next]_vars => SourceInv'
  BY NextSource
<1>3. SourceInv => OneFeed
  BY DEF SourceInv, FeedInv, OneFeed, Fed
<1>. QED BY <1>1, <1>2, <1>3, Invariant, PTL DEF Spec

-----------------------------------------------------------------------------
(* Nobody waits in silence.                                                *)

\* A message that ends the subscription is on the queue.
Closes(q) == \E i \in DOMAIN q : q[i].no = 0

\* What a consumer that polls s will hear.
Hears(s) ==
  \/ s \in server \/ aliasOf[s] \in server
  \/ s \in asking \/ gained[s] # 0 \/ (due /\ s \in recoverers)
  \/ s \in orphaned
  \/ Closes(queue[s])

\* A claimed recovery awaits its response or has it.
ClaimInv == \A s \in recovering : s \in asking \/ gained[s] # 0

\* The node is asked to end only what nobody needs any more.
EndInv == leaving \subseteq server /\ \A s \in leaving : pc[Root(s)] = "done"

\* What a consumer has got, or is about to get, lives as long as the connection.
LiveInv ==
  link = "open" =>
    /\ \A s \in Sent : pc[Root(s)] # "done" => s \in server
    /\ \A s \in Subs : gained[s] # 0 /\ pc[madeFor[s]] # "done" => gained[s] \in server
    /\ \A c \in Consumers : pc[c] = "answered" => sub[c] \in server

\* Who polls with a recoverer is registered, so that a reconnect recovers it.
TrackedInv ==
  \A c \in Recoverable : Polling(c) => sub[c] \in recoverers /\ sub[c] \in received

HeardInv ==
  hand = "pumping" /\ link = "open" => \A c \in Recoverable : Polling(c) => Hears(sub[c])

VigilInv == ClaimInv /\ EndInv /\ LiveInv /\ TrackedInv /\ HeardInv

LEMMA ClosesAppend ==
  ASSUME NEW q \in Seq(Frames), NEW f \in Frames, Closes(q) \/ f.no = 0
  PROVE  Closes(Append(q, f))
<1>. DEFINE n == Len(q)
            r == Append(q, f)
<1>1. /\ n \in Nat /\ DOMAIN q = 1 .. n /\ DOMAIN r = 1 .. n + 1
      /\ \A i \in 1 .. n : r[i] = q[i]
      /\ r[n + 1] = f
  BY AppendProperties, LenProperties
<1>. HIDE DEF n, r
<1>2. (1 .. n) \subseteq 1 .. n + 1 /\ n + 1 \in 1 .. n + 1
  BY <1>1
<1>3. Closes(r)
  BY <1>1, <1>2 DEF Closes
<1>. QED BY <1>3 DEF r

LEMMA ClosesConcat ==
  ASSUME NEW q \in Seq(Frames), NEW r \in Seq(Frames), Closes(q)
  PROVE  Closes(q \o r)
<1>. DEFINE m == Len(q)
            n == Len(r)
            t == q \o r
<1>1. /\ m \in Nat /\ n \in Nat /\ DOMAIN q = 1 .. m /\ DOMAIN t = 1 .. m + n
      /\ \A i \in 1 .. m : t[i] = q[i]
  BY ConcatProperties, LenProperties
<1>. HIDE DEF m, n, t
<1>2. (1 .. m) \subseteq 1 .. m + n
  BY <1>1
<1>3. Closes(t)
  BY <1>1, <1>2 DEF Closes
<1>. QED BY <1>3 DEF t

LEMMA ClosesTail ==
  ASSUME NEW q \in Seq(Frames), q # <<>>, Closes(q), Head(q).no # 0
  PROVE  Closes(Tail(q))
<1>. DEFINE n == Len(q)
            t == Tail(q)
<1>1. /\ n \in Nat /\ DOMAIN q = 1 .. n /\ Head(q) = q[1] /\ DOMAIN t = 1 .. n - 1
      /\ \A i \in 1 .. n - 1 : t[i] = q[i + 1]
  BY HeadTailProperties, LenProperties
<1>2. PICK i \in 1 .. n : q[i].no = 0
  BY <1>1 DEF Closes
<1>3. i # 1
  BY <1>1, <1>2
<1>. HIDE DEF n, t
<1>4. i - 1 \in 1 .. n - 1 /\ (i - 1) + 1 = i
  BY <1>1, <1>3
<1>5. Closes(t)
  BY <1>1, <1>2, <1>4 DEF Closes
<1>. QED BY <1>5 DEF t

\* Whose each subscription is.
LEMMA RootsAre ==
  ASSUME IInv, AskInv
  PROVE  /\ \A c \in Consumers : sub[c] # 0 => sub[c] \in Subs /\ madeFor[sub[c]] = c /\ Root(sub[c]) = c
         /\ \A s \in Subs : aliasOf[s] # 0 =>
              aliasOf[s] \in Subs /\ madeFor[aliasOf[s]] = s /\ Root(aliasOf[s]) = madeFor[s]
         /\ \A s \in Subs : gained[s] # 0 =>
              /\ gained[s] \in Subs /\ madeFor[gained[s]] = s /\ madeFor[s] \in Consumers
              /\ Root(gained[s]) = madeFor[s]
         /\ \A s \in Fed : s \in Subs /\ madeFor[s] # 0 /\ Root(s) \in Consumers
         /\ 0 \notin server
<1>1. \A c \in Consumers : sub[c] # 0 => sub[c] \in Subs /\ madeFor[sub[c]] = c /\ Root(sub[c]) = c
  BY Types DEF Root
<1>2. ASSUME NEW s \in Subs, aliasOf[s] # 0
      PROVE  aliasOf[s] \in Subs /\ madeFor[aliasOf[s]] = s /\ Root(aliasOf[s]) = madeFor[s]
  <2>1. aliasOf[s] \in Subs /\ originalOf[aliasOf[s]] = s
    BY <1>2 DEF IInv, TypeOK, MapTypeOK, AliasesOK, MapsAgree
  <2>2. madeFor[aliasOf[s]] = s
    BY <2>1, Apart DEF IInv, AliasesOK
  <2>. QED BY <2>1, <2>2, Apart DEF Root
<1>3. ASSUME NEW s \in Subs, gained[s] # 0
      PROVE  /\ gained[s] \in Subs /\ madeFor[gained[s]] = s /\ madeFor[s] \in Consumers
             /\ Root(gained[s]) = madeFor[s]
  <2>1. gained[s] \in Subs /\ madeFor[gained[s]] = s
    BY <1>3, Types
  <2>2. madeFor[s] \in Consumers
    BY <2>1 DEF AskInv
  <2>. QED BY <2>1, <2>2, Apart DEF Root
<1>4. ASSUME NEW s \in Fed PROVE s \in Subs /\ madeFor[s] # 0 /\ Root(s) \in Consumers
  <2>1. s \in Subs /\ madeFor[s] # 0
    BY Types DEF AskInv
  <2>. QED BY <2>1, Types DEF AskInv, Root
<1>5. 0 \notin server
  BY Types, Apart
<1>. QED BY <1>1, <1>2, <1>3, <1>4, <1>5

LEMMA InitVigil == Init => VigilInv
BY SubscriptionsAssumption, Apart DEF Init, VigilInv, ClaimInv, EndInv, LiveInv, TrackedInv, HeardInv, Polling, Sent

\* Steps after which nobody knows of a subscription that was unknown before.
LEMMA LiveKept ==
  ASSUME IInv, AskInv, LiveInv, UNCHANGED madeFor, Sent' \subseteq Sent, server \subseteq server',
         link' = "open" => link = "open",
         \A c \in Consumers : pc[c] = "done" => pc'[c] = "done",
         \A s \in Subs : gained'[s] # 0 => gained'[s] = gained[s],
         \A c \in Consumers : pc'[c] = "answered" => pc[c] = "answered" /\ sub'[c] = sub[c]
  PROVE  LiveInv'
<1>. SUFFICES ASSUME link' = "open" PROVE LiveInv'
  BY DEF LiveInv
<1>1. \A s \in Sent' : pc'[Root(s)'] # "done" => s \in server'
  <2>1. ASSUME NEW s \in Sent PROVE Root(s)' = Root(s) /\ Root(s) \in Consumers
    BY RootsAre DEF Root, Fed
  <2>. QED BY <2>1 DEF LiveInv
<1>2. \A s \in Subs : gained'[s] # 0 /\ pc'[madeFor'[s]] # "done" => gained'[s] \in server'
  BY RootsAre DEF LiveInv
<1>3. \A c \in Consumers : pc'[c] = "answered" => sub'[c] \in server'
  BY DEF LiveInv
<1>. QED BY <1>1, <1>2, <1>3 DEF LiveInv

LEMMA EndKept ==
  ASSUME IInv, AskInv, EndInv, UNCHANGED madeFor, leaving' \subseteq leaving, leaving' \subseteq server',
         \A c \in Consumers : pc[c] = "done" => pc'[c] = "done"
  PROVE  EndInv'
<1>1. \A s \in leaving : Root(s)' = Root(s) /\ Root(s) \in Consumers
  BY RootsAre DEF Root, Fed, EndInv
<1>. QED BY <1>1 DEF EndInv

\* Steps that take nothing from those who poll.
LEMMA HeardKept ==
  ASSUME HeardInv, TrackedInv, UNCHANGED <<aliasOf, gained, due, queue>>, server \subseteq server',
         asking \subseteq asking', recoverers \subseteq recoverers', received \subseteq received',
         orphaned \subseteq orphaned',
         \A c \in Recoverable : Polling(c)' => Polling(c) /\ sub'[c] = sub[c],
         hand' = "pumping" /\ link' = "open" => hand = "pumping" /\ link = "open"
  PROVE  HeardInv' /\ TrackedInv'
<1>1. TrackedInv'
  BY DEF TrackedInv
<1>2. HeardInv'
  BY DEF HeardInv, Hears, Closes
<1>. QED BY <1>1, <1>2

LEMMA NodeSubscribesVigil ==
  ASSUME IInv, SourceInv, VigilInv, NEW a \in Askers, NodeSubscribes(a)
  PROVE  VigilInv'
<1>1. PICK s \in FreshSub :
        /\ madeFor' = [madeFor EXCEPT ![s] = a]
        /\ server' = server \cup {s}
        /\ wire' = Append(wire, [sub |-> s, no |-> 0])
  BY DEF NodeSubscribes
<1>2. s \in Subs /\ madeFor[s] = 0
  BY DEF FreshSub
<1>3. UNCHANGED <<link, hand, asking, leaving, mapVars, recoveryVars, pc, sub>>
  BY DEF NodeSubscribes, consumerVars
<1>4. Sent' = Sent \cup {s}
  <2>. DEFINE f == [sub |-> s, no |-> 0]
  <2>1. f \in Frames /\ f.sub = s
    BY <1>2, SubscriptionsAssumption DEF Frames
  <2>. HIDE DEF f
  <2>2. wire' = Append(wire, f)
    BY <1>1 DEF f
  <2>. QED BY <2>1, <2>2, Types, SentAppend
<1>5. \A r \in Subs : madeFor[r] # 0 => madeFor'[r] = madeFor[r]
  BY <1>1, <1>2, Types
<1>6. ASSUME NEW r \in Fed PROVE Root(r)' = Root(r) /\ Root(r) \in Consumers
  <2>1. r \in Subs /\ madeFor[r] # 0 /\ Root(r) \in Consumers
    BY RootsAre DEF SourceInv
  <2>2. madeFor[r] \in Subs => madeFor[madeFor[r]] # 0
    BY <2>1, Apart DEF SourceInv, AskInv
  <2>. QED BY <1>5, <2>1, <2>2, Types DEF Root
<1>7. ClaimInv' /\ EndInv'
  <2>1. leaving' \subseteq server' /\ \A r \in leaving : pc'[Root(r)'] = "done"
    BY <1>1, <1>3, <1>6 DEF VigilInv, EndInv, Fed
  <2>. QED BY <1>3, <2>1 DEF VigilInv, ClaimInv, EndInv, recoveryVars
<1>8. LiveInv'
  <2>. SUFFICES ASSUME link = "open" PROVE LiveInv'
    BY <1>3 DEF LiveInv
  <2>1. \A r \in Sent' : pc'[Root(r)'] # "done" => r \in server'
    BY <1>1, <1>3, <1>4, <1>6 DEF VigilInv, LiveInv, Fed
  <2>2. ASSUME NEW r \in Subs, gained[r] # 0, pc[madeFor'[r]] # "done" PROVE gained[r] \in server'
    <3>1. madeFor'[r] = madeFor[r]
      BY <1>5, <2>2, RootsAre, Apart DEF SourceInv
    <3>. QED BY <1>1, <2>2, <3>1 DEF VigilInv, LiveInv
  <2>3. \A c \in Consumers : pc[c] = "answered" => sub[c] \in server'
    BY <1>1 DEF VigilInv, LiveInv
  <2>. QED BY <1>3, <2>1, <2>2, <2>3 DEF LiveInv, recoveryVars
<1>9. TrackedInv' /\ HeardInv'
  BY <1>1, <1>3, HeardKept DEF VigilInv, Polling, mapVars, recoveryVars
<1>. QED BY <1>7, <1>8, <1>9 DEF VigilInv

LEMMA NodeVigil ==
  ASSUME IInv, SourceInv, VigilInv,
         ConnLost \/ \E s \in Subs : NodeNotifies(s) \/ NodeUnsubscribes(s)
  PROVE  VigilInv'
<1>1. CASE ConnLost
  <2>1. /\ UNCHANGED <<hand, madeFor, asking, mapVars, recoveryVars, pc, sub>>
        /\ server' = {} /\ leaving' = {} /\ link' = "lost"
    BY <1>1 DEF ConnLost, Severed, consumerVars
  <2>2. ClaimInv' /\ EndInv' /\ LiveInv' /\ HeardInv'
    BY <2>1 DEF VigilInv, ClaimInv, EndInv, LiveInv, HeardInv, recoveryVars
  <2>3. TrackedInv'
    BY <2>1 DEF VigilInv, TrackedInv, Polling, mapVars
  <2>. QED BY <2>2, <2>3 DEF VigilInv
<1>2. ASSUME NEW s \in Subs, NodeNotifies(s) PROVE VigilInv'
  <2>. DEFINE f == [sub |-> s, no |-> count[s] + 1]
  <2>1. /\ UNCHANGED <<link, hand, server, leaving, madeFor, asking, mapVars, recoveryVars, pc, sub>>
        /\ s \in server /\ wire' = Append(wire, f)
    BY <1>2 DEF NodeNotifies, consumerVars
  <2>2. f \in Frames /\ f.sub = s
    <3>1. count[s] \in 0 .. MaxNotes /\ count[s] < MaxNotes
      BY <1>2 DEF NodeNotifies, IInv, TypeOK, NodeTypeOK
    <3>2. count[s] + 1 \in 0 .. MaxNotes
      BY <3>1, SubscriptionsAssumption
    <3>. QED BY <3>2 DEF Frames
  <2>. HIDE DEF f
  <2>3. Sent' = Sent \cup {s}
    BY <2>1, <2>2, Types, SentAppend
  <2>4. ClaimInv' /\ EndInv'
    BY <2>1 DEF VigilInv, ClaimInv, EndInv, Root, recoveryVars
  <2>5. LiveInv'
    BY <2>1, <2>3 DEF VigilInv, LiveInv, Root, recoveryVars
  <2>6. TrackedInv' /\ HeardInv'
    BY <2>1, HeardKept DEF VigilInv, Polling, mapVars, recoveryVars
  <2>. QED BY <2>4, <2>5, <2>6 DEF VigilInv
<1>3. ASSUME NEW s \in Subs, NodeUnsubscribes(s) PROVE VigilInv'
  <2>1. /\ UNCHANGED <<link, hand, wire, madeFor, asking, mapVars, recoveryVars, pc, sub>>
        /\ server' = server \ {s} /\ leaving' = leaving \ {s} /\ s \in leaving
    BY <1>3 DEF NodeUnsubscribes, consumerVars
  <2>2. pc[Root(s)] = "done"
    BY <2>1 DEF VigilInv, EndInv
  <2>3. ClaimInv' /\ EndInv'
    BY <2>1 DEF VigilInv, ClaimInv, EndInv, Root, recoveryVars
  <2>4. LiveInv'
    <3>. SUFFICES ASSUME link = "open" PROVE LiveInv'
      BY <2>1 DEF LiveInv
    <3>1. \A r \in Sent : pc[Root(r)] # "done" => r \in server'
      BY <2>1, <2>2 DEF VigilInv, LiveInv
    <3>2. \A r \in Subs : gained[r] # 0 /\ pc[madeFor[r]] # "done" => gained[r] \in server'
      BY <2>1, <2>2, RootsAre DEF VigilInv, LiveInv, SourceInv
    <3>3. ASSUME NEW c \in Consumers, pc[c] = "answered" PROVE sub[c] \in server'
      <4>1. sub[c] # 0 /\ Root(sub[c]) = c
        BY <3>3, Types, RootsAre DEF SourceInv
      <4>. QED BY <2>1, <2>2, <3>3, <4>1 DEF VigilInv, LiveInv
    <3>4. Sent' = Sent /\ \A r \in Sent : Root(r)' = Root(r)
      BY <2>1 DEF Sent, Root
    <3>. QED BY <2>1, <3>1, <3>2, <3>3, <3>4 DEF LiveInv, recoveryVars
  <2>5. TrackedInv'
    BY <2>1 DEF VigilInv, TrackedInv, Polling, mapVars
  <2>6. HeardInv'
    <3>. SUFFICES ASSUME hand = "pumping", link = "open", NEW c \in Recoverable, Polling(c)
                  PROVE  Hears(sub[c])'
      BY <2>1 DEF HeardInv, Polling
    <3>1. c \in Consumers /\ sub[c] # 0 /\ sub[c] \in Subs /\ pc[c] # "done"
      BY SubscriptionsAssumption, Types DEF Polling
    <3>2. sub[c] # s /\ (aliasOf[sub[c]] \in server => aliasOf[sub[c]] # s)
      BY <2>2, <3>1, RootsAre DEF SourceInv
    <3>3. Hears(sub[c])
      BY DEF VigilInv, HeardInv
    <3>. QED BY <2>1, <3>2, <3>3 DEF Hears, mapVars, recoveryVars
  <2>. QED BY <2>3, <2>4, <2>5, <2>6 DEF VigilInv
<1>. QED BY <1>1, <1>2, <1>3

LEMMA DispatchVigil ==
  ASSUME IInv, SourceInv, VigilInv, Dispatch
  PROVE  VigilInv'
<1>. DEFINE f == Head(wire)
            s == f.sub
            a == madeFor[s]
<1>1. /\ hand = "pumping" /\ wire # <<>> /\ wire' = Tail(wire)
      /\ UNCHANGED <<link, hand, server, madeFor, leaving, recoverers, orphaned, aliasOf, originalOf,
                     recovering, due>>
      /\ IF f.no = 0 THEN DispatchResponse(s) ELSE DispatchNotification(f)
  BY DEF Dispatch
<1>2. f \in Frames /\ s \in Subs /\ s \in Sent /\ s \in Fed
  <2>1. 1 \in DOMAIN wire /\ f = wire[1] /\ f \in Frames
    BY <1>1, Types, EmptySeq, LenProperties, HeadTailProperties
  <2>. QED BY <2>1 DEF Sent, Fed, Frames
<1>. HIDE DEF f
<1>3. Sent' \subseteq Sent
  BY <1>1, Types, SentSubset
<1>4. CASE DispatchResponse(s)
  <2>1. asking' = asking \ {a} /\ UNCHANGED <<received, queue>>
    BY <1>4 DEF DispatchResponse
  <2>2. \/ UNCHANGED <<gained, pc, sub>> /\ (a \notin asking \/ a \in Consumers)
        \/ /\ a \in Consumers /\ pc[a] = "asking" /\ gained' = gained
           /\ pc' = [pc EXCEPT ![a] = "answered"] /\ sub' = [sub EXCEPT ![a] = s]
        \/ /\ a \in asking \cap Subs /\ gained' = [gained EXCEPT ![a] = s]
           /\ UNCHANGED <<pc, sub>>
    BY <1>4 DEF DispatchResponse
  <2>3. s # 0 /\ (a \in Consumers => a \notin Subs) /\ (a \in Consumers => Root(s) = a)
        /\ (a \in Subs => a \notin Consumers /\ Root(s) = madeFor[a])
    BY <1>2, Apart DEF Root
  <2>4. \A c \in Consumers : /\ pc'[c] = "done" <=> pc[c] = "done"
                             /\ Polling(c)' => Polling(c) /\ sub'[c] = sub[c]
    BY <2>2, Types DEF Polling
  <2>5. ClaimInv'
    <3>1. ASSUME NEW r \in recovering PROVE r \in asking' \/ gained'[r] # 0
      <4>1. r \in Subs
        BY DEF IInv, TypeOK, RecoveryTypeOK
      <4>2. r \in asking \/ gained[r] # 0
        BY DEF VigilInv, ClaimInv
      <4>. QED BY <2>1, <2>2, <2>3, <4>1, <4>2, Types
    <3>. QED BY <1>1, <3>1 DEF ClaimInv
  <2>6. EndInv'
    BY <1>1, <2>4, EndKept DEF VigilInv, SourceInv, EndInv
  <2>7. LiveInv'
    <3>. SUFFICES ASSUME link = "open" PROVE LiveInv'
      BY <1>1 DEF LiveInv
    <3>1. pc[Root(s)] # "done" => s \in server
      BY <1>2 DEF VigilInv, LiveInv
    <3>2. \A r \in Sent' : pc'[Root(r)'] # "done" => r \in server'
      <4>1. ASSUME NEW r \in Sent PROVE Root(r)' = Root(r) /\ Root(r) \in Consumers
        BY <1>1, RootsAre DEF Root, Fed, SourceInv
      <4>. QED BY <1>1, <1>3, <2>4, <4>1 DEF VigilInv, LiveInv
    <3>3. ASSUME NEW r \in Subs, gained'[r] # 0, pc'[madeFor[r]] # "done" PROVE gained'[r] \in server
      <4>1. CASE r = a /\ gained'[r] = s /\ UNCHANGED pc
        BY <2>3, <3>1, <3>3, <4>1
      <4>2. CASE gained'[r] = gained[r]
        <5>1. madeFor[r] \in Consumers
          BY <3>3, <4>2, RootsAre DEF SourceInv
        <5>. QED BY <2>4, <3>3, <4>2, <5>1 DEF VigilInv, LiveInv
      <4>. QED BY <2>2, <4>1, <4>2, Types
    <3>4. ASSUME NEW c \in Consumers, pc'[c] = "answered" PROVE sub'[c] \in server
      <4>1. CASE c = a /\ sub'[c] = s /\ pc[c] = "asking"
        BY <2>3, <3>1, <4>1
      <4>2. CASE pc[c] = "answered" /\ sub'[c] = sub[c]
        BY <4>2 DEF VigilInv, LiveInv
      <4>. QED BY <2>2, <3>4, <4>1, <4>2, Types
    <3>. QED BY <1>1, <3>2, <3>3, <3>4 DEF LiveInv
  <2>8. TrackedInv'
    BY <1>1, <2>1, <2>4, SubscriptionsAssumption DEF VigilInv, TrackedInv
  <2>9. HeardInv'
    <3>. SUFFICES ASSUME link = "open", NEW c \in Recoverable, Polling(c)'
                  PROVE  Hears(sub[c])'
      BY <1>1 DEF HeardInv
    <3>1. c \in Consumers /\ Polling(c) /\ sub'[c] = sub[c]
      BY <2>4, SubscriptionsAssumption
    <3>2. sub[c] \in Subs /\ sub[c] \notin Consumers
      BY <3>1, Types, Apart DEF Polling
    <3>3. Hears(sub[c])
      BY <1>1, <3>1 DEF VigilInv, HeardInv
    <3>4. sub[c] \in asking \/ gained[sub[c]] # 0 => sub[c] \in asking' \/ gained'[sub[c]] # 0
      BY <2>1, <2>2, <2>3, <3>2, Types
    <3>5. UNCHANGED <<queue, server, aliasOf, recoverers, orphaned, due>>
      BY <1>1, <2>1
    <3>. QED BY <3>1, <3>3, <3>4, <3>5 DEF Hears
  <2>. QED BY <2>5, <2>6, <2>7, <2>8, <2>9 DEF VigilInv
<1>5. CASE DispatchNotification(f)
  <2>1. /\ UNCHANGED <<asking, gained, pc, sub>> /\ received \subseteq received'
        /\ queue' = [queue EXCEPT ![Target(s)] = Append(@, f)]
    BY <1>5 DEF DispatchNotification
  <2>2. ClaimInv' /\ EndInv'
    BY <1>1, <2>1 DEF VigilInv, ClaimInv, EndInv, Root
  <2>3. LiveInv'
    BY <1>1, <1>3, <2>1, LiveKept DEF VigilInv, SourceInv
  <2>4. TrackedInv'
    BY <1>1, <2>1 DEF VigilInv, TrackedInv, Polling
  <2>5. \A r \in Subs : Closes(queue[r]) => Closes(queue'[r])
    <3>1. queue \in [Subs -> Seq(Frames)]
      BY DEF IInv, TypeOK, MapTypeOK
    <3>2. ASSUME NEW r \in Subs, Closes(queue[r]) PROVE Closes(queue'[r])
      <4>1. queue'[r] = queue[r] \/ queue'[r] = Append(queue[r], f)
        BY <2>1, <3>1
      <4>2. Closes(Append(queue[r], f))
        BY <1>2, <3>1, <3>2, ClosesAppend
      <4>. QED BY <3>2, <4>1, <4>2
    <3>. QED BY <3>2
  <2>6. HeardInv'
    <3>. SUFFICES ASSUME link = "open", NEW c \in Recoverable, Polling(c)
                  PROVE  Hears(sub[c])'
      BY <1>1, <2>1 DEF HeardInv, Polling
    <3>1. sub[c] \in Subs
      BY SubscriptionsAssumption, Types DEF Polling
    <3>2. Hears(sub[c])
      BY <1>1 DEF VigilInv, HeardInv
    <3>. QED BY <1>1, <2>1, <2>5, <3>1, <3>2 DEF Hears
  <2>. QED BY <2>2, <2>3, <2>4, <2>6 DEF VigilInv
<1>. QED BY <1>1, <1>4, <1>5

\* An orphan has no recoverer.
LEMMA HandlerVigil ==
  ASSUME IInv, SourceInv, VigilInv, Wake \/ HandlerFails \/ Revive \/ ConnectFails
  PROVE  VigilInv'
<1>1. /\ UNCHANGED <<madeFor, asking, recoverers, recovering, gained, pc, sub>>
      /\ hand' # "pumping"
  BY DEF Wake, HandlerFails, Revive, ConnectFails, Orphan, nodeVars, mapVars, recoveryVars, consumerVars
<1>2. \/ UNCHANGED <<link, wire, server, leaving>>
      \/ link' = "lost" /\ wire' = <<>> /\ server' = {} /\ leaving' = {}
  BY DEF Wake, HandlerFails, Revive, Severed, ConnectFails, nodeVars
<1>3. ClaimInv' /\ HeardInv'
  BY <1>1 DEF VigilInv, ClaimInv, HeardInv
<1>4. EndInv'
  BY <1>1, <1>2 DEF VigilInv, EndInv, Root
<1>5. LiveInv'
  <2>1. link' = "open" => UNCHANGED <<link, wire, server>>
    BY <1>2
  <2>. QED BY <1>1, <2>1 DEF VigilInv, LiveInv, Root, Sent
<1>6. TrackedInv'
  <2>1. received' = received \/ received' = received \ Orphans
    BY DEF Wake, HandlerFails, Revive, ConnectFails, Orphan, mapVars
  <2>. QED BY <1>1, <2>1 DEF VigilInv, TrackedInv, Polling, Orphans
<1>. QED BY <1>3, <1>4, <1>5, <1>6 DEF VigilInv

\* After a reconnect all that is registered is to be recovered.
LEMMA ConnectedVigil ==
  ASSUME IInv, SourceInv, VigilInv, Connected
  PROVE  VigilInv'
<1>1. PICK gone \in SUBSET Discarded : asking' = asking \ gone
  BY DEF Connected
<1>2. /\ UNCHANGED <<wire, server, madeFor, leaving, mapVars, recovering, gained, pc, sub>>
      /\ hand \in {"reconnecting", "reviving"} /\ due' = (recoverers # {})
  BY DEF Connected, consumerVars
<1>3. wire = <<>> /\ server = {} /\ leaving = {} /\ Prompt
  BY <1>2 DEF SourceInv, LinkInv
<1>4. ClaimInv'
  <2>1. \A r \in recovering : r \notin gone
    BY Apart DEF Discarded, IInv, TypeOK, RecoveryTypeOK
  <2>. QED BY <1>1, <1>2, <2>1 DEF VigilInv, ClaimInv
<1>5. EndInv' /\ LiveInv'
  BY <1>2, <1>3 DEF EndInv, LiveInv, Prompt, Sent
<1>6. TrackedInv'
  BY <1>2 DEF VigilInv, TrackedInv, Polling, mapVars
<1>7. HeardInv'
  BY <1>2 DEF VigilInv, TrackedInv, HeardInv, Hears, Polling, mapVars
<1>. QED BY <1>4, <1>5, <1>6, <1>7 DEF VigilInv

LEMMA StartRecoveryVigil ==
  ASSUME IInv, SourceInv, VigilInv, StartRecovery
  PROVE  VigilInv'
<1>1. /\ UNCHANGED <<link, hand, wire, server, madeFor, leaving, mapVars, gained, pc, sub>>
      /\ recovering' = recovering \cup recoverers
      /\ asking' = asking \cup (recoverers \ recovering)
  BY DEF StartRecovery, consumerVars
<1>2. ClaimInv' /\ EndInv' /\ LiveInv'
  BY <1>1 DEF VigilInv, ClaimInv, EndInv, LiveInv, Root, Sent
<1>3. TrackedInv'
  BY <1>1 DEF VigilInv, TrackedInv, Polling, mapVars
<1>4. HeardInv'
  BY <1>1 DEF VigilInv, ClaimInv, HeardInv, Hears, Polling, mapVars
<1>. QED BY <1>2, <1>3, <1>4 DEF VigilInv

\* The subscription of a consumer that polls.
LEMMA PolledIs ==
  ASSUME IInv, NEW c \in Recoverable, Polling(c)
  PROVE  c \in Consumers /\ sub[c] \in Subs /\ sub[c] # 0 /\ madeFor[sub[c]] = c
BY SubscriptionsAssumption, Types DEF Polling

LEMMA ReturnedVigil ==
  ASSUME IInv, SourceInv, VigilInv, NEW s \in Subs, Returned(s)
  PROVE  VigilInv'
<1>1. UNCHANGED <<link, hand, wire, server, madeFor, asking, leaving, mapVars, due, pc, sub>>
  BY DEF Returned, nodeVars, consumerVars
<1>2. \/ UNCHANGED <<recovering, gained>>
      \/ /\ s \notin recoverers /\ recovering' = recovering \ {s}
         /\ gained' = [gained EXCEPT ![s] = 0]
  BY DEF Returned, Release
<1>3. ClaimInv'
  <2>1. recovering \subseteq Subs
    BY DEF IInv, TypeOK, RecoveryTypeOK
  <2>2. \A r \in recovering' : r \in recovering /\ gained'[r] = gained[r]
    BY <1>2, <2>1, Types
  <2>. QED BY <1>1, <2>2 DEF VigilInv, ClaimInv
<1>4. EndInv'
  BY <1>1 DEF VigilInv, EndInv, Root
<1>5. LiveInv'
  <2>1. \A r \in Subs : gained'[r] # 0 => gained'[r] = gained[r]
    BY <1>2, Types
  <2>. QED BY <1>1, <2>1, LiveKept DEF VigilInv, SourceInv, Sent
<1>6. TrackedInv'
  BY <1>1 DEF VigilInv, TrackedInv, Polling, mapVars
<1>7. HeardInv'
  <2>. SUFFICES ASSUME hand = "pumping", link = "open", NEW c \in Recoverable, Polling(c)
                PROVE  Hears(sub[c])'
    BY <1>1 DEF HeardInv, Polling
  <2>1. sub[c] \in Subs /\ sub[c] \in recoverers
    BY PolledIs DEF VigilInv, TrackedInv
  <2>2. gained'[sub[c]] = gained[sub[c]]
    BY <1>2, <2>1, Types
  <2>. QED BY <1>1, <2>2 DEF VigilInv, HeardInv, Hears, mapVars
<1>. QED BY <1>3, <1>4, <1>5, <1>6, <1>7 DEF VigilInv

\* The new alias lives, unless its consumer has gone.
LEMMA RecoveredVigil ==
  ASSUME IInv, SourceInv, VigilInv, NEW s \in Subs, Recovered(s)
  PROVE  VigilInv'
<1>. DEFINE n == gained[s]
<1>1. n \in Subs /\ n # 0 /\ madeFor[n] = s /\ madeFor[s] \in Consumers
  BY RootsAre DEF Recovered, SourceInv, IInv, TypeOK, RecoveryTypeOK
<1>2. /\ UNCHANGED <<link, hand, wire, server, madeFor, asking, leaving, recoverers, orphaned, due, pc, sub>>
      /\ recovering' = recovering \ {s} /\ gained' = [gained EXCEPT ![s] = 0]
      /\ aliasOf' = [aliasOf EXCEPT ![s] = n]
      /\ received' = received \ {n}
      /\ queue' = [queue EXCEPT ![s] = IF s \in received THEN @ \o queue[n] ELSE @, ![n] = <<>>]
  BY DEF Recovered, Release, Realias, nodeVars, consumerVars
<1>. HIDE DEF n
<1>3. ClaimInv'
  BY <1>2, Types DEF VigilInv, ClaimInv
<1>4. EndInv'
  BY <1>2 DEF VigilInv, EndInv, Root
<1>5. LiveInv'
  <2>1. \A r \in Subs : gained'[r] # 0 => gained'[r] = gained[r]
    BY <1>2, Types
  <2>. QED BY <1>2, <2>1, LiveKept DEF VigilInv, SourceInv, Sent
<1>6. \A c \in Recoverable : Polling(c) => sub[c] # n
  BY <1>1, PolledIs, Apart
<1>7. TrackedInv'
  BY <1>2, <1>6 DEF VigilInv, TrackedInv, Polling
<1>8. HeardInv'
  <2>. SUFFICES ASSUME hand = "pumping", link = "open", NEW c \in Recoverable, Polling(c)
                PROVE  Hears(sub[c])'
    BY <1>2 DEF HeardInv, Polling
  <2>1. sub[c] \in Subs /\ sub[c] # n /\ madeFor[sub[c]] = c /\ c \in Consumers
    BY <1>6, PolledIs
  <2>2. aliasOf \in [Subs -> Subs \cup {0}] /\ queue \in [Subs -> Seq(Frames)]
    BY DEF IInv, TypeOK, MapTypeOK
  <2>3. CASE sub[c] = s
    <3>1. aliasOf'[s] = n
      BY <1>2, <2>2
    <3>2. pc[madeFor[s]] # "done"
      BY <2>1, <2>3 DEF Polling
    <3>3. n \in server
      BY <1>1, <3>2 DEF VigilInv, LiveInv, n
    <3>. QED BY <1>2, <2>3, <3>1, <3>3 DEF Hears
  <2>4. CASE sub[c] # s
    <3>1. /\ aliasOf'[sub[c]] = aliasOf[sub[c]] /\ gained'[sub[c]] = gained[sub[c]]
          /\ queue'[sub[c]] = queue[sub[c]]
      BY <1>2, <2>1, <2>2, <2>4, Types
    <3>. QED BY <1>2, <3>1 DEF VigilInv, HeardInv, Hears
  <2>. QED BY <2>3, <2>4
<1>. QED BY <1>3, <1>4, <1>5, <1>7, <1>8 DEF VigilInv

\* The consumer of a recovery that ends without an id is told.
LEMMA SettledVigil ==
  ASSUME IInv, SourceInv, VigilInv, NEW s \in Subs, Settled(s)
  PROVE  VigilInv'
<1>1. /\ UNCHANGED <<link, hand, wire, server, madeFor, leaving, received, recoverers, orphaned,
                     aliasOf, due, pc, sub>>
      /\ recovering' = recovering \ {s} /\ gained' = [gained EXCEPT ![s] = 0]
      /\ asking' = asking \ {s}
      /\ queue' = IF s \in received THEN [queue EXCEPT ![s] = Append(@, Injected(s))] ELSE queue
  BY DEF Settled, Release, consumerVars
<1>2. ClaimInv'
  BY <1>1, Types DEF VigilInv, ClaimInv
<1>3. EndInv'
  BY <1>1 DEF VigilInv, EndInv, Root
<1>4. LiveInv'
  <2>1. \A r \in Subs : gained'[r] # 0 => gained'[r] = gained[r]
    BY <1>1, Types
  <2>. QED BY <1>1, <2>1, LiveKept DEF VigilInv, SourceInv, Sent
<1>5. TrackedInv'
  BY <1>1 DEF VigilInv, TrackedInv, Polling
<1>6. HeardInv'
  <2>. SUFFICES ASSUME hand = "pumping", link = "open", NEW c \in Recoverable, Polling(c)
                PROVE  Hears(sub[c])'
    BY <1>1 DEF HeardInv, Polling
  <2>1. sub[c] \in Subs /\ sub[c] \in received
    BY PolledIs DEF VigilInv, TrackedInv
  <2>2. queue \in [Subs -> Seq(Frames)]
    BY DEF IInv, TypeOK, MapTypeOK
  <2>3. CASE sub[c] = s
    <3>1. Injected(s) \in Frames /\ Injected(s).no = 0
      BY SubscriptionsAssumption DEF Injected, Frames
    <3>2. queue'[s] = Append(queue[s], Injected(s))
      BY <1>1, <2>1, <2>2, <2>3
    <3>3. Closes(queue'[s])
      BY <2>2, <3>1, <3>2, ClosesAppend
    <3>. QED BY <1>1, <2>3, <3>3 DEF Hears
  <2>4. CASE sub[c] # s
    <3>1. gained'[sub[c]] = gained[sub[c]] /\ queue'[sub[c]] = queue[sub[c]]
      BY <1>1, <2>1, <2>2, <2>4, Types
    <3>. QED BY <1>1, <2>4, <3>1 DEF VigilInv, HeardInv, Hears
  <2>. QED BY <2>3, <2>4
<1>. QED BY <1>2, <1>3, <1>4, <1>5, <1>6 DEF VigilInv

\* A consumer's step leaves what the others poll alone.
LEMMA ConsumerVigil ==
  ASSUME IInv, SourceInv, VigilInv, NEW c \in Consumers, ConsumerStep(c)
  PROVE  VigilInv'
<1>1. /\ UNCHANGED <<link, hand, wire, server, madeFor, recoveryVars, sub>>
      /\ asking \subseteq asking'
      /\ pc[c] # "done"
      /\ \E where \in {"asking", "polling", "handling", "ending", "done"} : pc' = [pc EXCEPT ![c] = where]
  BY DEF ConsumerStep, Ask, Open, Take, Handled, Finish, PollRaises, Quit, GoTo, nodeVars, consumerVars
<1>2. \A d \in Consumers : /\ pc[d] = "done" => pc'[d] = "done"
                           /\ d # c => pc'[d] = pc[d]
                           /\ pc'[d] = "answered" => pc[d] = "answered"
  BY <1>1, Types
<1>3. ClaimInv' /\ LiveInv'
  BY <1>1, <1>2, LiveKept DEF VigilInv, ClaimInv, SourceInv, Sent, recoveryVars
<1>4. CASE Ask(c) \/ Handled(c) \/ Quit(c)
  <2>1. UNCHANGED <<leaving, mapVars>> /\ (Polling(c)' => Polling(c))
    BY <1>4, Types DEF Ask, Handled, Quit, GoTo, nodeVars, Polling
  <2>2. \A d \in Recoverable : Polling(d)' => Polling(d)
    BY <1>2, <2>1, SubscriptionsAssumption DEF Polling
  <2>3. HeardInv' /\ TrackedInv'
    BY <1>1, <2>1, <2>2, HeardKept DEF VigilInv, mapVars, recoveryVars
  <2>4. EndInv'
    BY <1>1, <1>2, <2>1, EndKept DEF VigilInv, SourceInv, EndInv
  <2>. QED BY <1>3, <2>3, <2>4 DEF VigilInv
<1>5. CASE Open(c)
  <2>1. /\ UNCHANGED <<leaving, aliasOf, queue, orphaned>> /\ pc[c] = "answered"
        /\ received \subseteq received' /\ recoverers \subseteq recoverers'
        /\ c \in Recoverable => sub[c] \in received' /\ sub[c] \in recoverers'
    BY <1>5 DEF Open, nodeVars
  <2>2. EndInv'
    BY <1>1, <1>2, <2>1, EndKept DEF VigilInv, SourceInv, EndInv
  <2>3. \A d \in Recoverable : d # c /\ Polling(d)' => Polling(d)
    BY <1>2, SubscriptionsAssumption DEF Polling
  <2>4. TrackedInv'
    BY <1>1, <2>1, <2>3 DEF VigilInv, TrackedInv
  <2>5. HeardInv'
    <3>. SUFFICES ASSUME hand = "pumping", link = "open", NEW d \in Recoverable, Polling(d)'
                  PROVE  Hears(sub[d])'
      BY <1>1 DEF HeardInv
    <3>1. CASE d = c
      BY <1>1, <2>1, <3>1 DEF VigilInv, LiveInv, Hears
    <3>2. CASE d # c
      BY <1>1, <2>1, <2>3, <3>2 DEF VigilInv, HeardInv, Hears, recoveryVars
    <3>. QED BY <3>1, <3>2
  <2>. QED BY <1>3, <2>2, <2>4, <2>5 DEF VigilInv
<1>6. CASE Take(c) \/ Finish(c) \/ PollRaises(c)
  <2>1. pc[c] = "asking" \/ (sub[c] \in Subs /\ sub[c] # 0 /\ madeFor[sub[c]] = c)
    BY <1>6, Types DEF Take, Finish, PollRaises
  <2>2. queue \in [Subs -> Seq(Frames)] /\ aliasOf \in [Subs -> Subs \cup {0}]
    BY DEF IInv, TypeOK, MapTypeOK
  <2>3. /\ \A r \in Subs : r # sub[c] => queue'[r] = queue[r] /\ aliasOf'[r] = aliasOf[r]
        /\ received \ {sub[c]} \subseteq received' /\ recoverers \ {sub[c]} \subseteq recoverers'
        /\ orphaned \ {sub[c]} \subseteq orphaned'
    <3>1. CASE Take(c)
      BY <2>2, <3>1 DEF Take
    <3>2. CASE Finish(c)
      BY <2>2, <3>2 DEF Finish
    <3>3. CASE PollRaises(c)
      BY <3>3 DEF PollRaises
    <3>. QED BY <1>6, <3>1, <3>2, <3>3
  <2>4. ASSUME NEW d \in Recoverable, d # c, Polling(d)'
        PROVE  Polling(d) /\ sub[d] \in Subs /\ (sub[d] # sub[c] \/ pc[c] = "asking")
    <3>1. Polling(d)
      BY <1>2, <2>4, SubscriptionsAssumption DEF Polling
    <3>. QED BY <2>1, <2>4, <3>1, PolledIs
  <2>5. pc[c] = "asking" => UNCHANGED <<queue, aliasOf, received, recoverers, orphaned>>
    BY <1>6, Types DEF Take, Finish, PollRaises
  <2>6. Polling(c)' => /\ pc[c] = "polling" /\ UNCHANGED <<aliasOf, received, recoverers, orphaned>>
                       /\ Closes(queue[sub[c]]) => Closes(queue'[sub[c]])
    <3>1. CASE Take(c)
      <4>. DEFINE q == queue[sub[c]]
      <4>1. /\ pc[c] = "polling" /\ UNCHANGED <<aliasOf, received, recoverers, orphaned>>
            /\ q \in Seq(Frames) /\ q # <<>> /\ queue'[sub[c]] = Tail(q)
        BY <2>1, <2>2, <3>1 DEF Take
      <4>2. Polling(c)' => Head(q).no # 0
        BY <3>1, Types DEF Take, GoTo, Polling
      <4>. HIDE DEF q
      <4>3. Polling(c)' /\ Closes(q) => Closes(queue'[sub[c]])
        BY <4>1, <4>2, ClosesTail
      <4>. QED BY <4>1, <4>3 DEF q
    <3>2. CASE Finish(c) \/ PollRaises(c)
      BY <3>2, Types DEF Finish, PollRaises, GoTo, Polling
    <3>. QED BY <1>6, <3>1, <3>2
  <2>7. EndInv'
    <3>1. CASE Finish(c)
      <4>. DEFINE n == IF aliasOf[sub[c]] # 0 THEN aliasOf[sub[c]] ELSE sub[c]
      <4>1. /\ leaving' = leaving \cup ({n} \cap server) /\ pc'[c] = "done"
            /\ sub[c] \in Subs /\ sub[c] # 0 /\ madeFor[sub[c]] = c
        BY <3>1, Types DEF Finish, GoTo
      <4>2. Root(n) = c
        BY <4>1, RootsAre DEF SourceInv
      <4>. HIDE DEF n
      <4>3. \A s \in leaving : Root(s) \in Consumers
        BY RootsAre DEF VigilInv, EndInv, Fed, SourceInv
      <4>4. \A s \in leaving' : s \in server /\ pc'[Root(s)] = "done"
        BY <1>2, <4>1, <4>2, <4>3 DEF VigilInv, EndInv
      <4>5. \A s \in leaving' : Root(s)' = Root(s)
        BY <1>1 DEF Root
      <4>. QED BY <1>1, <4>4, <4>5 DEF EndInv
    <3>2. CASE Take(c) \/ PollRaises(c)
      <4>1. leaving' = leaving
        BY <3>2 DEF Take, PollRaises, nodeVars
      <4>. QED BY <1>1, <1>2, <4>1, EndKept DEF VigilInv, SourceInv, EndInv
    <3>. QED BY <1>6, <3>1, <3>2
  <2>8. TrackedInv'
    <3>. SUFFICES ASSUME NEW d \in Recoverable, Polling(d)'
                  PROVE  sub[d] \in recoverers' /\ sub[d] \in received'
      BY <1>1 DEF TrackedInv
    <3>1. CASE d = c
      BY <2>6, <3>1 DEF VigilInv, TrackedInv, Polling
    <3>2. CASE d # c
      BY <2>3, <2>4, <2>5, <3>2 DEF VigilInv, TrackedInv
    <3>. QED BY <3>1, <3>2
  <2>9. HeardInv'
    <3>. SUFFICES ASSUME hand = "pumping", link = "open", NEW d \in Recoverable, Polling(d)'
                  PROVE  Hears(sub[d])'
      BY <1>1 DEF HeardInv
    <3>1. CASE d = c
      <4>1. Hears(sub[c])
        BY <2>6, <3>1 DEF VigilInv, HeardInv, Polling
      <4>. QED BY <1>1, <2>6, <3>1, <4>1 DEF Hears, recoveryVars
    <3>2. CASE d # c
      <4>1. Polling(d) /\ sub[d] \in Subs /\ Hears(sub[d])
        BY <2>4, <3>2 DEF VigilInv, HeardInv
      <4>2. /\ queue'[sub[d]] = queue[sub[d]] /\ aliasOf'[sub[d]] = aliasOf[sub[d]]
            /\ sub[d] \in recoverers => sub[d] \in recoverers'
            /\ sub[d] \in orphaned => sub[d] \in orphaned'
        BY <2>3, <2>4, <2>5, <3>2
      <4>. QED BY <1>1, <4>1, <4>2 DEF Hears, recoveryVars
    <3>. QED BY <3>1, <3>2
  <2>. QED BY <1>3, <2>7, <2>8, <2>9 DEF VigilInv
<1>. QED BY <1>4, <1>5, <1>6 DEF ConsumerStep

LEMMA NextVigil ==
  ASSUME IInv, SourceInv, VigilInv, [Next]_vars
  PROVE  VigilInv'
<1>1. CASE \E c \in Consumers : ConsumerStep(c)
  BY <1>1, ConsumerVigil
<1>2. CASE HandlerStep
  BY <1>2, DispatchVigil, HandlerVigil, ConnectedVigil DEF HandlerStep
<1>3. CASE StartRecovery
  BY <1>3, StartRecoveryVigil
<1>4. CASE \E s \in Subs : Returned(s) \/ Recovered(s) \/ Settled(s)
  BY <1>4, ReturnedVigil, RecoveredVigil, SettledVigil
<1>5. CASE \E a \in Askers : NodeSubscribes(a)
  BY <1>5, NodeSubscribesVigil
<1>6. CASE ConnLost \/ \E s \in Subs : NodeNotifies(s) \/ NodeUnsubscribes(s)
  BY <1>6, NodeVigil
<1>7. CASE UNCHANGED vars
  <2>1. UNCHANGED <<link, hand, wire, server, madeFor, asking, leaving, mapVars, recoveryVars, pc, sub>>
    BY <1>7 DEF vars, nodeVars, consumerVars
  <2>2. ClaimInv' /\ EndInv' /\ LiveInv'
    BY <2>1 DEF VigilInv, ClaimInv, EndInv, LiveInv, Root, Sent, recoveryVars
  <2>3. TrackedInv' /\ HeardInv'
    BY <2>1, HeardKept DEF VigilInv, Polling, mapVars, recoveryVars
  <2>. QED BY <2>2, <2>3 DEF VigilInv
<1>. QED BY <1>1, <1>2, <1>3, <1>4, <1>5, <1>6, <1>7 DEF Next

\* A consumer with a recoverer never polls in silence while the connection is up,
\* however often it was lost and whichever way the recoveries went: it is fed, or
\* being recovered, or a message or an error that ends it waits for it.
THEOREM NobodySilent == Spec => []RecoverableHeard
<1>1. Init => SourceInv /\ VigilInv
  BY InitSource, InitVigil
<1>2. IInv /\ SourceInv /\ VigilInv /\ [Next]_vars => SourceInv' /\ VigilInv'
  BY NextSource, NextVigil
<1>3. VigilInv => RecoverableHeard
  BY DEF VigilInv, HeardInv, Hears, Closes, RecoverableHeard, Heard, Polling
<1>. QED BY <1>1, <1>2, <1>3, Invariant, PTL DEF Spec

-----------------------------------------------------------------------------
(* Notifications in order.                                                 *)

Frame(n, k) == [sub |-> n, no |-> k]
Numbered == [sub : Nat, no : Nat]

Earlier(f, g) == f.sub < g.sub \/ (f.sub = g.sub /\ f.no < g.no)
Prev(f, g) == f.sub = g.sub /\ f.no + 1 = g.no

\* f can come next on q, of which x was the last notification taken.
Ready(x, q, f) ==
  /\ Earlier(x, f)
  /\ \A i \in DOMAIN q : q[i].no # 0 => Earlier(q[i], f)
  /\ f.no = 1 \/ Prev(x, f) \/ \E i \in DOMAIN q : Prev(q[i], f)

\* Every notification on q comes after the one before it.
Chain(x, q) ==
  \A j \in DOMAIN q : q[j].no # 0 =>
    /\ Earlier(x, q[j])
    /\ \A i \in DOMAIN q : i < j /\ q[i].no # 0 => Earlier(q[i], q[j])
    /\ q[j].no = 1 \/ Prev(x, q[j]) \/ \E i \in DOMAIN q : i < j /\ Prev(q[i], q[j])

\* All notifications on q are of subscriptions in S.
Within(q, S) == \A i \in DOMAIN q : q[i].no # 0 => q[i].sub \in S

LEMMA Orders ==
  ASSUME NEW f \in Numbered, NEW g \in Numbered
  PROVE  /\ Prev(f, g) => Earlier(f, g) /\ g.no # 0
         /\ g.no # 1 /\ Prev(f, g) => f.no # 0
         /\ f.sub < g.sub => Earlier(f, g)
         /\ f.no \in Nat /\ f.sub \in Nat
         /\ \A h \in Numbered : Earlier(f, g) /\ Earlier(g, h) => Earlier(f, h) /\ ~Prev(f, h)
BY DEF Earlier, Prev, Numbered

LEMMA Places ==
  ASSUME NEW q \in Seq(Numbered)
  PROVE  /\ Len(q) \in Nat /\ DOMAIN q = 1 .. Len(q)
         /\ \A i \in DOMAIN q : i \in Nat /\ q[i] \in Numbered
BY LenProperties, ElementOfSeq

LEMMA ChainEmpty ==
  ASSUME NEW x \in Numbered, NEW n \in Nat, x.sub < n
  PROVE  Chain(x, <<>>) /\ Ready(x, <<>>, Frame(n, 1))
<1>1. DOMAIN <<>> = {}
  OBVIOUS
<1>2. Frame(n, 1).no = 1 /\ Earlier(x, Frame(n, 1))
  BY DEF Frame, Earlier
<1>. QED BY <1>1, <1>2 DEF Chain, Ready

LEMMA ChainAppend ==
  ASSUME NEW x \in Numbered, NEW q \in Seq(Numbered), NEW f \in Numbered,
         Chain(x, q), f.no = 0 \/ Ready(x, q, f)
  PROVE  Chain(x, Append(q, f))
<1>. DEFINE n == Len(q)
            t == Append(q, f)
<1>1. /\ n \in Nat /\ DOMAIN q = 1 .. n /\ DOMAIN t = 1 .. n + 1
      /\ \A i \in 1 .. n : t[i] = q[i]
      /\ t[n + 1] = f
  BY AppendProperties, LenProperties
<1>. HIDE DEF n, t
<1>2. \A i \in 1 .. n + 1 : i \in 1 .. n \/ i = n + 1
  BY <1>1
<1>3. \A i \in 1 .. n : i \in 1 .. n + 1 /\ i < n + 1 /\ ~(n + 1 < i)
  BY <1>1
<1>4. ~(n + 1 < n + 1) /\ n + 1 \in 1 .. n + 1
  BY <1>1
<1>5. ASSUME NEW j \in 1 .. n + 1, t[j].no # 0
      PROVE  /\ Earlier(x, t[j])
             /\ \A i \in 1 .. n + 1 : i < j /\ t[i].no # 0 => Earlier(t[i], t[j])
             /\ t[j].no = 1 \/ Prev(x, t[j]) \/ \E i \in 1 .. n + 1 : i < j /\ Prev(t[i], t[j])
  <2>1. CASE j \in 1 .. n
    BY <1>1, <1>2, <1>3, <1>5, <2>1 DEF Chain
  <2>2. CASE j = n + 1
    BY <1>1, <1>2, <1>3, <1>4, <1>5, <2>2 DEF Ready
  <2>. QED BY <1>2, <2>1, <2>2
<1>6. Chain(x, t)
  BY <1>1, <1>5 DEF Chain
<1>. QED BY <1>6 DEF t

LEMMA ReadyAppend ==
  ASSUME NEW x \in Numbered, NEW q \in Seq(Numbered), NEW f \in Numbered,
         f.no # 0, Ready(x, q, f)
  PROVE  Ready(x, Append(q, f), Frame(f.sub, f.no + 1))
<1>. DEFINE n == Len(q)
            t == Append(q, f)
            h == Frame(f.sub, f.no + 1)
<1>1. /\ n \in Nat /\ DOMAIN q = 1 .. n /\ DOMAIN t = 1 .. n + 1
      /\ \A i \in 1 .. n : t[i] = q[i]
      /\ t[n + 1] = f
  BY AppendProperties, LenProperties
<1>2. h \in Numbered /\ Prev(f, h) /\ Earlier(f, h)
  BY DEF Numbered, Frame, Prev, Earlier
<1>. HIDE DEF n, t, h
<1>3. \A i \in 1 .. n + 1 : i \in 1 .. n \/ i = n + 1
  BY <1>1
<1>4. (1 .. n) \subseteq 1 .. n + 1 /\ n + 1 \in 1 .. n + 1
  BY <1>1
<1>5. Earlier(x, h)
  BY <1>2, Orders DEF Ready
<1>6. ASSUME NEW i \in 1 .. n, q[i].no # 0 PROVE Earlier(q[i], h)
  <2>1. q[i] \in Numbered
    BY <1>1, Places
  <2>2. Earlier(q[i], f)
    BY <1>1, <1>6 DEF Ready
  <2>. QED BY <1>2, <2>1, <2>2, Orders
<1>7. Ready(x, t, h)
  BY <1>1, <1>2, <1>3, <1>4, <1>5, <1>6 DEF Ready
<1>. QED BY <1>7 DEF t, h

LEMMA ChainTail ==
  ASSUME NEW x \in Numbered, NEW q \in Seq(Numbered), q # <<>>, Head(q).no # 0, Chain(x, q)
  PROVE  /\ Chain(Head(q), Tail(q))
         /\ \A g \in Numbered : Ready(x, q, g) => Ready(Head(q), Tail(q), g)
<1>. DEFINE n == Len(q)
            t == Tail(q)
            h == Head(q)
<1>1. /\ n \in Nat /\ n # 0 /\ DOMAIN q = 1 .. n /\ DOMAIN t = 1 .. n - 1
      /\ \A i \in 1 .. n - 1 : t[i] = q[i + 1]
      /\ h = q[1]
  BY HeadTailProperties, LenProperties, EmptySeq
<1>2. \A i \in 1 .. n : q[i] \in Numbered
  BY <1>1, Places
<1>. HIDE DEF n, t, h
<1>3. 1 \in 1 .. n /\ h \in Numbered /\ h.no # 0
  BY <1>1, <1>2 DEF h
<1>4. \A i \in 1 .. n - 1 : i + 1 \in 1 .. n /\ 1 < i + 1
  BY <1>1
<1>5. \A i, j \in 1 .. n - 1 : i < j <=> i + 1 < j + 1
  BY <1>1
<1>6. \A i \in 1 .. n : i = 1 \/ (i - 1 \in 1 .. n - 1 /\ (i - 1) + 1 = i)
  BY <1>1
<1>7. Earlier(x, h)
  BY <1>1, <1>3 DEF Chain
<1>8. ASSUME NEW g \in Numbered, Ready(x, q, g) PROVE Ready(h, t, g)
  <2>1. Earlier(h, g)
    BY <1>1, <1>3, <1>8 DEF Ready
  <2>2. \A i \in 1 .. n - 1 : t[i].no # 0 => Earlier(t[i], g)
    BY <1>1, <1>4, <1>8 DEF Ready
  <2>3. ~Prev(x, g)
    BY <1>3, <1>7, <2>1, Orders
  <2>4. ASSUME NEW i \in 1 .. n, Prev(q[i], g)
        PROVE  Prev(h, g) \/ \E k \in 1 .. n - 1 : Prev(t[k], g)
    <3>1. CASE i = 1
      BY <1>1, <2>4, <3>1
    <3>2. CASE i # 1
      BY <1>1, <1>6, <2>4, <3>2
    <3>. QED BY <3>1, <3>2
  <2>. QED BY <1>1, <1>8, <2>1, <2>2, <2>3, <2>4 DEF Ready
<1>9. ASSUME NEW j \in 1 .. n - 1, t[j].no # 0
      PROVE  /\ Earlier(h, t[j])
             /\ \A i \in 1 .. n - 1 : i < j /\ t[i].no # 0 => Earlier(t[i], t[j])
             /\ t[j].no = 1 \/ Prev(h, t[j]) \/ \E i \in 1 .. n - 1 : i < j /\ Prev(t[i], t[j])
  <2>. DEFINE m == j + 1
  <2>1. m \in 1 .. n /\ 1 < m /\ q[m] = t[j] /\ q[m].no # 0 /\ q[m] \in Numbered
    BY <1>1, <1>2, <1>4, <1>9
  <2>2. \A i \in 1 .. n - 1 : i < j <=> i + 1 < m
    BY <1>5
  <2>. HIDE DEF m
  <2>3. Earlier(h, q[m])
    BY <1>1, <1>3, <2>1 DEF Chain
  <2>4. \A i \in 1 .. n - 1 : i < j /\ t[i].no # 0 => Earlier(t[i], q[m])
    BY <1>1, <1>4, <2>1, <2>2 DEF Chain
  <2>5. ~Prev(x, q[m])
    BY <1>3, <1>7, <2>1, <2>3, Orders
  <2>6. ASSUME NEW i \in 1 .. n, i < m, Prev(q[i], q[m])
        PROVE  Prev(h, q[m]) \/ \E k \in 1 .. n - 1 : k < j /\ Prev(t[k], q[m])
    <3>1. CASE i = 1
      BY <1>1, <2>6, <3>1
    <3>2. CASE i # 1
      <4>1. i - 1 \in 1 .. n - 1 /\ (i - 1) + 1 = i
        BY <1>6, <3>2
      <4>2. i - 1 < j /\ t[i - 1] = q[i]
        BY <1>1, <2>2, <2>6, <4>1
      <4>. QED BY <2>6, <4>1, <4>2
    <3>. QED BY <3>1, <3>2
  <2>7. q[m].no = 1 \/ Prev(x, q[m]) \/ \E i \in 1 .. n : i < m /\ Prev(q[i], q[m])
    BY <1>1, <2>1 DEF Chain
  <2>. QED BY <2>1, <2>3, <2>4, <2>5, <2>6, <2>7
<1>10. Chain(h, t)
  BY <1>1, <1>9 DEF Chain
<1>. QED BY <1>8, <1>10 DEF h, t

LEMMA WithinAppend ==
  ASSUME NEW q \in Seq(Numbered), NEW f \in Numbered, NEW S, Within(q, S), f.no # 0 => f.sub \in S
  PROVE  Within(Append(q, f), S)
<1>. DEFINE n == Len(q)
            t == Append(q, f)
<1>1. /\ n \in Nat /\ DOMAIN q = 1 .. n /\ DOMAIN t = 1 .. n + 1
      /\ \A i \in 1 .. n : t[i] = q[i]
      /\ t[n + 1] = f
  BY AppendProperties, LenProperties
<1>. HIDE DEF n, t
<1>2. \A i \in 1 .. n + 1 : i \in 1 .. n \/ i = n + 1
  BY <1>1
<1>3. Within(t, S)
  BY <1>1, <1>2 DEF Within
<1>. QED BY <1>3 DEF t

LEMMA WithinTail ==
  ASSUME NEW q \in Seq(Numbered), q # <<>>, NEW S, Within(q, S)
  PROVE  Within(Tail(q), S) /\ (Head(q).no # 0 => Head(q).sub \in S) /\ Head(q) \in Numbered
<1>. DEFINE n == Len(q)
            t == Tail(q)
            h == Head(q)
<1>1. /\ n \in Nat /\ n # 0 /\ DOMAIN q = 1 .. n /\ DOMAIN t = 1 .. n - 1
      /\ \A i \in 1 .. n - 1 : t[i] = q[i + 1]
      /\ h = q[1] /\ h \in Numbered
  BY HeadTailProperties, LenProperties, EmptySeq
<1>. HIDE DEF n, t, h
<1>2. 1 \in 1 .. n /\ \A i \in 1 .. n - 1 : i + 1 \in 1 .. n
  BY <1>1
<1>3. Within(t, S) /\ (h.no # 0 => h.sub \in S)
  BY <1>1, <1>2 DEF Within
<1>. QED BY <1>1, <1>3 DEF t, h

LEMMA WithinConcat ==
  ASSUME NEW q \in Seq(Numbered), NEW r \in Seq(Numbered), NEW S, Within(q, S), Within(r, S)
  PROVE  Within(q \o r, S)
<1>. DEFINE a == Len(q)
            b == Len(r)
            t == q \o r
<1>1. /\ a \in Nat /\ b \in Nat /\ DOMAIN q = 1 .. a /\ DOMAIN r = 1 .. b /\ DOMAIN t = 1 .. a + b
      /\ \A i \in 1 .. a : t[i] = q[i]
      /\ \A i \in a + 1 .. a + b : t[i] = r[i - a]
  BY ConcatProperties, LenProperties
<1>. HIDE DEF a, b, t
<1>2. \A i \in 1 .. a + b : i \in 1 .. a \/ (i \in a + 1 .. a + b /\ i - a \in 1 .. b)
  BY <1>1
<1>3. Within(t, S)
  BY <1>1, <1>2 DEF Within
<1>. QED BY <1>3 DEF t

\* What came under a new alias goes behind what came before.
LEMMA ChainConcat ==
  ASSUME NEW x \in Numbered, NEW q \in Seq(Numbered), NEW r \in Seq(Numbered), NEW n \in Nat, n # 0,
         x.sub < n, Within(q, 0 .. n - 1), Within(r, {n}), Chain(x, q), Chain(Nothing, r)
  PROVE  /\ Chain(x, q \o r)
         /\ \A g \in Numbered : g.sub = n /\ Ready(Nothing, r, g) => Ready(x, q \o r, g)
<1>. DEFINE a == Len(q)
            b == Len(r)
            t == q \o r
<1>1. /\ a \in Nat /\ b \in Nat /\ DOMAIN q = 1 .. a /\ DOMAIN r = 1 .. b /\ DOMAIN t = 1 .. a + b
      /\ \A i \in 1 .. a : t[i] = q[i]
      /\ \A i \in a + 1 .. a + b : t[i] = r[i - a]
  BY ConcatProperties, LenProperties
<1>2. (\A i \in 1 .. a : q[i] \in Numbered) /\ (\A i \in 1 .. b : r[i] \in Numbered)
  BY <1>1, Places
<1>. HIDE DEF a, b, t
<1>3. \A i \in 1 .. b : a + i \in 1 .. a + b /\ t[a + i] = r[i]
  <2>1. \A i \in 1 .. b : a + i \in a + 1 .. a + b /\ a + i \in 1 .. a + b /\ (a + i) - a = i
    BY <1>1
  <2>. QED BY <1>1, <2>1
<1>4. \A i \in 1 .. a + b : i \in 1 .. a \/ \E k \in 1 .. b : i = a + k
  <2>1. ASSUME NEW i \in 1 .. a + b, i \notin 1 .. a PROVE i - a \in 1 .. b /\ i = a + (i - a)
    BY <1>1, <2>1
  <2>. QED BY <2>1
<1>5. \A i \in 1 .. a : i \in 1 .. a + b /\ \A k \in 1 .. b : i < a + k /\ ~(a + k < i)
  BY <1>1
<1>6. \A i, k \in 1 .. b : a + i < a + k <=> i < k
  BY <1>1
<1>7. \A g \in Numbered : ~Prev(Nothing, g) \/ g.sub # n
  BY DEF Prev, Nothing, Numbered
<1>8. \A i \in 1 .. a, g \in Numbered : q[i].no # 0 /\ g.sub = n => Earlier(q[i], g)
  <2>1. \A i \in 1 .. a : q[i].no # 0 => q[i].sub \in 0 .. n - 1
    BY <1>1 DEF Within
  <2>2. \A i \in 1 .. a : q[i].no # 0 => q[i].sub < n
    BY <2>1
  <2>. QED BY <1>2, <2>2, Orders
<1>9. \A g \in Numbered : g.sub = n => Earlier(x, g)
  BY Orders
<1>10. ASSUME NEW g \in Numbered, g.sub = n, Ready(Nothing, r, g) PROVE Ready(x, t, g)
  <2>1. ASSUME NEW i \in 1 .. a + b, t[i].no # 0 PROVE Earlier(t[i], g)
    <3>1. CASE i \in 1 .. a
      BY <1>1, <1>8, <1>10, <2>1, <3>1
    <3>2. ASSUME NEW k \in 1 .. b, i = a + k PROVE Earlier(t[i], g)
      <4>1. t[i] = r[k]
        BY <1>3, <3>2
      <4>. QED BY <1>1, <1>10, <2>1, <4>1 DEF Ready
    <3>. QED BY <1>4, <3>1, <3>2
  <2>2. g.no = 1 \/ \E i \in 1 .. a + b : Prev(t[i], g)
    BY <1>1, <1>3, <1>7, <1>10 DEF Ready
  <2>. QED BY <1>1, <1>9, <1>10, <2>1, <2>2 DEF Ready
<1>11. ASSUME NEW j \in 1 .. a + b, t[j].no # 0
       PROVE  /\ Earlier(x, t[j])
              /\ \A i \in 1 .. a + b : i < j /\ t[i].no # 0 => Earlier(t[i], t[j])
              /\ t[j].no = 1 \/ Prev(x, t[j]) \/ \E i \in 1 .. a + b : i < j /\ Prev(t[i], t[j])
  <2>1. CASE j \in 1 .. a
    <3>1. t[j] = q[j] /\ q[j].no # 0
      BY <1>1, <1>11, <2>1
    <3>2. \A i \in 1 .. a + b : i < j => i \in 1 .. a
      BY <1>4, <1>5, <2>1
    <3>. QED BY <1>1, <1>5, <2>1, <3>1, <3>2 DEF Chain
  <2>2. ASSUME NEW k \in 1 .. b, j = a + k
        PROVE  /\ Earlier(x, t[j])
               /\ \A i \in 1 .. a + b : i < j /\ t[i].no # 0 => Earlier(t[i], t[j])
               /\ t[j].no = 1 \/ Prev(x, t[j]) \/ \E i \in 1 .. a + b : i < j /\ Prev(t[i], t[j])
    <3>1. t[j] = r[k] /\ r[k].no # 0 /\ r[k] \in Numbered /\ r[k].sub = n
      BY <1>1, <1>2, <1>3, <1>11, <2>2 DEF Within
    <3>2. ASSUME NEW i \in 1 .. a + b, i < j, t[i].no # 0 PROVE Earlier(t[i], r[k])
      <4>1. CASE i \in 1 .. a
        BY <1>1, <1>8, <3>1, <3>2, <4>1
      <4>2. ASSUME NEW m \in 1 .. b, i = a + m PROVE Earlier(t[i], r[k])
        <5>1. m < k /\ t[i] = r[m]
          BY <1>3, <1>6, <2>2, <3>2, <4>2
        <5>. QED BY <1>1, <3>1, <3>2, <5>1 DEF Chain
      <4>. QED BY <1>4, <4>1, <4>2
    <3>3. r[k].no = 1 \/ \E m \in 1 .. b : m < k /\ Prev(r[m], r[k])
      BY <1>1, <1>7, <3>1 DEF Chain
    <3>4. \A m \in 1 .. b : m < k => a + m \in 1 .. a + b /\ a + m < j /\ t[a + m] = r[m]
      BY <1>3, <1>6, <2>2
    <3>. QED BY <1>9, <3>1, <3>2, <3>3, <3>4
  <2>. QED BY <1>4, <2>1, <2>2
<1>12. Chain(x, t)
  BY <1>1, <1>11 DEF Chain
<1>. QED BY <1>10, <1>12 DEF t

\* A chain is in order: between two notifications that follow each other none is
\* left out.
LEMMA ChainOrdered ==
  ASSUME NEW x \in Numbered, NEW q \in Seq(Numbered), Chain(x, q), x.no = 0 => x.sub = 0,
         \A i \in DOMAIN q : q[i].sub # 0,
         NEW i \in 1 .. Len(<<x>> \o q), NEW j \in 1 .. Len(<<x>> \o q), i < j,
         i = 1 \/ (<<x>> \o q)[i].no # 0, (<<x>> \o q)[j].no # 0,
         \A k \in i + 1 .. j - 1 : (<<x>> \o q)[k].no = 0
  PROVE  Follows((<<x>> \o q)[i], (<<x>> \o q)[j])
<1>. DEFINE n == Len(q)
            t == <<x>> \o q
<1>1. /\ n \in Nat /\ DOMAIN q = 1 .. n /\ Len(t) = n + 1
      /\ t[1] = x
      /\ \A k \in 1 .. n : t[k + 1] = q[k]
  <2>1. <<x>> \in Seq(Numbered) /\ Len(<<x>>) = 1 /\ <<x>>[1] = x /\ n \in Nat /\ DOMAIN q = 1 .. n
    BY LenProperties
  <2>2. /\ Len(t) = 1 + n
        /\ \A k \in 1 .. 1 : t[k] = <<x>>[k]
        /\ \A k \in 1 + 1 .. 1 + n : t[k] = q[k - 1]
    BY <2>1, ConcatProperties
  <2>3. \A k \in 1 .. n : k + 1 \in 1 + 1 .. 1 + n /\ (k + 1) - 1 = k
    BY <2>1
  <2>. QED BY <2>1, <2>2, <2>3
<1>. HIDE DEF n, t
<1>2. /\ i \in 1 .. n + 1 /\ j \in 1 .. n + 1 /\ i < j
      /\ i = 1 \/ t[i].no # 0
      /\ t[j].no # 0
      /\ \A k \in i + 1 .. j - 1 : t[k].no = 0
  BY <1>1 DEF t
<1>3. PICK m \in 1 .. n : j = m + 1
  <2>1. j - 1 \in 1 .. n /\ j = (j - 1) + 1
    BY <1>1, <1>2
  <2>. QED BY <2>1
<1>4. \A k \in 1 .. n : q[k] \in Numbered /\ q[k].sub # 0
  BY <1>1, Places
<1>. DEFINE f == t[i]
            g == q[m]
<1>5. t[j] = g /\ g.no # 0 /\ g \in Numbered /\ g.sub # 0
  BY <1>1, <1>2, <1>3, <1>4
<1>6. \A k \in 1 .. n : i < k + 1 /\ k < m => q[k].no = 0
  <2>1. \A k \in 1 .. n : i < k + 1 /\ k < m => k + 1 \in i + 1 .. j - 1
    BY <1>1, <1>2, <1>3
  <2>2. \A k \in 1 .. n : i < k + 1 /\ k < m => t[k + 1].no = 0
    BY <1>2, <2>1
  <2>. QED BY <1>1, <2>2
<1>7. f = x \/ \E k \in 1 .. n : i = k + 1 /\ f = q[k] /\ f.no # 0 /\ k < m
  <2>1. CASE i = 1
    BY <1>1, <2>1
  <2>2. CASE i # 1
    <3>1. i - 1 \in 1 .. n /\ i = (i - 1) + 1 /\ i - 1 < m
      BY <1>1, <1>2, <1>3, <2>2
    <3>. QED BY <1>1, <1>2, <2>2, <3>1
  <2>. QED BY <2>1, <2>2
<1>8. f \in Numbered /\ Earlier(f, g)
  BY <1>1, <1>4, <1>5, <1>7 DEF Chain
<1>9. g.no = 1 \/ Prev(f, g)
  <2>. SUFFICES ASSUME g.no # 1 PROVE Prev(f, g)
    OBVIOUS
  <2>1. Prev(x, g) \/ \E k \in 1 .. n : k < m /\ Prev(q[k], g)
    BY <1>1, <1>5 DEF Chain
  <2>2. ASSUME Prev(x, g), f # x PROVE FALSE
    <3>1. Earlier(x, f)
      BY <1>1, <1>7, <2>2 DEF Chain
    <3>. QED BY <1>5, <1>8, <2>2, <3>1, Orders
  <2>3. ASSUME NEW k \in 1 .. n, k < m, Prev(q[k], g), f # q[k] PROVE FALSE
    <3>1. q[k].no # 0
      BY <1>4, <1>5, <2>3, Orders
    <3>2. ~(i < k + 1)
      BY <1>6, <2>3, <3>1
    <3>3. i # 1 /\ i # k + 1
      BY <1>1, <1>2, <2>3, <3>2
    <3>4. PICK p \in 1 .. n : i = p + 1 /\ f = q[p] /\ f.no # 0
      <4>1. i - 1 \in 1 .. n /\ i = (i - 1) + 1
        BY <1>1, <1>2, <3>3
      <4>. QED BY <1>1, <1>2, <3>3, <4>1
    <3>5. k < p
      BY <1>1, <3>2, <3>3, <3>4
    <3>6. Earlier(q[k], f)
      BY <1>1, <3>1, <3>4, <3>5 DEF Chain
    <3>. QED BY <1>4, <1>5, <1>8, <2>3, <3>6, Orders
  <2>. QED BY <2>1, <2>2, <2>3
<1>10. x.no = 0 => x.sub = 0
  OBVIOUS
<1>. HIDE DEF f, g
<1>11. Follows(f, g)
  <2>1. f.sub \in Nat /\ f.no \in Nat /\ g.sub \in Nat /\ g.no \in Nat
    BY <1>5, <1>8 DEF Numbered
  <2>2. CASE Prev(f, g)
    BY <2>2 DEF Follows, Prev
  <2>3. CASE g.no = 1
    BY <1>8, <2>1, <2>3 DEF Follows, Earlier
  <2>. QED BY <1>9, <2>2, <2>3
<1>. QED BY <1>5, <1>11 DEF t, f

-----------------------------------------------------------------------------
(* The frames of one subscription on the wire.                             *)

\* They are in a row, the first of them, if there is one, is number k.
Flow(w, n, k) ==
  /\ \A i, j \in DOMAIN w : w[i].sub = n /\ w[j].sub = n /\ i < j => w[i].no < w[j].no
  /\ \A j \in DOMAIN w : w[j].sub = n =>
       /\ k <= w[j].no
       /\ w[j].no = k \/ \E i \in DOMAIN w : i < j /\ Prev(w[i], w[j])

\* The last of them is number m.
Ends(w, n, k, m) ==
  /\ k <= m + 1
  /\ \A j \in DOMAIN w : w[j].sub = n => w[j].no <= m
  /\ m + 1 = k \/ \E i \in DOMAIN w : w[i].sub = n /\ w[i].no = m

LEMMA FlowAppend ==
  ASSUME NEW w \in Seq(Numbered), NEW f \in Numbered, NEW n \in Nat, NEW k \in Nat, NEW m \in Nat,
         Flow(w, n, k)
  PROVE  /\ f.sub # n => Flow(Append(w, f), n, k) /\ (Ends(w, n, k, m) => Ends(Append(w, f), n, k, m))
         /\ f.sub = n /\ f.no = m + 1 /\ Ends(w, n, k, m) =>
              Flow(Append(w, f), n, k) /\ Ends(Append(w, f), n, k, m + 1)
<1>. DEFINE l == Len(w)
            t == Append(w, f)
<1>1. /\ l \in Nat /\ DOMAIN w = 1 .. l /\ DOMAIN t = 1 .. l + 1
      /\ \A i \in 1 .. l : t[i] = w[i]
      /\ t[l + 1] = f
  BY AppendProperties, LenProperties
<1>2. \A i \in 1 .. l : w[i] \in Numbered
  BY <1>1, Places
<1>. HIDE DEF l, t
<1>3. \A i \in 1 .. l + 1 : i \in 1 .. l \/ i = l + 1
  BY <1>1
<1>4. /\ \A i \in 1 .. l : i \in 1 .. l + 1 /\ i < l + 1 /\ ~(l + 1 < i)
      /\ ~(l + 1 < l + 1) /\ l + 1 \in 1 .. l + 1
  BY <1>1
<1>5. ASSUME f.sub # n PROVE Flow(t, n, k)
  BY <1>1, <1>3, <1>4, <1>5 DEF Flow
<1>6. ASSUME f.sub # n, Ends(w, n, k, m) PROVE Ends(t, n, k, m)
  BY <1>1, <1>3, <1>4, <1>6 DEF Ends
<1>7. ASSUME f.sub = n, f.no = m + 1, Ends(w, n, k, m) PROVE Flow(t, n, k) /\ Ends(t, n, k, m + 1)
  <2>1. \A i \in 1 .. l : w[i].sub = n => w[i].no <= m /\ w[i].no < f.no
    BY <1>1, <1>2, <1>7 DEF Ends, Numbered
  <2>2. k <= f.no /\ k <= (m + 1) + 1 /\ \A i \in Nat : i <= m => i <= m + 1
    BY <1>7 DEF Ends
  <2>3. f.no = k \/ \E i \in 1 .. l : Prev(w[i], f)
    <3>1. m + 1 = k \/ \E i \in 1 .. l : w[i].sub = n /\ w[i].no = m
      BY <1>1, <1>7 DEF Ends
    <3>. QED BY <1>7, <3>1 DEF Prev
  <2>4. ASSUME NEW j \in 1 .. l + 1, t[j].sub = n
        PROVE  k <= t[j].no /\ (t[j].no = k \/ \E i \in 1 .. l + 1 : i < j /\ Prev(t[i], t[j]))
    <3>1. CASE j \in 1 .. l
      BY <1>1, <1>4, <2>4, <3>1 DEF Flow
    <3>2. CASE j = l + 1
      BY <1>1, <1>4, <2>2, <2>3, <3>2
    <3>. QED BY <1>3, <3>1, <3>2
  <2>5. ASSUME NEW i \in 1 .. l + 1, NEW j \in 1 .. l + 1, t[i].sub = n, t[j].sub = n, i < j
        PROVE  t[i].no < t[j].no
    <3>1. i \in 1 .. l
      BY <1>1, <2>5
    <3>2. CASE j \in 1 .. l
      BY <1>1, <2>5, <3>1, <3>2 DEF Flow
    <3>3. CASE j = l + 1
      BY <1>1, <2>1, <2>5, <3>1, <3>3
    <3>. QED BY <1>3, <3>2, <3>3
  <2>6. Flow(t, n, k)
    BY <1>1, <2>4, <2>5 DEF Flow
  <2>7. \A j \in 1 .. l + 1 : t[j].sub = n => t[j].no <= m + 1
    <3>1. \A i \in 1 .. l : w[i].no \in Nat
      BY <1>2 DEF Numbered
    <3>. QED BY <1>1, <1>3, <1>7, <2>1, <2>2, <3>1
  <2>8. t[l + 1].sub = n /\ t[l + 1].no = m + 1
    BY <1>1, <1>7
  <2>9. Ends(t, n, k, m + 1)
    BY <1>1, <1>4, <2>2, <2>7, <2>8 DEF Ends
  <2>. QED BY <2>6, <2>9
<1>. QED BY <1>5, <1>6, <1>7 DEF t

LEMMA FlowNew ==
  ASSUME NEW w \in Seq(Numbered), NEW n \in Nat, \A i \in DOMAIN w : w[i].sub # n
  PROVE  Flow(Append(w, Frame(n, 0)), n, 0) /\ Ends(Append(w, Frame(n, 0)), n, 0, 0)
<1>. DEFINE l == Len(w)
            t == Append(w, Frame(n, 0))
<1>1. /\ l \in Nat /\ DOMAIN w = 1 .. l /\ DOMAIN t = 1 .. l + 1
      /\ \A i \in 1 .. l : t[i] = w[i]
      /\ t[l + 1].sub = n /\ t[l + 1].no = 0
  <2>1. Frame(n, 0) \in Numbered /\ Frame(n, 0).sub = n /\ Frame(n, 0).no = 0
    BY DEF Frame, Numbered
  <2>. QED BY <2>1, AppendProperties, LenProperties
<1>. HIDE DEF l, t
<1>2. \A i \in 1 .. l + 1 : t[i].sub = n => i = l + 1
  <2>1. \A i \in 1 .. l + 1 : i \in 1 .. l \/ i = l + 1
    BY <1>1
  <2>. QED BY <1>1, <2>1
<1>3. ~(l + 1 < l + 1) /\ 0 <= 0 /\ 0 <= 0 + 1 /\ l + 1 \in 1 .. l + 1
  BY <1>1
<1>4. Flow(t, n, 0)
  BY <1>1, <1>2, <1>3 DEF Flow
<1>5. Ends(t, n, 0, 0)
  BY <1>1, <1>2, <1>3 DEF Ends
<1>. QED BY <1>4, <1>5 DEF t

LEMMA FlowTail ==
  ASSUME NEW w \in Seq(Numbered), w # <<>>, NEW n \in Nat, NEW k \in Nat, NEW m \in Nat, Flow(w, n, k)
  PROVE  /\ Head(w).sub # n =>
              Flow(Tail(w), n, k) /\ (Ends(w, n, k, m) => Ends(Tail(w), n, k, m))
         /\ Head(w).sub = n =>
              /\ Head(w).no = k /\ Flow(Tail(w), n, k + 1)
              /\ Ends(w, n, k, m) => Ends(Tail(w), n, k + 1, m)
<1>. DEFINE l == Len(w)
            t == Tail(w)
<1>1. /\ l \in Nat /\ l # 0 /\ DOMAIN w = 1 .. l /\ DOMAIN t = 1 .. l - 1
      /\ \A i \in 1 .. l - 1 : t[i] = w[i + 1]
      /\ Head(w) = w[1]
  BY HeadTailProperties, LenProperties, EmptySeq
<1>2. \A i \in 1 .. l : w[i] \in Numbered
  BY <1>1, Places
<1>. HIDE DEF l, t
<1>3. 1 \in 1 .. l /\ ~(1 < 1)
  BY <1>1
<1>4. \A i \in 1 .. l - 1 : i + 1 \in 1 .. l /\ 1 < i + 1
  BY <1>1
<1>5. \A i, j \in 1 .. l - 1 : i < j <=> i + 1 < j + 1
  BY <1>1
<1>6. \A i \in 1 .. l : i = 1 \/ \E p \in 1 .. l - 1 : i = p + 1
  <2>1. ASSUME NEW i \in 1 .. l, i # 1 PROVE i - 1 \in 1 .. l - 1 /\ i = (i - 1) + 1
    BY <1>1, <2>1
  <2>. QED BY <2>1
<1>7. ASSUME NEW i \in 1 .. l - 1, NEW j \in 1 .. l - 1, t[i].sub = n, t[j].sub = n, i < j
      PROVE  t[i].no < t[j].no
  <2>1. t[i] = w[i + 1] /\ t[j] = w[j + 1] /\ i + 1 \in 1 .. l /\ j + 1 \in 1 .. l /\ i + 1 < j + 1
    BY <1>1, <1>4, <1>5, <1>7
  <2>. QED BY <1>1, <1>7, <2>1 DEF Flow
<1>8. CASE w[1].sub # n
  <2>1. ASSUME NEW j \in 1 .. l - 1, t[j].sub = n
        PROVE  k <= t[j].no /\ (t[j].no = k \/ \E i \in 1 .. l - 1 : i < j /\ Prev(t[i], t[j]))
    <3>1. t[j] = w[j + 1] /\ j + 1 \in 1 .. l
      BY <1>1, <1>4
    <3>2. k <= w[j + 1].no /\ (w[j + 1].no = k \/ \E i \in 1 .. l : i < j + 1 /\ Prev(w[i], w[j + 1]))
      BY <1>1, <2>1, <3>1 DEF Flow
    <3>3. ASSUME NEW i \in 1 .. l, i < j + 1, Prev(w[i], w[j + 1])
          PROVE  \E p \in 1 .. l - 1 : p < j /\ Prev(t[p], t[j])
      <4>1. w[i].sub = n
        BY <2>1, <3>1, <3>3 DEF Prev
      <4>2. PICK p \in 1 .. l - 1 : i = p + 1
        BY <1>6, <1>8, <4>1
      <4>. QED BY <1>1, <1>5, <3>1, <3>3, <4>2
    <3>. QED BY <3>1, <3>2, <3>3
  <2>2. Flow(t, n, k)
    BY <1>1, <1>7, <2>1 DEF Flow
  <2>3. ASSUME Ends(w, n, k, m) PROVE Ends(t, n, k, m)
    <3>1. \A j \in 1 .. l - 1 : t[j].sub = n => t[j].no <= m
      BY <1>1, <1>4, <2>3 DEF Ends
    <3>2. m + 1 = k \/ \E i \in 1 .. l - 1 : t[i].sub = n /\ t[i].no = m
      <4>1. ASSUME NEW i \in 1 .. l, w[i].sub = n, w[i].no = m
            PROVE  \E p \in 1 .. l - 1 : t[p].sub = n /\ t[p].no = m
        <5>1. PICK p \in 1 .. l - 1 : i = p + 1
          BY <1>6, <1>8, <4>1
        <5>. QED BY <1>1, <4>1, <5>1
      <4>. QED BY <1>1, <2>3, <4>1 DEF Ends
    <3>3. k <= m + 1
      BY <2>3 DEF Ends
    <3>. QED BY <1>1, <3>1, <3>2, <3>3 DEF Ends
  <2>. QED BY <1>1, <1>8, <2>2, <2>3 DEF t
<1>9. CASE w[1].sub = n
  <2>1. w[1].no = k
    <3>1. \A i \in 1 .. l : ~(i < 1)
      OBVIOUS
    <3>. QED BY <1>1, <1>3, <1>9, <3>1 DEF Flow
  <2>2. \A j \in 1 .. l - 1 : t[j].sub = n => k < t[j].no /\ t[j].no \in Nat
    <3>1. \A j \in 1 .. l - 1 : t[j].sub = n => w[1].no < w[j + 1].no
      BY <1>1, <1>3, <1>4, <1>9 DEF Flow
    <3>2. \A j \in 1 .. l - 1 : t[j].no \in Nat
      BY <1>1, <1>2, <1>4 DEF Numbered
    <3>. QED BY <1>1, <2>1, <3>1, <3>2
  <2>3. ASSUME NEW j \in 1 .. l - 1, t[j].sub = n
        PROVE  k + 1 <= t[j].no /\ (t[j].no = k + 1 \/ \E i \in 1 .. l - 1 : i < j /\ Prev(t[i], t[j]))
    <3>1. t[j] = w[j + 1] /\ j + 1 \in 1 .. l /\ k < t[j].no /\ t[j].no \in Nat
      BY <1>1, <1>4, <2>2, <2>3
    <3>2. k + 1 <= t[j].no /\ t[j].no # k
      BY <3>1
    <3>3. PICK i \in 1 .. l : i < j + 1 /\ Prev(w[i], w[j + 1])
      BY <1>1, <2>3, <3>1, <3>2 DEF Flow
    <3>4. CASE i = 1
      BY <2>1, <3>1, <3>2, <3>3, <3>4 DEF Prev
    <3>5. ASSUME NEW p \in 1 .. l - 1, i = p + 1 PROVE p < j /\ Prev(t[p], t[j])
      BY <1>1, <1>5, <3>1, <3>3, <3>5
    <3>. QED BY <1>6, <3>2, <3>4, <3>5
  <2>4. Flow(t, n, k + 1)
    BY <1>1, <1>7, <2>3 DEF Flow
  <2>5. ASSUME Ends(w, n, k, m) PROVE Ends(t, n, k + 1, m)
    <3>1. \A j \in 1 .. l - 1 : t[j].sub = n => t[j].no <= m
      BY <1>1, <1>4, <2>5 DEF Ends
    <3>2. k <= m
      BY <1>1, <1>3, <1>9, <2>1, <2>5 DEF Ends
    <3>3. k + 1 <= m + 1 /\ m + 1 # k
      BY <3>2
    <3>4. PICK i \in 1 .. l : w[i].sub = n /\ w[i].no = m
      BY <1>1, <2>5, <3>3 DEF Ends
    <3>5. m + 1 = k + 1 \/ \E p \in 1 .. l - 1 : t[p].sub = n /\ t[p].no = m
      <4>1. CASE i = 1
        BY <2>1, <3>4, <4>1
      <4>2. ASSUME NEW p \in 1 .. l - 1, i = p + 1 PROVE t[p].sub = n /\ t[p].no = m
        BY <1>1, <3>4, <4>2
      <4>. QED BY <1>6, <4>1, <4>2
    <3>. QED BY <1>1, <3>1, <3>3, <3>5 DEF Ends
  <2>. QED BY <1>1, <1>9, <2>1, <2>4, <2>5 DEF t
<1>. QED BY <1>8, <1>9

LEMMA FlowPrefix ==
  ASSUME NEW w \in Seq(Numbered), NEW p \in 0 .. Len(w), NEW n, NEW k, Flow(w, n, k)
  PROVE  Flow(SubSeq(w, 1, p), n, k)
<1>. DEFINE l == Len(w)
            t == SubSeq(w, 1, p)
<1>1. l \in Nat /\ DOMAIN w = 1 .. l /\ p \in 0 .. l
  BY LenProperties
<1>2. DOMAIN t = 1 .. p /\ \A i \in 1 .. p : t[i] = w[i]
  OBVIOUS
<1>. HIDE DEF l, t
<1>3. \A i \in 1 .. p : i \in 1 .. l
  BY <1>1
<1>4. \A j \in 1 .. p, i \in 1 .. l : i < j => i \in 1 .. p
  BY <1>1
<1>5. Flow(t, n, k)
  BY <1>1, <1>2, <1>3, <1>4 DEF Flow
<1>. QED BY <1>5 DEF t

-----------------------------------------------------------------------------
(* Notifications in order: what holds of the queues and the consumers.     *)

\* The subscriptions whose notifications can be on the queue of s.
Group(s) == {n \in Subs : n = s \/ madeFor[n] = s}

\* Subscriptions are made in order, and before anything of them is sent.
MadeInv ==
  /\ \A r, s \in Subs : r < s /\ madeFor[s] # 0 => madeFor[r] # 0
  /\ \A r \in Subs : madeFor[r] = 0 => count[r] = 0 /\ queue[r] = <<>>
  /\ \A r \in Subs : Within(queue[r], Group(r))
  /\ \A c \in Consumers : last[c] = Nothing \/ (last[c].no # 0 /\ last[c].sub \in Subs /\ madeFor[last[c].sub] # 0)

\* Only the subscription of a consumer with a recoverer is recovered, and only
\* after the consumer has polled it.
RegisteredInv ==
  /\ \A s \in recovering \cup recoverers :
       /\ madeFor[s] \in Recoverable /\ sub[madeFor[s]] = s
       /\ pc[madeFor[s]] \in {"polling", "handling", "ending", "done"}
  /\ \A c \in Consumers : pc[c] \in {"idle", "asking", "answered"} => last[c] = Nothing

LEMMA QueueTypes ==
  ASSUME IInv
  PROVE  /\ Frames \subseteq Numbered /\ Nothing \in Numbered
         /\ queue \in [Subs -> Seq(Frames)] /\ \A s \in Subs : queue[s] \in Seq(Numbered)
         /\ last \in [Consumers -> Frames \cup {Nothing}] /\ \A c \in Consumers : last[c] \in Numbered
         /\ count \in [Subs -> 0 .. MaxNotes] /\ \A s \in Subs : count[s] \in Nat
         /\ wire \in Seq(Numbered)
         /\ aliasOf \in [Subs -> Subs \cup {0}] /\ originalOf \in [Subs -> Subs \cup {0}]
         /\ received \subseteq Subs /\ recovering \subseteq Subs /\ checked \subseteq Subs
         /\ \A s \in checked : gained[s] # 0
         /\ \A s \in Subs : gained[s] # 0 => s \in recovering
         /\ Recoverable \subseteq Consumers
<1>1. Frames \subseteq Numbered
  BY SubscriptionsAssumption DEF Frames, Numbered, Subs
<1>2. Nothing \in Numbered
  BY DEF Nothing, Numbered
<1>3. \A q \in Seq(Frames) : q \in Seq(Numbered)
  BY <1>1, ElementOfSeq, LenProperties, SeqDef
<1>4. /\ queue \in [Subs -> Seq(Frames)] /\ last \in [Consumers -> Frames \cup {Nothing}]
      /\ count \in [Subs -> 0 .. MaxNotes] /\ wire \in Seq(Frames)
      /\ aliasOf \in [Subs -> Subs \cup {0}] /\ originalOf \in [Subs -> Subs \cup {0}]
      /\ received \subseteq Subs /\ recovering \subseteq Subs /\ checked \subseteq Subs
      /\ \A s \in checked : gained[s] # 0
      /\ \A s \in Subs : gained[s] # 0 => s \in recovering
  BY DEF IInv, TypeOK, NodeTypeOK, MapTypeOK, RecoveryTypeOK, ConsumerTypeOK
<1>5. \A c \in Consumers : last[c] \in Numbered
  BY <1>1, <1>2, <1>4
<1>6. (\A s \in Subs : queue[s] \in Seq(Numbered)) /\ wire \in Seq(Numbered)
  BY <1>3, <1>4
<1>7. \A s \in Subs : count[s] \in Nat
  BY <1>4, SubscriptionsAssumption
<1>. QED BY <1>1, <1>2, <1>4, <1>5, <1>6, <1>7, SubscriptionsAssumption

LEMMA InitMade == Init => MadeInv /\ RegisteredInv
BY DEF Init, MadeInv, RegisteredInv, Within

\* Steps that add nothing to a queue.
LEMMA MadeKept ==
  ASSUME IInv, MadeInv, UNCHANGED madeFor,
         \A r \in Subs : madeFor[r] = 0 => count'[r] = count[r],
         \A r \in Subs : queue'[r] = queue[r] \/ queue'[r] = <<>>,
         \A c \in Consumers : last'[c] = last[c]
  PROVE  MadeInv'
<1>1. \A S : Within(<<>>, S)
  BY DEF Within
<1>2. \A r \in Subs : Group(r)' = Group(r)
  BY DEF Group
<1>3. \A r \in Subs : Within(queue'[r], Group(r)')
  BY <1>1, <1>2 DEF MadeInv
<1>. QED BY <1>3 DEF MadeInv

LEMMA NodeSubscribesMade ==
  ASSUME IInv, SourceInv, MadeInv, NEW a \in Askers, NodeSubscribes(a)
  PROVE  MadeInv'
<1>1. PICK s \in FreshSub : madeFor' = [madeFor EXCEPT ![s] = a]
  BY DEF NodeSubscribes
<1>2. s \in Subs /\ madeFor[s] = 0 /\ \A r \in Subs : r < s => madeFor[r] # 0
  BY DEF FreshSub
<1>3. UNCHANGED <<count, queue, last>>
  BY DEF NodeSubscribes
<1>4. a # 0
  BY Apart DEF Askers
<1>5. \A r \in Subs : madeFor'[r] = (IF r = s THEN a ELSE madeFor[r])
  BY <1>1, <1>2, Types
<1>6. \A r \in Subs : Group(r) \subseteq Group(r)'
  BY <1>2, <1>5, Apart DEF Group
<1>7. \A r \in Subs : Within(queue'[r], Group(r)')
  BY <1>3, <1>6 DEF MadeInv, Within
<1>8. \A r, t \in Subs : r < t /\ madeFor'[t] # 0 => madeFor'[r] # 0
  BY <1>2, <1>4, <1>5 DEF MadeInv
<1>9. \A r \in Subs : madeFor'[r] = 0 => count'[r] = 0 /\ queue'[r] = <<>>
  BY <1>3, <1>4, <1>5 DEF MadeInv
<1>10. \A c \in Consumers :
         last'[c] = Nothing \/ (last'[c].no # 0 /\ last'[c].sub \in Subs /\ madeFor'[last'[c].sub] # 0)
  BY <1>3, <1>4, <1>5 DEF MadeInv
<1>. QED BY <1>7, <1>8, <1>9, <1>10 DEF MadeInv

\* A notification goes on the queue of a group it belongs to.
LEMMA TargetOf ==
  ASSUME IInv, SourceInv, NEW n \in Fed
  PROVE  /\ n \in Subs /\ Target(n) \in Subs /\ n \in Group(Target(n)) /\ madeFor[Target(n)] # 0
         /\ Root(n) \in Consumers /\ Root(Target(n)) = Root(n)
<1>1. n \in Subs /\ madeFor[n] # 0 /\ Root(n) \in Consumers
  BY RootsAre DEF SourceInv
<1>2. CASE originalOf[n] = 0
  BY <1>1, <1>2 DEF Target, Group
<1>3. CASE originalOf[n] # 0
  <2>1. Target(n) = originalOf[n] /\ originalOf[n] \in Subs /\ madeFor[n] = originalOf[n]
    BY <1>1, <1>3, QueueTypes DEF Target, IInv, AliasesOK
  <2>2. madeFor[madeFor[n]] \in Consumers
    BY <1>1, <2>1 DEF SourceInv, AskInv
  <2>. QED BY <1>1, <2>1, <2>2, Apart DEF Group, Root
<1>. QED BY <1>2, <1>3

LEMMA DispatchMade ==
  ASSUME IInv, SourceInv, MadeInv, Dispatch
  PROVE  MadeInv'
<1>. DEFINE f == Head(wire)
<1>1. f \in Frames /\ f.sub \in Fed
  <2>1. 1 \in DOMAIN wire /\ f = wire[1] /\ f \in Frames
    BY Types, EmptySeq, LenProperties, HeadTailProperties DEF Dispatch
  <2>. QED BY <2>1 DEF Sent, Fed
<1>2. /\ UNCHANGED <<madeFor, count, last>>
      /\ UNCHANGED queue \/ queue' = [queue EXCEPT ![Target(f.sub)] = Append(@, f)]
  BY DEF Dispatch, DispatchResponse, DispatchNotification
<1>. HIDE DEF f
<1>3. CASE UNCHANGED queue
  BY <1>2, <1>3, MadeKept
<1>4. CASE queue' = [queue EXCEPT ![Target(f.sub)] = Append(@, f)]
  <2>1. \A r \in Subs : Group(r)' = Group(r)
    BY <1>2 DEF Group
  <2>. DEFINE s == Target(f.sub)
  <2>2. s \in Subs /\ f.sub \in Group(s) /\ madeFor[s] # 0 /\ f \in Numbered
    BY <1>1, TargetOf, QueueTypes
  <2>3. \A r \in Subs : queue'[r] = IF r = s THEN Append(queue[r], f) ELSE queue[r]
    BY <1>4, QueueTypes
  <2>. HIDE DEF s
  <2>4. \A r \in Subs : Within(queue'[r], Group(r))
    <3>1. Within(queue[s], Group(s)) /\ queue[s] \in Seq(Numbered)
      BY <2>2, QueueTypes DEF MadeInv
    <3>2. Within(Append(queue[s], f), Group(s))
      BY <2>2, <3>1, WithinAppend
    <3>. QED BY <2>3, <3>2 DEF MadeInv
  <2>. QED BY <1>2, <2>1, <2>2, <2>3, <2>4 DEF MadeInv
<1>. QED BY <1>2, <1>3, <1>4

LEMMA NodeMade ==
  ASSUME IInv, SourceInv, MadeInv,
         ConnLost \/ \E s \in Subs : NodeNotifies(s) \/ NodeUnsubscribes(s)
  PROVE  MadeInv'
<1>1. UNCHANGED <<madeFor, queue, last>>
  BY DEF ConnLost, NodeNotifies, NodeUnsubscribes
<1>2. \A r \in Subs : madeFor[r] = 0 => r \notin server
  BY DEF SourceInv, AskInv, Fed
<1>3. \A r \in Subs : madeFor[r] = 0 => count'[r] = count[r]
  BY <1>2, QueueTypes DEF ConnLost, NodeNotifies, NodeUnsubscribes
<1>. QED BY <1>1, <1>3, MadeKept

LEMMA HandlerMade ==
  ASSUME IInv, MadeInv, Wake \/ HandlerFails \/ Revive \/ Connected \/ ConnectFails \/ StartRecovery
  PROVE  MadeInv'
<1>1. UNCHANGED <<madeFor, count, last>>
  BY DEF Wake, HandlerFails, Revive, Connected, ConnectFails, StartRecovery
<1>2. \A r \in Subs : queue'[r] = queue[r] \/ queue'[r] = <<>>
  BY DEF Wake, HandlerFails, Revive, Connected, ConnectFails, StartRecovery, Orphan
<1>. QED BY <1>1, <1>2, MadeKept

\* What has come under a new id is of it alone.
LEMMA GainedIs ==
  ASSUME IInv, SourceInv, NEW s \in Subs, gained[s] # 0
  PROVE  /\ gained[s] \in Subs /\ gained[s] # s /\ madeFor[gained[s]] = s /\ madeFor[s] \in Consumers
         /\ Root(gained[s]) = madeFor[s]
         /\ Group(gained[s]) = {gained[s]} /\ gained[s] \in Group(s)
<1>1. /\ gained[s] \in Subs /\ madeFor[gained[s]] = s /\ madeFor[s] \in Consumers
      /\ Root(gained[s]) = madeFor[s]
  BY RootsAre DEF SourceInv
<1>2. \A n \in Subs : madeFor[n] # gained[s]
  BY <1>1, Apart DEF SourceInv, AskInv
<1>. QED BY <1>1, <1>2, Apart DEF Group

LEMMA RecoveryMade ==
  ASSUME IInv, SourceInv, MadeInv, NEW s \in Subs, Returned(s) \/ Recovered(s) \/ Settled(s)
  PROVE  MadeInv'
<1>1. UNCHANGED <<madeFor, count, last>>
  BY DEF Returned, Recovered, Settled
<1>2. \A r \in Subs : Group(r)' = Group(r)
  BY <1>1 DEF Group
<1>3. CASE Returned(s)
  BY <1>1, <1>3, MadeKept DEF Returned
<1>4. CASE Recovered(s)
  <2>. DEFINE n == gained[s]
  <2>1. n \in Subs /\ n # s /\ madeFor[n] # 0 /\ madeFor[s] # 0 /\ Group(n) \subseteq Group(s)
    <3>1. gained[s] # 0
      BY <1>4, QueueTypes DEF Recovered
    <3>2. \A m \in Group(n) : m = n
      BY <3>1, GainedIs
    <3>3. n \in Subs /\ n # s /\ madeFor[n] = s /\ madeFor[s] \in Consumers /\ n \in Group(s)
      BY <3>1, GainedIs
    <3>. QED BY <3>2, <3>3, Apart
  <2>2. queue' = [queue EXCEPT ![s] = IF s \in received THEN @ \o queue[n] ELSE @, ![n] = <<>>]
    BY <1>4 DEF Recovered, Realias
  <2>. HIDE DEF n
  <2>3. \A r \in Subs : queue'[r] = IF r = n THEN <<>>
                                    ELSE IF r = s /\ s \in received THEN queue[s] \o queue[n] ELSE queue[r]
    BY <2>1, <2>2, QueueTypes
  <2>4. Within(queue[n], Group(s)) /\ Within(queue[s], Group(s)) /\ Within(<<>>, Group(n))
    BY <2>1 DEF MadeInv, Within
  <2>5. Within(queue[s] \o queue[n], Group(s))
    BY <2>1, <2>4, QueueTypes, WithinConcat
  <2>6. \A r \in Subs : Within(queue'[r], Group(r))
    BY <2>3, <2>4, <2>5 DEF MadeInv
  <2>7. \A r \in Subs : madeFor[r] = 0 => queue'[r] = <<>>
    BY <2>1, <2>3 DEF MadeInv
  <2>. QED BY <1>1, <1>2, <2>6, <2>7 DEF MadeInv
<1>5. CASE Settled(s)
  <2>1. queue' = IF s \in received THEN [queue EXCEPT ![s] = Append(@, Injected(s))] ELSE queue
    BY <1>5 DEF Settled
  <2>2. \A r \in Subs : queue'[r] = queue[r] \/ (r = s /\ queue'[r] = Append(queue[r], Injected(s)))
    BY <2>1, QueueTypes
  <2>3. Injected(s) \in Numbered /\ Injected(s).no = 0
    BY DEF Injected, Numbered, Subs
  <2>4. \A r \in Subs : Within(queue'[r], Group(r))
    <3>1. Within(queue[s], Group(s)) /\ queue[s] \in Seq(Numbered)
      BY QueueTypes DEF MadeInv
    <3>2. Within(Append(queue[s], Injected(s)), Group(s))
      BY <2>3, <3>1, WithinAppend
    <3>3. Within(queue'[s], Group(s))
      BY <2>2, <3>1, <3>2
    <3>4. \A r \in Subs : r # s => queue'[r] = queue[r]
      BY <2>2
    <3>. QED BY <3>3, <3>4 DEF MadeInv
  <2>5. madeFor[s] # 0
    BY <1>5, Apart DEF Settled, SourceInv, AskInv
  <2>. QED BY <1>1, <1>2, <2>2, <2>4, <2>5 DEF MadeInv
<1>. QED BY <1>3, <1>4, <1>5

LEMMA ConsumerMade ==
  ASSUME IInv, SourceInv, MadeInv, NEW c \in Consumers, ConsumerStep(c)
  PROVE  MadeInv'
<1>1. UNCHANGED <<madeFor, count>>
  BY DEF ConsumerStep, Ask, Open, Take, Handled, Finish, PollRaises, Quit
<1>2. \A r \in Subs : Group(r)' = Group(r)
  BY <1>1 DEF Group
<1>3. CASE Take(c)
  <2>. DEFINE s == sub[c]
              f == Head(queue[s])
  <2>1. s \in Subs /\ queue[s] # <<>> /\ madeFor[s] # 0 /\ queue[s] \in Seq(Numbered)
    BY <1>3, Types, QueueTypes, Apart DEF Take
  <2>2. \A r \in Subs : queue'[r] = IF r = s THEN Tail(queue[r]) ELSE queue[r]
    BY <1>3, QueueTypes DEF Take
  <2>3. last' = last \/ (f.no # 0 /\ last' = [last EXCEPT ![c] = f])
    BY <1>3 DEF Take
  <2>. HIDE DEF s, f
  <2>4. Within(queue[s], Group(s))
    BY <2>1 DEF MadeInv
  <2>5. Within(Tail(queue[s]), Group(s)) /\ (f.no # 0 => f.sub \in Group(s))
    BY <2>1, <2>4, WithinTail DEF f
  <2>6. \A r \in Subs : Within(queue'[r], Group(r))
    BY <2>2, <2>5 DEF MadeInv
  <2>7. \A r \in Subs : madeFor[r] = 0 => queue'[r] = <<>>
    BY <2>1, <2>2 DEF MadeInv
  <2>8. \A d \in Consumers :
          last'[d] = last[d] \/ (last'[d].no # 0 /\ last'[d].sub \in Subs /\ madeFor[last'[d].sub] # 0)
    <3>1. f.no # 0 => f.sub \in Subs /\ madeFor[f.sub] # 0
      BY <2>1, <2>5, Apart DEF Group
    <3>. QED BY <2>3, <3>1, QueueTypes
  <2>. QED BY <1>1, <1>2, <2>6, <2>7, <2>8 DEF MadeInv
<1>4. CASE Ask(c) \/ Open(c) \/ Handled(c) \/ Finish(c) \/ PollRaises(c) \/ Quit(c)
  <2>1. last' = last
    BY <1>4 DEF Ask, Open, Handled, Finish, PollRaises, Quit
  <2>2. \A r \in Subs : queue'[r] = queue[r] \/ queue'[r] = <<>>
    BY <1>4, QueueTypes DEF Ask, Open, Handled, Finish, PollRaises, Quit
  <2>. QED BY <1>1, <2>1, <2>2, MadeKept
<1>. QED BY <1>3, <1>4 DEF ConsumerStep

LEMMA NextMade ==
  ASSUME IInv, SourceInv, MadeInv, [Next]_vars
  PROVE  MadeInv'
<1>1. CASE UNCHANGED vars
  BY <1>1, MadeKept DEF vars
<1>. QED BY <1>1, NodeSubscribesMade, DispatchMade, NodeMade, HandlerMade, RecoveryMade, ConsumerMade
         DEF Next, HandlerStep

LEMMA NextRegistered ==
  ASSUME IInv, SourceInv, RegisteredInv, [Next]_vars
  PROVE  RegisteredInv'
<1>. DEFINE Late == {"polling", "handling", "ending", "done"}
            Polled(s) == madeFor[s] \in Recoverable /\ sub[madeFor[s]] = s /\ pc[madeFor[s]] \in Late
<1>1. CASE \E c \in Consumers : ConsumerStep(c)
  <2>1. PICK c \in Consumers : ConsumerStep(c)
    BY <1>1
  <2>2. UNCHANGED <<madeFor, sub, recovering>>
    BY <2>1 DEF ConsumerStep, Ask, Open, Take, Handled, Finish, PollRaises, Quit
  <2>3. /\ \A d \in Consumers : d # c => pc'[d] = pc[d] /\ last'[d] = last[d]
        /\ pc[c] # "idle" => pc'[c] \in Late
        /\ pc[c] = "idle" => pc'[c] = "asking" /\ last'[c] = last[c]
    BY <2>1, Types, QueueTypes DEF ConsumerStep, Ask, Open, Take, Handled, Finish, PollRaises, Quit
  <2>4. \A s \in recoverers' : s \in recoverers \/ (pc[c] = "answered" /\ c \in Recoverable /\ s = sub[c])
    BY <2>1 DEF ConsumerStep, Ask, Open, Take, Handled, Finish, PollRaises, Quit
  <2>5. pc[c] = "answered" => sub[c] # 0 /\ madeFor[sub[c]] = c
    BY <2>1, Types
  <2>6. \A s \in recovering' \cup recoverers' :
          madeFor[s] \in Recoverable /\ sub[madeFor[s]] = s /\ pc'[madeFor[s]] \in Late
    <3>1. ASSUME NEW s \in recovering \cup recoverers
          PROVE  madeFor[s] \in Recoverable /\ sub[madeFor[s]] = s /\ pc'[madeFor[s]] \in Late
      <4>1. /\ madeFor[s] \in Recoverable /\ sub[madeFor[s]] = s
            /\ pc[madeFor[s]] \in Late /\ madeFor[s] \in Consumers
        BY <3>1, QueueTypes DEF RegisteredInv
      <4>. QED BY <2>3, <4>1
    <3>2. pc[c] = "answered" /\ c \in Recoverable =>
            madeFor[sub[c]] \in Recoverable /\ sub[madeFor[sub[c]]] = sub[c] /\ pc'[madeFor[sub[c]]] \in Late
      BY <2>3, <2>5
    <3>. QED BY <2>2, <2>4, <3>1, <3>2
  <2>7. \A d \in Consumers : pc'[d] \in {"idle", "asking", "answered"} => last'[d] = Nothing
    BY <2>3 DEF RegisteredInv
  <2>. QED BY <2>2, <2>6, <2>7 DEF RegisteredInv
<1>2. CASE Dispatch
  <2>1. UNCHANGED <<madeFor, recovering, recoverers, last>>
    BY <1>2 DEF Dispatch
  <2>2. \A c \in Consumers : \/ pc'[c] = pc[c] /\ sub'[c] = sub[c]
                             \/ pc[c] = "asking" /\ pc'[c] = "answered"
    BY <1>2, Types DEF Dispatch, DispatchResponse, DispatchNotification
  <2>. QED BY <2>1, <2>2, QueueTypes DEF RegisteredInv
<1>3. CASE StartRecovery
  <2>1. UNCHANGED <<madeFor, recoverers, pc, sub, last>> /\ recovering' = recovering \cup recoverers
    BY <1>3 DEF StartRecovery
  <2>. QED BY <2>1 DEF RegisteredInv
<1>4. CASE \E a \in Askers : NodeSubscribes(a)
  <2>1. UNCHANGED <<recovering, recoverers, pc, sub, last>>
    BY <1>4 DEF NodeSubscribes
  <2>2. \A s \in Subs : madeFor[s] # 0 => madeFor'[s] = madeFor[s]
    BY <1>4, Types DEF NodeSubscribes, FreshSub
  <2>3. \A s \in recovering \cup recoverers : s \in Subs /\ madeFor[s] # 0
    BY Types, QueueTypes, Apart DEF RegisteredInv
  <2>. QED BY <2>1, <2>2, <2>3 DEF RegisteredInv
<1>5. CASE \/ Wake \/ HandlerFails \/ Revive \/ Connected \/ ConnectFails \/ ConnLost
           \/ \E s \in Subs : NodeNotifies(s) \/ NodeUnsubscribes(s)
           \/ UNCHANGED vars
  <2>1. UNCHANGED <<madeFor, recovering, recoverers, pc, sub, last>>
    BY <1>5 DEF Wake, HandlerFails, Revive, Connected, ConnectFails, ConnLost, NodeNotifies,
                NodeUnsubscribes, vars, Orphan
  <2>. QED BY <2>1 DEF RegisteredInv
<1>6. CASE \E s \in Subs : Returned(s) \/ Recovered(s) \/ Settled(s)
  <2>1. UNCHANGED <<madeFor, recoverers, pc, sub, last>> /\ recovering' \subseteq recovering
    BY <1>6 DEF Returned, Recovered, Settled, Release
  <2>. QED BY <2>1 DEF RegisteredInv
<1>. QED BY <1>1, <1>2, <1>3, <1>4, <1>5, <1>6 DEF Next, HandlerStep

-----------------------------------------------------------------------------
(* Notifications in order: what is on its way to a consumer, and what waits *)
(* for it.                                                                 *)

\* A consumer that polls or will.
Live(c) == pc[c] \in {"asking", "answered", "polling", "handling"}

\* The next frame of n on the wire w, or when the node has sent all of sent[n] the
\* next it would send while n lives, is number k.
Expected(w, up, sent, n, k) == Flow(w, n, k) /\ (n \in up => Ends(w, n, k, sent[n]))

\* All that c has got is of subscriptions made before n.
Newer(c, n) == sub[c] # 0 => last[c].sub < n /\ Within(queue[sub[c]], 0 .. n - 1)

\* The response with the id n has not been dispatched.
Awaited(c, n) ==
  /\ Expected(wire, server, count, n, 0)
  /\ madeFor[n] \in asking
  /\ queue[n] = <<>> /\ originalOf[n] = 0
  /\ Newer(c, n)

\* The notifications of n go on the queue that c polls.
Delivered(c, n) ==
  /\ sub[c] # 0 /\ gained[sub[c]] = 0
  /\ n = sub[c] \/ aliasOf[sub[c]] = n
  /\ \E k \in Nat \ {0} :
       Expected(wire, server, count, n, k) /\ Ready(last[c], queue[sub[c]], Frame(n, k))

\* A recoverer has the id n and they go on a queue of n, until the alias is set.
Stored(c, n) ==
  /\ sub[c] # 0 /\ gained[sub[c]] = n
  /\ \E k \in Nat \ {0} :
       Expected(wire, server, count, n, k) /\ Ready(Nothing, queue[n], Frame(n, k))

\* What waits for a consumer is in order, also what waits under a new id.
Ordered(c) ==
  Live(c) /\ sub[c] # 0 =>
    /\ Chain(last[c], queue[sub[c]])
    /\ gained[sub[c]] # 0 =>
         /\ Chain(Nothing, queue[gained[sub[c]]])
         /\ Newer(c, gained[sub[c]])
         /\ originalOf[gained[sub[c]]] = 0

\* What feeds a consumer goes on from there.
Streams(c) ==
  Live(c) /\ hand = "pumping" =>
    \A n \in Fed : Root(n) = c => Awaited(c, n) \/ Delivered(c, n) \/ Stored(c, n)

OrderInv == \A c \in Consumers : Ordered(c) /\ Streams(c)

\* Whose the queues are that matter to a consumer.
LEMMA Mine ==
  ASSUME IInv, SourceInv, NEW c \in Consumers, sub[c] # 0
  PROVE  /\ sub[c] \in Subs /\ Root(sub[c]) = c /\ madeFor[sub[c]] = c /\ c # 0 /\ c \notin Subs
         /\ gained[sub[c]] # 0 =>
              /\ gained[sub[c]] \in Subs /\ Root(gained[sub[c]]) = c /\ gained[sub[c]] # sub[c]
              /\ gained[sub[c]] # 0
BY RootsAre, GainedIs, Apart DEF SourceInv

LEMMA OrderedKept ==
  ASSUME IInv, SourceInv, NEW c \in Consumers, Ordered(c), Live(c)' => Live(c),
         last'[c] = last[c], sub'[c] = sub[c],
         sub[c] # 0 => gained'[sub[c]] = gained[sub[c]],
         \A n \in Subs : Root(n) = c => queue'[n] = queue[n] /\ (originalOf[n] = 0 => originalOf'[n] = 0)
  PROVE  Ordered(c)'
<1>1. sub[c] # 0 => queue'[sub[c]] = queue[sub[c]]
  BY Mine
<1>2. sub[c] # 0 /\ gained[sub[c]] # 0 =>
        /\ queue'[gained[sub[c]]] = queue[gained[sub[c]]]
        /\ originalOf[gained[sub[c]]] = 0 => originalOf'[gained[sub[c]]] = 0
  BY Mine
<1>. QED BY <1>1, <1>2 DEF Ordered, Newer

LEMMA StreamsKept ==
  ASSUME IInv, SourceInv, NEW c \in Consumers, Streams(c), Live(c)' => Live(c),
         last'[c] = last[c], sub'[c] = sub[c], madeFor' = madeFor,
         sub[c] # 0 => gained'[sub[c]] = gained[sub[c]] /\ aliasOf'[sub[c]] = aliasOf[sub[c]],
         hand' = "pumping" => hand = "pumping" /\ Fed' \subseteq Fed,
         \A n \in Subs : Root(n) = c => queue'[n] = queue[n] /\ (originalOf[n] = 0 => originalOf'[n] = 0),
         \A n \in Fed' : Root(n) = c /\ madeFor[n] \in asking => madeFor[n] \in asking',
         \A n \in Fed', k \in Nat : Root(n) = c /\ Expected(wire, server, count, n, k)
                                    => Expected(wire', server', count', n, k)
  PROVE  Streams(c)'
<1>. SUFFICES ASSUME Live(c), hand = "pumping", Fed' \subseteq Fed, NEW n \in Fed', Root(n) = c
              PROVE  Awaited(c, n)' \/ Delivered(c, n)' \/ Stored(c, n)'
  BY DEF Streams, Root
<1>1. n \in Fed /\ n \in Subs
  BY Types
<1>2. sub[c] # 0 => queue'[sub[c]] = queue[sub[c]]
  BY Mine
<1>3. queue'[n] = queue[n] /\ (originalOf[n] = 0 => originalOf'[n] = 0)
  BY <1>1
<1>4. Newer(c, n) => Newer(c, n)'
  BY <1>2 DEF Newer
<1>5. \A k \in Nat : Expected(wire, server, count, n, k) => Expected(wire', server', count', n, k)
  OBVIOUS
<1>6. CASE Awaited(c, n)
  BY <1>3, <1>4, <1>5, <1>6 DEF Awaited
<1>7. CASE Delivered(c, n)
  BY <1>2, <1>5, <1>7 DEF Delivered
<1>8. CASE Stored(c, n)
  BY <1>3, <1>5, <1>8 DEF Stored
<1>. QED BY <1>1, <1>6, <1>7, <1>8 DEF Streams

LEMMA InitOrder == Init => OrderInv
BY DEF Init, OrderInv, Ordered, Streams, Live

-----------------------------------------------------------------------------
(* The node and the network.                                               *)

LEMMA NodeSubscribesOrder ==
  ASSUME IInv, SourceInv, MadeInv, OrderInv, NEW a \in Askers, NodeSubscribes(a)
  PROVE  OrderInv'
<1>1. PICK s \in FreshSub :
        /\ madeFor' = [madeFor EXCEPT ![s] = a]
        /\ server' = server \cup {s}
        /\ wire' = Append(wire, [sub |-> s, no |-> 0])
  BY DEF NodeSubscribes
<1>2. s \in Subs /\ madeFor[s] = 0 /\ s # 0 /\ a # 0 /\ a \in asking /\ s \in Nat
  BY Apart DEF FreshSub, Askers, NodeSubscribes, SourceInv, AskInv, Subs
<1>3. UNCHANGED <<link, hand, asking, count, mapVars, recoveryVars, consumerVars>>
  BY DEF NodeSubscribes
<1>4. \A r \in Subs : madeFor[r] # 0 => r < s /\ r \in 0 .. s - 1
  <2>1. \A r \in Subs : s < r => madeFor[r] = 0
    BY <1>2 DEF MadeInv
  <2>. QED BY <1>2, <2>1 DEF Subs
<1>5. Frame(s, 0) \in Numbered /\ Frame(s, 0) \in Frames /\ wire' = Append(wire, Frame(s, 0))
      /\ Frame(s, 0).sub = s
  BY <1>1, <1>2, SubscriptionsAssumption DEF Frame, Frames, Numbered
<1>6. Sent' = Sent \cup {s} /\ Fed' = Fed \cup {s}
  <2>1. Sent' = Sent \cup {s}
    BY <1>5, Types, SentAppend
  <2>. QED BY <1>1, <2>1 DEF Fed
<1>7. \A r \in Subs : madeFor[r] # 0 => madeFor'[r] = madeFor[r]
  BY <1>1, <1>2, Types
<1>8. ASSUME NEW r \in Fed PROVE Root(r)' = Root(r) /\ Root(r) \in Consumers /\ madeFor[r] # 0 /\ r \in Subs
  <2>1. r \in Subs /\ madeFor[r] # 0 /\ Root(r) \in Consumers
    BY RootsAre DEF SourceInv
  <2>2. madeFor[r] \in Subs => madeFor[madeFor[r]] # 0
    BY <2>1, Apart DEF SourceInv, AskInv
  <2>. QED BY <1>7, <2>1, <2>2, Types DEF Root
<1>9. s \notin server /\ \A i \in DOMAIN wire : wire[i].sub # s
  BY <1>2, <1>8 DEF Fed, Sent
<1>10. ASSUME NEW c \in Consumers PROVE Ordered(c)'
  <2>1. Ordered(c)
    BY DEF OrderInv
  <2>. QED BY <1>3, <2>1 DEF Ordered, Newer, Live
<1>11. ASSUME NEW c \in Consumers, sub[c] # 0 PROVE last[c].sub < s /\ Within(queue[sub[c]], 0 .. s - 1)
  <2>1. last[c].sub < s
    <3>1. Nothing.sub < s
      BY <1>2 DEF Nothing, Subs
    <3>. QED BY <1>4, <3>1 DEF MadeInv
  <2>2. sub[c] \in Subs /\ madeFor[sub[c]] # 0
    BY <1>11, Mine
  <2>3. \A n \in Group(sub[c]) : n \in 0 .. s - 1
    BY <1>4, <2>2, Apart DEF Group
  <2>4. Within(queue[sub[c]], Group(sub[c]))
    BY <2>2 DEF MadeInv
  <2>. QED BY <2>1, <2>3, <2>4 DEF Within
<1>12. ASSUME NEW c \in Consumers PROVE Streams(c)'
  <2>. SUFFICES ASSUME Live(c), hand = "pumping", NEW n \in Fed', Root(n)' = c
                PROVE  Awaited(c, n)' \/ Delivered(c, n)' \/ Stored(c, n)'
    BY <1>3 DEF Streams, Live
  <2>1. CASE n = s
    <3>1. queue[n] = <<>> /\ count[n] = 0 /\ originalOf[n] = 0
      <4>1. originalOf[n] # 0 => madeFor[n] = originalOf[n]
        BY <1>2, <2>1 DEF IInv, AliasesOK
      <4>. QED BY <1>2, <2>1, <4>1 DEF MadeInv
    <3>2. Expected(wire', server', count', n, 0)
      BY <1>2, <1>3, <1>5, <1>9, <2>1, <3>1, FlowNew, QueueTypes DEF Expected
    <3>3. madeFor'[n] = a
      BY <1>1, <1>2, <2>1, Types
    <3>4. Newer(c, n)'
      BY <1>3, <1>11, <2>1 DEF Newer
    <3>. QED BY <1>2, <1>3, <3>1, <3>2, <3>3, <3>4 DEF Awaited
  <2>2. CASE n # s
    <3>1. n \in Fed /\ Root(n) = c /\ n \in Subs /\ n \in Nat /\ madeFor'[n] = madeFor[n]
      BY <1>6, <1>7, <1>8, <2>2 DEF Subs
    <3>2. ASSUME NEW k \in Nat, Expected(wire, server, count, n, k)
          PROVE  Expected(wire', server', count', n, k)
      <4>1. n \in server' => n \in server
        BY <1>1, <2>2
      <4>2. Flow(Append(wire, Frame(s, 0)), n, k)
        BY <1>5, <2>2, <3>1, <3>2, FlowAppend, QueueTypes DEF Expected
      <4>3. n \in server => Ends(Append(wire, Frame(s, 0)), n, k, count[n])
        BY <1>5, <2>2, <3>1, <3>2, FlowAppend, QueueTypes DEF Expected
      <4>. QED BY <1>3, <1>5, <4>1, <4>2, <4>3 DEF Expected
    <3>3. Awaited(c, n) \/ Delivered(c, n) \/ Stored(c, n)
      BY <3>1 DEF OrderInv, Streams
    <3>4. Awaited(c, n) => Awaited(c, n)'
      BY <1>3, <3>1, <3>2 DEF Awaited, Newer
    <3>5. Delivered(c, n) => Delivered(c, n)'
      BY <1>3, <3>2 DEF Delivered
    <3>6. Stored(c, n) => Stored(c, n)'
      BY <1>3, <3>2 DEF Stored
    <3>. QED BY <3>3, <3>4, <3>5, <3>6
  <2>. QED BY <2>1, <2>2
<1>. QED BY <1>10, <1>12 DEF OrderInv

LEMMA NodeNotifiesOrder ==
  ASSUME IInv, SourceInv, OrderInv, NEW s \in Subs, NodeNotifies(s)
  PROVE  OrderInv'
<1>. DEFINE f == Frame(s, count[s] + 1)
<1>1. /\ UNCHANGED <<hand, server, madeFor, asking, mapVars, recoveryVars, consumerVars>>
      /\ s \in server /\ s \in Fed
      /\ count' = [count EXCEPT ![s] = @ + 1] /\ count[s] < MaxNotes
      /\ wire' = Append(wire, f)
  BY DEF NodeNotifies, Frame, Fed
<1>2. count[s] \in Nat /\ s \in Nat /\ f.sub = s /\ f.no = count[s] + 1 /\ f \in Numbered /\ f \in Frames
  <2>1. count[s] \in Nat /\ s \in Nat
    BY QueueTypes DEF Subs
  <2>2. count[s] + 1 \in 0 .. MaxNotes /\ count[s] + 1 \in Nat
    BY <1>1, <2>1, SubscriptionsAssumption
  <2>. QED BY <2>1, <2>2 DEF Frame, Numbered, Frames
<1>. HIDE DEF f
<1>3. Fed' = Fed
  <2>1. Sent' = Sent \cup {s}
    BY <1>1, <1>2, Types, SentAppend
  <2>. QED BY <1>1, <2>1 DEF Fed
<1>4. ASSUME NEW n \in Subs, NEW k \in Nat, Expected(wire, server, count, n, k)
      PROVE  Expected(wire', server', count', n, k)
  <2>1. Flow(wire, n, k) /\ (n \in server => Ends(wire, n, k, count[n]))
        /\ count[n] \in Nat /\ n \in Nat /\ wire \in Seq(Numbered)
    BY <1>4, QueueTypes DEF Expected, Subs
  <2>2. CASE n = s
    <3>1. count'[n] = count[n] + 1
      BY <1>1, <2>2, QueueTypes
    <3>2. Flow(wire', n, k) /\ Ends(wire', n, k, count[n] + 1)
      BY <1>1, <1>2, <2>1, <2>2, FlowAppend
    <3>. QED BY <3>1, <3>2 DEF Expected
  <2>3. CASE n # s
    <3>1. count'[n] = count[n]
      BY <1>1, <2>3, QueueTypes
    <3>2. Flow(wire', n, k) /\ (n \in server => Ends(wire', n, k, count[n]))
      BY <1>1, <1>2, <2>1, <2>3, FlowAppend
    <3>. QED BY <1>1, <3>1, <3>2 DEF Expected
  <2>. QED BY <2>2, <2>3
<1>5. ASSUME NEW c \in Consumers PROVE Ordered(c)' /\ Streams(c)'
  <2>1. Ordered(c) /\ Streams(c) /\ (Live(c)' => Live(c))
    BY <1>1 DEF OrderInv, Live
  <2>2. Ordered(c)'
    BY <1>1, <2>1, OrderedKept
  <2>3. \A n \in Fed', k \in Nat : Root(n) = c /\ Expected(wire, server, count, n, k)
                                   => Expected(wire', server', count', n, k)
    BY <1>3, <1>4, Types
  <2>4. Streams(c)'
    BY <1>1, <1>3, <2>1, <2>3, StreamsKept
  <2>. QED BY <2>2, <2>4
<1>. QED BY <1>5 DEF OrderInv

LEMMA NodeOrder ==
  ASSUME IInv, SourceInv, OrderInv, ConnLost \/ \E s \in Subs : NodeUnsubscribes(s)
  PROVE  OrderInv'
<1>1. /\ UNCHANGED <<hand, count, madeFor, asking, mapVars, recoveryVars, consumerVars>>
      /\ server' \subseteq server
      /\ wire' = wire \/ \E n \in 0 .. Len(wire) : wire' = SubSeq(wire, 1, n)
  BY DEF ConnLost, Severed, NodeUnsubscribes
<1>2. Fed' \subseteq Fed
  <2>1. wire' = wire => Sent' = Sent
    BY DEF Sent
  <2>2. Sent' \subseteq Sent
    BY <1>1, <2>1, Types, SentSubset
  <2>. QED BY <1>1, <2>2 DEF Fed
<1>3. ASSUME NEW n \in Subs, NEW k \in Nat, Expected(wire, server, count, n, k)
      PROVE  Expected(wire', server', count', n, k)
  <2>1. Flow(wire', n, k)
    BY <1>1, <1>3, FlowPrefix, QueueTypes DEF Expected
  <2>2. n \in server' => Ends(wire', n, k, count'[n])
    <3>1. CASE ConnLost
      BY <3>1 DEF ConnLost, Severed
    <3>2. CASE \E s \in Subs : NodeUnsubscribes(s)
      BY <1>1, <1>3, <3>2 DEF NodeUnsubscribes, Expected
    <3>. QED BY <3>1, <3>2
  <2>. QED BY <2>1, <2>2 DEF Expected
<1>4. ASSUME NEW c \in Consumers PROVE Ordered(c)' /\ Streams(c)'
  <2>1. Ordered(c) /\ Streams(c) /\ (Live(c)' => Live(c))
    BY <1>1 DEF OrderInv, Live
  <2>2. Ordered(c)'
    BY <1>1, <2>1, OrderedKept
  <2>3. \A n \in Fed', k \in Nat : Root(n) = c /\ Expected(wire, server, count, n, k)
                                   => Expected(wire', server', count', n, k)
    BY <1>2, <1>3, Types
  <2>4. Streams(c)'
    BY <1>1, <1>2, <2>1, <2>3, StreamsKept
  <2>. QED BY <2>2, <2>4
<1>. QED BY <1>4 DEF OrderInv

-----------------------------------------------------------------------------
(* The handler.                                                            *)

LEMMA HandlerOrder ==
  ASSUME IInv, SourceInv, OrderInv, Wake \/ HandlerFails \/ Revive \/ ConnectFails
  PROVE  OrderInv'
<1>1. /\ hand' # "pumping" /\ UNCHANGED <<gained, consumerVars, madeFor>>
      /\ \A r \in Subs : queue'[r] = queue[r] \/ queue'[r] = <<>>
      /\ \A r \in Subs : gained[r] = 0
  BY DEF Wake, HandlerFails, Revive, ConnectFails, Orphan, Prompt, SourceInv, LinkInv
<1>2. ASSUME NEW c \in Consumers PROVE Ordered(c)'
  <2>1. \A x : Chain(x, <<>>)
    BY DEF Chain
  <2>2. sub[c] # 0 => sub[c] \in Subs
    BY Mine
  <2>. QED BY <1>1, <2>1, <2>2 DEF OrderInv, Ordered, Live
<1>3. \A c \in Consumers : Streams(c)'
  BY <1>1 DEF Streams
<1>. QED BY <1>2, <1>3 DEF OrderInv

LEMMA ConnectedOrder ==
  ASSUME IInv, SourceInv, OrderInv, Connected
  PROVE  OrderInv'
<1>1. UNCHANGED <<wire, server, madeFor, mapVars, gained, consumerVars>>
  BY DEF Connected
<1>2. wire = <<>> /\ server = {}
  BY DEF Connected, SourceInv, LinkInv
<1>3. Fed' = {}
  BY <1>1, <1>2 DEF Fed, Sent
<1>4. \A c \in Consumers : Ordered(c)'
  BY <1>1 DEF OrderInv, Ordered, Newer, Live
<1>5. \A c \in Consumers : Streams(c)'
  BY <1>3 DEF Streams
<1>. QED BY <1>4, <1>5 DEF OrderInv

\* The frame that is dispatched.
LEMMA DispatchedIs ==
  ASSUME IInv, SourceInv, Dispatch
  PROVE  /\ Head(wire) \in Numbered /\ Head(wire) = Frame(Head(wire).sub, Head(wire).no)
         /\ Head(wire).sub \in Fed /\ Head(wire).sub \in Subs /\ Head(wire).sub \in Nat
         /\ Root(Head(wire).sub) \in Consumers
         /\ wire \in Seq(Numbered) /\ wire # <<>> /\ wire' = Tail(wire) /\ Fed' \subseteq Fed
         /\ hand = "pumping"
         /\ UNCHANGED <<hand, server, count, madeFor, aliasOf, originalOf, recoverers, last>>
<1>. DEFINE f == Head(wire)
<1>1. 1 \in DOMAIN wire /\ f = wire[1] /\ f \in Frames
  BY Types, EmptySeq, LenProperties, HeadTailProperties DEF Dispatch
<1>2. f.sub \in Fed
  BY <1>1 DEF Sent, Fed
<1>3. f \in Numbered
  BY <1>1, QueueTypes
<1>4. f = Frame(f.sub, f.no)
  BY <1>3 DEF Numbered, Frame
<1>. HIDE DEF f
<1>5. wire \in Seq(Numbered) /\ wire # <<>> /\ wire' = Tail(wire)
  BY QueueTypes DEF Dispatch
<1>6. Fed' \subseteq Fed
  BY <1>5, Types, SentSubset DEF Fed, Dispatch
<1>7. f.sub \in Subs /\ Root(f.sub) \in Consumers
  BY <1>2, RootsAre DEF SourceInv
<1>. QED BY <1>2, <1>3, <1>4, <1>5, <1>6, <1>7 DEF Dispatch, f, Subs

\* It concerns its own consumer alone.
LEMMA DispatchOthers ==
  ASSUME IInv, SourceInv, OrderInv, Dispatch, NEW c \in Consumers, c # Root(Head(wire).sub)
  PROVE  Ordered(c)' /\ Streams(c)'
<1>. DEFINE f == Head(wire)
            s == f.sub
<1>1. /\ f \in Numbered /\ s \in Fed /\ s \in Subs /\ Root(s) \in Consumers
      /\ wire \in Seq(Numbered) /\ wire # <<>> /\ wire' = Tail(wire) /\ Fed' \subseteq Fed
      /\ hand = "pumping"
      /\ UNCHANGED <<hand, server, count, madeFor, aliasOf, originalOf, last>>
  BY DispatchedIs
<1>2. \/ DispatchResponse(s)
      \/ DispatchNotification(f)
  BY DEF Dispatch
<1>. HIDE DEF f, s
<1>3. s = f.sub /\ c # Root(s)
  BY DEF f, s
<1>4. Target(s) \in Subs /\ Root(Target(s)) # c
  BY <1>1, <1>3, TargetOf
<1>5. \A n \in Subs : Root(n) = c => queue'[n] = queue[n]
  BY <1>2, <1>3, <1>4, QueueTypes DEF DispatchResponse, DispatchNotification
<1>6. madeFor[s] # c /\ (sub[c] # 0 => madeFor[s] # sub[c])
  BY <1>1, <1>3, Mine, Apart DEF Root
<1>7. sub'[c] = sub[c] /\ pc'[c] = pc[c]
  BY <1>2, <1>6, Types DEF DispatchResponse, DispatchNotification
<1>8. sub[c] # 0 => gained'[sub[c]] = gained[sub[c]]
  BY <1>2, <1>6, Mine, Types DEF DispatchResponse, DispatchNotification
<1>9. ASSUME NEW n \in Fed, Root(n) = c, madeFor[n] \in asking PROVE madeFor[n] \in asking'
  <2>1. madeFor[n] # madeFor[s]
    BY <1>1, <1>3, <1>9 DEF Root
  <2>. QED BY <1>2, <1>9, <2>1 DEF DispatchResponse, DispatchNotification
<1>10. ASSUME NEW n \in Fed, NEW k \in Nat, Root(n) = c, Expected(wire, server, count, n, k)
       PROVE  Expected(wire', server', count', n, k)
  <2>1. n # s /\ n \in Nat /\ count[n] \in Nat
    BY <1>3, <1>10, Types, QueueTypes DEF Subs
  <2>2. Head(wire).sub # n
    BY <2>1 DEF s, f
  <2>3. Flow(Tail(wire), n, k)
    BY <1>1, <1>10, <2>1, <2>2, FlowTail DEF Expected
  <2>4. n \in server => Ends(Tail(wire), n, k, count[n])
    BY <1>1, <1>10, <2>1, <2>2, FlowTail DEF Expected
  <2>. QED BY <1>1, <2>3, <2>4 DEF Expected
<1>11. Ordered(c) /\ Streams(c) /\ (Live(c)' => Live(c))
  BY <1>7 DEF OrderInv, Live
<1>12. Ordered(c)'
  BY <1>1, <1>5, <1>7, <1>8, <1>11, OrderedKept
<1>13. Streams(c)'
  <2>1. \A n \in Fed', k \in Nat : Root(n) = c /\ Expected(wire, server, count, n, k)
                                   => Expected(wire', server', count', n, k)
    BY <1>1, <1>10
  <2>2. \A n \in Fed' : Root(n) = c /\ madeFor[n] \in asking => madeFor[n] \in asking'
    BY <1>1, <1>9
  <2>. QED BY <1>1, <1>5, <1>7, <1>8, <1>11, <2>1, <2>2, StreamsKept
<1>. QED BY <1>12, <1>13

\* The next frame of the subscription that is dispatched.
LEMMA DispatchedNext ==
  ASSUME IInv, SourceInv, Dispatch, NEW k \in Nat,
         Expected(wire, server, count, Head(wire).sub, k)
  PROVE  /\ Head(wire).no = k
         /\ Expected(wire', server', count', Head(wire).sub, k + 1)
<1>. DEFINE n == Head(wire).sub
<1>1. n \in Nat /\ n \in Subs /\ wire \in Seq(Numbered) /\ wire # <<>> /\ wire' = Tail(wire)
      /\ UNCHANGED <<server, count>>
  BY DispatchedIs
<1>2. count[n] \in Nat
  BY <1>1, QueueTypes
<1>3. Flow(wire, n, k) /\ (n \in server => Ends(wire, n, k, count[n])) /\ Head(wire).sub = n
  BY DEF Expected
<1>. HIDE DEF n
<1>4. Head(wire).no = k /\ Flow(Tail(wire), n, k + 1)
  BY <1>1, <1>2, <1>3, FlowTail
<1>5. n \in server => Ends(Tail(wire), n, k + 1, count[n])
  BY <1>1, <1>2, <1>3, FlowTail
<1>6. Expected(wire', server', count', n, k + 1)
  BY <1>1, <1>4, <1>5 DEF Expected
<1>. QED BY <1>4, <1>6 DEF n

\* A consumer is fed by one subscription at most.
LEMMA StreamIs ==
  ASSUME IInv, SourceInv, OrderInv, hand = "pumping", NEW c \in Consumers, Live(c),
         NEW n \in Fed, Root(n) = c
  PROVE  /\ Awaited(c, n) \/ Delivered(c, n) \/ Stored(c, n)
         /\ \A m \in Fed : Root(m) = c => m = n
BY DEF OrderInv, Streams, SourceInv, FeedInv

\* A notification: the next one on the queue it goes to.
LEMMA NotificationOrder ==
  ASSUME IInv, SourceInv, OrderInv, Dispatch, Head(wire).no # 0, NEW c \in Consumers,
         NEW n \in Subs, n = Head(wire).sub, c = Root(n)
  PROVE  Ordered(c)' /\ Streams(c)'
<1>. DEFINE f == Head(wire)
            t == Target(n)
            s == sub[c]
<1>1. /\ f \in Numbered /\ f = Frame(n, f.no) /\ n \in Fed /\ n \in Subs /\ n \in Nat
      /\ Fed' \subseteq Fed /\ hand = "pumping" /\ f.sub = n
      /\ UNCHANGED <<hand, server, count, madeFor, aliasOf, originalOf, last>>
  BY DispatchedIs
<1>2. /\ queue' = [queue EXCEPT ![t] = Append(@, f)]
      /\ UNCHANGED <<asking, gained, pc, sub>>
  BY DEF Dispatch, DispatchNotification
<1>3. \A k \in Nat : Expected(wire, server, count, n, k) =>
        f.no = k /\ Expected(wire', server', count', n, k + 1)
  BY DispatchedNext
<1>4. t = IF originalOf[n] # 0 THEN originalOf[n] ELSE n
  BY DEF Target
<1>5. f.no # 0 /\ c = Root(n)
  BY DEF f
<1>6. t \in Subs
  BY TargetOf, <1>1
<1>. HIDE DEF f, t
<1>. SUFFICES ASSUME Live(c) PROVE Ordered(c)' /\ Streams(c)'
  BY <1>2 DEF Ordered, Streams, Live
<1>7. /\ Awaited(c, n) \/ Delivered(c, n) \/ Stored(c, n)
      /\ \A m \in Fed' : Root(m)' = c => m = n
  <2>1. \A m \in Fed : Root(m) = c => m = n
    BY <1>1, <1>5, StreamIs
  <2>2. \A m \in Fed' : Root(m)' = c => m = n
    BY <1>1, <2>1 DEF Root
  <2>. QED BY <1>1, <1>5, <2>2, StreamIs
<1>8. Ordered(c)
  BY DEF OrderInv
<1>9. ~Awaited(c, n)
  BY <1>3, <1>5 DEF Awaited
<1>10. \A r \in Subs : queue'[r] = IF r = t THEN Append(queue[r], f) ELSE queue[r]
  BY <1>2, QueueTypes
<1>11. CASE Delivered(c, n)
  <2>1. /\ s # 0 /\ gained[s] = 0
        /\ n = s \/ aliasOf[s] = n
    BY <1>11 DEF Delivered
  <2>2. PICK k \in Nat \ {0} :
          Expected(wire, server, count, n, k) /\ Ready(last[c], queue[s], Frame(n, k))
    BY <1>11 DEF Delivered
  <2>3. s \in Subs /\ madeFor[s] = c /\ c \notin Subs /\ queue[s] \in Seq(Numbered) /\ last[c] \in Numbered
    BY <2>1, Mine, QueueTypes
  <2>. HIDE DEF s
  <2>4. t = s
    <3>1. CASE n = s
      <4>1. originalOf[s] = 0
        BY <2>3, QueueTypes DEF IInv, AliasesOK
      <4>. QED BY <1>4, <3>1, <4>1
    <3>2. CASE aliasOf[s] = n
      <4>1. originalOf[n] = s
        BY <1>1, <2>3, <3>2 DEF IInv, AliasesOK, MapsAgree
      <4>. QED BY <1>4, <2>1, <4>1
    <3>. QED BY <2>1, <3>1, <3>2
  <2>5. k \in Nat /\ f.no = k /\ Expected(wire', server', count', n, k + 1) /\ f = Frame(n, k)
    BY <1>1, <1>3, <2>2
  <2>6. queue'[s] = Append(queue[s], f) /\ Chain(last[c], queue[s])
    BY <1>8, <1>10, <2>1, <2>3, <2>4 DEF Ordered, s
  <2>7. Chain(last[c], queue'[s])
    BY <1>1, <2>2, <2>3, <2>5, <2>6, ChainAppend
  <2>8. Ready(last[c], queue'[s], Frame(n, k + 1))
    BY <1>1, <1>5, <2>2, <2>3, <2>5, <2>6, ReadyAppend
  <2>9. Ordered(c)'
    BY <1>1, <1>2, <2>1, <2>7 DEF Ordered, s
  <2>10. k + 1 \in Nat \ {0}
    BY <2>5
  <2>11. Delivered(c, n)'
    BY <1>1, <1>2, <2>1, <2>5, <2>8, <2>10 DEF Delivered, s
  <2>12. Streams(c)'
    BY <1>7, <2>11 DEF Streams
  <2>. QED BY <2>9, <2>12
<1>12. CASE Stored(c, n)
  <2>1. s # 0 /\ gained[s] = n
    BY <1>12 DEF Stored
  <2>2. PICK k \in Nat \ {0} :
          Expected(wire, server, count, n, k) /\ Ready(Nothing, queue[n], Frame(n, k))
    BY <1>12 DEF Stored
  <2>3. s \in Subs /\ n # 0 /\ n # s /\ queue[n] \in Seq(Numbered) /\ Nothing \in Numbered
    BY <1>1, <2>1, Mine, QueueTypes, Apart
  <2>4. Chain(last[c], queue[s]) /\ Chain(Nothing, queue[n]) /\ Newer(c, n) /\ originalOf[n] = 0
    BY <1>8, <2>1, <2>3 DEF Ordered
  <2>. HIDE DEF s
  <2>5. t = n
    BY <1>4, <2>4
  <2>6. k \in Nat /\ f.no = k /\ Expected(wire', server', count', n, k + 1) /\ f = Frame(n, k)
    BY <1>1, <1>3, <2>2
  <2>7. queue'[n] = Append(queue[n], f) /\ queue'[s] = queue[s]
    BY <1>1, <1>10, <2>3, <2>5
  <2>8. Chain(Nothing, queue'[n])
    BY <1>1, <2>2, <2>3, <2>4, <2>6, <2>7, ChainAppend
  <2>9. Ready(Nothing, queue'[n], Frame(n, k + 1))
    BY <1>1, <1>5, <2>2, <2>3, <2>6, <2>7, ReadyAppend
  <2>10. Ordered(c)'
    BY <1>1, <1>2, <2>1, <2>4, <2>7, <2>8 DEF Ordered, Newer, s
  <2>11. k + 1 \in Nat \ {0}
    BY <2>6
  <2>12. Stored(c, n)'
    BY <1>1, <1>2, <2>1, <2>6, <2>9, <2>11 DEF Stored, s
  <2>13. Streams(c)'
    BY <1>7, <2>12 DEF Streams
  <2>. QED BY <2>10, <2>13
<1>. QED BY <1>7, <1>9, <1>11, <1>12

\* A response: the consumer, or the recovery of its subscription, has awaited it.
LEMMA ResponseOrder ==
  ASSUME IInv, SourceInv, RegisteredInv, OrderInv, Dispatch, Head(wire).no = 0, NEW c \in Consumers,
         NEW n \in Subs, n = Head(wire).sub, c = Root(n)
  PROVE  Ordered(c)' /\ Streams(c)'
<1>. DEFINE f == Head(wire)
<1>1. /\ n \in Fed /\ n \in Subs /\ n \in Nat /\ n # 0
      /\ Fed' \subseteq Fed /\ hand = "pumping"
      /\ UNCHANGED <<hand, server, count, madeFor, aliasOf, originalOf, last>>
  BY DispatchedIs, Apart
<1>2. DispatchResponse(n)
  BY DEF Dispatch
<1>3. \A k \in Nat : Expected(wire, server, count, n, k) =>
        k = 0 /\ Expected(wire', server', count', n, k + 1)
  BY DispatchedNext
<1>4. c = Root(n)
  OBVIOUS
<1>. HIDE DEF f
<1>5. UNCHANGED queue /\ asking' = asking \ {madeFor[n]}
  BY <1>2 DEF DispatchResponse
<1>6. Live(c)' => Live(c)
  BY <1>2, Types DEF DispatchResponse, Live
<1>. SUFFICES ASSUME Live(c) PROVE Ordered(c)' /\ Streams(c)'
  BY <1>6 DEF Ordered, Streams
<1>7. /\ Awaited(c, n) \/ Delivered(c, n) \/ Stored(c, n)
      /\ \A m \in Fed' : Root(m)' = c => m = n
  <2>1. \A m \in Fed : Root(m) = c => m = n
    BY <1>1, <1>4, StreamIs
  <2>2. \A m \in Fed' : Root(m)' = c => m = n
    BY <1>1, <2>1 DEF Root
  <2>. QED BY <1>1, <1>4, <2>2, StreamIs
<1>8. Awaited(c, n)
  BY <1>3, <1>7 DEF Delivered, Stored
<1>9. /\ madeFor[n] \in asking /\ queue[n] = <<>> /\ originalOf[n] = 0 /\ Newer(c, n)
      /\ Expected(wire', server', count', n, 1)
  <2>1. 0 \in Nat /\ 0 + 1 = 1
    OBVIOUS
  <2>. QED BY <1>3, <1>8, <2>1 DEF Awaited
<1>10. Ordered(c)
  BY DEF OrderInv
<1>11. Nothing \in Numbered /\ Nothing.sub < n /\ Chain(Nothing, <<>>) /\ Ready(Nothing, <<>>, Frame(n, 1))
  <2>1. Nothing \in Numbered /\ Nothing.sub < n
    BY <1>1, QueueTypes DEF Nothing
  <2>. QED BY <1>1, <2>1, ChainEmpty
<1>12. CASE madeFor[n] = c
  <2>1. sub[c] = 0
    BY <1>9, <1>12 DEF SourceInv, AskInv
  <2>2. pc[c] = "asking"
    BY <2>1, Types DEF Live
  <2>3. pc'[c] = "answered" /\ sub'[c] = n /\ UNCHANGED gained
    BY <1>2, <1>9, <1>12, <2>2, Types, Apart DEF DispatchResponse
  <2>4. gained[n] = 0
    <3>1. n \notin recovering
      BY <1>12, <2>2 DEF RegisteredInv
    <3>. QED BY <1>1, <3>1, QueueTypes
  <2>5. last'[c] = Nothing
    BY <1>1, <2>2 DEF RegisteredInv
  <2>6. Ordered(c)'
    BY <1>5, <1>9, <1>11, <2>3, <2>4, <2>5 DEF Ordered
  <2>7. Delivered(c, n)'
    BY <1>1, <1>5, <1>9, <1>11, <2>3, <2>4, <2>5 DEF Delivered
  <2>. QED BY <1>7, <2>6, <2>7 DEF Streams
<1>13. CASE madeFor[n] # c
  <2>1. madeFor[n] \in Subs /\ madeFor[madeFor[n]] = c /\ sub[c] = madeFor[n] /\ madeFor[n] # 0
        /\ madeFor[n] \notin Consumers
    <3>1. madeFor[n] \in Subs /\ madeFor[madeFor[n]] = c /\ madeFor[n] \notin Consumers
      BY <1>1, <1>4, <1>9, <1>13, Types, Apart DEF Root
    <3>. QED BY <1>9, <3>1, Apart DEF SourceInv, AskInv
  <2>2. gained'[sub[c]] = n /\ UNCHANGED <<pc, sub>>
    BY <1>2, <1>9, <2>1, Types DEF DispatchResponse
  <2>3. Ordered(c)'
    BY <1>1, <1>5, <1>9, <1>10, <1>11, <2>1, <2>2 DEF Ordered, Newer
  <2>4. Stored(c, n)'
    BY <1>1, <1>5, <1>9, <1>11, <2>1, <2>2 DEF Stored
  <2>. QED BY <1>7, <2>3, <2>4 DEF Streams
<1>. QED BY <1>12, <1>13

LEMMA DispatchOrder ==
  ASSUME IInv, SourceInv, RegisteredInv, OrderInv, Dispatch
  PROVE  OrderInv'
<1>1. ASSUME NEW c \in Consumers PROVE Ordered(c)' /\ Streams(c)'
  <2>1. CASE c # Root(Head(wire).sub)
    BY <2>1, DispatchOthers
  <2>2. CASE c = Root(Head(wire).sub)
    BY <2>2, DispatchedIs, NotificationOrder, ResponseOrder
  <2>. QED BY <2>1, <2>2
<1>. QED BY <1>1 DEF OrderInv

-----------------------------------------------------------------------------
(* The recoveries.                                                         *)

\* A subscription that is being recovered and that its consumer polls is open.
LEMMA RecoveringIs ==
  ASSUME IInv, SourceInv, RegisteredInv, VigilInv, NEW c \in Consumers, Live(c),
         sub[c] \in recovering
  PROVE  sub[c] \in recoverers /\ sub[c] \in received /\ Polling(c)
<1>1. sub[c] # 0
  BY QueueTypes, Apart
<1>2. madeFor[sub[c]] = c
  BY <1>1, Mine
<1>3. c \in Recoverable /\ Polling(c)
  BY <1>2 DEF RegisteredInv, Live, Polling
<1>. QED BY <1>3 DEF VigilInv, TrackedInv

LEMMA StartRecoveryOrder ==
  ASSUME IInv, SourceInv, OrderInv, StartRecovery
  PROVE  OrderInv'
<1>1. /\ UNCHANGED <<hand, wire, server, count, madeFor, mapVars, gained, consumerVars>>
      /\ asking \subseteq asking'
  BY DEF StartRecovery
<1>2. Fed' = Fed
  BY <1>1 DEF Fed, Sent
<1>3. ASSUME NEW c \in Consumers PROVE Ordered(c)' /\ Streams(c)'
  <2>1. Ordered(c) /\ Streams(c) /\ (Live(c)' => Live(c))
    BY <1>1 DEF OrderInv, Live
  <2>2. Ordered(c)'
    BY <1>1, <2>1, OrderedKept
  <2>3. Streams(c)'
    BY <1>1, <1>2, <2>1, StreamsKept
  <2>. QED BY <2>2, <2>3
<1>. QED BY <1>3 DEF OrderInv

LEMMA ReturnedOrder ==
  ASSUME IInv, SourceInv, RegisteredInv, VigilInv, OrderInv, NEW s \in Subs, Returned(s)
  PROVE  OrderInv'
<1>1. UNCHANGED <<hand, wire, server, count, madeFor, asking, mapVars, consumerVars>>
  BY DEF Returned
<1>2. gained[s] # 0
  BY DEF Returned
<1>3. \A r \in Subs : gained'[r] = gained[r] \/ (r = s /\ s \notin recoverers)
  BY Types DEF Returned, Release
<1>4. Fed' = Fed
  BY <1>1 DEF Fed, Sent
<1>5. ASSUME NEW c \in Consumers PROVE Ordered(c)' /\ Streams(c)'
  <2>. SUFFICES ASSUME Live(c) PROVE Ordered(c)' /\ Streams(c)'
    BY <1>1 DEF Ordered, Streams, Live
  <2>1. Ordered(c) /\ Streams(c)
    BY DEF OrderInv
  <2>2. sub[c] # 0 => gained'[sub[c]] = gained[sub[c]]
    <3>1. sub[c] = s => s \in recovering
      BY <1>2, QueueTypes
    <3>2. sub[c] = s => s \in recoverers
      BY <3>1, RecoveringIs
    <3>. QED BY <1>3, <3>2, Mine
  <2>3. Ordered(c)'
    BY <1>1, <2>1, <2>2, OrderedKept
  <2>4. Streams(c)'
    BY <1>1, <1>4, <2>1, <2>2, StreamsKept
  <2>. QED BY <2>3, <2>4
<1>. QED BY <1>5 DEF OrderInv

\* What came under the new id goes behind what came under the old one, and what
\* comes follows it.
LEMMA RecoveredOrder ==
  ASSUME IInv, SourceInv, MadeInv, RegisteredInv, VigilInv, OrderInv, NEW s \in Subs, Recovered(s)
  PROVE  OrderInv'
<1>. DEFINE g == gained[s]
<1>1. /\ UNCHANGED <<hand, wire, server, count, madeFor, asking, consumerVars>>
      /\ aliasOf' = [aliasOf EXCEPT ![s] = g]
      /\ originalOf' = [r \in Subs |-> IF r = g THEN s ELSE IF r = aliasOf[s] THEN 0 ELSE originalOf[r]]
      /\ queue' = [queue EXCEPT ![s] = IF s \in received THEN @ \o queue[g] ELSE @, ![g] = <<>>]
      /\ gained' = [gained EXCEPT ![s] = 0]
  BY DEF Recovered, Release, Realias
<1>2. /\ g # 0 /\ g \in Subs /\ g # s /\ madeFor[g] = s /\ Root(g) = madeFor[s] /\ madeFor[s] \in Consumers
      /\ s \in recovering /\ g \in Nat
  <2>1. gained[s] # 0 /\ s \in recovering
    BY QueueTypes DEF Recovered
  <2>. QED BY <2>1, GainedIs DEF Subs
<1>3. \A m \in Group(g) : m = g
  BY <1>2, GainedIs
<1>4. PICK n \in Subs : n = g
  BY <1>2
<1>. HIDE DEF g
<1>5. Fed' = Fed
  BY <1>1 DEF Fed, Sent
<1>6. \A r \in Subs : /\ queue'[r] = IF r = g THEN <<>>
                                     ELSE IF r = s /\ s \in received THEN queue[s] \o queue[g] ELSE queue[r]
                      /\ r # s => aliasOf'[r] = aliasOf[r] /\ gained'[r] = gained[r]
                      /\ r # g /\ originalOf[r] = 0 => originalOf'[r] = 0
  BY <1>1, <1>2, QueueTypes, Types
<1>7. aliasOf'[s] = g /\ gained'[s] = 0
  BY <1>1, QueueTypes, Types
<1>8. ASSUME NEW c \in Consumers, c # madeFor[s] PROVE Ordered(c)' /\ Streams(c)'
  <2>1. Ordered(c) /\ Streams(c) /\ (Live(c)' => Live(c))
    BY <1>1 DEF OrderInv, Live
  <2>2. sub[c] # 0 => sub[c] \in Subs /\ sub[c] # s
    BY <1>8, Mine
  <2>3. \A r \in Subs : Root(r) = c => r # g /\ r # s
    BY <1>2, <1>8 DEF Root
  <2>4. \A r \in Subs : Root(r) = c => queue'[r] = queue[r] /\ (originalOf[r] = 0 => originalOf'[r] = 0)
    BY <1>6, <2>3
  <2>5. sub[c] # 0 => gained'[sub[c]] = gained[sub[c]] /\ aliasOf'[sub[c]] = aliasOf[sub[c]]
    BY <1>6, <2>2
  <2>6. Ordered(c)'
    BY <1>1, <2>1, <2>4, <2>5, OrderedKept
  <2>7. Streams(c)'
    BY <1>1, <1>5, <2>1, <2>4, <2>5, StreamsKept
  <2>. QED BY <2>6, <2>7
<1>9. ASSUME NEW c \in Consumers, c = madeFor[s] PROVE Ordered(c)' /\ Streams(c)'
  <2>. SUFFICES ASSUME Live(c) PROVE Ordered(c)' /\ Streams(c)'
    BY <1>1 DEF Ordered, Streams, Live
  <2>1. sub[c] = s /\ sub'[c] = s /\ s # 0 /\ last'[c] = last[c]
    BY <1>1, <1>2, <1>9, Apart DEF RegisteredInv
  <2>2. s \in received
    BY <1>2, <2>1, RecoveringIs
  <2>3. queue'[s] = queue[s] \o queue[g]
    BY <1>2, <1>6, <2>2
  <2>4. /\ Chain(last[c], queue[s]) /\ Chain(Nothing, queue[g])
        /\ last[c].sub < g /\ Within(queue[s], 0 .. g - 1)
    BY <1>2, <2>1 DEF OrderInv, Ordered, Newer, g
  <2>5. queue[s] \in Seq(Numbered) /\ queue[g] \in Seq(Numbered) /\ last[c] \in Numbered
    BY <1>2, QueueTypes
  <2>6. Within(queue[g], {g})
    BY <1>2, <1>3 DEF MadeInv, Within
  <2>7. /\ Chain(last[c], queue'[s])
        /\ \A h \in Numbered : h.sub = g /\ Ready(Nothing, queue[g], h) => Ready(last[c], queue'[s], h)
    BY <1>2, <2>3, <2>4, <2>5, <2>6, ChainConcat
  <2>8. Ordered(c)'
    BY <1>7, <2>1, <2>7 DEF Ordered
  <2>9. Streams(c)'
    <3>. SUFFICES ASSUME hand = "pumping", NEW m \in Fed, Root(m) = c PROVE Delivered(c, m)'
      BY <1>1, <1>5 DEF Streams, Root
    <3>1. Awaited(c, m) \/ Delivered(c, m) \/ Stored(c, m)
      BY StreamIs
    <3>2. ~Delivered(c, m)
      BY <1>2, <2>1 DEF Delivered, g
    <3>3. ~Awaited(c, m)
      <4>1. s \notin asking /\ c \notin asking
        BY <1>2, <2>1, Types DEF SourceInv, AskInv, g
      <4>2. \A a \in asking \cap Subs : madeFor[a] = c => a = s
        BY <2>1 DEF SourceInv, AskInv
      <4>3. madeFor[m] \in asking => madeFor[m] \in Subs /\ madeFor[madeFor[m]] = c
        BY <4>1, Types DEF Root
      <4>. QED BY <4>1, <4>2, <4>3 DEF Awaited
    <3>4. m = g /\ \E k \in Nat \ {0} :
            Expected(wire, server, count, m, k) /\ Ready(Nothing, queue[m], Frame(m, k))
      BY <2>1, <3>1, <3>2, <3>3 DEF Stored, g
    <3>5. \A k \in Nat : Frame(g, k) \in Numbered /\ Frame(g, k).sub = g
      BY <1>2 DEF Frame, Numbered
    <3>6. PICK k \in Nat \ {0} :
            Expected(wire, server, count, m, k) /\ Ready(last[c], queue'[s], Frame(m, k))
      BY <2>7, <3>4, <3>5
    <3>. QED BY <1>1, <1>7, <2>1, <3>4, <3>6 DEF Delivered
  <2>. QED BY <2>8, <2>9
<1>. QED BY <1>8, <1>9 DEF OrderInv

\* The message that ends a subscription is in nobody's way.
LEMMA SettledOrder ==
  ASSUME IInv, SourceInv, RegisteredInv, OrderInv, NEW s \in Subs, Settled(s)
  PROVE  OrderInv'
<1>1. /\ UNCHANGED <<hand, wire, server, count, madeFor, aliasOf, originalOf, consumerVars>>
      /\ gained' = [gained EXCEPT ![s] = 0]
      /\ asking' = asking \ {s} /\ s \in asking
      /\ s \in atNode \/ hand # "pumping"
      /\ queue' = IF s \in received THEN [queue EXCEPT ![s] = Append(@, Injected(s))] ELSE queue
  BY DEF Settled, Release
<1>2. madeFor[s] \in Consumers /\ sub[madeFor[s]] = s /\ gained[s] = 0 /\ s # 0 /\ s \notin Consumers
  BY <1>1, Types, Apart DEF SourceInv, AskInv
<1>3. gained' = gained
  BY <1>1, <1>2, Types
<1>4. Fed' = Fed
  BY <1>1 DEF Fed, Sent
<1>5. \A r \in Subs : r # s => queue'[r] = queue[r]
  BY <1>1, QueueTypes
<1>6. hand = "pumping" => \A n \in Fed : Root(n) # madeFor[s]
  BY <1>1, <1>2 DEF SourceInv, FeedInv, RootOf
<1>7. ASSUME NEW c \in Consumers, c # madeFor[s] PROVE Ordered(c)' /\ Streams(c)'
  <2>1. Ordered(c) /\ Streams(c) /\ (Live(c)' => Live(c))
    BY <1>1 DEF OrderInv, Live
  <2>2. \A r \in Subs : Root(r) = c => r # s
    BY <1>2, <1>7 DEF Root
  <2>3. \A r \in Subs : Root(r) = c => queue'[r] = queue[r]
    BY <1>5, <2>2
  <2>4. \A n \in Fed' : Root(n) = c /\ madeFor[n] \in asking => madeFor[n] \in asking'
    BY <1>1, <1>2, <1>7 DEF Root
  <2>5. Ordered(c)'
    BY <1>1, <1>3, <2>1, <2>3, OrderedKept
  <2>6. Streams(c)'
    BY <1>1, <1>3, <1>4, <2>1, <2>3, <2>4, StreamsKept
  <2>. QED BY <2>5, <2>6
<1>8. ASSUME NEW c \in Consumers, c = madeFor[s] PROVE Ordered(c)' /\ Streams(c)'
  <2>. SUFFICES ASSUME Live(c) PROVE Ordered(c)' /\ Streams(c)'
    BY <1>1 DEF Ordered, Streams, Live
  <2>1. sub[c] = s /\ last[c] \in Numbered /\ queue[s] \in Seq(Numbered) /\ Chain(last[c], queue[s])
    BY <1>2, <1>8, QueueTypes DEF OrderInv, Ordered
  <2>2. Injected(s) \in Numbered /\ Injected(s).no = 0
    BY DEF Injected, Numbered, Subs
  <2>3. queue'[s] = queue[s] \/ queue'[s] = Append(queue[s], Injected(s))
    BY <1>1, QueueTypes
  <2>4. Chain(last[c], queue'[s])
    BY <2>1, <2>2, <2>3, ChainAppend
  <2>5. Ordered(c)'
    BY <1>1, <1>2, <1>3, <2>1, <2>4 DEF Ordered
  <2>6. Streams(c)'
    BY <1>1, <1>4, <1>6, <1>8 DEF Streams, Root
  <2>. QED BY <2>5, <2>6
<1>. QED BY <1>7, <1>8 DEF OrderInv

-----------------------------------------------------------------------------
(* A consumer.                                                             *)

\* Its step leaves the others alone.
LEMMA ConsumerOthers ==
  ASSUME IInv, SourceInv, OrderInv, NEW c \in Consumers, ConsumerStep(c),
         NEW d \in Consumers, d # c
  PROVE  Ordered(d)' /\ Streams(d)'
<1>1. /\ UNCHANGED <<hand, wire, server, count, madeFor, gained, sub>>
      /\ asking \subseteq asking'
  BY DEF ConsumerStep, Ask, Open, Take, Handled, Finish, PollRaises, Quit
<1>2. Fed' = Fed
  BY <1>1 DEF Fed, Sent
<1>3. pc'[d] = pc[d] /\ last'[d] = last[d]
  BY Types, QueueTypes DEF ConsumerStep, Ask, Open, Take, Handled, Finish, PollRaises, Quit
<1>4. \A r \in Subs : Root(r) = d => r # sub[c]
  BY Mine, Apart
<1>5. /\ \A r \in Subs : r # sub[c] => queue'[r] = queue[r] /\ aliasOf'[r] = aliasOf[r]
      /\ \A r \in Subs : originalOf[r] = 0 => originalOf'[r] = 0
  BY QueueTypes DEF ConsumerStep, Ask, Open, Take, Handled, Finish, PollRaises, Quit
<1>6. sub[d] # 0 => aliasOf'[sub[d]] = aliasOf[sub[d]]
  BY <1>4, <1>5, Mine
<1>7. Ordered(d) /\ Streams(d) /\ (Live(d)' => Live(d))
  BY <1>3 DEF OrderInv, Live
<1>8. \A r \in Subs : Root(r) = d => queue'[r] = queue[r] /\ (originalOf[r] = 0 => originalOf'[r] = 0)
  BY <1>4, <1>5
<1>9. Ordered(d)'
  BY <1>1, <1>3, <1>7, <1>8, OrderedKept
<1>10. Streams(d)'
  BY <1>1, <1>2, <1>3, <1>6, <1>7, <1>8, StreamsKept
<1>. QED BY <1>9, <1>10

\* It takes the first of what waits for it.
LEMMA TakeOrder ==
  ASSUME IInv, SourceInv, OrderInv, NEW c \in Consumers, Take(c), NEW s \in Subs, s = sub[c]
  PROVE  Ordered(c)' /\ Streams(c)'
<1>. DEFINE q == queue[s]
            f == Head(q)
<1>1. /\ UNCHANGED <<hand, wire, server, count, madeFor, asking, gained, aliasOf, originalOf, sub>>
      /\ pc[c] = "polling" /\ q # <<>>
      /\ queue' = [queue EXCEPT ![s] = Tail(@)]
      /\ \/ pc' = [pc EXCEPT ![c] = "ending"]
         \/ f.no # 0 /\ last' = [last EXCEPT ![c] = f]
  BY DEF Take
<1>2. s # 0 /\ Live(c) /\ madeFor[s] = c /\ c \notin Subs
  BY <1>1, Apart, Mine DEF Live
<1>3. \A r \in Subs : queue'[r] = IF r = s THEN Tail(q) ELSE queue[r]
  BY <1>1, QueueTypes
<1>4. q \in Seq(Numbered) /\ last[c] \in Numbered /\ Chain(last[c], q)
  BY <1>2, QueueTypes DEF OrderInv, Ordered
<1>. HIDE DEF q, f
<1>5. CASE pc' = [pc EXCEPT ![c] = "ending"]
  <2>1. ~Live(c)'
    BY <1>5, Types DEF Live
  <2>. QED BY <2>1 DEF Ordered, Streams
<1>6. CASE f.no # 0 /\ last' = [last EXCEPT ![c] = f]
  <2>1. last'[c] = f /\ queue'[s] = Tail(q) /\ sub'[c] = s
    BY <1>1, <1>3, <1>6, QueueTypes
  <2>2. /\ Chain(f, Tail(q))
        /\ \A g \in Numbered : Ready(last[c], q, g) => Ready(f, Tail(q), g)
    BY <1>1, <1>4, <1>6, ChainTail DEF f
  <2>3. ASSUME NEW n \in Subs, Newer(c, n) PROVE Newer(c, n)'
    <3>1. Within(q, 0 .. n - 1)
      BY <1>2, <2>3 DEF Newer, q
    <3>2. Within(Tail(q), 0 .. n - 1) /\ f.sub \in 0 .. n - 1
      BY <1>1, <1>4, <1>6, <3>1, WithinTail DEF f
    <3>3. f.sub < n
      BY <3>2 DEF Subs
    <3>. QED BY <2>1, <3>2, <3>3 DEF Newer
  <2>4. gained[s] # 0 => gained[s] \in Subs /\ gained[s] # s /\ queue'[gained[s]] = queue[gained[s]]
    BY <1>2, <1>3, Mine
  <2>5. Ordered(c)'
    <3>1. gained[s] # 0 =>
            /\ Chain(Nothing, queue[gained[s]]) /\ Newer(c, gained[s]) /\ originalOf[gained[s]] = 0
      BY <1>2 DEF OrderInv, Ordered
    <3>2. gained'[sub'[c]] = gained[s]
      BY <1>1
    <3>3. gained[s] # 0 =>
            /\ Chain(Nothing, queue'[gained[s]]) /\ originalOf'[gained[s]] = 0
            /\ last'[c].sub < gained[s] /\ Within(queue'[s], 0 .. gained[s] - 1)
      <4>. SUFFICES ASSUME gained[s] # 0, NEW n \in Subs, n = gained[s]
                    PROVE  /\ Chain(Nothing, queue'[n]) /\ originalOf'[n] = 0
                           /\ last'[c].sub < n /\ Within(queue'[s], 0 .. n - 1)
        BY <2>4
      <4>1. Newer(c, n)'
        BY <2>3, <3>1
      <4>2. last'[c].sub < n /\ Within(queue'[s], 0 .. n - 1)
        BY <1>2, <2>1, <4>1 DEF Newer
      <4>. QED BY <1>1, <2>4, <3>1, <4>2
    <3>. QED BY <2>1, <2>2, <3>2, <3>3 DEF Ordered, Newer
  <2>6. Streams(c)'
    <3>. SUFFICES ASSUME hand = "pumping", NEW n \in Fed, Root(n) = c
                  PROVE  Awaited(c, n)' \/ Delivered(c, n)' \/ Stored(c, n)'
      BY <1>1 DEF Streams, Root, Fed, Sent
    <3>1. n \in Subs /\ (Awaited(c, n) \/ Delivered(c, n) \/ Stored(c, n))
      BY <1>2, StreamIs, Types
    <3>2. \A k \in Nat : Frame(n, k) \in Numbered
      BY <3>1 DEF Frame, Numbered, Subs
    <3>3. CASE Awaited(c, n)
      <4>1. queue'[n] = <<>>
        BY <1>1, <1>3, <3>1, <3>3 DEF Awaited, q
      <4>. QED BY <1>1, <2>3, <3>1, <3>3, <4>1 DEF Awaited
    <3>4. CASE Delivered(c, n)
      <4>1. PICK k \in Nat \ {0} :
              Expected(wire, server, count, n, k) /\ Ready(last[c], q, Frame(n, k))
        BY <3>4 DEF Delivered, q
      <4>2. Ready(last'[c], queue'[s], Frame(n, k))
        BY <2>1, <2>2, <3>2, <4>1
      <4>. QED BY <1>1, <3>4, <4>1, <4>2 DEF Delivered
    <3>5. CASE Stored(c, n)
      <4>1. queue'[n] = queue[n]
        BY <1>2, <2>4, <3>1, <3>5, Apart DEF Stored
      <4>. QED BY <1>1, <3>5, <4>1 DEF Stored
    <3>. QED BY <3>1, <3>3, <3>4, <3>5
  <2>. QED BY <2>5, <2>6
<1>. QED BY <1>1, <1>5, <1>6

LEMMA ConsumerOrder ==
  ASSUME IInv, SourceInv, OrderInv, NEW c \in Consumers, ConsumerStep(c)
  PROVE  OrderInv'
<1>1. Ordered(c)' /\ Streams(c)'
  <2>1. CASE Ask(c)
    <3>1. pc[c] = "idle" /\ sub[c] = 0 /\ UNCHANGED <<madeFor, wire, server, sub>>
      BY <2>1 DEF Ask, SourceInv, AskInv
    <3>2. \A n \in Fed : Root(n) # c
      <4>1. \A n \in Subs : madeFor[n] # c
        BY <3>1 DEF SourceInv, AskInv
      <4>2. \A n \in Fed : madeFor[n] \in Consumers \/ madeFor[n] \in Subs
        BY RootsAre, Types DEF SourceInv
      <4>. QED BY <4>1, <4>2, Types DEF Root
    <3>3. Fed' = Fed /\ \A n \in Fed : Root(n)' = Root(n)
      BY <3>1 DEF Fed, Sent, Root
    <3>4. Streams(c)'
      BY <3>2, <3>3 DEF Streams
    <3>. QED BY <3>1, <3>4 DEF Ordered
  <2>2. CASE Open(c) \/ Handled(c)
    <3>1. /\ UNCHANGED <<hand, wire, server, count, madeFor, asking, gained, queue, aliasOf, originalOf,
                         last, sub>>
          /\ Live(c)
      BY <2>2 DEF Open, Handled, Live
    <3>2. Fed' = Fed
      BY <3>1 DEF Fed, Sent
    <3>3. Ordered(c) /\ Streams(c)
      BY DEF OrderInv
    <3>4. Ordered(c)'
      BY <3>1, <3>3, OrderedKept
    <3>5. Streams(c)'
      BY <3>1, <3>2, <3>3, StreamsKept
    <3>. QED BY <3>4, <3>5
  <2>3. CASE Take(c)
    <3>1. sub[c] \in Subs
      BY <2>3, Types DEF Take
    <3>. QED BY <2>3, <3>1, TakeOrder
  <2>4. CASE Finish(c) \/ PollRaises(c) \/ Quit(c)
    <3>1. ~Live(c)'
      BY <2>4, Types DEF Finish, PollRaises, Quit, Live
    <3>. QED BY <3>1 DEF Ordered, Streams
  <2>. QED BY <2>1, <2>2, <2>3, <2>4 DEF ConsumerStep
<1>. QED BY <1>1, ConsumerOthers DEF OrderInv

-----------------------------------------------------------------------------
(* Every step.                                                             *)

LEMMA NextOrder ==
  ASSUME IInv, SourceInv, VigilInv, MadeInv, RegisteredInv, OrderInv, [Next]_vars
  PROVE  OrderInv'
<1>1. CASE \E c \in Consumers : ConsumerStep(c)
  BY <1>1, ConsumerOrder
<1>2. CASE HandlerStep
  BY <1>2, DispatchOrder, HandlerOrder, ConnectedOrder DEF HandlerStep
<1>3. CASE StartRecovery
  BY <1>3, StartRecoveryOrder
<1>4. CASE \E s \in Subs : Returned(s) \/ Recovered(s) \/ Settled(s)
  BY <1>4, ReturnedOrder, RecoveredOrder, SettledOrder
<1>5. CASE \E a \in Askers : NodeSubscribes(a)
  BY <1>5, NodeSubscribesOrder
<1>6. CASE \E s \in Subs : NodeNotifies(s)
  BY <1>6, NodeNotifiesOrder
<1>7. CASE ConnLost \/ \E s \in Subs : NodeUnsubscribes(s)
  BY <1>7, NodeOrder
<1>8. CASE UNCHANGED vars
  <2>1. UNCHANGED <<hand, wire, server, count, madeFor, asking, mapVars, gained, consumerVars>>
    BY <1>8 DEF vars
  <2>2. Fed' = Fed
    BY <2>1 DEF Fed, Sent
  <2>3. ASSUME NEW c \in Consumers PROVE Ordered(c)' /\ Streams(c)'
    <3>1. Ordered(c) /\ Streams(c) /\ (Live(c)' => Live(c))
      BY <2>1 DEF OrderInv, Live
    <3>2. Ordered(c)'
      BY <2>1, <3>1, OrderedKept
    <3>3. Streams(c)'
      BY <2>1, <2>2, <3>1, StreamsKept
    <3>. QED BY <3>2, <3>3
  <2>. QED BY <2>3 DEF OrderInv
<1>. QED BY <1>1, <1>2, <1>3, <1>4, <1>5, <1>6, <1>7, <1>8 DEF Next

LEMMA OrderOK ==
  ASSUME IInv, SourceInv, MadeInv, OrderInv
  PROVE  InOrder
<1>. SUFFICES ASSUME NEW c \in Consumers, Polling(c),
                     NEW i \in 1 .. Len(<<last[c]>> \o queue[sub[c]]),
                     NEW j \in 1 .. Len(<<last[c]>> \o queue[sub[c]]),
                     i < j, i = 1 \/ (<<last[c]>> \o queue[sub[c]])[i].no # 0,
                     (<<last[c]>> \o queue[sub[c]])[j].no # 0,
                     \A k \in i + 1 .. j - 1 : (<<last[c]>> \o queue[sub[c]])[k].no = 0
              PROVE  Follows((<<last[c]>> \o queue[sub[c]])[i], (<<last[c]>> \o queue[sub[c]])[j])
  BY DEF InOrder
<1>1. sub[c] # 0 /\ Live(c)
  BY Types DEF Polling, Live
<1>2. sub[c] \in Subs
  BY <1>1, Mine
<1>3. Chain(last[c], queue[sub[c]]) /\ queue[sub[c]] \in Seq(Numbered) /\ last[c] \in Numbered
  BY <1>1, <1>2, QueueTypes DEF OrderInv, Ordered
<1>4. last[c].no = 0 => last[c].sub = 0
  BY DEF MadeInv, Nothing
<1>5. \A k \in DOMAIN queue[sub[c]] : queue[sub[c]][k].sub # 0
  <2>1. \A f \in Frames : f.sub # 0
    BY Apart DEF Frames
  <2>2. \A k \in DOMAIN queue[sub[c]] : queue[sub[c]][k] \in Frames
    BY <1>2, QueueTypes, ElementOfSeq, LenProperties
  <2>. QED BY <2>1, <2>2
<1>. QED BY <1>3, <1>4, <1>5, ChainOrdered

\* A consumer takes the notifications of its subscription, and then those of each
\* that replaced it, in the order the node sent them, none twice and none left out,
\* also those that came before the alias was in place.
THEOREM TakenInOrder == Spec => []InOrder
<1>1. Init => SourceInv /\ VigilInv /\ MadeInv /\ RegisteredInv /\ OrderInv
  BY InitSource, InitVigil, InitMade, InitOrder
<1>2. IInv /\ SourceInv /\ VigilInv /\ MadeInv /\ RegisteredInv /\ OrderInv /\ [Next]_vars =>
        SourceInv' /\ VigilInv' /\ MadeInv' /\ RegisteredInv' /\ OrderInv'
  BY NextSource, NextVigil, NextMade, NextRegistered, NextOrder
<1>3. IInv /\ SourceInv /\ MadeInv /\ OrderInv => InOrder
  BY OrderOK
<1>. QED BY <1>1, <1>2, <1>3, Invariant, PTL DEF Spec
=============================================================================
