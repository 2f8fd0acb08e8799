--------------------------- MODULE Subscriptions ---------------------------
(***************************************************************************)
(* The subscriptions of the Websocket object: the queues notifications are *)
(* put on, what a reconnect does to them (orphan, or recover under an      *)
(* alias), and the consumers that poll them in _make_rpc_request.          *)
(*                                                                         *)
(* A server-side subscription lives on one connection and has an id of its *)
(* own.  Requests and their resubmission are those of module Websocket,    *)
(* seen from here as a set of requests that have no response yet.          *)
(***************************************************************************)
EXTENDS Naturals, Sequences, FiniteSets

CONSTANTS
  Consumers,    \* requests that open a subscription and poll it
  Recoverable,  \* those that pass a subscription_recoverer
  Quitters,     \* those whose task may be cancelled, or whose handler may raise
  Mortal,       \* bound: whether the handler may die (and be revived)
  MaxSubs,      \* bound: subscriptions the node creates
  MaxNotes,     \* bound: notifications of one subscription
  MaxConns      \* bound: connections

Subs == 1 .. MaxSubs

ASSUME SubscriptionsAssumption ==
  /\ MaxSubs \in Nat /\ MaxNotes \in Nat /\ MaxConns \in Nat \ {0}
  /\ Mortal \in BOOLEAN
  /\ Recoverable \subseteq Consumers
  /\ Quitters \subseteq Consumers
  /\ Consumers \cap (Subs \cup {0}) = {}

\* Who asks the node to subscribe: a consumer, or the recovery of a subscription.
Askers == Consumers \cup Subs

\* What the node sends: number 0 is the response to the request to subscribe,
\* the others are notifications.  On a queue, 0 is an injected message that
\* ends the subscription: settled out of band, or recoveryFailed.
Frames == [sub : Subs, no : 0 .. MaxNotes]
Injected(s) == [sub |-> s, no |-> 0]
Nothing == [sub |-> 0, no |-> 0]

VARIABLES
  conn,        \* number of the connection
  link,        \* "open" or "lost"
  hand,        \* the handler: "pumping", "reconnecting", "dead", or dead and "reviving"
  wire,        \* frames of the connection that have not been dispatched
  server,      \* subscriptions that live on the connection
  count,       \* notifications the node has sent of each
  madeFor,     \* the asker each subscription was made for, or 0
  asking,      \* askers without a response
  atNode,      \* those of them whose request the node has, unanswered
  leaving,     \* subscriptions the node is asked to end
  received,    \* the keys of self._received_subscriptions
  queue,       \* and their queues
  recoverers,  \* the keys of self._subscription_recoverers
  recovering,  \* self._recovering_subscriptions
  orphaned,    \* self._orphaned_subscriptions
  aliasOf,     \* self._sub_original_to_alias, 0 for none
  originalOf,  \* self._sub_alias_to_original, 0 for none
  due,         \* a task of _recover_subscriptions has not had its first turn
  gained,      \* the new id a recoverer has got, or 0
  checked,     \* recoveries that found their subscription open and want the lock
  pc,          \* control point of each consumer
  sub,         \* the id each consumer polls, or 0
  last         \* the last notification each consumer took

nodeVars == <<wire, server, count, madeFor, atNode, leaving>>
mapVars  == <<received, queue, recoverers, orphaned, aliasOf, originalOf>>
recoveryVars == <<recovering, due, gained, checked>>
consumerVars == <<pc, sub, last>>
vars == <<conn, link, hand, asking, nodeVars, mapVars, recoveryVars, consumerVars>>

Init ==
  /\ conn = 1 /\ link = "open" /\ hand = "pumping"
  /\ wire = <<>> /\ server = {} /\ asking = {} /\ atNode = {} /\ leaving = {}
  /\ count = [s \in Subs |-> 0]
  /\ madeFor = [s \in Subs |-> 0]
  /\ received = {} /\ recoverers = {} /\ recovering = {} /\ orphaned = {}
  /\ queue = [s \in Subs |-> <<>>]
  /\ aliasOf = [s \in Subs |-> 0]
  /\ originalOf = [s \in Subs |-> 0]
  /\ due = FALSE /\ checked = {}
  /\ gained = [s \in Subs |-> 0]
  /\ pc = [c \in Consumers |-> "idle"]
  /\ sub = [c \in Consumers |-> 0]
  /\ last = [c \in Consumers |-> Nothing]

-----------------------------------------------------------------------------
(* The node and the network.                                               *)

FreshSub == {s \in Subs : madeFor[s] = 0 /\ \A r \in Subs : r < s => madeFor[r] # 0}

NodeSubscribes(a) ==
  /\ link = "open"
  /\ a \in atNode
  /\ \E s \in FreshSub :
       /\ madeFor' = [madeFor EXCEPT ![s] = a]
       /\ server' = server \cup {s}
       /\ wire' = Append(wire, [sub |-> s, no |-> 0])
  /\ atNode' = atNode \ {a}
  /\ UNCHANGED <<conn, link, hand, asking, count, leaving, mapVars, recoveryVars, consumerVars>>

NodeNotifies(s) ==
  /\ s \in server
  /\ count[s] < MaxNotes
  /\ count' = [count EXCEPT ![s] = @ + 1]
  /\ wire' = Append(wire, [sub |-> s, no |-> count[s] + 1])
  /\ UNCHANGED <<conn, link, hand, server, madeFor, asking, atNode, leaving, mapVars,
                 recoveryVars, consumerVars>>

NodeUnsubscribes(s) ==
  /\ s \in leaving
  /\ server' = server \ {s}
  /\ leaving' = leaving \ {s}
  /\ UNCHANGED <<conn, link, hand, wire, count, madeFor, asking, atNode, mapVars,
                 recoveryVars, consumerVars>>

\* The connection ends: its subscriptions are gone, and so is some of what the
\* node sent last.
Severed ==
  /\ link' = "lost"
  /\ server' = {} /\ atNode' = {} /\ leaving' = {}

ConnLost ==
  /\ link = "open"
  /\ Severed
  /\ \E n \in 0 .. Len(wire) : wire' = SubSeq(wire, 1, n)
  /\ UNCHANGED <<conn, hand, count, madeFor, asking, mapVars, recoveryVars, consumerVars>>

-----------------------------------------------------------------------------
(* The handler.                                                            *)

Target(s) == IF originalOf[s] # 0 THEN originalOf[s] ELSE s

\* MUTANT: a request that has its response is still in flight.
DispatchResponse_InFlight(s) ==
  /\ \/ \E c \in Consumers :
          /\ madeFor[s] = c /\ pc[c] = "asking"
          /\ pc' = [pc EXCEPT ![c] = "answered"]
          /\ sub' = [sub EXCEPT ![c] = s]
          /\ UNCHANGED gained
     \/ /\ madeFor[s] \in asking \cap Subs
        /\ gained' = [gained EXCEPT ![madeFor[s]] = s]
        /\ UNCHANGED <<pc, sub>>
     \/ /\ madeFor[s] \notin asking \/ (\E c \in Consumers : madeFor[s] = c /\ pc[c] # "asking")
        /\ UNCHANGED <<gained, pc, sub>>
  /\ UNCHANGED <<asking, received, queue>>

\* A response: the asker gets the id, unless it has given up.
DispatchResponse(s) ==
  /\ asking' = asking \ {madeFor[s]}
  /\ \/ \E c \in Consumers :
          /\ madeFor[s] = c /\ pc[c] = "asking"
          /\ pc' = [pc EXCEPT ![c] = "answered"]
          /\ sub' = [sub EXCEPT ![c] = s]
          /\ UNCHANGED gained
     \/ /\ madeFor[s] \in asking \cap Subs
        /\ gained' = [gained EXCEPT ![madeFor[s]] = s]
        /\ UNCHANGED <<pc, sub>>
     \/ /\ madeFor[s] \notin asking \/ (\E c \in Consumers : madeFor[s] = c /\ pc[c] # "asking")
        /\ UNCHANGED <<gained, pc, sub>>
  /\ UNCHANGED <<received, queue>>

\* A notification: on the queue of its id, or of the id that one is an alias
\* of; a queue that does not exist is created.
DispatchNotification(f) ==
  /\ received' = received \cup {Target(f.sub)}
  /\ queue' = [queue EXCEPT ![Target(f.sub)] = Append(@, f)]
  /\ UNCHANGED <<asking, gained, pc, sub>>

\* The receive pump.
Dispatch ==
  /\ hand = "pumping" /\ ~due
  /\ wire # <<>>
  /\ wire' = Tail(wire)
  /\ IF Head(wire).no = 0 THEN DispatchResponse(Head(wire).sub) ELSE DispatchNotification(Head(wire))
  /\ UNCHANGED <<conn, link, hand, server, count, madeFor, atNode, leaving,
                 recoverers, orphaned, aliasOf, originalOf, recovering, due, checked, last>>

\* Who has a response goes on within two turns of the loop, and a recovery has
\* its first turn before the pumps of the new connection; the handler takes
\* more to find out that a pump has ended.
Prompt ==
  /\ \A c \in Consumers : pc[c] # "answered"
  /\ \A s \in Subs : gained[s] = 0
  /\ ~due

\* _orphan_unrecoverable_subscriptions
Orphans == received \ (recoverers \cup recovering)
Orphan ==
  /\ received' = received \ Orphans
  /\ queue' = [s \in Subs |-> IF s \in Orphans THEN <<>> ELSE queue[s]]
  /\ orphaned' = orphaned \cup Orphans
  /\ UNCHANGED <<recoverers, aliasOf, originalOf>>

\* The connection was lost and all it brought is read: orphan, then reconnect
\* or, with the retry budget spent, give up.
Wake ==
  /\ hand = "pumping" /\ link = "lost" /\ wire = <<>>
  /\ Prompt
  /\ Orphan
  /\ hand' \in {"reconnecting"} \cup (IF Mortal THEN {"dead"} ELSE {})
  /\ UNCHANGED <<conn, link, asking, nodeVars, recoveryVars, consumerVars>>

\* A message the pump cannot dispatch ends the handler, not the connection.
HandlerFails ==
  /\ Mortal
  /\ hand = "pumping"
  /\ Prompt
  /\ hand' = "dead"
  /\ UNCHANGED <<conn, link, asking, nodeVars, mapVars, recoveryVars, consumerVars>>

\* Some request finds the handler dead (_restart_handler_if_dead).
Revive ==
  /\ hand = "dead"
  /\ Prompt
  /\ hand' = "reviving"
  /\ Orphan
  /\ Severed
  /\ wire' = <<>>
  /\ UNCHANGED <<conn, asking, count, madeFor, recoveryVars, consumerVars>>

\* Requests whose caller has gone.
Discarded == {c \in asking \cap Consumers : pc[c] = "done"}

\* What a new connection begins with.  A reconnect sends every request again,
\* of those that are discarded only the ones that were queued already; a
\* revival sends only what the dead handler had not.
Connected ==
  /\ hand \in {"reconnecting", "reviving"}
  /\ conn < MaxConns
  /\ conn' = conn + 1
  /\ link' = "open"
  /\ hand' = "pumping"
  /\ \E gone \in SUBSET Discarded : asking' = asking \ gone
  /\ atNode' \in IF hand = "reconnecting" THEN {asking'} ELSE SUBSET asking'
  /\ due' = (recoverers # {})
  /\ UNCHANGED <<wire, server, count, madeFor, leaving, mapVars, recovering, gained, checked,
                 consumerVars>>

ConnectFails ==
  /\ Mortal
  /\ hand \in {"reconnecting", "reviving"}
  /\ hand' = "dead"
  /\ UNCHANGED <<conn, link, asking, nodeVars, mapVars, recoveryVars, consumerVars>>

-----------------------------------------------------------------------------
(* _recover_subscriptions and _recover_subscription.                       *)

\* MUTANT: what is being recovered is not claimed.
StartRecovery_Unclaimed ==
  /\ due
  /\ due' = FALSE
  /\ asking' = asking \cup (recoverers \ recovering)
  /\ atNode' = IF link = "open" THEN atNode \cup (recoverers \ recovering) ELSE atNode
  /\ UNCHANGED <<conn, link, hand, wire, server, count, madeFor, leaving, mapVars, recovering, gained,
                 checked, consumerVars>>

\* Claim what is registered and not being recovered; each recoverer asks the
\* node (for a new subscription, or whether there is anything left to watch).
StartRecovery ==
  /\ due
  /\ due' = FALSE
  /\ recovering' = recovering \cup recoverers
  /\ asking' = asking \cup (recoverers \ recovering)
  /\ atNode' = IF link = "open" THEN atNode \cup (recoverers \ recovering) ELSE atNode
  /\ UNCHANGED <<conn, link, hand, wire, server, count, madeFor, leaving, mapVars, gained, checked,
                 consumerVars>>

\* MUTANT: no finally clause.
Release_Never(s) ==
  /\ gained' = [gained EXCEPT ![s] = 0]
  /\ checked' = checked \ {s}
  /\ UNCHANGED recovering

\* The end of a recovery, in its finally clause.
Release(s) ==
  /\ recovering' = recovering \ {s}
  /\ gained' = [gained EXCEPT ![s] = 0]
  /\ checked' = checked \ {s}

\* MUTANT: what came under the new id before the alias stays there.
Realias_Late(s, n) ==
  /\ aliasOf' = [aliasOf EXCEPT ![s] = n]
  /\ originalOf' = [r \in Subs |-> IF r = n THEN s ELSE IF r = aliasOf[s] THEN 0 ELSE originalOf[r]]
  /\ UNCHANGED <<received, queue>>

\* MUTANT: the alias of an earlier recovery stays.
Realias_Stale(s, n) ==
  /\ aliasOf' = [aliasOf EXCEPT ![s] = n]
  /\ originalOf' = [originalOf EXCEPT ![n] = s]
  /\ received' = received \ {n}
  /\ queue' = [queue EXCEPT ![s] = @ \o queue[n], ![n] = <<>>]

\* n becomes the alias of s, in place of an earlier one, and s gets what came
\* under n before.
Realias(s, n) ==
  /\ aliasOf' = [aliasOf EXCEPT ![s] = n]
  /\ originalOf' = [r \in Subs |-> IF r = n THEN s ELSE IF r = aliasOf[s] THEN 0 ELSE originalOf[r]]
  /\ received' = received \ {n}
  /\ queue' = [queue EXCEPT ![s] = IF s \in received THEN @ \o queue[n] ELSE @, ![n] = <<>>]

\* The recoverer returns the new id: with the subscription still open the lock
\* is next, otherwise the recovery ends and nothing is done with the new one.
Returned(s) ==
  /\ gained[s] # 0 /\ s \notin checked
  /\ IF s \in recoverers
     THEN checked' = checked \cup {s} /\ UNCHANGED <<recovering, gained>>
     ELSE Release(s)
  /\ UNCHANGED <<conn, link, hand, asking, nodeVars, mapVars, due, consumerVars>>

\* Under the lock the check is not repeated.
Recovered(s) ==
  /\ s \in checked
  /\ Release(s)
  /\ Realias(s, gained[s])
  /\ UNCHANGED <<conn, link, hand, asking, nodeVars, recoverers, orphaned, due, consumerVars>>

\* It returns None, having injected a message that settles the subscription, or
\* it raises, and recoveryFailed is injected: both are dropped without a queue.
Settled(s) ==
  /\ s \in asking
  /\ s \in atNode \/ hand \in {"dead", "reviving"}
  /\ Release(s)
  /\ asking' = asking \ {s}
  /\ atNode' = atNode \ {s}
  /\ queue' = IF s \in received THEN [queue EXCEPT ![s] = Append(@, Injected(s))] ELSE queue
  /\ UNCHANGED <<conn, link, hand, wire, server, count, madeFor, leaving, received, recoverers,
                 orphaned, aliasOf, originalOf, due, consumerVars>>

-----------------------------------------------------------------------------
(* A consumer: _make_rpc_request with a result handler.                    *)

GoTo(c, where) == pc' = [pc EXCEPT ![c] = where]

Ask(c) ==
  /\ pc[c] = "idle"
  /\ hand \in {"pumping", "reconnecting"}
  /\ GoTo(c, "asking")
  /\ asking' = asking \cup {c}
  /\ atNode' = IF link = "open" THEN atNode \cup {c} ELSE atNode
  /\ UNCHANGED <<conn, link, hand, wire, server, count, madeFor, leaving, mapVars, recoveryVars,
                 sub, last>>

\* The response: poll the subscription instead, registered if it has a recoverer.
Open(c) ==
  /\ pc[c] = "answered"
  /\ GoTo(c, "polling")
  /\ IF c \in Recoverable
     THEN /\ received' = received \cup {sub[c]}
          /\ recoverers' = recoverers \cup {sub[c]}
     ELSE UNCHANGED <<received, recoverers>>
  /\ UNCHANGED <<conn, link, hand, asking, nodeVars, queue, orphaned, aliasOf, originalOf,
                 recoveryVars, sub, last>>

\* retrieve: the next message goes to the result handler.
Take(c) ==
  /\ pc[c] = "polling"
  /\ sub[c] \notin orphaned
  /\ queue[sub[c]] # <<>>
  /\ queue' = [queue EXCEPT ![sub[c]] = Tail(@)]
  /\ LET f == Head(queue[sub[c]])
     IN  IF f.no = 0
         THEN GoTo(c, "ending") /\ UNCHANGED last
         ELSE GoTo(c, "handling") /\ last' = [last EXCEPT ![c] = f]
  /\ UNCHANGED <<conn, link, hand, asking, nodeVars, received, recoverers, orphaned, aliasOf,
                 originalOf, recoveryVars, sub>>

\* The result handler wants more.
Handled(c) ==
  /\ pc[c] = "handling"
  /\ GoTo(c, "polling")
  /\ UNCHANGED <<conn, link, hand, asking, nodeVars, mapVars, recoveryVars, sub, last>>

\* It has its result, or an error: it unsubscribes, under the lock, and the
\* node is asked to end the subscription by the id it knows.
Finish(c) ==
  /\ pc[c] \in {"handling", "ending"}
  /\ hand \in {"pumping", "reconnecting"}
  /\ GoTo(c, "done")
  /\ LET s == sub[c]
         n == IF aliasOf[s] # 0 THEN aliasOf[s] ELSE s
     IN  /\ received' = received \ {s}
         /\ queue' = [queue EXCEPT ![s] = <<>>]
         /\ recoverers' = recoverers \ {s}
         /\ orphaned' = orphaned \ {s}
         /\ aliasOf' = [aliasOf EXCEPT ![s] = 0]
         /\ originalOf' = [originalOf EXCEPT ![n] = 0]
         /\ leaving' = leaving \cup ({n} \cap server)
  /\ UNCHANGED <<conn, link, hand, asking, wire, server, count, madeFor, atNode, recoveryVars,
                 sub, last>>

\* retrieve raises: the subscription was orphaned, or the handler is dead.
PollRaises(c) ==
  /\ pc[c] \in {"asking", "polling"}
  /\ \/ /\ pc[c] = "polling" /\ sub[c] \in orphaned
        /\ orphaned' = orphaned \ {sub[c]}
     \/ /\ pc[c] = "polling" => sub[c] \notin orphaned /\ queue[sub[c]] = <<>>
        /\ hand \in {"dead", "reviving"}
        /\ UNCHANGED orphaned
  /\ GoTo(c, "done")
  /\ UNCHANGED <<conn, link, hand, asking, nodeVars, received, queue, recoverers, aliasOf,
                 originalOf, recoveryVars, sub, last>>

\* Its task is cancelled or its result handler raises: nobody unsubscribes.
Quit(c) ==
  /\ c \in Quitters
  /\ pc[c] \notin {"idle", "done"}
  /\ GoTo(c, "done")
  /\ UNCHANGED <<conn, link, hand, asking, nodeVars, mapVars, recoveryVars, sub, last>>

-----------------------------------------------------------------------------
ConsumerStep(c) ==
  Ask(c) \/ Open(c) \/ Take(c) \/ Handled(c) \/ Finish(c) \/ PollRaises(c) \/ Quit(c)

HandlerStep == Dispatch \/ Wake \/ HandlerFails \/ Revive \/ Connected \/ ConnectFails

Next ==
  \/ \E c \in Consumers : ConsumerStep(c)
  \/ HandlerStep
  \/ StartRecovery
  \/ \E s \in Subs : Returned(s) \/ Recovered(s) \/ Settled(s)
  \/ \E a \in Askers : NodeSubscribes(a)
  \/ \E s \in Subs : NodeNotifies(s) \/ NodeUnsubscribes(s)
  \/ ConnLost

Spec == Init /\ [][Next]_vars

-----------------------------------------------------------------------------
NodeTypeOK ==
  /\ conn \in 1 .. MaxConns
  /\ link \in {"open", "lost"}
  /\ wire \in Seq(Frames)
  /\ server \in SUBSET Subs /\ leaving \in SUBSET Subs
  /\ count \in [Subs -> 0 .. MaxNotes]
  /\ madeFor \in [Subs -> Askers \cup {0}]
  /\ asking \in SUBSET Askers /\ atNode \in SUBSET Askers

MapTypeOK ==
  /\ hand \in {"pumping", "reconnecting", "dead", "reviving"}
  /\ received \in SUBSET Subs /\ recoverers \in SUBSET Subs /\ orphaned \in SUBSET Subs
  /\ queue \in [Subs -> Seq(Frames)]
  /\ \A s \in Subs : queue[s] # <<>> => s \in received
  /\ aliasOf \in [Subs -> Subs \cup {0}]
  /\ originalOf \in [Subs -> Subs \cup {0}]

\* A recovery that waits for the node, or has its answer, is claimed.
RecoveryTypeOK ==
  /\ due \in BOOLEAN
  /\ recovering \in SUBSET Subs
  /\ asking \cap Subs \subseteq recovering
  /\ gained \in [Subs -> Subs \cup {0}]
  /\ \A s \in Subs : gained[s] # 0 => s \in recovering
  /\ checked \in SUBSET Subs
  /\ \A s \in checked : gained[s] # 0

ConsumerTypeOK ==
  /\ pc \in [Consumers -> {"idle", "asking", "answered", "polling", "handling", "ending", "done"}]
  /\ sub \in [Consumers -> Subs \cup {0}]
  /\ last \in [Consumers -> Frames \cup {Nothing}]

TypeOK == NodeTypeOK /\ MapTypeOK /\ RecoveryTypeOK /\ ConsumerTypeOK

Polling(c) == pc[c] \in {"polling", "handling"}

Follows(f, g) ==
  \/ g.sub = f.sub /\ g.no = f.no + 1
  \/ g.sub > f.sub /\ g.no = 1

\* A consumer sees the notifications of its subscription, and then of each that
\* replaced it, in the order the node sent them: none twice, none left out
\* between two others, also those that came before the alias was in place.
InOrder ==
  \A c \in Consumers : Polling(c) =>
    LET notes == <<last[c]>> \o queue[sub[c]]
    IN  \A i, j \in 1 .. Len(notes) :
          /\ i < j /\ (i = 1 \/ notes[i].no # 0) /\ notes[j].no # 0
          /\ \A k \in i + 1 .. j - 1 : notes[k].no = 0
          => Follows(notes[i], notes[j])

\* The consumer a subscription was made for, whichever recovery asked for it.
Root(s) == IF madeFor[s] \in Consumers THEN madeFor[s] ELSE madeFor[madeFor[s]]

\* At most one subscription on the connection feeds a consumer: recovery never
\* doubles one that lives, nor what an overlapping recovery or the resubmission
\* of the request itself re-established.
OneFeed ==
  \A r, s \in server : Root(r) = Root(s) => r = s

\* The two alias maps are inverse to each other, so that every notification of
\* the node and every unsubscribe request finds the id the other side uses.
MapsAgree ==
  \A s, n \in Subs : aliasOf[s] = n <=> originalOf[n] = s

\* A consumer that polls while the connection is up will hear something: its
\* subscription, or the one that replaced it, lives; or it is being recovered;
\* or a message or an error that ends it waits for the consumer.
Heard(c) ==
  pc[c] = "polling" /\ hand = "pumping" /\ link = "open" =>
    \/ {sub[c], aliasOf[sub[c]]} \cap server # {}
    \/ sub[c] \in asking \/ gained[sub[c]] # 0 \/ (due /\ sub[c] \in recoverers)
    \/ sub[c] \in orphaned
    \/ \E i \in DOMAIN queue[sub[c]] : queue[sub[c]][i].no = 0

\* With a recoverer nobody waits in silence, however often the connection is
\* lost and whichever way a recovery ends.
RecoverableHeard == \A c \in Recoverable : Heard(c)
=============================================================================
