----------------------------- MODULE Websocket -----------------------------
(***************************************************************************)
(* The Websocket object of async_substrate.py: one connection shared by    *)
(* many concurrent requests.  Client tasks book requests, a handler task   *)
(* with a send pump and a receive pump moves frames, reconnects and        *)
(* resubmits what was in flight, and an exit timer closes an idle          *)
(* connection.                                                             *)
(*                                                                         *)
(* Everything runs on one asyncio loop: a task runs until it suspends.     *)
(* `running' names the task that has not suspended yet, so that a stretch  *)
(* of code without an await that really waits is never interleaved, and    *)
(* every await that may wait is a point where any other task may run.      *)
(***************************************************************************)
EXTENDS Naturals, Sequences, FiniteSets, SequencesExt

CONSTANTS
  Clients,      \* tasks that call _make_rpc_request or runtime_calls once
  Plan,         \* Plan[c]: sizes of the frames c sends (size > 1: a batch)
  Pollers,      \* clients that scan with retrieve; the others await one future
  Cancellable,  \* clients whose task may be cancelled from outside
  MaxPermits,   \* max_subscriptions
  MaxRetries,   \* max_retries
  AutoShutdown, \* shutdown_timer is not None
  Closures,     \* how a connection may end by itself: "ended" (code 1000), "lost"
  Cycle,        \* number of distinct request ids (the length of id_cycle)
  MaxConns,     \* bound: connections the endpoint accepts
  MaxHandlers   \* bound: handler tasks created

Ids      == 1 .. Cycle
Conns    == 1 .. MaxConns
Handlers == 1 .. MaxHandlers

Nobody      == <<"nobody", 0>>
Handler(h)  == <<"handler", h>>
Sender(h)   == <<"sender", h>>
Receiver(h) == <<"receiver", h>>
Tasks == {<<k, h>> : k \in {"handler", "sender", "receiver"}, h \in Handlers}

ASSUME BoundsAssumption ==
  /\ MaxPermits \in Nat \ {0}
  /\ MaxRetries \in Nat \ {0}
  /\ Cycle \in Nat \ {0}
  /\ MaxConns \in Nat \ {0}
  /\ MaxHandlers \in Nat \ {0}
  /\ AutoShutdown \in BOOLEAN
  /\ Closures \subseteq {"ended", "lost"}

\* One payload without a result handler is awaited through its own future;
\* every other request is polled.
ASSUME ClientsAssumption ==
  /\ IsFiniteSet(Clients)
  /\ Pollers \subseteq Clients
  /\ Cancellable \subseteq Clients
  /\ Plan \in [Clients -> Seq(Nat \ {0})]
  /\ \A c \in Clients : Plan[c] # <<>> /\ (c \notin Pollers => Plan[c] = <<1>>)

\* A client is none of the values its variables hold beside clients.
ASSUME NamesAssumption ==
  Clients \cap (Tasks \cup {Nobody} \cup {"none", "pending", "error"}) = {}

Frames  == [owner : Clients, ids : SUBSET Ids]
NoFrame == [owner |-> Nobody, ids |-> {}]

VARIABLES
  running,   \* task that has the loop and has not suspended, or Nobody
  lock,      \* holder of self._lock across a suspension, or Nobody
  lockq,     \* tasks suspended on self._lock, first come first served
  ws,        \* self.ws: a connection, or 0 for None
  task,      \* self._send_recv_task: a handler, or 0 for None
  sending,   \* self._sending
  received,  \* self._received: state of each id's future; a client: answered with its reply
  inflight,  \* self._inflight
  inUse,     \* self._in_use_ids
  lastId,    \* position of id_cycle
  permits,   \* value of the max_subscriptions semaphore
  waiting,   \* self._waiting_for_response
  attempts,  \* self._attempts
  exitTask,  \* self._exit_task: "none", or "sleeping" on its timer
  closer,    \* the shutdown in progress: its stage, handler and connection
  link,      \* state of each connection
  wire,      \* frames on each connection the node has not answered
  replies,   \* reply frames of each connection not read yet
  hst,       \* control point of each handler
  hconn,     \* the `ws' argument of each handler's pumps
  rcv, rhand,  \* each receive pump and the ids of the reply it is dispatching
  snd, shand,  \* each send pump and the frame it took from the queue
  watched,   \* handler each client awaits beside its future, or 0
  pc,        \* control point of each client
  sent,      \* frames each client has queued
  acquired,  \* permits each client holds for the frame it has not booked yet
  pending,   \* ids each client has no response for (RequestManager.unresponded)
  captured,  \* the future each client awaits: the "same" _received holds, or one
             \* it no longer holds, which is "pending" or "done"
  outcome    \* how each client's request ended

loopVars   == <<running, lock, lockq>>
bookVars   == <<sending, received, inflight, inUse, lastId, captured>>
netVars    == <<link, wire, replies>>
pumpVars   == <<rcv, rhand, snd, shand>>
handlerVars == <<hst, hconn, rcv, rhand, snd, shand>>
clientVars == <<pc, sent, acquired, pending, outcome, watched>>
stopVars   == <<exitTask, closer>>
vars == <<loopVars, ws, task, bookVars, permits, waiting, attempts, stopVars,
          netVars, handlerVars, clientVars>>

HandlerDead == {"failed", "finished", "cancelled"}
HandlerLive == {"pumping", "resubmit", "reconnect", "connecting"}
PumpEnded   == {"ok", "lost", "error"}

NotClosing == [stage |-> "idle", task |-> 0, conn |-> 0]

-----------------------------------------------------------------------------
(* Tasks, the lock and the state of the object.                            *)

CanRun(p)  == running \in {Nobody, p}
Suspend    == running' = Nobody
Continue(p) == running' = p

\* asyncio.Lock is fair: a newcomer waits behind whoever is queued.
Turn(p) == CanRun(p) /\ lock = Nobody /\ (lockq # <<>> => Head(lockq) = p)

\* The queue after the task whose turn it is has got the lock.
Served == IF lockq = <<>> THEN lockq ELSE Tail(lockq)

\* A waiter whose task is cancelled leaves the queue.
Leave(q, p) == IF p \in ToSet(q) THEN RemoveAt(q, CHOOSE i \in DOMAIN q : q[i] = p) ELSE q

Alive(h) == h # 0 /\ hst[h] \in HandlerLive
Dead(h)  == h # 0 /\ hst[h] \in HandlerDead

\* State.OPEN; a connection the library is still opening is not in self.ws yet.
Open == ws # 0 /\ link[ws] = "open"

Polls(c)     == c \in Pollers
NextSize(c)  == Plan[c][sent[c] + 1]
Unbooked(c)  == sent[c] < Len(Plan[c])

\* Bound: the cycle of 998 numbers (and two random letters, the same ones here)
\* does not come round to an id that an answered client has not consumed yet.
FreeIds == Ids \ (inUse \cup UNION {pending[c] : c \in Clients})

\* get_next_id in a loop: the n ids that follow lastId in the cycle and that
\* are not in use.
Distance(i) == (i + Cycle - lastId - 1) % Cycle
NextIds(n) ==
  {S \in SUBSET FreeIds :
     Cardinality(S) = n /\ \A i \in S : \A j \in FreeIds \ S : Distance(i) < Distance(j)}

Init ==
  /\ running = Nobody /\ lock = Nobody /\ lockq = <<>>
  /\ ws = 0 /\ task = 0
  /\ sending = <<>>
  /\ received = [i \in Ids |-> "none"]
  /\ inflight = [i \in Ids |-> NoFrame]
  /\ inUse = {} /\ lastId = 0
  /\ permits = MaxPermits
  /\ waiting = 0 /\ attempts = 0
  /\ exitTask = "none"
  /\ closer = NotClosing
  /\ link = [k \in Conns |-> "unused"]
  /\ wire = [k \in Conns |-> {}]
  /\ replies = [k \in Conns |-> {}]
  /\ hst = [h \in Handlers |-> "unborn"]
  /\ hconn = [h \in Handlers |-> 0]
  /\ rcv = [h \in Handlers |-> "off"]
  /\ rhand = [h \in Handlers |-> {}]
  /\ snd = [h \in Handlers |-> "off"]
  /\ shand = [h \in Handlers |-> NoFrame]
  /\ pc = [c \in Clients |-> "idle"]
  /\ sent = [c \in Clients |-> 0]
  /\ acquired = [c \in Clients |-> 0]
  /\ pending = [c \in Clients |-> {}]
  /\ captured = [c \in Clients |-> "same"]
  /\ outcome = [c \in Clients |-> "none"]
  /\ watched = [c \in Clients |-> 0]

-----------------------------------------------------------------------------
(* Waiting for the lock.                                                   *)

\* Where each task takes self._lock next.
AtLock(p) ==
  \/ p \in Clients /\ pc[p] \in {"revive", "connect", "mark", "register", "unmark", "discard"}
  \/ \E h \in Handlers :
       \/ p = Handler(h) /\ hst[h] \in {"resubmit", "reconnect"}
       \/ p = Receiver(h) /\ rcv[h] = "run" /\ rhand[h] # {}
       \/ p = Sender(h) /\ snd[h] = "run" /\ shand[h] # NoFrame

\* async with self._lock, when it is held or others are queued: suspend.
Block(p) ==
  /\ AtLock(p)
  /\ CanRun(p)
  /\ p \notin ToSet(lockq)
  /\ lock # Nobody \/ lockq # <<>>
  /\ lockq' = Append(lockq, p)
  /\ Suspend
  /\ UNCHANGED <<lock, ws, task, bookVars, permits, waiting, attempts, stopVars,
                 netVars, handlerVars, clientVars>>

-----------------------------------------------------------------------------
(* The connection: what the node and the network do.                       *)

NodeReplies(k) ==
  /\ running = Nobody
  /\ link[k] = "open"
  /\ \E f \in wire[k] :
       /\ wire' = [wire EXCEPT ![k] = @ \ {f}]
       /\ replies' = [replies EXCEPT ![k] = @ \cup {f}]
  /\ UNCHANGED <<loopVars, ws, task, bookVars, permits, waiting, attempts, stopVars,
                 link, handlerVars, clientVars>>

\* The connection ends, normally (1000) or not.  What the node had not
\* answered is lost; replies already received can still be read.
ConnLost(k) ==
  /\ running = Nobody
  /\ link[k] = "open"
  /\ \E how \in Closures : link' = [link EXCEPT ![k] = how]
  /\ wire' = [wire EXCEPT ![k] = {}]
  /\ UNCHANGED <<loopVars, ws, task, bookVars, permits, waiting, attempts, stopVars,
                 replies, handlerVars, clientVars>>

-----------------------------------------------------------------------------
(* _connect_internal, in two halves: what runs before the first await that *)
(* waits, and the end of the attempt.  The lock is held in between.        *)

\* self._sending = asyncio.Queue() when it is empty: a send pump of another
\* live handler that waits on the old queue never gets a frame again.
Deafened ==
  IF sending # <<>> THEN snd
  ELSE [h \in Handlers |->
          IF hst[h] = "pumping" /\ snd[h] = "run" /\ shand[h] = NoFrame THEN "deaf" ELSE snd[h]]

\* A forced connect fails the open connection first.
BeginConnect(p, force) ==
  /\ lock' = p
  /\ lockq' = Served
  /\ Suspend
  /\ exitTask' = "none"
  /\ snd' = Deafened
  /\ IF force /\ Open
     THEN /\ link' = [link EXCEPT ![ws] = "lost"]
          /\ wire' = [wire EXCEPT ![ws] = {}]
     ELSE UNCHANGED <<link, wire>>

FreshConn == {k \in Conns : link[k] = "unused" /\ \A j \in Conns : j < k => link[j] # "unused"}

FreshHandler ==
  {h \in Handlers : hst[h] = "unborn" /\ \A j \in Handlers : j < h => hst[j] # "unborn"}

\* MUTANT: a handler for every connection.
Created_Always == {{h} : h \in FreshHandler}

\* The handlers a connect that succeeds creates: one, unless
\* self._send_recv_task is a live handler.
Created == IF Alive(task) THEN {{}} ELSE {{h} : h \in FreshHandler}

\* The attempt succeeds: self.ws is the new connection.  `own' is the handler
\* that reconnects, if one does: it goes back to its pumps.
EndConnect(p, own) ==
  /\ running = Nobody
  /\ lock = p
  /\ \E k \in FreshConn, new \in Created :
       /\ link' = [link EXCEPT ![k] = "open"]
       /\ ws' = k
       /\ task' \in IF new = {} THEN {task} ELSE new
       /\ hst' = [h \in Handlers |-> IF h \in own \cup new THEN "pumping" ELSE hst[h]]
       /\ hconn' = [h \in Handlers |-> IF h \in own \cup new THEN k ELSE hconn[h]]
       /\ rcv' = [h \in Handlers |-> IF h \in own \cup new THEN "run" ELSE rcv[h]]
       /\ snd' = [h \in Handlers |-> IF h \in own \cup new THEN "run" ELSE snd[h]]
  /\ lock' = Nobody

\* The attempt fails: the exception releases the lock.  Beyond its bounds the
\* model has no other outcome.
FailConnect(p) ==
  /\ running = Nobody
  /\ lock = p
  /\ lock' = Nobody

-----------------------------------------------------------------------------
(* _handler: waits for a pump to end, then gives up, or resubmits what was *)
(* in flight and reconnects.                                               *)

PumpResults(h) == {rcv[h], snd[h]} \cap PumpEnded

\* What cancelling the pumps of h does: a frame or a reply in hand is gone.
StopPumps(h) ==
  /\ rcv' = [rcv EXCEPT ![h] = "off"]
  /\ rhand' = [rhand EXCEPT ![h] = {}]
  /\ snd' = [snd EXCEPT ![h] = "off"]
  /\ shand' = [shand EXCEPT ![h] = NoFrame]

WithoutPumps(h) == Leave(Leave(lockq, Receiver(h)), Sender(h))

\* How the handler leaves asyncio.wait: a normal close nobody waits behind
\* ends it, another lost connection uses retry budget, any other error fails it.
Wake(h) ==
  /\ running = Nobody
  /\ hst[h] = "pumping"
  /\ PumpResults(h) # {}
  /\ StopPumps(h)
  /\ lockq' = WithoutPumps(h)
  /\ \/ /\ "ok" \in PumpResults(h) /\ waiting = 0
        /\ hst' = [hst EXCEPT ![h] = "finished"]
        /\ Suspend
        /\ UNCHANGED attempts
     \/ /\ PumpResults(h) = {"error"}
        /\ hst' = [hst EXCEPT ![h] = "failed"]
        /\ Suspend
        /\ UNCHANGED attempts
     \/ /\ PumpResults(h) \cap {"ok", "lost"} # {}
        /\ ~("ok" \in PumpResults(h) /\ waiting = 0)
        /\ attempts' = attempts + 1
        /\ IF attempts + 1 >= MaxRetries
           THEN hst' = [hst EXCEPT ![h] = "failed"] /\ Suspend
           ELSE hst' = [hst EXCEPT ![h] = "resubmit"] /\ Continue(Handler(h))
  /\ UNCHANGED <<lock, ws, task, bookVars, permits, waiting, stopVars, netVars, hconn, clientVars>>

\* The frames to send again: a batch once, whatever ids it still has in flight.
InflightFrames == {inflight[i] : i \in Ids} \ {NoFrame}
ResentIds == UNION {f.ids : f \in InflightFrames}

\* A client that awaits one future goes on awaiting it when _received gets
\* another in its place.
Displaced(c) == c \notin Pollers /\ pc[c] = "await" /\ pending[c] \cap ResentIds # {}

Recaptured ==
  [c \in Clients |->
     IF captured[c] # "same" \/ ~Displaced(c) THEN captured[c]
     ELSE IF \E i \in pending[c] : received[i] = "pending" THEN "pending" ELSE "done"]

\* MUTANT: what is queued again is still in flight.
Resubmit_Keeping(h) ==
  /\ hst[h] = "resubmit"
  /\ Turn(Handler(h))
  /\ lockq' = Served
  /\ received' = [i \in Ids |-> IF i \in ResentIds THEN "pending" ELSE received[i]]
  /\ captured' = Recaptured
  /\ \E s \in SetToSeqs(InflightFrames) : sending' = sending \o s
  /\ hst' = [hst EXCEPT ![h] = "reconnect"]
  /\ Continue(Handler(h))
  /\ UNCHANGED <<lock, ws, task, inflight, inUse, lastId, permits, waiting, attempts, stopVars,
                 netVars, hconn, pumpVars, clientVars>>

\* Everything in flight is queued again (here: in any order) with new futures.
Resubmit(h) ==
  /\ hst[h] = "resubmit"
  /\ Turn(Handler(h))
  /\ lockq' = Served
  /\ inflight' = [i \in Ids |-> NoFrame]
  /\ received' = [i \in Ids |-> IF i \in ResentIds THEN "pending" ELSE received[i]]
  /\ captured' = Recaptured
  /\ \E s \in SetToSeqs(InflightFrames) : sending' = sending \o s
  /\ hst' = [hst EXCEPT ![h] = "reconnect"]
  /\ IF attempts > 1 THEN Suspend ELSE Continue(Handler(h))  \* backoff
  /\ UNCHANGED <<lock, ws, task, inUse, lastId, permits, waiting, attempts, stopVars,
                 netVars, hconn, pumpVars, clientVars>>

\* self.connect(True)
Reconnect(h) ==
  /\ hst[h] = "reconnect"
  /\ Turn(Handler(h))
  /\ BeginConnect(Handler(h), TRUE)
  /\ hst' = [hst EXCEPT ![h] = "connecting"]
  /\ UNCHANGED <<ws, task, bookVars, permits, waiting, attempts, closer, replies,
                 hconn, rcv, rhand, shand, clientVars>>

Reconnected(h) ==
  /\ EndConnect(Handler(h), {h})
  /\ UNCHANGED <<running, lockq, bookVars, permits, waiting, attempts, stopVars, wire, replies,
                 rhand, shand, clientVars>>

\* MUTANT: an unreachable endpoint costs no retry budget.
ReconnectFails_Free(h) ==
  /\ FailConnect(Handler(h))
  /\ hst' = [hst EXCEPT ![h] = "reconnect"]
  /\ UNCHANGED <<running, lockq, ws, task, bookVars, permits, waiting, attempts, stopVars, netVars, hconn,
                 pumpVars, clientVars>>

ReconnectFails(h) ==
  /\ FailConnect(Handler(h))
  /\ attempts' = attempts + 1
  /\ hst' = [hst EXCEPT ![h] = IF attempts + 1 >= MaxRetries THEN "failed" ELSE "reconnect"]
  /\ UNCHANGED <<running, lockq, ws, task, bookVars, permits, waiting, stopVars, netVars, hconn,
                 pumpVars, clientVars>>

-----------------------------------------------------------------------------
(* _start_receiving and _dispatch_response.                                *)

Receiving(h) == hst[h] = "pumping" /\ rcv[h] = "run" /\ rhand[h] = {}

\* ws.recv() returns a reply frame: traffic resets the retry budget.
Receive(h) ==
  /\ running = Nobody
  /\ Receiving(h)
  /\ \E f \in replies[hconn[h]] :
       /\ replies' = [replies EXCEPT ![hconn[h]] = @ \ {f}]
       /\ rhand' = [rhand EXCEPT ![h] = {[owner |-> f.owner, id |-> i] : i \in f.ids}]
  /\ attempts' = 0
  /\ Continue(Receiver(h))
  /\ UNCHANGED <<lock, lockq, ws, task, bookVars, permits, waiting, stopVars, link, wire,
                 hst, hconn, rcv, snd, shand, clientVars>>

\* One response: it is no longer in flight, its future (if it still has one)
\* gets the result and its id may be used again.
Dispatch(h) ==
  /\ hst[h] = "pumping" /\ rcv[h] = "run"
  /\ Turn(Receiver(h))
  /\ \E r \in rhand[h] :
       /\ inflight' = [inflight EXCEPT ![r.id] = NoFrame]
       /\ received[r.id] \in {"none", "pending"}
       /\ received' = [received EXCEPT ![r.id] = IF @ = "none" THEN @ ELSE r.owner]
       /\ inUse' = inUse \ {r.id}
       /\ rhand' = [rhand EXCEPT ![h] = @ \ {r}]
       /\ IF rhand[h] = {r} THEN Suspend ELSE Continue(Receiver(h))
  /\ lockq' = Served
  /\ UNCHANGED <<lock, ws, task, sending, lastId, captured, permits, waiting, attempts, stopVars,
                 netVars, hst, hconn, rcv, snd, shand, clientVars>>

EndReceiver(h, result) ==
  /\ rcv' = [rcv EXCEPT ![h] = result]
  /\ UNCHANGED <<loopVars, ws, task, sending, inflight, inUse, lastId, captured, permits, waiting,
                 stopVars, netVars, hst, hconn, rhand, snd, shand, clientVars>>

\* ConnectionClosed, once every reply that did arrive has been read.
ReceiveClosed(h) ==
  /\ running = Nobody
  /\ Receiving(h)
  /\ replies[hconn[h]] = {}
  /\ \/ link[hconn[h]] = "ended" /\ EndReceiver(h, "ok")
     \/ link[hconn[h]] = "lost" /\ EndReceiver(h, "lost")
  /\ UNCHANGED <<received, attempts>>

\* retry_timeout without traffic while something is expected.
ReceiveTimeout(h) ==
  /\ running = Nobody
  /\ Receiving(h)
  /\ link[hconn[h]] = "open"
  /\ replies[hconn[h]] = {}
  /\ waiting > 0 \/ sending # <<>> \/ \E i \in Ids : inflight[i] # NoFrame
  /\ EndReceiver(h, "lost")
  /\ UNCHANGED <<received, attempts>>

\* Any other error of the receive pump fails every future that is not done.
Failed == [i \in Ids |-> IF received[i] = "pending" THEN "error" ELSE received[i]]

\* A message with neither an id nor params raises KeyError.
ReceiveMalformed(h) ==
  /\ running = Nobody
  /\ Receiving(h)
  /\ link[hconn[h]] = "open"
  /\ attempts' = 0
  /\ received' = Failed
  /\ EndReceiver(h, "error")

\* A second recv() on a connection another pump is already reading.
ReceiveConflict(h) ==
  /\ running = Nobody
  /\ Receiving(h)
  /\ \E g \in Handlers \ {h} : Receiving(g) /\ hconn[g] = hconn[h]
  /\ received' = Failed
  /\ EndReceiver(h, "error")
  /\ UNCHANGED attempts

\* set_result on a future that is already done raises InvalidStateError.
DispatchTwice(h) ==
  /\ hst[h] = "pumping" /\ rcv[h] = "run"
  /\ Turn(Receiver(h))
  /\ \E r \in rhand[h] :
       /\ received[r.id] \notin {"none", "pending"}
       /\ inflight' = [inflight EXCEPT ![r.id] = NoFrame]
  /\ received' = Failed
  /\ rcv' = [rcv EXCEPT ![h] = "error"]
  /\ rhand' = [rhand EXCEPT ![h] = {}]
  /\ lockq' = Served
  /\ Suspend
  /\ UNCHANGED <<lock, ws, task, sending, inUse, lastId, captured, permits, waiting, attempts, stopVars,
                 netVars, hst, hconn, snd, shand, clientVars>>

-----------------------------------------------------------------------------
(* _start_sending.                                                         *)

TakeFrame(h) ==
  /\ running = Nobody
  /\ hst[h] = "pumping" /\ snd[h] = "run" /\ shand[h] = NoFrame
  /\ sending # <<>>
  /\ shand' = [shand EXCEPT ![h] = Head(sending)]
  /\ sending' = Tail(sending)
  /\ Continue(Sender(h))
  /\ UNCHANGED <<lock, lockq, ws, task, received, inflight, inUse, lastId, captured, permits, waiting,
                 attempts, stopVars, netVars, hst, hconn, rcv, rhand, snd, clientVars>>

\* The frame is recorded as in flight under the lock, then written; on a
\* connection that is gone ws.send raises and the frame stays in flight.
SendFrame(h) ==
  /\ hst[h] = "pumping" /\ snd[h] = "run" /\ shand[h] # NoFrame
  /\ Turn(Sender(h))
  /\ lockq' = Served
  /\ Suspend
  /\ inflight' = [i \in Ids |-> IF i \in shand[h].ids THEN shand[h] ELSE inflight[i]]
  /\ shand' = [shand EXCEPT ![h] = NoFrame]
  /\ CASE link[hconn[h]] = "open" ->
            /\ wire' = [wire EXCEPT ![hconn[h]] = @ \cup {shand[h]}]
            /\ UNCHANGED snd
       [] link[hconn[h]] \in {"closing", "ended"} ->
            /\ snd' = [snd EXCEPT ![h] = "ok"]
            /\ UNCHANGED wire
       [] OTHER ->
            /\ snd' = [snd EXCEPT ![h] = "lost"]
            /\ UNCHANGED wire
  /\ UNCHANGED <<lock, ws, task, sending, received, inUse, lastId, captured, permits, waiting,
                 attempts, stopVars, link, replies, hst, hconn, rcv, rhand, clientVars>>

-----------------------------------------------------------------------------
(* A client: __aenter__, then a request of _make_rpc_request (frames of    *)
(* one) or runtime_calls (a batch), then its finally clause and __aexit__. *)

GoTo(c, where) == pc' = [pc EXCEPT ![c] = where]

Enter(c) ==
  /\ running = Nobody
  /\ pc[c] = "idle"
  /\ GoTo(c, IF Dead(task) THEN "revive" ELSE IF Open THEN "mark" ELSE "connect")
  /\ Continue(c)
  /\ UNCHANGED <<lock, lockq, ws, task, bookVars, permits, waiting, attempts, stopVars, netVars,
                 handlerVars, sent, acquired, pending, outcome, watched>>

\* _restart_handler_if_dead, once it has the lock.
Revive(c) ==
  /\ pc[c] = "revive"
  /\ Turn(c)
  /\ Dead(task)
  /\ attempts' = 0
  /\ BeginConnect(c, TRUE)
  /\ GoTo(c, "reviving")
  /\ UNCHANGED <<ws, task, bookVars, permits, waiting, closer, replies, hst, hconn, rcv, rhand, shand,
                 sent, acquired, pending, outcome, watched>>

\* MUTANT: the state is not looked at again with the lock.
Connect_Unchecked(c) ==
  /\ pc[c] = "connect"
  /\ Turn(c)
  /\ BeginConnect(c, FALSE)
  /\ GoTo(c, "connecting")
  /\ UNCHANGED <<ws, task, bookVars, permits, waiting, attempts, closer, replies, hst, hconn, rcv, rhand,
                 shand, sent, acquired, pending, outcome, watched>>

\* connect() from __aenter__: only when no live handler owns the connection.
\* What _cancel does here is close a socket that is not open.
Connect(c) ==
  /\ pc[c] = "connect"
  /\ Turn(c)
  /\ ~Open /\ ~Alive(task)
  /\ BeginConnect(c, FALSE)
  /\ GoTo(c, "connecting")
  /\ UNCHANGED <<ws, task, bookVars, permits, waiting, attempts, closer, replies, hst, hconn, rcv, rhand,
                 shand, sent, acquired, pending, outcome, watched>>

\* MUTANT: who finds the connection made goes on without its mark.
NoNeed_Unmarked(c) ==
  /\ Turn(c)
  /\ pc[c] = "connect" /\ (Open \/ Alive(task)) /\ GoTo(c, "acquire")
  /\ lockq' = Served
  /\ Continue(c)
  /\ UNCHANGED <<lock, ws, task, bookVars, permits, waiting, attempts, stopVars, netVars,
                 handlerVars, sent, acquired, pending, outcome, watched>>

\* Both find, with the lock, that there is nothing to do.
NoNeed(c) ==
  /\ Turn(c)
  /\ \/ pc[c] = "revive" /\ ~Dead(task) /\ GoTo(c, IF Open THEN "mark" ELSE "connect")
     \/ pc[c] = "connect" /\ (Open \/ Alive(task)) /\ GoTo(c, "mark")
  /\ lockq' = Served
  /\ Continue(c)
  /\ UNCHANGED <<lock, ws, task, bookVars, permits, waiting, attempts, stopVars, netVars,
                 handlerVars, sent, acquired, pending, outcome, watched>>

Connected(c) ==
  /\ EndConnect(c, {})
  /\ GoTo(c, "mark")
  /\ Continue(c)
  /\ UNCHANGED <<lockq, bookVars, permits, waiting, attempts, stopVars, wire, replies,
                 rhand, shand, sent, acquired, pending, outcome, watched>>

\* The exception leaves __aenter__: nothing was marked or booked.
ConnectFails(c) ==
  /\ FailConnect(c)
  /\ GoTo(c, "done")
  /\ outcome' = [outcome EXCEPT ![c] = "failed"]
  /\ UNCHANGED <<running, lockq, ws, task, bookVars, permits, waiting, attempts, stopVars, netVars,
                 handlerVars, sent, acquired, pending, watched>>

\* mark_waiting_for_response
Mark(c) ==
  /\ pc[c] = "mark"
  /\ Turn(c)
  /\ lockq' = Served
  /\ waiting' = waiting + 1
  /\ GoTo(c, "acquire")
  /\ Continue(c)
  /\ UNCHANGED <<lock, ws, task, bookVars, permits, attempts, stopVars, netVars, handlerVars,
                 sent, acquired, pending, outcome, watched>>

\* MUTANT: one permit for a frame, whatever it carries.
Acquire_Once(c) ==
  /\ pc[c] = "acquire"
  /\ CanRun(c)
  /\ permits > 0
  /\ permits' = permits - 1
  /\ acquired' = [acquired EXCEPT ![c] = @ + 1]
  /\ GoTo(c, "register")
  /\ Continue(c)
  /\ UNCHANGED <<lock, lockq, ws, task, bookVars, waiting, attempts, stopVars, netVars, handlerVars,
                 sent, pending, outcome, watched>>

\* send and send_batch: one permit for each request of the frame.
Acquire(c) ==
  /\ pc[c] = "acquire"
  /\ CanRun(c)
  /\ IF permits > 0
     THEN /\ permits' = permits - 1
          /\ acquired' = [acquired EXCEPT ![c] = @ + 1]
          /\ GoTo(c, IF acquired[c] + 1 = NextSize(c) THEN "register" ELSE "acquire")
          /\ Continue(c)
     ELSE /\ running = c
          /\ Suspend
          /\ UNCHANGED <<permits, acquired, pc>>
  /\ UNCHANGED <<lock, lockq, ws, task, bookVars, waiting, attempts, stopVars, netVars, handlerVars,
                 sent, pending, outcome, watched>>

\* Ids and futures under the lock, then the frame is queued.
Register(c) ==
  /\ pc[c] = "register"
  /\ Turn(c)
  /\ lockq' = Served
  /\ \E S \in NextIds(NextSize(c)) :
       /\ inUse' = inUse \cup S
       /\ \E last \in S : lastId' = last /\ \A i \in S : Distance(i) <= Distance(last)
       /\ received' = [i \in Ids |-> IF i \in S THEN "pending" ELSE received[i]]
       /\ sending' = Append(sending, [owner |-> c, ids |-> S])
       /\ pending' = [pending EXCEPT ![c] = @ \cup S]
  /\ acquired' = [acquired EXCEPT ![c] = 0]
  /\ sent' = [sent EXCEPT ![c] = @ + 1]
  /\ IF sent[c] + 1 < Len(Plan[c])
     THEN /\ GoTo(c, "acquire")
          /\ Continue(c)
          /\ UNCHANGED watched
     ELSE /\ GoTo(c, "await")
          /\ Suspend
          /\ watched' = [watched EXCEPT ![c] = IF Alive(task) THEN task ELSE 0]
  /\ UNCHANGED <<lock, ws, task, inflight, captured, permits, waiting, attempts, stopVars, netVars,
                 handlerVars, outcome>>

\* The future the client captured is done.
Woken(c) ==
  \/ captured[c] = "done"
  \/ captured[c] = "same" /\ \E i \in pending[c] : received[i] # "pending"

\* The client looks at _received: a poller always does; the others when the
\* future they captured is done, or no handler is alive to be watched with it.
Looks(c) ==
  /\ running = Nobody
  /\ pc[c] = "await"
  /\ Polls(c) \/ Woken(c) \/ (~Alive(watched[c]) /\ ~Alive(task))

\* MUTANT: a request that fails skips the finally clause.
EndRequest_NoFinally(c, how) ==
  /\ GoTo(c, IF how = "failed" THEN "exit" ELSE "unmark")
  /\ outcome' = [outcome EXCEPT ![c] = how]
  /\ captured' = [captured EXCEPT ![c] = "same"]
  /\ Continue(c)

EndRequest(c, how) ==
  /\ GoTo(c, "unmark")
  /\ outcome' = [outcome EXCEPT ![c] = how]
  /\ captured' = [captured EXCEPT ![c] = "same"]
  /\ Continue(c)

\* retrieve: the future is done; its permit goes back.
Retrieve(c) ==
  /\ Looks(c)
  /\ \E i \in pending[c] :
       /\ received[i] \in Clients
       /\ received' = [received EXCEPT ![i] = "none"]
       /\ pending' = [pending EXCEPT ![c] = @ \ {i}]
       /\ IF pending[c] = {i} THEN EndRequest(c, "answered") ELSE UNCHANGED <<pc, outcome, captured, running>>
  /\ permits' = permits + 1
  /\ UNCHANGED <<lock, lockq, ws, task, sending, inflight, inUse, lastId, waiting, attempts, stopVars,
                 netVars, handlerVars, sent, acquired, watched>>

\* MUTANT: the permit goes back although the future raised.
RetrieveRaises_Releases(c) ==
  /\ Looks(c)
  /\ \E i \in pending[c] : received[i] = "error"
  /\ EndRequest(c, "failed")
  /\ permits' = permits + 1
  /\ UNCHANGED <<lock, lockq, ws, task, sending, received, inflight, inUse, lastId, waiting,
                 attempts, stopVars, netVars, handlerVars, sent, acquired, pending, watched>>

\* The future's own error, the one the dead handler stored, or no response in
\* spite of a future that was done.
RetrieveRaises(c) ==
  /\ Looks(c)
  /\ \E i \in pending[c] :
       \/ received[i] = "error"
       \/ received[i] = "pending" /\ task # 0 /\ hst[task] = "failed"
       \/ received[i] = "pending" /\ captured[c] = "done"
  /\ EndRequest(c, "failed")
  /\ UNCHANGED <<lock, lockq, ws, task, sending, received, inflight, inUse, lastId, permits, waiting,
                 attempts, stopVars, netVars, handlerVars, sent, acquired, pending, watched>>

\* wait_for_response goes round when the handler it watches is done, and watches
\* whatever live handler there is by then.
Rewatch(c) ==
  /\ running = Nobody
  /\ pc[c] = "await" /\ ~Polls(c)
  /\ ~Alive(watched[c]) /\ Alive(task)
  /\ ~Woken(c)
  /\ watched' = [watched EXCEPT ![c] = task]
  /\ UNCHANGED <<loopVars, ws, task, bookVars, permits, waiting, attempts, stopVars, netVars, handlerVars,
                 pc, sent, acquired, pending, outcome>>

\* mark_response_received
Unmark(c) ==
  /\ pc[c] = "unmark"
  /\ Turn(c)
  /\ lockq' = Served
  /\ waiting' = waiting - 1
  /\ GoTo(c, IF pending[c] = {} THEN "exit" ELSE "discard")
  /\ Continue(c)
  /\ UNCHANGED <<lock, ws, task, bookVars, permits, attempts, stopVars, netVars, handlerVars,
                 sent, acquired, pending, outcome, watched>>

\* MUTANT: the id may be used again at once.
Discard_FreesId(c) ==
  /\ pc[c] = "discard"
  /\ Turn(c)
  /\ lockq' = Served
  /\ \E i \in pending[c] :
       /\ received' = [received EXCEPT ![i] = "none"]
       /\ inflight' = [inflight EXCEPT ![i] = NoFrame]
       /\ inUse' = inUse \ {i}
       /\ permits' = permits + 1
       /\ pending' = [pending EXCEPT ![c] = @ \ {i}]
       /\ GoTo(c, IF pending[c] = {i} THEN "exit" ELSE "discard")
  /\ Continue(c)
  /\ UNCHANGED <<lock, ws, task, sending, lastId, captured, waiting, attempts, stopVars, netVars,
                 handlerVars, sent, acquired, outcome, watched>>

\* discard_request, for each id without a response.  A frame that is still
\* queued stays there, and the id stays in use.
Discard(c) ==
  /\ pc[c] = "discard"
  /\ Turn(c)
  /\ lockq' = Served
  /\ \E i \in pending[c] :
       /\ received' = [received EXCEPT ![i] = "none"]
       /\ inflight' = [inflight EXCEPT ![i] = NoFrame]
       /\ permits' = IF received[i] = "none" THEN permits ELSE permits + 1
       /\ pending' = [pending EXCEPT ![c] = @ \ {i}]
       /\ GoTo(c, IF pending[c] = {i} THEN "exit" ELSE "discard")
  /\ Continue(c)
  /\ UNCHANGED <<lock, ws, task, sending, inUse, lastId, captured, waiting, attempts, stopVars, netVars,
                 handlerVars, sent, acquired, outcome, watched>>

\* __aexit__: the last one out starts the timer.
Unused == sending = <<>> /\ waiting = 0

Exit(c) ==
  /\ pc[c] = "exit"
  /\ CanRun(c)
  /\ exitTask' = IF AutoShutdown /\ Unused THEN (IF ws # 0 THEN "sleeping" ELSE "none") ELSE exitTask
  /\ GoTo(c, "done")
  /\ Suspend
  /\ UNCHANGED <<lock, lockq, ws, task, bookVars, permits, waiting, attempts, closer, netVars, handlerVars,
                 sent, acquired, pending, outcome, watched>>

\* Where a client is suspended, and what it still does if it is cancelled there:
\* nothing, its finally clause, or (in the finally clause) only __aexit__.
Suspended(c) == pc[c] \in {"reviving", "connecting", "acquire", "await"} \/ c \in ToSet(lockq)

\* MUTANT: mark_waiting_for_response inside the try block.
CancelledTo_MarkInTry(c) ==
  IF pc[c] \in {"revive", "reviving", "connect", "connecting"} THEN "done"
  ELSE IF pc[c] \in {"mark", "acquire", "register", "await"} THEN "unmark"
  ELSE "exit"

CancelledTo(c) ==
  IF pc[c] \in {"revive", "reviving", "connect", "connecting"} THEN "done"
  ELSE IF pc[c] \in {"acquire", "register", "await"} THEN "unmark"
  ELSE "exit"

\* The client's task is cancelled.  What the await was to return is lost: a
\* permit acquired for a frame not booked, the rest of the finally clause.
Cancel(c) ==
  /\ running = Nobody
  /\ c \in Cancellable
  /\ outcome[c] # "cancelled"
  /\ Suspended(c)
  /\ outcome' = [outcome EXCEPT ![c] = "cancelled"]
  /\ lock' = IF lock = c THEN Nobody ELSE lock
  /\ lockq' = Leave(lockq, c)
  /\ GoTo(c, CancelledTo(c))
  /\ IF CancelledTo(c) = "done" THEN UNCHANGED running ELSE Continue(c)
  /\ captured' = [captured EXCEPT ![c] = "same"]
  /\ UNCHANGED <<ws, task, sending, received, inflight, inUse, lastId, permits, waiting, attempts, stopVars,
                 netVars, handlerVars, sent, acquired, pending, watched>>

-----------------------------------------------------------------------------
(* _exit_with_timer and shutdown.                                          *)

\* The timer ends: shutdown if still unused.  Bound: one shutdown at a time.
TimerFires ==
  /\ running = Nobody
  /\ exitTask = "sleeping"
  /\ closer.stage = "idle"
  /\ exitTask' = "none"
  /\ closer' = IF Unused THEN [stage |-> "cancelling", task |-> task, conn |-> 0] ELSE closer
  /\ UNCHANGED <<loopVars, ws, task, bookVars, permits, waiting, attempts, netVars, handlerVars, clientVars>>

\* _cancel: the handler gets the CancelledError wherever it is suspended.
CancelHandler(h) ==
  /\ running = Nobody
  /\ closer.stage = "cancelling" /\ closer.task = h
  /\ Alive(h)
  /\ hst' = [hst EXCEPT ![h] = "cancelled"]
  /\ StopPumps(h)
  /\ lock' = IF lock = Handler(h) THEN Nobody ELSE lock
  /\ lockq' = Leave(WithoutPumps(h), Handler(h))
  /\ UNCHANGED <<running, ws, task, bookVars, permits, waiting, attempts, stopVars, netVars, hconn, clientVars>>

\* Then the closing handshake of whatever self.ws is by now.
CloseConn ==
  /\ running = Nobody
  /\ closer.stage = "cancelling" /\ ~Alive(closer.task)
  /\ closer' = [closer EXCEPT !.stage = "closing", !.conn = ws]
  /\ IF Open
     THEN /\ link' = [link EXCEPT ![ws] = "closing"]
          /\ wire' = [wire EXCEPT ![ws] = {}]
     ELSE UNCHANGED <<link, wire>>
  /\ UNCHANGED <<loopVars, ws, task, bookVars, permits, waiting, attempts, exitTask, replies,
                 handlerVars, clientVars>>

\* The handshake is over, or its 10 seconds are: the object is reset.
ShutdownEnds ==
  /\ running = Nobody
  /\ closer.stage = "closing"
  /\ link' = [k \in Conns |-> IF k = closer.conn /\ link[k] = "closing" THEN "ended" ELSE link[k]]
  /\ ws' = 0 /\ task' = 0
  /\ closer' = NotClosing
  /\ UNCHANGED <<loopVars, bookVars, permits, waiting, attempts, exitTask, wire, replies,
                 handlerVars, clientVars>>

-----------------------------------------------------------------------------
ReceiverStep(h) ==
  \/ Receive(h) \/ Dispatch(h) \/ DispatchTwice(h)
  \/ ReceiveClosed(h) \/ ReceiveTimeout(h) \/ ReceiveConflict(h)
  \/ Block(Receiver(h))

SenderStep(h) == TakeFrame(h) \/ SendFrame(h) \/ Block(Sender(h))

HandlerStep(h) ==
  \/ Wake(h) \/ Resubmit(h) \/ Reconnect(h) \/ Reconnected(h) \/ ReconnectFails(h)
  \/ Block(Handler(h))

\* What a client that has entered does on its own.
ClientStep(c) ==
  \/ Revive(c) \/ Connect(c) \/ NoNeed(c) \/ Connected(c) \/ ConnectFails(c)
  \/ Mark(c) \/ Acquire(c) \/ Register(c) \/ Retrieve(c) \/ RetrieveRaises(c) \/ Rewatch(c)
  \/ Unmark(c) \/ Discard(c) \/ Exit(c)
  \/ Block(c)

CloserStep == TimerFires \/ (\E h \in Handlers : CancelHandler(h)) \/ CloseConn \/ ShutdownEnds

NetworkStep == \E k \in Conns : NodeReplies(k) \/ ConnLost(k)

Next ==
  \/ \E c \in Clients : Enter(c) \/ ClientStep(c) \/ Cancel(c)
  \/ \E h \in Handlers : HandlerStep(h) \/ ReceiverStep(h) \/ SenderStep(h)
  \/ CloserStep
  \/ \E h \in Handlers : ReceiveMalformed(h)
  \/ NetworkStep

Spec == Init /\ [][Next]_vars

\* The event loop runs every callback that is ready, every timer it holds
\* fires, and a connect attempt and a closing handshake have time limits.
\* Nothing is assumed of the node, of the network or of new requests.
Fairness ==
  /\ \A c \in Clients : WF_vars(ClientStep(c))
  /\ \A h \in Handlers : WF_vars(HandlerStep(h)) /\ WF_vars(ReceiverStep(h)) /\ WF_vars(SenderStep(h))
  /\ WF_vars(CloserStep)

FairSpec == Spec /\ Fairness

-----------------------------------------------------------------------------
(* What every state has.                                                   *)

LoopTypeOK ==
  /\ running \in Clients \cup Tasks \cup {Nobody}
  /\ lock \in Clients \cup Tasks \cup {Nobody}
  /\ lockq \in Seq(Clients \cup Tasks)

ObjectTypeOK ==
  /\ ws \in Conns \cup {0}
  /\ task \in Handlers \cup {0}
  /\ sending \in Seq(Frames)
  /\ received \in [Ids -> Clients \cup {"none", "pending", "error"}]
  /\ inflight \in [Ids -> Frames \cup {NoFrame}]
  /\ inUse \subseteq Ids
  /\ lastId \in Ids \cup {0}
  /\ permits \in Nat
  /\ waiting \in Nat
  /\ attempts \in Nat
  /\ exitTask \in {"none", "sleeping"}
  /\ closer \in [stage : {"idle", "cancelling", "closing"}, task : Handlers \cup {0}, conn : Conns \cup {0}]

NetworkTypeOK ==
  /\ link \in [Conns -> {"unused", "open", "closing", "ended", "lost"}]
  /\ wire \in [Conns -> SUBSET Frames]
  /\ replies \in [Conns -> SUBSET Frames]

HandlerTypeOK ==
  /\ hst \in [Handlers -> {"unborn"} \cup HandlerLive \cup HandlerDead]
  /\ hconn \in [Handlers -> Conns \cup {0}]
  /\ \A h \in Handlers : hst[h] = "pumping" => hconn[h] # 0
  /\ rcv \in [Handlers -> {"off", "run"} \cup PumpEnded]
  /\ rhand \in [Handlers -> SUBSET [owner : Clients, id : Ids]]
  /\ snd \in [Handlers -> {"off", "run", "deaf"} \cup PumpEnded]
  /\ shand \in [Handlers -> Frames \cup {NoFrame}]

ClientTypeOK ==
  /\ pc \in [Clients -> {"idle", "revive", "reviving", "connect", "connecting", "mark", "acquire",
                         "register", "await", "unmark", "discard", "exit", "done"}]
  /\ sent \in [Clients -> Nat]
  /\ acquired \in [Clients -> Nat]
  /\ pending \in [Clients -> SUBSET Ids]
  /\ captured \in [Clients -> {"same", "pending", "done"}]
  /\ outcome \in [Clients -> {"none", "answered", "failed", "cancelled"}]
  /\ watched \in [Clients -> Handlers \cup {0}]

TypeOK == LoopTypeOK /\ ObjectTypeOK /\ NetworkTypeOK /\ HandlerTypeOK /\ ClientTypeOK

-----------------------------------------------------------------------------
(* Properties.                                                             *)

\* At most one handler task is alive, so frames are sent and answers are
\* dispatched by one pair of pumps: _connect_internal creates a handler only
\* when self._send_recv_task is not a live one.
OneHandler == \A g, h \in Handlers : Alive(g) /\ Alive(h) => g = h

\* At most one connection is open: connects are serialized on the lock, a
\* forced one fails the connection it replaces, an unforced one defers.
OneSocket == \A j, k \in Conns : link[j] = "open" /\ link[k] = "open" => j = k

\* Why the two hold: while a task has the lock to connect there is no open
\* connection, the open one is self.ws and the live handler is
\* self._send_recv_task.  (Without the exit timer: shutdown forgets both.)
ConnectionOwned ==
  /\ \A k \in Conns : link[k] = "open" => k = ws
  /\ lock # Nobody => ~Open
  /\ \A h \in Handlers : Alive(h) => h = task
  /\ \A h \in Handlers : lock = Handler(h) => hst[h] = "connecting"

Bookings(i) ==
  {<<"queued", n>> : n \in {n \in DOMAIN sending : i \in sending[n].ids}}
  \cup {<<"in hand", h>> : h \in {h \in Handlers : i \in shand[h].ids}}
  \cup {<<"in flight", 0>> : f \in {inflight[i]} \ {NoFrame}}

\* Between the queue, the send pumps and _inflight a request is booked at most
\* once, across losses and resubmissions: no reconnect sends it twice.
SingleBooking == \A i \in Ids : \A a, b \in Bookings(i) : a = b

\* The response a client will consume for an id is the one the node gave to
\* that client's request, although ids are used again.
AnswersMatch == \A c \in Clients : \A i \in pending[c] : received[i] \in {"pending", "error", c}

Held(c) == acquired[c] + Cardinality(pending[c])

\* Every permit is in the semaphore or accounted to one client, whatever
\* fails: none is released twice and none disappears.
PermitsAccounted == permits + SumFunction([c \in Clients |-> Held(c)]) = MaxPermits

\* A client that is done has given back its permits and its mark, however its
\* request ended.
EndsBalanced ==
  /\ \A c \in Clients : pc[c] = "done" /\ outcome[c] # "cancelled" => Held(c) = 0
  /\ (\A c \in Clients : pc[c] = "done" /\ outcome[c] # "cancelled") => waiting = 0

\* From mark_waiting_for_response to mark_response_received a client is counted,
\* so that neither the timer nor a graceful close takes the object for unused
\* while one of them waits; a cancelled client may be counted for ever.
Marked == {c \in Clients : pc[c] \in {"acquire", "register", "await", "unmark"}}
MarksCounted == Cardinality(Marked) <= waiting

\* Once its response is in _received, a caller is woken by it: the next thing
\* it can do is consume it.
AnswerWakes ==
  \A c \in Clients : \A i \in pending[c] :
    pc[c] = "await" /\ received[i] = c /\ running = Nobody => Looks(c)

\* With two ways for a connection to end, every request that entered ends unless
\* the node closed a connection normally.
EndsOrClosed ==
  \A c \in Clients : pc[c] # "idle" ~> pc[c] = "done" \/ \E k \in Conns : link[k] = "ended"

\* The object seen as the service its callers use.
Size == [c \in Clients |-> SumFunction(Plan[c])]

Status(c) ==
  CASE pc[c] = "idle" -> "idle"
    [] pc[c] = "done" -> outcome[c]
    [] pc[c] \notin {"idle", "done"} /\ outcome[c] \in {"failed", "cancelled"} -> "ending"
    [] OTHER -> "open"

Missing(c) ==
  IF Status(c) \notin {"idle", "open"} THEN 0
  ELSE SumFunctionOnSet(Plan[c], sent[c] + 1 .. Len(Plan[c])) + Cardinality(pending[c])

Service == INSTANCE RpcService WITH
  status <- [c \in Clients |-> Status(c)],
  missing <- [c \in Clients |-> Missing(c)],
  held <- [c \in Clients |-> Held(c)],
  free <- permits

\* Websocket implements RpcService (no client being cancelled from outside).
ImplementsService == Service!Spec
=============================================================================
