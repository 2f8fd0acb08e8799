# Verification of aio-substrate-interface

TLA+ models of the stateful core of this library, the TLC runs that check them
on small instances, and TLAPS proofs for every instance. Line numbers are of
`async_substrate_interface/async_substrate.py` ("AS") unless a file is named.

- [1. The system](#1-the-system)
- [2. Modules](#2-modules)
- [3. What the runs check](#3-what-the-runs-check)
- [4. What the code does otherwise](#4-what-the-code-does-otherwise)
- [5. What is proved](#5-what-is-proved)
- [6. Not modelled](#6-not-modelled)
- [7. Plan](#7-plan)

## 1. The system

A client library for Substrate nodes: many coroutines of one program share one
`Websocket` and send JSON-RPC requests over it; everything runs on one asyncio
loop, so a stretch of code without an `await` that really waits is atomic, and
every such `await` is a point where any other task may run.

| component | state it keeps | operations | what makes it correct |
|---|---|---|---|
| `Websocket` (587-1602) | `ws`, `_send_recv_task`, `_sending`, `_received`, `_inflight`, `_in_use_ids`, the permits, `_waiting_for_response`, `_attempts`, `_exit_task`, `_lock` | enter, connect, revive, send, batch, receive, dispatch, resubmit, reconnect, wait, retrieve, discard, exit timer, shutdown | one handler and one open connection; each caller gets its own answer once and is woken by it; nothing sent twice or lost; permits and marks balanced; every request ends |
| its subscriptions (1300-1485) | their queues, alias maps, recoverers, recovery tasks, orphans | register, orphan, recover, unsubscribe, notify | no notification for another subscription, in order, one subscription at a time feeds a consumer, a lost one is recovered or its consumer told |
| `_make_rpc_request`, `runtime_calls` (3080-3246, 4104-4124) | the request manager of one call | mark, send, scan, consume, unmark, discard | ends once; gives everything back on every path |
| `CachedFetcher` (`utils/cache.py`) | `_inflight`, `_cache` | call | one fetch at a time for a key; nobody waits for a future nobody settles |
| extrinsics (3673-3794, 4807-5157) | the watch of one submitted extrinsic, what its search has read | submit, watch, recover by block scan and pool, resubmit, poll | a receipt tells the truth, the search passes a block only by its depth, a finalized extrinsic is reported, one that is in a block not as failed |
| receipts (75-583, `utils/receipt.py`) | the events, the verdict, the fee | read an attribute | the verdict is that of the events; each fee counted once |
| nonces (4164-4209, 3720) | `_nonces`, a lock | next index, read past the cache, sign | no nonce signed twice, none skipped |
| `RetryAsyncSubstrate` (`substrate_addons.py`) | the iterator of chains | retry, fail over | every call ends, with an answer or an error |
| runtimes (1911-2038, `types.py` 28-165) | `RuntimeCache`, the startup task, the loads that are shared | init, retrieve, load, add | a block is decoded with the runtime of its parent's state; nobody waits for a load nobody finishes |
| query maps (429-533, 4475-4686) | a page, the last key, what has been given | query, iterate, next page | every key once, none left out, a block's query gives that block |
| block and storage subscriptions (2111-2207, 2365-2600) | a subscription stream | subscribe, deliver, recover | they are consumers of the subscriptions above |
| codecs, storage keys, type registry | none to speak of | encode, decode | delegated to the codec library |

How they interact: `AsyncSubstrateInterface` enters the websocket as a context
manager for each request (`__aenter__` 682, `__aexit__` 1045); the handler task
owns a send and a receive pump; pumps and callers meet in the dicts of the
object, under `_lock`, and through one future per request id. A watch is a
request with a result handler: notifications come through the object's queues,
and a reconnect calls its recoverer. A cached method puts a `CachedFetcher`
before a request; `init_runtime` puts `RuntimeCache` before that.
`RetryAsyncSubstrate` wraps the public methods and replaces the websocket below
all of them, also while one of them holds the nonce lock.

What is hard here: cancellation at every await; reconnects while requests are
queued, in hand of a pump, in flight or answered and not consumed; ids that are
used again; a future that is replaced while it is awaited, or shared by tasks
one of which is cancelled; the exit timer against a request that enters; several
tasks that decide to connect; forks under a watch that is severed; what is read
in two requests while the chain goes on between them; retries of half of what
was already done. PROJECT.json lists each hazard at its line.

## 2. Modules

| module | models | lines |
|---|---|---|
| `Websocket` | the object with its handlers, pumps, clients, network and exit timer | AS 587-1298, 1487-1602, 3080-3246, 4104-4124, `get_next_id` |
| `RpcService` | what the object promises its callers, without connections: abstract specification | |
| `Subscriptions` | subscriptions over reconnects: queues, aliases, orphans, recovery tasks, consumers | AS 688-717, 944-1043, 1115-1139, 1300-1475, 1505-1549, 3123-3246 |
| `CachedFetcher` | concurrent calls over one in-flight map and LRU cache | `utils/cache.py` 16-133 |
| `Extrinsic` | one submitted extrinsic over forks and lost connections | AS 4806-5157 |
| `Receipt` | the attributes of a receipt, read by several tasks | AS 122-400, `utils/receipt.py` 4-133 |
| `Failover` | retry and fail-over, the parts of a call | `substrate_addons.py` 22-229 |
| `Interface` | the nonces and the signing, on top of `Failover` | AS 3673-3794, 4164-4209, 4319-4335 |
| `Runtime` | `init_runtime`, `RuntimeCache` and the shared loading of runtimes | AS 1711-1724, 1911-2038, 2855-2930, 3333-3387, 5250-5288, `types.py` 65-159 |
| `QueryMap` | a query map read in pages, pairs or batches while it changes | AS 428-533, 4520-4711, `utils/decoding.py` 70-149 |
| `WebsocketProofs`, `SubscriptionsProofs`, `CachedFetcherProofs`, `ExtrinsicProofs`, `ReceiptProofs`, `InterfaceProofs`, `RuntimeProofs`, `QueryMapProofs` | theorems about the modules they are named after | |
| `MCWebsocket`, `MCSubscriptions`, `MCCachedFetcher`, `MCReceipt`, `MCInterface`, `MCRuntime`, `MCQueryMap` | instances for TLC (`Extrinsic` needs none) | |

`Failover` and `Interface` compose by `EXTENDS`: the first has the actions of
the wrapper of a method, the second says which methods call which and where a
retry begins again. `Websocket` and `RpcService` compose by refinement. The
other modules take from each other only what the one below has been shown to do:
`Subscriptions` sees requests as a set, because sending them again is the
subject of `Websocket`; `Extrinsic` sees one subscription whose recoverer runs
once at a time, the subject of `Subscriptions`; `Runtime` sees the fetchers of
hashes and versions as requests, the subject of `CachedFetcher`.

### Websocket

*Scheduling.* `running` is the task that has the loop and has not suspended:
while it is set nothing else moves, so synchronous stretches are atomic
although they are written as several actions. A task that finds `_lock` held
suspends (`Block`) into `lockq`; `asyncio.Lock` is first come first served, and
a newcomer may not overtake a queued waiter (`Turn`). A task that is ready may
run before or after any other ready one; asyncio's own order is one of these.
Permits are not first come first served in the model (a semaphore waiter may be
overtaken), again a superset of the code's behaviour.

*Correspondence.* Variables have the names of the attributes where they can
(`sending` is `_sending`). A client's `pc` names the await, or the call, it is at:

| code | actions |
|---|---|
| `__aenter__` 682, `_restart_handler_if_dead` 688, `connect` 796 | `Enter`, `Revive`, `Connect`, `NoNeed`, then `Connected` or `ConnectFails` |
| `_connect_internal` 803 | `BeginConnect` up to the first real await, `EndConnect` / `FailConnect` after it; the lock is held in between |
| `mark_waiting_for_response` 719, `mark_response_received` 728 | `Mark`, `Unmark` |
| `send` 1245, `send_batch` 1266 | `Acquire` for each permit, `Register` (ids, futures and queueing: one stretch under the lock) |
| `_start_sending` 1193 | `TakeFrame`, then `SendFrame` under the lock |
| `_start_receiving` 1141, `_dispatch_response` 1115 | `Receive`, then `Dispatch` for each response; `ReceiveClosed`, `ReceiveTimeout`, `ReceiveMalformed`, `ReceiveConflict`, `DispatchTwice` are its exceptions |
| `_handler` 891 | `Wake`, `Resubmit`, `Reconnect`, then `Reconnected` or `ReconnectFails` |
| `retrieve` 1505, `wait_for_response` 1552 | `Retrieve`, `RetrieveRaises`, `Rewatch`; `captured` is the future the caller awaits, which may no longer be the one in `_received` |
| `discard_request` 1587, `__aexit__` 1045 | `Discard`, `Exit` |
| `_exit_with_timer` 1066, `shutdown` 1085, `_cancel` 741 | `TimerFires`, `CancelHandler`, `CloseConn`, `ShutdownEnds` |
| a caller's task is cancelled | `Cancel`, to what is left of its finally clauses (`CancelledTo`) |
| the node and the network | `NodeReplies` (in any order), `ConnLost` |

*Data.* Ids are `1 .. Cycle`: the code's are a number below 998 with two random
letters; the letters are dropped, which makes ids collide far sooner than in
the code. `FreeIds` excludes only that the cycle comes round to an id whose
answer is dispatched and not consumed yet (998 requests in one scheduling
turn). A frame is its owner and its set of ids; a future's result is the client
the node answered; payloads, JSON and decoding are left out.

### RpcService

Each request is open until it ends, once. It holds one permit of a shared pool
for each payload that is out, ends "answered" exactly when every payload had
its one response, and holds nothing afterwards. `ImplementsService` is the
refinement: a client's status, missing payloads and permits are computed from
`Websocket`'s variables, and every step of the object, with its reconnects and
resubmissions, is a step of the service or a stutter.

### CachedFetcher

Callers call again and again; a call hits the cache, follows a fetch in flight
or leads a new one. A fetch's future is `pending`, then has a result (`some`,
or `null` for None, which the cache reads as a miss) or is cancelled. Keys in
`Memoized` belong to a fetcher with `cache_results`, the others (the chain head)
to one without; sharing one module between both kinds costs nothing because
keys never interact. asyncio cancels a task by cancelling the future it awaits:
for a follower that is the shared future (`FollowerCancelled`). History
variables: `keyOf`, `asked`, `answer` and `over`, the fetches that had ended
when a call began.

### Subscriptions

A consumer is one `_make_rpc_request` with a result handler. It asks the node to
subscribe, gets an id, and polls the queue of that id until it has what it
wants. The module sees requests as a set (`asking`) because how they are sent
and sent again is `Websocket`'s subject: `atNode` are those the node has
received and not answered on this connection. A reconnect resends all of
`asking`; of requests that were discarded, only those that were queued already
(`Discarded`); a revival sends only what the dead handler had not sent.

| code | actions |
|---|---|
| `_dispatch_response` 1115 | `Dispatch`, to a response or to a queue by way of the alias |
| `_handler` 940-1043 | `Wake` (orphan, give up or reconnect), `HandlerFails`, `Connected`, `ConnectFails` |
| `_restart_handler_if_dead` 688 | `Revive`, then `Connected` |
| `_recover_subscriptions` 1415 | `StartRecovery`: claim, and let each recoverer ask the node |
| `_recover_subscription` 1435 | `Returned` (the check), `Recovered` (under the lock, `Realias`), `Settled` (None or an exception, after injecting a message), each with `Release`, the finally clause |
| `_make_rpc_request` 3165-3246 | `Ask`, `Open`, `Take`, `Handled`, `Quit` |
| `unsubscribe` 1300 | `Finish` |
| `retrieve` 1505 that raises | `PollRaises` |
| the node and the network | `NodeSubscribes`, `NodeNotifies`, `NodeUnsubscribes`, `ConnLost` |

A notification is its subscription and its number; number 0 on the wire is the
response that carries the id, and 0 on a queue is an injected message that ends
the subscription. What recoverers do is reduced to what they tell the websocket:
a new id, None, or an exception. A recoverer that gets an id while the
connection is down waits for the resubmission like any request.

Order taken from the event loop rather than left open: who has its response,
or waits for the lock, goes on before the handler finds out that a pump has
ended (`Prompt`), and the task of `_recover_subscriptions` has its first turn
before the pumps of the new connection run (`due`): the handler creates it
before it creates them, and the loop runs ready callbacks in order.

### Extrinsic

The node is part of the model, as the code sees it by requests: a tree of blocks
that grows at its head or replaces the head (`NewBlock`; the extrinsic goes back
to the pool with a block that is replaced), the finalized chain (`Finalize`), a
pool that may give the extrinsic up (`Evict`) or stop telling (`FinalityTimeout`).
A loss (`Lose`) severs the watch, with what it had not delivered, and may lead to a
node whose pool is without the extrinsic; a submission in flight is sent again, so
that the node may have it although the caller saw no answer (`AnswerLost`).

| code | actions |
|---|---|
| `submit_extrinsic` 4911-5157 | `Begin`, `Accepted`, `AlreadyImported`, `Refused`, `ConnectionGone` |
| `result_handler` 4938-5031 | `Handle`: what completes the watch (`Completes`), what fails it (`Fails`), what it passes over |
| `_scan_recent_blocks_for_extrinsic` 4806-4847 | `Walk`, `FoundIn`: the blocks read from a head back to a known one |
| `_wait_for_extrinsic_inclusion_via_polling` 4857-4909 | `PollRound`, `PollFinds` / `RecoverPolled`, `PollTimesOut`; one set of known blocks (`scanned`) for each polling |
| the recoverer 5033-5091 | `RecoverScan`, `RecoverPool`, `Resubmitted`, `RacedIn`, `RecoverPolled`; `RecoverRaises` is what `_recover_subscription` makes of its exceptions |
| `inject_subscription_message` 1365 | `Inject`, which drops what comes after the caller has gone |

### Receipt

`Histories` are the events an extrinsic may have, one letter for each kind that
`process_events` tells apart. A read of an attribute is a coroutine that suspends
at the request for the block (`Located`), for its events (`Fetched`) and for the
runtime that names an error (`Resolved`); between these it runs alone (`Runs`).
`Stretch` is the loop of `process_events` up to the next such request (`End`):
which kinds of events lie on the way (`Of`) and which came last (`LastIs`).
`__triggered_events` is the list of whichever reader made it (`listed`), with the
events put in it once for each reader that waited (`copies`).

### Failover and Interface

`call[t]` is where the wrapper of task `t`'s request is: the request fails
(`RequestFails`) at the innermost level that has had no retry, that level takes
the next chain (`NextChain`), shuts down whatever `self.ws` is by then
(`Shutdown`), replaces it (`Replace`) and runs again. `Interface` adds what is
asked for: `FetchIndex` (under the lock, the first time) or `CountOn`, `Pass` (a
nonce that is passed in is written to the cache), `Read` (past the cache),
`AskEra`, `Sign`, `Submit`. `Again` is where a retry begins: the request, the method,
or `create_signed_extrinsic` as a whole. `_nonces` is one account's.

### Runtime

Blocks form a tree (`Parent`, `Number`), each with the version of its state;
`Content(b)` is the parent, whose metadata `_get_runtime_for_version` asks for.

| code | actions |
|---|---|
| `init_runtime` 1911-1966 | `CallStartup`, `CallHash`, `CallNumber`, `CallHead`, then `StartupDone`, `GotHash` / `PastHead`, `GotHead`, `VersionHeld` / `VersionMissed` |
| `RuntimeCache.retrieve` (`types.py` 110-159) | `ByHash`, `Retrieved`, `KnownOr` |
| `RuntimeCache.add_item` 90-108 | `Numbering`, in `GotHash` and `Numbered`; `Loaded` |
| `get_runtime_for_version` 1965-2038 under its fetcher | `VersionMissed` (lead or follow), `Loaded` (the runtime goes to the cache, the fetcher's results and all followers) |
| failures and cancellations | `Fails`, `Cancel`: with a caller go those that share its load (`With`), and its future with it (`Drop`) |

### QueryMap

Keys are numbers in the node's order. The map changes between any two requests
(`Change`); `base` is its state at the block of a query with a hash. `GotKeys` and
`GotValues` are the two requests of a page, `GotBatch` one response of the batches
of `fully_exhaust`, in the order they arrive, `GotPairs` / `NoPairs` the attempt to
get all pairs at once. `Page` is the `AsyncQueryMapResult` that comes of it or is
refilled; `TakeNext`, `NextPage` and `Stop` are `__anext__`. A failed page
(`Fails`) leaves the result as it was, to be iterated over again.

## 3. What the runs check

Passing runs (bounds are those of the cfg files; each takes from seconds to two
minutes):

| run | instance | shows |
|---|---|---|
| `Websocket` | a batch of two and a single request, 2 permits, 3 ids, 2 connections, 2 handlers, both kinds of close | `OneHandler`, `OneSocket`, `ConnectionOwned`, `SingleBooking`, the refinement `ImplementsService`, and `EndsOrClosed` |
| `WebsocketReuse` | two requests share one id, so that it must be used again; one may be cancelled anywhere; the exit timer is on; 3 connections and handlers | `AnswersMatch`, `PermitsAccounted`, `MarksCounted`, `EndsBalanced` |
| `Subscriptions` | a consumer with a recoverer and one without that may leave at any time, 3 connections, 3 subscriptions of the node with 2 notifications each, a handler that may die and be revived | `InOrder`, `OneFeed`, `MapsAgree`, `RecoverableHeard` |
| `CachedFetcher` | three callers, one key never stored, two memoized ones for one place in the cache, 3 fetches, one cancellable caller | `OneFetch`, `NoneLeftBehind`, `AnswerFits` |
| `Extrinsic` | all three modes, 4 blocks, a scan of depth 2, 2 losses | `ReceiptTrue`, `PassedByDepthOnly`, and `Settles` |
| `Receipt` | two readers, eight histories of events (two without a failure; each kind of failure as the last event, and as a rejected call with a success after it), failing requests | `VerdictTrue`, `ReadTrue` |
| `Interface` | a signer beside each other kind of call, url and two fallbacks of which any may be down or go down, 3 websockets | `Distinct`, `NoGap`, and `EndsUnlessCut` |
| `Runtime` | two tasks and the startup task, two forks with an upgrade each, known versions, a cache of one runtime, failures and cancellations | `CacheTrue`, `RuntimeFits`, `Led` |
| `QueryMap` | up to four keys, pages of one and two, limits below, at and between pages, with and without a block, 2 changes, failing requests | `Once`, `Whole`, `OfTheBlock` |

Each run of a component also checks its `TypeOK`.

Why these bounds are enough. Two clients meet in every way two tasks can (one
holds the lock, one is queued behind it; one connects, the other finds it done);
two connections are one loss, one resubmission and one reconnect, and the third
of `WebsocketReuse` and its handler are those a shutdown adds, with which two
handlers may read one connection (`ReceiveConflict`). `MaxRetries = 2` has both
the attempt that is retried and the one that gives up; one id forces reuse with
the second request; two permits and a batch of two make a client wait for
another's. Three callers of a fetcher are a leader and two followers, so that
cancelling one follower can hurt the other. Three connections are the first
reconnect in which a recovery can still run when the second begins, so that an
alias replaces an alias; two notifications are one before the alias is in place
and one after it. Four blocks are the first, one that takes the extrinsic, one
that replaces it and one more, so that the extrinsic can be taken, retracted and
taken again, deeper than a scan of two reads; three of them may come between two
polls, so that polling does pass a block without reading it; two losses sever the
watch and its recovery. Two readers of a receipt overlap at each pair of its requests. Two
fallbacks and three websockets are one fail-over of each of two tasks, or two of
one. Two forks with an upgrade each are one where a block's own version and its
parent's differ, and one where two blocks of one number differ; one place in the
cache makes every load evict another. Four keys are two full pages of two, or a
page that is not full; two changes remove a key that was read and insert one
before or after the page. Every action of every module fires in a passing run.

Plans of several frames (`Plan[c] = <<1, 1>>`) are in the model and in the
proofs; with them the run would not end in minutes (and see section 4 for what
two of them do to each other).

*Fairness.* `Websocket!FairSpec`: weak fairness of each client, each handler, each
pump and the timer. The loop runs every ready callback, every timer fires,
connect attempts and closing handshakes have time limits. Nothing is assumed of
the node or of the network: it may never answer and may always drop, and the
receive timeout and the retry budget must do the rest. `EndsOrClosed` excludes
only runs in which the node closes a connection normally: with a normal close
between `__aenter__` and `mark_waiting_for_response` the handler ends under a
request that saw it open, and that request waits until a later one revives the
handler (1574-1579). `Extrinsic!FairSpec`: the caller, the recoverer and the
timers of both make progress, that is, requests that can be answered are answered
(by `Websocket`) and `asyncio.sleep` ends; nothing is assumed of the chain, so
`Settles` begins where the extrinsic is in a finalized block.
`Interface!FairSpec`: every task's steps; a request on a chain that is up is
answered, one on a chain that is down fails once the websocket's own retries
are spent. `EndsUnlessCut` excludes tasks whose request a fail-over of another
task has cut off: nothing ends those (section 4). Its bound on websockets is not
reached by a call that still fails over: the iterator of chains ends first.

Deadlock checking is on for `Receipt` and `Runtime`, whose tasks call again and
again. It is off where the system may stop: clients, consumers and signers make
one request each, an iteration ends, and the bounds on connections, handlers,
fetches, blocks and losses end the rest.

## 4. What the code does otherwise

Three runs are expected to be violated, each by something the code does against a
statement of its own documentation (PROJECT.json "findings" quotes them):

- `WebsocketWakeup`: after a resubmission `_received` holds a new future (999)
  while `wait_for_response` still awaits the one it read at 1566. The answer
  wakes nobody; the caller looks again only when the handler next ends.
- `ExtrinsicLost`: the recoverer scans blocks from a head it read once (5048) and
  then asks for the pool (5052). An extrinsic that a block takes in between is
  found in neither, is submitted again, refused as outdated, and reported to its
  caller as a failure although it is in a block.
- `InterfaceGathered`: a nonce passed to `create_signed_extrinsic` is written to
  the cache (3720) also when later ones have been handed out. Of three gathered
  tasks that ask for the next index and pass it on, two may sign with the same.

Met while modelling, without a run of their own. Of the websocket:

- `_exit_with_timer` checks for waiters once (1083) and shuts down across several
  awaits; a request that enters meanwhile is queued on an object without a
  handler, and stranded.
- A shutdown whose last step (1099-1100) comes after another task connected
  again forgets the new connection and handler; a second socket is then opened.
  This is why the theorems about ownership assume the timer off.
- The send pump takes a frame (1200) and then waits for the lock (1204).
  Cancelled in between, the frame is neither queued nor in flight, and not
  flushed as the comment promises; its caller waits for the next reconnect.
- Permits are taken one by one and held (1255, 1283). A request of more payloads
  than `max_subscriptions` waits for itself; and two requests of several frames
  (exhaustive query maps), or one and a batch, that are sent in turns because the
  lock was taken when both began, can hold the whole pool between them and wait
  for each other: with `Plan = <<2>>` and `<<1, 1>>` over two permits the model
  reaches it. Nothing releases a permit before all are sent.
- A task cancelled while it waits for the lock in its finally clause (3242-3244),
  or between two permits of a batch (1283), never gives back its mark or those
  permits. `MarksCounted` is an inequality for this reason, and `EndsBalanced`
  excludes the cancelled.
- A discarded request whose frame is still queued is sent later (1596 only pops
  dicts). Its id stays in use, so that its late answer meets no other caller.
- Reviving a dead handler (709) resubmits nothing, though the comment at
  1577-1579 says so; the receive timeout of the new connection does it later.
- A half-answered batch is resubmitted whole (992). If an answered id was given
  to a new request meanwhile, two frames carry it: `SingleBooking` and
  `AnswersMatch` hold while the id cycle is longer than the ids in use.

Of subscriptions and fetchers:

- Only what is in `_received_subscriptions` is orphaned (1398-1403). A
  subscription without recoverer enters it with its first notification, so a
  connection lost before that leaves the consumer of `subscribe_storage` polling
  for ever instead of getting the error that the comment at 962-964 promises.
- A notification on its way when its consumer unsubscribes creates the queue
  again (1134-1135). It stays until the next reconnect and keeps an idle
  connection open, which the comment at 1379-1380 warns against.
- A consumer that is cancelled, or whose result handler raises, does not
  unsubscribe (3241-3244): its queue keeps the connection open, and its recoverer
  establishes the subscription again after each reconnect.
- A subscription that is unsubscribed while its recovery runs leaves the new
  subscription of the node behind (1442-1444); unsubscribed between the check and
  the lock (1442, 1446), it leaves the alias as well.
- A follower awaits the shared future itself (`cache.py` 114), so cancelling one
  follower cancels all of them, and the leader's `set_result` raises after its
  fetch succeeded.

Of extrinsics and receipts:

- A "retracted" message fails the watch (4968) although the extrinsic is back in
  the pool and may be in the next block.
- The recoverer runs on when the caller is gone: it may resubmit the extrinsic,
  and nobody unsubscribes that watch.
- Two reads of a receipt that overlap find the list of events empty while the
  first waits for it (245): the second returns without a verdict (`is_success` is
  None, against the docstring at 349), or both fill it and the fee counts twice.
- A failure does not always win over success. An error
  `build_system_error_message` has no text for (`utils/receipt.py` 126-127, an
  `Arithmetic` one for instance) leaves the error message None. When it is the error
  of a rejected call (`DecryptedRejected`, 67-71), the success event of the extrinsic
  around it makes `is_success` True (325-328), although the failure had made it
  False; with an error that has a text it stays False. The docstring at 350 has
  "`False` in case of `ExtrinsicFailed`", and two unit tests read that way
  (`test_failure_takes_precedence_over_success`,
  `test_preserves_unknown_dispatch_error_as_none`), of which neither has this order.
  The run has it among its histories, and `VerdictTrue` names the case in the
  formula: a yes means that success is the last outcome and that the last failure,
  if there is one, has no text. "A yes only where nothing failed" would be violated.
- Polling may pass the extrinsic for good: a walk reads at most `scan_depth`
  blocks (4836) and later ones stop at a known block (4837), so when more than that
  many come between two polls, or finality advances by more at once, what lies
  between is never read. The call then ends by its timeout, although the extrinsic
  is in the chain. The docstring has the depth (4874); `PassedByDepthOnly` says that
  nothing else can hide the block.

Of nonces and fail-over:

- The nonce is taken before the requests for the era (3716, 3728): a signing that
  fails has used it up, and a retry of `create_signed_extrinsic` takes the next,
  so that later extrinsics wait for one nobody signed.
- A fail-over shuts down the websocket other tasks wait on (`substrate_addons.py`
  185), and possibly the one another fail-over has just made; their requests are
  never answered. The nonce lock may be held by such a task.
- With no fallback left `next()` raises StopIteration inside a coroutine
  (`substrate_addons.py` 168), which becomes a RuntimeError: the except clause at
  225 does not see it, and the caller gets no `MaxRetriesExceeded`.

Of runtimes and query maps:

- The startup task that failed or was cancelled stays (1938): each later call for
  the startup block raises the same.
- A block hash cached for a number is kept when a reorganization replaces the
  block (3345), so that a query by number may go on reading the replaced one. A
  number beyond the head gives the runtime of the head (1949).
- `retrieve` forgets `last_used` on a miss (`types.py` 145, 152), although its
  docstring (37-39) calls it the last version used. `add_known_versions` counts
  from the block that decodes with a version; `KnownAssumption` states it.
- `retrieve_all_records` returns whole pages, which may be more than
  `max_results` (469, 4605), and two iterators over one result share its
  position. Batches are joined in the order they arrive.

## 5. What is proved

TLAPS checks these for every value of the constants, under the named
assumptions of each module (constants are naturals, `Clients` is finite, plans
are non-empty sequences, names of clients are none of the other values).

`WebsocketProofs`:

- `TypeCorrect`: `Spec => []TypeOK`, and `WaitersCounted`:
  `Spec => []MarksCounted`. They are proved together: `waiting' = waiting - 1`
  stays a natural number only because the client that unmarks is itself among
  the marked clients, so `TypeOK /\ MarksCounted` is the inductive invariant
  and neither is inductive alone.
- `PermitsConserved`: `Spec => []PermitsAccounted`, the permits left and the ones
  the clients hold add up to `MaxPermits`. What a client holds depends on which
  of its responses are booked, so the invariant adds `BookInv`: a client has
  pending exactly what it sent and did not consume, no id is pending for two
  clients, and a pending id has a future. The sum over clients changes by what
  the moving client took or gave back (lemmas
  `SumUpdate` and `SumBalance` about `SumFunctionOnSet`, by well-founded induction
  over the subsets of `Clients`).
- `RequestsBalanced`: `Spec => []EndsBalanced`. It needs that whoever is counted
  is marked or was cancelled (`CountedOnce`), and that a client that ended has
  nothing booked.
- `Refines`: with `Cancellable = {}`, `Spec => ImplementsService`. The mapping is
  the one of `Websocket`: a client's step in its own region is a step of the
  service or none, and all the others, the pumps, the network, the connects and
  the exit timer, stutter. Cancellation is left out because a
  client cancelled in its finally clause keeps permits (section 4), which the
  service has no step for; `PermitsConserved` does not leave it out.
- `Owned`: with `AutoShutdown = FALSE`, `Spec => []ConnectionOwned`. The
  inductive invariant is `OwnInv == TypeOK /\ NeverClosing /\ ConnectionOwned`:
  whoever connects holds the lock, while the lock is held across a suspension
  nothing is open, and what is open or alive is what `self.ws` and
  `self._send_recv_task` name. `OneHandlerAlive` and `OneSocketOpen` follow.
- `AnswersMatched` (`AnswersMatch`) and `BookedOnce` (`SingleBooking`), with
  `AutoShutdown = FALSE` and `Singles`: no frame is a batch. `MatchInv` adds two
  parts to the invariants above. `FrameInv`: every frame is a single request and
  only pumps that run have one in hand. `PlaceInv`: a request lies in one place
  at most of all queues, hands, wires and handlers (`OnePlace`), never both there
  and in `_inflight` (`BookedApart`), its id is in use (`Reserved`) and it, the
  entry of `_inflight` and the future for an id belong to one client
  (`OwnersAgree`). Every action moves one frame at most from one place to another
  (lemmas `Moves`, `Moved`); only `Resubmit` moves all those in flight at once.
  Neither hypothesis can go: a batch of which a part was answered is resubmitted
  whole, also for ids that are another client's by then, and a shutdown forgets
  ids whose requests lie in a queue. The runs show small instances with them.

`CachedFetcherProofs`: `TypeCorrect` (with the bound of the LRU cache),
`OneFetchAtATime`, `FollowersHaveLeaders` and `AnswersFit`. The inductive
invariant `IInv` says that the entry of `_inflight` for the key of a running
fetch is that fetch and the other way round, that a follower of a pending
future follows a running fetch of its own key, and that a follower's fetch had
not ended when the follower's call began.

`SubscriptionsProofs`: `TypeCorrect`, `AliasesAgree` (`Spec => []MapsAgree`),
`FedOnce` (`Spec => []OneFeed`), `NobodySilent` (`Spec => []RecoverableHeard`) and
`TakenInOrder` (`Spec => []InOrder`).
`MapsAgree` is not inductive: `Recovered` could take an id that is the alias of
another subscription, and `Finish` could forget a subscription that is itself an
alias. Neither happens because of whom the node made a subscription for. The
inductive invariant adds that (`Belongs`): an id a recoverer or a consumer got
was made for it, an alias was made for its original, and consumers and
subscriptions have different names. Nothing is assumed of the order `Prompt`
gives: the first two proofs do not use it. `FedOnce` does. Its invariant `SourceInv`
is about all that may feed a consumer: what lives at the node, what responses are
on the wire (`Fed`), and the requests the node has not answered; `FeedInv` says
that of these one at most is for a consumer. `AskInv` says who may ask: the
consumer until it has an id, then only that id. The step that could double a
subscription is `StartRecovery`, which asks for every registered one that is not
claimed: until the recoveries have had their first turn (`due`), what the new
connection has made is for requests that still await their response, hence not
for a consumer that has an id, nor for its recovery, which would be claimed.
`LinkInv` (with `Prompt`) is why no response of the old connection comes in between.
`NobodySilent` rests on all of this. Its invariant `VigilInv` says that a claimed
recovery awaits its response or has it (`ClaimInv`, so that a reconnect may pass
over what is claimed), that what was answered lives until the connection is lost
or its consumer has gone (`LiveInv`; what the node is asked to end is only of such,
`EndInv`), and that who polls with a recoverer is registered (`TrackedInv`): a
reconnect then finds it, and a recovery that fails has a queue to say so on.
`TakenInOrder` rests on `FedOnce` and `NobodySilent`. What waits for a consumer
is a `Chain`: every notification on its queue is later than those before it and,
unless it is the first of its subscription, has its predecessor there or taken
last. That is not inductive without what is on its way (`Streams`): the
subscription that feeds a consumer either still owes its response (`Awaited`), or
its next frame on the wire may come next on the queue that the consumer polls
(`Delivered`), or, while the recoverer has the new id and the alias is not set, on
a queue of its own (`Stored`). A response moves it from the first to one of
the others, `Recovered` from the third to the second, and there the two queues are
joined: the lemma `ChainConcat` needs that all on the first is of subscriptions
made earlier (`Newer`, by `MadeInv`) and that nothing but the new one's
notifications is on the second. That no other subscription can write on either
queue is `FedOnce`; that a recovery whose result is thrown away (`Returned`) has no
consumer that still polls is `RegisteredInv` with `TrackedInv`. The lemmas about
sequences (`ChainAppend`, `ChainTail`, `ChainConcat`, `FlowAppend`, `FlowTail`,
`FlowPrefix`) know nothing of the rest.

`ExtrinsicProofs`: `TypeCorrect`, `ReceiptCorrect` (`Spec => []ReceiptTrue`) and
`PollingReach` (`Spec => []PassedByDepthOnly`), for any depth of scan, number of
blocks and number of losses. `ReceiptTrue` depends on what waits in the feed when
the caller comes to it, so the invariant says that every queued message is true
(`FeedOK`), which a step keeps because chains are closed under ancestors, have no
forks in themselves and the finalized one only grows (`ChainsOK`, lemma `Grows`).
`PollingReach` speaks of carriers; its invariant `SearchOK` of every block that was
left out below one that was read (`LeftOut`): a walk began `ScanDepth` or more above
it. A round leaves out only what is as deep as that below its own head, or what lies
behind a block that had been read before, and below that one the rest is left out
already (lemma `RoundLeavesOut`, with `Nested`: of two blocks of a chain the lower is
on the chain of the higher). That no carrier is among what was read needs that
whatever was read had been made (lemma `ScannedNew`): a block that takes the
extrinsic later is then not among it.

`RuntimeProofs`: `TypeCorrect`, `CachesCorrect` (`CacheTrue`), `RuntimeCorrect`
(`RuntimeFits`) and `NobodyStranded` (`Led`), for any tree of blocks, placement
of upgrades, number of tasks and size of the cache, under `KnownAssumption`. The
invariant is in two halves that only meet in the step relation: `CachesOK` (what
is cached is true) and `CallersOK` (a call looks where what it asks for is, and
loads are led). A caller that ends takes with it whoever shares its load
(`Closed`), so no follower is left behind (lemma `GroupKeeps`).

`ReceiptProofs`: `TypeCorrect`, `VerdictCorrect` (`Spec => []VerdictTrue`) and
`ReadsCorrect` (`Spec => []ReadTrue`), for any number of readers and any events.
A list may have the events several times over, as `triggered_events` is entered
by several readers before the first has filled it, and a run of
`process_events` may begin in one copy and end in another. `BaseInv` bounds that:
each reader fills its list once at most (`ListInv`), and a run stands in a list
that is not empty, at an error the runtime must name (`RunInv`). `TruthInv` says
that a verdict that is kept, or that a suspended run has in view, is that of the
events; it rests on where an event of one copy is in the next (lemmas `LastCopy`
and `NotBefore`), and on that the last event of some kind in what remains of a list is
the last of that kind in every copy (`LastOfAll`). Nothing is assumed of the order of
events. `ReadsCorrect` assumes `HasOutcome`: an extrinsic's events include a success or a failure. `ReadInv`
says that while no reads overlap there is one copy and the fee counted so far is
that of the events so far.

`InterfaceProofs`: `TypeCorrect`, `NoncesDistinct` (`Spec => []Distinct`) and
`NoncesInARow` (`Spec => []NoGap`), the last two under `Apart`: no task passes its
nonce on, or at most two tasks sign. (With three, of which two pass a nonce on,
`Distinct` does not hold: section 4.) `BaseInv` says in which call a task may be
where, and that the holder of the lock finds the cache empty. `NonceInv` adds
that the cache is ahead of the nonces given, or behind one that nobody can count
on from (`CacheInv`), and that the nonces are apart (`NoncesApart`); `RowInv`,
for as long as nothing failed, that they are the numbers from 1 up to the cache.
That `NextIndex` exists and is what it is called is lemma `NextIndexIs`, by the
least element of a set of numbers (`Minimal`).

`QueryMapProofs`: `TypeCorrect`, `GivenOnce` (`Spec => []Once`), `GivenWhole`
(`Spec => []Whole`) and `GivenOfTheBlock` (`Spec => []OfTheBlock`), for any map,
page size, limit and number of changes. The properties are about what has been
given; the invariant says the same of what is about to be: an entry that was
given or waits in the buffer is given once and lies at or below `last`
(`GivenInv`), none that was there all along is missing below it (`WholeInv`), and
the keys of a request in flight are the next ones above it, ascending and without
a gap that was there all along (`AskedInv`). The batches of an exhaustive query
part the keys (lemmas `BatchOfIs`, `BatchesCover`, `BatchesApart`), so that what is joined
in any order is the whole (`BatchInv`). That the node's list is sorted and has
every key once (`SortedIs`) is shown by counting: a key's place is the number of
smaller ones, and an injection of a finite set into one as large is onto.

Only model-checked: `AnswersMatch` and `SingleBooking` with batches or the exit timer; the refinement with clients that
are cancelled; and the three liveness properties, which are beyond the prover, as
is `ENABLED`.

## 6. Not modelled

- Of the websocket: back-pressure of `ws.send`; DNS, TLS and their caches (they
  decide only how fast an attempt succeeds or fails); a batch refused with a
  null id; `json.dumps` failures; logging. One shutdown at a time: the exit task
  is not restarted while a shutdown runs.
- Of subscriptions: normal closes (a handler that ends with subscriptions open
  returns an error, 954-958, as `HandlerFails` does), several subscriptions of one
  request, ids a node uses again on another connection, and what block and
  storage handlers do with what they are given.
- Of extrinsics: a retry of `submit_extrinsic` as a whole, era and tip, and a
  "future" status, which only logs. Of receipts: weight and the extrinsic's
  identifier, which are read once from the same events.
- Of nonces: `clear_nonce_cache_for_account`, several accounts (they share only
  the lock), and the requests of signing that neither take nor give a nonce, that is
  `init_runtime` before it (3703): it may fail over as well, which is then one more
  fail-over outside the nonce lock. Of fail-over: archive nodes, and `retry_forever` beyond its cycle.
- Of runtimes: the fetchers of hashes, parents and versions (requests here), the
  weak references of the `cached_fetcher` decorator, and the content of metadata.
- Codecs, storage keys, hashing, type registry: pure functions, mostly of the
  codec library, without state that outlives a call.

## 7. Plan

Done: the websocket with its service, subscriptions, fetchers, extrinsics,
receipts, nonces with fail-over, runtimes and query maps; proofs for eight modules.

Next, in this order:

1. `Interface` with several accounts and `clear_nonce_cache_for_account`.
2. An abstract specification of a query map (a cursor over a changing set) that
   `QueryMap` implements.
