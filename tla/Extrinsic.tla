----------------------------- MODULE Extrinsic -----------------------------
(***************************************************************************)
(* submit_extrinsic: one extrinsic is submitted to a node and watched until *)
(* it is in a block or in a finalized one.  A lost connection severs the   *)
(* watch; its recoverer looks for the extrinsic in recent blocks and in    *)
(* the node's pool, and resubmits it or polls block bodies.                *)
(*                                                                         *)
(* The node and its chain are external, seen through the requests the code *)
(* makes.  The websocket is what Websocket and Subscriptions show it to    *)
(* be: requests in flight are sent again, the recoverer of a subscription  *)
(* runs once at a time.                                                    *)
(***************************************************************************)
EXTENDS Naturals, Sequences, FiniteSets

CONSTANTS
  Modes,       \* what submit_extrinsic may wait for
  ScanDepth,   \* EXTRINSIC_RECOVERY_SCAN_DEPTH
  MaxBlocks,   \* bound: blocks the node makes
  MaxLosses    \* bound: connections lost

Blocks  == 1 .. MaxBlocks
NoBlock == 0

ASSUME ExtrinsicAssumption ==
  /\ Modes \subseteq {"nothing", "inclusion", "finalization"} /\ Modes # {}
  /\ ScanDepth \in Nat \ {0}
  /\ MaxBlocks \in Nat \ {0}
  /\ MaxLosses \in Nat

VARIABLES
  chain,     \* each block with its ancestors; {} for one not made yet
  carriers,  \* blocks whose body has the extrinsic
  best, final, \* heads of the best and of the finalized chain
  pool,      \* the extrinsic is in the node's transaction pool
  watched,   \* the node has a live watch for it on the current connection
  losses,    \* connections lost so far
  mode,      \* what the caller waits for
  pc,        \* where submit_extrinsic is
  feed,      \* messages queued for the watch subscription
  rec,       \* where the recoverer of the subscription is, or "off"
  scanned,   \* known_block_hashes of whoever polls
  result     \* how submit_extrinsic ended

nodeVars == <<chain, carriers, best, final, pool>>
callVars == <<mode, pc, result>>
vars == <<nodeVars, watched, losses, callVars, feed, rec, scanned>>

Made      == {b \in Blocks : chain[b] # {}}
Height(b) == Cardinality(chain[b])
Carried(b) == chain[b] \cap carriers # {}

NoResult == [kind |-> "none", block |-> NoBlock, finalized |-> FALSE]
Failed(why) == [NoResult EXCEPT !.kind = why]

Init ==
  /\ chain = [b \in Blocks |-> IF b = 1 THEN {1} ELSE {}]
  /\ carriers = {}
  /\ best = 1 /\ final = 1
  /\ pool = FALSE /\ watched = FALSE
  /\ losses = 0
  /\ mode \in Modes
  /\ pc = "idle"
  /\ feed = <<>>
  /\ rec = "off"
  /\ scanned = {}
  /\ result = NoResult

-----------------------------------------------------------------------------
(* The node.                                                               *)

Message(kind, b) == [kind |-> kind, block |-> b]
Notify(messages) == feed' = IF watched /\ pc = "watching" THEN feed \o messages ELSE feed

\* A block on the best chain, or instead of its head when that is not final;
\* it may take the extrinsic, which goes back to the pool with a block that is
\* replaced.
NewBlock(b, parent, takes) ==
  LET waits == pool \/ (Carried(best) /\ ~Carried(parent))
      gone  == IF Carried(best) /\ ~Carried(parent) THEN <<Message("retracted", best)>> ELSE <<>>
  IN
  /\ b \notin Made /\ b - 1 \in Made
  /\ parent = best \/ (best # final /\ chain[parent] = chain[best] \ {best})
  /\ takes => waits
  /\ chain' = [chain EXCEPT ![b] = chain[parent] \cup {b}]
  /\ best' = b
  /\ carriers' = IF takes THEN carriers \cup {b} ELSE carriers
  /\ pool' = (waits /\ ~takes)
  /\ Notify(gone \o IF takes THEN <<Message("inblock", b)>> ELSE <<>>)
  /\ UNCHANGED <<final, watched, losses, callVars, rec, scanned>>

Finalize(b) ==
  /\ b \in chain[best] \ chain[final] /\ Height(b) = Height(final) + 1
  /\ final' = b
  /\ Notify(IF b \in carriers THEN <<Message("finalized", b)>> ELSE <<>>)
  /\ UNCHANGED <<chain, carriers, best, pool, watched, losses, callVars, rec, scanned>>

\* The pool gives the extrinsic up, or the watch gives up waiting for finality.
Evict(kind) ==
  /\ pool /\ kind \in {"usurped", "dropped", "invalid"}
  /\ pool' = FALSE
  /\ Notify(<<Message(kind, NoBlock)>>)
  /\ UNCHANGED <<chain, carriers, best, final, watched, losses, callVars, rec, scanned>>

FinalityTimeout ==
  /\ watched /\ Carried(best) /\ ~Carried(final)
  /\ Notify(<<Message("finalitytimeout", NoBlock)>>)
  /\ watched' = FALSE
  /\ UNCHANGED <<nodeVars, losses, callVars, rec, scanned>>

-----------------------------------------------------------------------------
(* Requests.  The websocket sends one that is in flight again, so the node *)
(* may have taken a submission whose answer the caller never sees.         *)

Answer ==
  IF pool THEN "already imported" ELSE IF Carried(best) THEN "stale" ELSE "accepted"

\* The node takes the extrinsic; the answer arrives, or is lost on the way.
Taken ==
  /\ pool' = TRUE
  /\ UNCHANGED <<chain, carriers, best, final>>

AnswerLost ==
  /\ Answer = "accepted" /\ losses < MaxLosses
  /\ Taken
  /\ losses' = losses + 1
  /\ UNCHANGED <<watched, callVars, feed, rec, scanned>>

\* The connection is lost, and with it what the watch had not delivered yet; the
\* node reached next may not have the extrinsic in its pool.
Lose ==
  /\ watched /\ losses < MaxLosses
  /\ losses' = losses + 1
  /\ watched' = FALSE
  /\ \E n \in 0 .. Len(feed) : feed' = SubSeq(feed, 1, n)
  /\ rec' = IF pc = "watching" /\ rec = "off" THEN "scan" ELSE rec
  /\ pool' \in {pool, FALSE}
  /\ UNCHANGED <<chain, carriers, best, final, callVars, scanned>>

-----------------------------------------------------------------------------
(* Looking for the extrinsic.                                              *)

\* MUTANT: the walk ends a block early.
Walk_Shorter(head, known) ==
  {b \in chain[head] : /\ Height(head) + 1 < Height(b) + ScanDepth
                       /\ \A d \in chain[head] : Height(d) >= Height(b) => d \notin known}

\* The blocks _scan_recent_blocks_for_extrinsic reads: back from the head, until
\* one that is known, at most ScanDepth.  (It stops at one that has the
\* extrinsic; there is at most one on a chain.)
Walk(head, known) ==
  {b \in chain[head] : /\ Height(head) < Height(b) + ScanDepth
                       /\ \A d \in chain[head] : Height(d) >= Height(b) => d \notin known}

FoundIn(head, known) == Walk(head, known) \cap carriers

PolledHead == IF mode = "finalization" THEN final ELSE best

End(r) == pc' = "done" /\ result' = r /\ UNCHANGED mode
Receipt(b) == [kind |-> "receipt", block |-> b, finalized |-> mode = "finalization"]

\* One round of _poll without success; the next one after the poll interval.
PollRound ==
  /\ pc = "polling" \/ rec = "poll"
  /\ FoundIn(PolledHead, scanned) = {}
  /\ scanned' = scanned \cup Walk(PolledHead, scanned)
  /\ UNCHANGED <<nodeVars, watched, losses, callVars, feed, rec>>

-----------------------------------------------------------------------------
(* The caller.                                                             *)

Begin ==
  /\ pc = "idle"
  /\ pc' = "submitting"
  /\ UNCHANGED <<nodeVars, watched, losses, mode, result, feed, rec, scanned>>

\* The node takes it: with a watch when the caller waits for something.
Accepted ==
  /\ pc = "submitting" /\ Answer = "accepted"
  /\ Taken
  /\ IF mode = "nothing"
     THEN End([NoResult EXCEPT !.kind = "submitted"]) /\ UNCHANGED watched
     ELSE pc' = "watching" /\ watched' = TRUE /\ UNCHANGED <<mode, result>>
  /\ UNCHANGED <<losses, feed, rec, scanned>>

SubmitLost == pc = "submitting" /\ AnswerLost

\* It has it already, from a request that was sent again.
AlreadyImported ==
  /\ pc = "submitting" /\ Answer = "already imported"
  /\ IF mode = "nothing"
     THEN End([NoResult EXCEPT !.kind = "submitted"])
     ELSE pc' = "polling" /\ UNCHANGED <<mode, result>>
  /\ UNCHANGED <<nodeVars, watched, losses, feed, rec, scanned>>

\* Any other error is the caller's, also that of an extrinsic in a block.
Refused ==
  /\ pc = "submitting" /\ Answer # "already imported"
  /\ End(Failed(IF Answer = "stale" THEN "stale" ELSE "refused"))
  /\ UNCHANGED <<nodeVars, watched, losses, feed, rec, scanned>>

PollFinds ==
  /\ pc = "polling"
  /\ \E b \in FoundIn(PolledHead, scanned) : End(Receipt(b))
  /\ UNCHANGED <<nodeVars, watched, losses, feed, rec, scanned>>

PollTimesOut ==
  /\ pc = "polling"
  /\ End(Failed("timeout"))
  /\ UNCHANGED <<nodeVars, watched, losses, feed, rec, scanned>>

\* MUTANT: a block is enough, whatever the caller waits for.
Completes_InBlock(m) == m.kind \in {"inblock", "finalized"}

\* Which messages end the watch with a receipt ...
Completes(m) ==
  \/ m.kind = "finalized" /\ mode = "finalization"
  \/ m.kind = "inblock" /\ mode = "inclusion"

\* ... and which with an error.
FailureKinds == {"retracted", "usurped", "dropped", "invalid", "finalitytimeout",
                 "recoveryfailed", "recoverystale"}
Fails(m) == m.kind \in FailureKinds

\* result_handler on the next message; an end unsubscribes.
Handle ==
  /\ pc = "watching" /\ feed # <<>>
  /\ LET m == Head(feed) IN
       IF Completes(m) THEN End(Receipt(m.block)) /\ watched' = FALSE /\ feed' = <<>>
       ELSE IF Fails(m) THEN End(Failed(m.kind)) /\ watched' = FALSE /\ feed' = <<>>
       ELSE feed' = Tail(feed) /\ UNCHANGED <<watched, callVars>>
  /\ UNCHANGED <<nodeVars, losses, rec, scanned>>

\* The retry budget is spent: the request under way or the watch raises.
ConnectionGone ==
  /\ pc \in {"submitting", "watching", "polling"}
  /\ losses = MaxLosses
  /\ End(Failed("connection"))
  /\ watched' = FALSE /\ feed' = <<>>
  /\ UNCHANGED <<nodeVars, losses, rec, scanned>>

-----------------------------------------------------------------------------
(* The recoverer.                                                          *)

\* MUTANT: the queue is created again for it.
Inject_Always(kind, b) == feed' = Append(feed, Message(kind, b))

\* What it injects is dropped when the caller is gone.
Inject(kind, b) == feed' = IF pc = "watching" THEN Append(feed, Message(kind, b)) ELSE feed

\* MUTANT: polling goes on from the blocks the scan has read.
StartPolling_Shared(known) == rec' = "poll" /\ scanned' = known

\* The polling has a set of known blocks of its own.
StartPolling(known) == rec' = "poll" /\ scanned' = {}

\* Recent blocks of the best chain.
RecoverScan ==
  /\ rec = "scan"
  /\ LET found == FoundIn(best, {}) IN
       \/ found = {} /\ rec' = "pool" /\ UNCHANGED <<feed, scanned>>
       \/ found # {} /\ mode = "finalization" /\ StartPolling(Walk(best, {})) /\ UNCHANGED feed
       \/ found # {} /\ mode = "inclusion" /\ rec' = "off" /\ UNCHANGED scanned
          /\ \E b \in found : Inject("inblock", b)
  /\ UNCHANGED <<nodeVars, watched, losses, callVars>>

\* Then the pool, a request of its own.
RecoverPool ==
  /\ rec = "pool"
  /\ IF pool THEN StartPolling(Walk(best, {})) ELSE rec' = "resubmit" /\ UNCHANGED scanned
  /\ UNCHANGED <<nodeVars, watched, losses, callVars, feed>>

\* Then it is submitted again, and watched under a new subscription (also when the
\* caller is gone: nobody unsubscribes that one).
Resubmitted ==
  /\ rec = "resubmit" /\ Answer = "accepted"
  /\ Taken
  /\ watched' = TRUE
  /\ rec' = "off"
  /\ UNCHANGED <<losses, callVars, feed, scanned>>

ResubmitLost == rec = "resubmit" /\ AnswerLost

RacedIn ==
  /\ rec = "resubmit" /\ Answer = "already imported"
  /\ StartPolling({})
  /\ UNCHANGED <<nodeVars, watched, losses, callVars, feed>>

\* MUTANT: what the recoverer found is returned and not injected.
RecoverPolled_Silent ==
  /\ rec = "poll" /\ FoundIn(PolledHead, scanned) # {}
  /\ rec' = "off"
  /\ UNCHANGED <<nodeVars, watched, losses, callVars, feed, scanned>>

RecoverPolled ==
  /\ rec = "poll"
  /\ \E b \in FoundIn(PolledHead, scanned) :
       Inject(IF mode = "finalization" THEN "finalized" ELSE "inblock", b)
  /\ rec' = "off"
  /\ UNCHANGED <<nodeVars, watched, losses, callVars, scanned>>

\* Whatever the recoverer raises is injected as recoveryFailed, with its text: a
\* refusal other than "already imported", the end of the polling's time or of the
\* retry budget.  (recoverystale: the text says that the chain has it already.)
RecoverRaises ==
  /\ \/ rec = "resubmit" /\ Answer = "stale" /\ Inject("recoverystale", NoBlock)
     \/ rec = "resubmit" /\ Answer = "accepted" /\ Inject("recoveryfailed", NoBlock)
     \/ rec = "poll" /\ Inject("recoveryfailed", NoBlock)
     \/ rec # "off" /\ losses = MaxLosses /\ Inject("recoveryfailed", NoBlock)
  /\ rec' = "off"
  /\ UNCHANGED <<nodeVars, watched, losses, callVars, scanned>>

-----------------------------------------------------------------------------
CallerStep ==
  \/ Accepted \/ AlreadyImported \/ Refused \/ PollFinds \/ Handle

RecovererStep ==
  \/ RecoverScan \/ RecoverPool \/ Resubmitted \/ RacedIn \/ RecoverPolled

TimeIsUp == PollTimesOut \/ RecoverRaises

NodeStep ==
  \/ \E b, parent \in Blocks, takes \in BOOLEAN : NewBlock(b, parent, takes)
  \/ \E b \in Blocks : Finalize(b)
  \/ \E kind \in {"usurped", "dropped", "invalid"} : Evict(kind)
  \/ FinalityTimeout \/ Lose \/ SubmitLost \/ ResubmitLost

Next == Begin \/ CallerStep \/ RecovererStep \/ TimeIsUp \/ ConnectionGone \/ PollRound \/ NodeStep

Spec == Init /\ [][Next]_vars

\* Requests that the node answers are answered, messages are handled and timers
\* fire; nothing is assumed of the chain.
Fairness == WF_vars(CallerStep) /\ WF_vars(RecovererStep) /\ WF_vars(TimeIsUp)

FairSpec == Spec /\ Fairness

-----------------------------------------------------------------------------
Messages == [kind : {"inblock", "finalized"} \cup FailureKinds, block : Blocks \cup {NoBlock}]

TypeOK ==
  /\ chain \in [Blocks -> SUBSET Blocks]
  /\ carriers \subseteq Blocks
  /\ best \in Made /\ final \in Made
  /\ pool \in BOOLEAN /\ watched \in BOOLEAN
  /\ losses \in 0 .. MaxLosses
  /\ mode \in Modes
  /\ pc \in {"idle", "submitting", "watching", "polling", "done"}
  /\ feed \in Seq(Messages)
  /\ pc # "watching" => feed = <<>>
  /\ rec \in {"off", "scan", "pool", "resubmit", "poll"}
  /\ scanned \subseteq Blocks
  /\ result \in [kind : {"none", "submitted", "receipt", "stale", "refused", "timeout", "connection"}
                            \cup FailureKinds,
                 block : Blocks \cup {NoBlock}, finalized : BOOLEAN]

\* A receipt names a block that has the extrinsic, and a finalized one when
\* finalization was asked for, whichever of the watch, the recoverer and the
\* polling produced it.
ReceiptTrue ==
  result.kind = "receipt" =>
    /\ result.block \in carriers
    /\ mode = "finalization" => result.finalized /\ result.block \in chain[final]

\* Polling goes past a block that has the extrinsic only by the depth of a walk: it
\* has not read the block, and has begun at one that is ScanDepth or more above it.
\* (Then the block is missed for good, for walks stop at what has been read.)
PassedByDepthOnly ==
  \A b \in carriers, d \in scanned : b \in chain[d] =>
    /\ b \notin scanned
    /\ \E h \in scanned : b \in chain[h] /\ Height(h) >= Height(b) + ScanDepth

\* Once the extrinsic is in a finalized block submit_extrinsic ends, however
\* often the watch is severed and whatever messages are lost with it.
Settles == pc # "idle" /\ Carried(final) ~> pc = "done"

\* An extrinsic whose watch was severed is found on the chain: it is not sent
\* again to be refused because it is there.
NotLost == result.kind # "recoverystale"
=============================================================================
