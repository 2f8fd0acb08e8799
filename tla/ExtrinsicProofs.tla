-------------------------- MODULE ExtrinsicProofs --------------------------
EXTENDS Extrinsic, SequenceTheorems, FiniteSetTheorems, TLAPS
(***************************************************************************)
(* Theorems about Extrinsic, for every value of its constants.             *)
(***************************************************************************)
-----------------------------------------------------------------------------
(* The inductive invariant.                                                *)

\* Chains are closed under ancestors and have no forks in themselves; the finalized
\* block is on the best one.
ChainsOK ==
  /\ \A b \in Made : b \in chain[b] /\ chain[b] \subseteq Made
  /\ \A b \in Made : \A a \in chain[b] : chain[a] \subseteq chain[b]
  /\ \A b \in Made : \A a, c \in chain[b] : chain[a] \subseteq chain[c] \/ chain[c] \subseteq chain[a]
  /\ final \in chain[best]

\* What has been scanned was there, so a block that is made later is not among it;
\* and every block that was left out below one that was scanned, whatever it has,
\* is ScanDepth below one that was.
LeftOut == \A d \in scanned : \A b \in chain[d] \ scanned :
             \E h \in scanned : b \in chain[h] /\ Height(h) >= Height(b) + ScanDepth
SearchOK ==
  /\ carriers \subseteq Made /\ scanned \subseteq Made
  /\ scanned \cap carriers = {}
  /\ LeftOut

\* What waits in the feed is so, of the extrinsic's blocks and the final chain.
Tells(m, carrying, finalized) ==
  /\ m.kind = "inblock" => m.block \in carrying
  /\ m.kind = "finalized" => m.block \in carrying /\ m.block \in finalized
FeedOK == \A i \in 1 .. Len(feed) : Tells(feed[i], carriers, chain[final])

IInv == TypeOK /\ ChainsOK /\ SearchOK /\ FeedOK /\ ReceiptTrue

-----------------------------------------------------------------------------
(* Types.                                                                  *)

LEMMA NotifyType ==
  ASSUME TypeOK, NEW messages \in Seq(Messages), Notify(messages)
  PROVE  feed' \in Seq(Messages) /\ (pc # "watching" => feed' = <<>>)
<1>1. feed \o messages \in Seq(Messages)
  BY ConcatProperties DEF TypeOK
<1>. QED BY <1>1 DEF TypeOK, Notify

LEMMA InjectType ==
  ASSUME TypeOK, NEW kind \in {"inblock", "finalized"} \cup FailureKinds, NEW b \in Blocks \cup {NoBlock},
         Inject(kind, b)
  PROVE  feed' \in Seq(Messages) /\ (pc # "watching" => feed' = <<>>)
<1>1. Message(kind, b) \in Messages
  BY DEF Message, Messages
<1>2. Append(feed, Message(kind, b)) \in Seq(Messages)
  BY <1>1, AppendProperties DEF TypeOK
<1>. QED BY <1>2 DEF TypeOK, Inject

LEMMA MessageType ==
  /\ <<>> \in Seq(Messages)
  /\ \A kind \in {"inblock", "finalized"} \cup FailureKinds, b \in Blocks \cup {NoBlock} :
       Message(kind, b) \in Messages /\ <<Message(kind, b)>> \in Seq(Messages)
<1>1. <<>> \in Seq(Messages)
  BY EmptySeq
<1>2. ASSUME NEW kind \in {"inblock", "finalized"} \cup FailureKinds, NEW b \in Blocks \cup {NoBlock}
      PROVE  Message(kind, b) \in Messages /\ <<Message(kind, b)>> \in Seq(Messages)
  BY DEF Message, Messages
<1>. QED BY <1>1, <1>2

LEMMA InitType == Init => TypeOK
<1>. SUFFICES ASSUME Init PROVE TypeOK
  OBVIOUS
<1>1. 1 \in Blocks
  BY ExtrinsicAssumption DEF Blocks
<1>2. chain \in [Blocks -> SUBSET Blocks] /\ 1 \in Made
  BY <1>1 DEF Init, Made
<1>3. losses \in 0 .. MaxLosses
  BY ExtrinsicAssumption DEF Init
<1>4. result \in [kind : {"none"}, block : {NoBlock}, finalized : BOOLEAN]
  BY DEF Init, NoResult
<1>. QED BY <1>1, <1>2, <1>3, <1>4, MessageType DEF Init, TypeOK

LEMMA NewBlockType ==
  ASSUME TypeOK, NEW b \in Blocks, NEW parent \in Blocks, NEW takes \in BOOLEAN,
         NewBlock(b, parent, takes)
  PROVE  TypeOK'
<1>1. chain' \in [Blocks -> SUBSET Blocks] /\ best' \in Made' /\ final' \in Made'
  BY DEF TypeOK, NewBlock, Made
<1>2. PICK gone \in {<<>>, <<Message("retracted", best)>>}, took \in {<<>>, <<Message("inblock", b)>>} :
        Notify(gone \o took)
  BY Zenon DEF NewBlock
<1>3. best \in Blocks
  BY DEF TypeOK, Made
<1>4. <<Message("retracted", best)>> \in Seq(Messages) /\ <<Message("inblock", b)>> \in Seq(Messages)
  BY <1>3, MessageType DEF FailureKinds
<1>5. gone \in Seq(Messages) /\ took \in Seq(Messages)
  BY <1>4, MessageType
<1>6. feed' \in Seq(Messages) /\ (pc # "watching" => feed' = <<>>)
  BY <1>2, <1>5, ConcatProperties, NotifyType
<1>7. pool' \in BOOLEAN
  BY Zenon DEF NewBlock
<1>8. carriers' \subseteq Blocks
  BY DEF TypeOK, NewBlock
<1>9. UNCHANGED <<watched, losses, mode, pc, result, rec, scanned>>
  BY DEF NewBlock, callVars
<1>. QED BY <1>1, <1>6, <1>7, <1>8, <1>9 DEF TypeOK

LEMMA FinalizeType ==
  ASSUME TypeOK, ChainsOK, NEW b \in Blocks, Finalize(b)
  PROVE  TypeOK'
<1>1. best \in Made /\ b \in chain[best]
  BY DEF Finalize, TypeOK
<1>2. b \in Made
  BY <1>1 DEF ChainsOK
<1>3. PICK ms \in {<<>>, <<Message("finalized", b)>>} : Notify(ms)
  BY Zenon DEF Finalize
<1>4. feed' \in Seq(Messages) /\ (pc # "watching" => feed' = <<>>)
  BY <1>3, MessageType, NotifyType
<1>. QED BY <1>2, <1>4 DEF TypeOK, Finalize, callVars, Made

LEMMA EvictType ==
  ASSUME TypeOK, NEW kind, Evict(kind)
  PROVE  TypeOK'
<1>1. <<Message(kind, NoBlock)>> \in Seq(Messages)
  BY MessageType DEF Evict, FailureKinds
<1>. QED BY <1>1, NotifyType, ZenonT(40) DEF TypeOK, Evict, callVars, Made

LEMMA LoseType ==
  ASSUME TypeOK, Lose
  PROVE  TypeOK'
<1>1. PICK n \in 0 .. Len(feed) : feed' = SubSeq(feed, 1, n)
  BY DEF Lose
<1>2. feed' \in Seq(Messages)
  BY <1>1, SubSeqProperties, LenProperties, ElementOfSeq DEF TypeOK
<1>3. feed = <<>> => feed' = <<>>
  BY <1>1
<1>4. losses' \in 0 .. MaxLosses
  BY ExtrinsicAssumption DEF TypeOK, Lose
<1>. QED BY <1>2, <1>3, <1>4 DEF TypeOK, Lose, callVars, Made

LEMMA AnswerLostType ==
  ASSUME TypeOK, AnswerLost
  PROVE  TypeOK'
<1>1. losses' \in 0 .. MaxLosses
  BY ExtrinsicAssumption DEF TypeOK, AnswerLost
<1>. QED BY <1>1 DEF TypeOK, AnswerLost, Taken, callVars, Made

LEMMA NodeType ==
  ASSUME TypeOK, ChainsOK, NodeStep
  PROVE  TypeOK'
<1>1. CASE FinalityTimeout
  <2>1. <<Message("finalitytimeout", NoBlock)>> \in Seq(Messages)
    BY MessageType DEF FailureKinds
  <2>. QED BY <1>1, <2>1, NotifyType, ZenonT(40) DEF TypeOK, FinalityTimeout, nodeVars, callVars, Made
<1>. QED BY <1>1, NewBlockType, FinalizeType, EvictType, LoseType, AnswerLostType
         DEF NodeStep, SubmitLost, ResubmitLost

\* How the call may end.
LEMMA EndType ==
  /\ \A why \in {"submitted", "stale", "refused", "timeout", "connection"} \cup FailureKinds :
       Failed(why) \in [kind : {"none", "submitted", "receipt", "stale", "refused", "timeout", "connection"}
                                \cup FailureKinds,
                        block : Blocks \cup {NoBlock}, finalized : BOOLEAN]
  /\ \A b \in Blocks \cup {NoBlock} :
       Receipt(b) \in [kind : {"receipt"}, block : Blocks \cup {NoBlock}, finalized : BOOLEAN]
BY DEF Failed, NoResult, Receipt

LEMMA CallerType ==
  ASSUME TypeOK, Begin \/ CallerStep \/ PollTimesOut \/ ConnectionGone
  PROVE  TypeOK'
<1>. USE EndType
<1>1. CASE Begin
  BY <1>1 DEF TypeOK, Begin, nodeVars, Made
<1>2. CASE Accepted
  <2>1. [NoResult EXCEPT !.kind = "submitted"] = Failed("submitted")
    BY DEF Failed
  <2>. QED BY <1>2, <2>1 DEF TypeOK, Accepted, Taken, End, Made
<1>3. CASE AlreadyImported
  <2>1. [NoResult EXCEPT !.kind = "submitted"] = Failed("submitted")
    BY DEF Failed
  <2>. QED BY <1>3, <2>1 DEF TypeOK, AlreadyImported, End, nodeVars, Made
<1>4. CASE Refused
  BY <1>4 DEF TypeOK, Refused, End, nodeVars, Made
<1>5. CASE PollFinds
  <2>1. PICK b \in FoundIn(PolledHead, scanned) : End(Receipt(b))
    BY <1>5 DEF PollFinds
  <2>2. b \in Blocks
    BY <2>1 DEF FoundIn, TypeOK
  <2>. QED BY <1>5, <2>1, <2>2 DEF TypeOK, PollFinds, End, nodeVars, Made
<1>6. CASE Handle
  <2>1. Head(feed) \in Messages /\ Tail(feed) \in Seq(Messages)
    BY <1>6, HeadTailProperties DEF TypeOK, Handle
  <2>2. Head(feed).block \in Blocks \cup {NoBlock}
    BY <2>1 DEF Messages
  <2>3. <<>> \in Seq(Messages)
    BY MessageType
  <2>. DEFINE m == Head(feed)
  <2>4. CASE End(Receipt(m.block)) /\ watched' = FALSE /\ feed' = <<>>
    <3>1. Receipt(m.block) \in [kind : {"receipt"}, block : Blocks \cup {NoBlock}, finalized : BOOLEAN]
      BY <2>2
    <3>. HIDE DEF m
    <3>. QED BY <1>6, <2>3, <2>4, <3>1 DEF TypeOK, Handle, End, nodeVars, Made
  <2>5. CASE Fails(m) /\ End(Failed(m.kind)) /\ watched' = FALSE /\ feed' = <<>>
    <3>1. m.kind \in FailureKinds
      BY <2>5 DEF Fails
    <3>. HIDE DEF m
    <3>. QED BY <1>6, <2>3, <2>5, <3>1 DEF TypeOK, Handle, End, nodeVars, Made
  <2>6. CASE feed' = Tail(feed) /\ UNCHANGED <<watched, callVars>>
    BY <1>6, <2>1, <2>6 DEF TypeOK, Handle, nodeVars, callVars, Made
  <2>. QED BY <1>6, <2>4, <2>5, <2>6 DEF Handle
<1>7. CASE PollTimesOut
  BY <1>7 DEF TypeOK, PollTimesOut, End, nodeVars, Made
<1>8. CASE ConnectionGone
  <2>1. <<>> \in Seq(Messages)
    BY MessageType
  <2>. QED BY <1>8, <2>1 DEF TypeOK, ConnectionGone, End, nodeVars, Made
<1>. QED BY <1>1, <1>2, <1>3, <1>4, <1>5, <1>6, <1>7, <1>8 DEF CallerStep

LEMMA RecovererType ==
  ASSUME TypeOK, RecovererStep \/ RecoverRaises \/ PollRound
  PROVE  TypeOK'
<1>1. CASE RecoverScan
  <2>1. CASE FoundIn(best, {}) = {} \/ mode = "finalization"
    BY <1>1, <2>1 DEF TypeOK, RecoverScan, StartPolling, nodeVars, callVars, Made
  <2>2. CASE FoundIn(best, {}) # {} /\ mode = "inclusion"
    <3>1. PICK b \in FoundIn(best, {}) : Inject("inblock", b)
      BY <1>1, <2>2 DEF RecoverScan
    <3>2. b \in Blocks
      BY <3>1 DEF FoundIn, TypeOK
    <3>3. feed' \in Seq(Messages) /\ (pc # "watching" => feed' = <<>>)
      BY <3>1, <3>2, InjectType
    <3>. QED BY <1>1, <2>2, <3>3 DEF TypeOK, RecoverScan, nodeVars, callVars, Made
  <2>. QED BY <1>1, <2>1, <2>2 DEF RecoverScan
<1>2. CASE RecoverPool
  BY <1>2 DEF TypeOK, RecoverPool, StartPolling, nodeVars, callVars, Made
<1>3. CASE Resubmitted
  BY <1>3 DEF TypeOK, Resubmitted, Taken, callVars, Made
<1>4. CASE RacedIn
  BY <1>4 DEF TypeOK, RacedIn, StartPolling, nodeVars, callVars, Made
<1>5. CASE RecoverPolled
  <2>1. PICK b \in FoundIn(PolledHead, scanned) :
          Inject(IF mode = "finalization" THEN "finalized" ELSE "inblock", b)
    BY <1>5 DEF RecoverPolled
  <2>2. b \in Blocks
    BY <2>1 DEF FoundIn, TypeOK
  <2>3. feed' \in Seq(Messages) /\ (pc # "watching" => feed' = <<>>)
    BY <2>1, <2>2, InjectType
  <2>. QED BY <1>5, <2>3 DEF TypeOK, RecoverPolled, nodeVars, callVars, Made
<1>6. CASE RecoverRaises
  <2>1. PICK kind \in {"recoverystale", "recoveryfailed"} : Inject(kind, NoBlock)
    BY <1>6 DEF RecoverRaises
  <2>2. feed' \in Seq(Messages) /\ (pc # "watching" => feed' = <<>>)
    BY <2>1, InjectType DEF FailureKinds
  <2>. QED BY <1>6, <2>2 DEF TypeOK, RecoverRaises, nodeVars, callVars, Made
<1>7. CASE PollRound
  <2>1. PolledHead \in Blocks
    BY DEF PolledHead, TypeOK, Made
  <2>2. Walk(PolledHead, scanned) \subseteq Blocks
    BY <2>1 DEF Walk, TypeOK
  <2>. QED BY <1>7, <2>2 DEF TypeOK, PollRound, nodeVars, callVars, Made
<1>. QED BY <1>1, <1>2, <1>3, <1>4, <1>5, <1>6, <1>7 DEF RecovererStep

LEMMA NextType ==
  ASSUME TypeOK, ChainsOK, [Next]_vars
  PROVE  TypeOK'
<1>1. CASE UNCHANGED vars
  BY <1>1 DEF TypeOK, vars, nodeVars, callVars, Made
<1>. QED BY <1>1, NodeType, CallerType, RecovererType DEF Next, TimeIsUp

-----------------------------------------------------------------------------
(* The chain.                                                              *)

\* A chain is finite.
LEMMA HeightType ==
  ASSUME TypeOK, NEW b \in Blocks
  PROVE  IsFiniteSet(chain[b]) /\ Height(b) \in Nat
<1>1. IsFiniteSet(Blocks)
  BY ExtrinsicAssumption, FS_Interval DEF Blocks
<1>2. IsFiniteSet(chain[b])
  BY <1>1, FS_Subset DEF TypeOK
<1>. QED BY <1>2, FS_CardinalityType DEF Height

\* A part of a chain is not higher, and one as high is all of it.
LEMMA Nested ==
  ASSUME TypeOK, NEW a \in Blocks, NEW c \in Blocks, chain[a] \subseteq chain[c]
  PROVE  Height(a) <= Height(c) /\ (Height(a) >= Height(c) => chain[c] \subseteq chain[a])
<1>1. IsFiniteSet(chain[c]) /\ Height(a) \in Nat /\ Height(c) \in Nat
  BY HeightType
<1>2. Height(a) <= Height(c) /\ (Height(a) = Height(c) => chain[a] = chain[c])
  BY <1>1, FS_Subset DEF Height
<1>. QED BY <1>1, <1>2

\* So of two nested chains the higher contains the other.
LEMMA HigherContains ==
  ASSUME TypeOK, NEW a \in Blocks, NEW c \in Blocks,
         chain[a] \subseteq chain[c] \/ chain[c] \subseteq chain[a],
         Height(c) = Height(a) + 1
  PROVE  chain[a] \subseteq chain[c]
<1>1. Height(a) \in Nat /\ Height(c) \in Nat
  BY HeightType
<1>2. chain[c] \subseteq chain[a] => Height(c) <= Height(a)
  BY Nested
<1>. QED BY <1>1, <1>2

LEMMA InitChains == Init => ChainsOK
<1>. SUFFICES ASSUME Init PROVE ChainsOK
  OBVIOUS
<1>1. 1 \in Blocks
  BY ExtrinsicAssumption DEF Blocks
<1>. QED BY <1>1 DEF Init, ChainsOK, Made

LEMMA NewBlockChains ==
  ASSUME TypeOK, ChainsOK, NEW b \in Blocks, NEW parent \in Blocks, NEW takes \in BOOLEAN,
         NewBlock(b, parent, takes)
  PROVE  /\ ChainsOK'
         /\ Made' = Made \cup {b}
         /\ chain'[final'] = chain[final]
         /\ \A d \in Made : chain'[d] = chain[d]
<1>1. /\ b \notin Made
      /\ parent = best \/ (best # final /\ chain[parent] = chain[best] \ {best})
      /\ chain' = [chain EXCEPT ![b] = chain[parent] \cup {b}]
      /\ best' = b /\ final' = final
  BY DEF NewBlock
<1>2. final \in chain[parent]
  BY <1>1 DEF ChainsOK
<1>3. parent \in Made /\ final \in Made /\ parent # b /\ final # b
  BY <1>1, <1>2 DEF TypeOK, Made
<1>4. chain'[b] = chain[parent] \cup {b} /\ \A d \in Blocks \ {b} : chain'[d] = chain[d]
  BY <1>1 DEF TypeOK
<1>5. Made' = Made \cup {b}
  BY <1>4 DEF Made
<1>6. chain[parent] \subseteq Made
  BY <1>3 DEF ChainsOK
<1>7. \A d \in Made : chain'[d] = chain[d] /\ d # b
  BY <1>1, <1>4 DEF Made
<1>8. \A d \in Made' : d \in chain'[d] /\ chain'[d] \subseteq Made'
  BY <1>4, <1>5, <1>6, <1>7 DEF ChainsOK
<1>9. \A d \in Made' : \A a \in chain'[d] : chain'[a] \subseteq chain'[d]
  <2>1. ASSUME NEW d \in Made, NEW a \in chain[d] PROVE chain'[a] \subseteq chain'[d]
    BY <1>7 DEF ChainsOK
  <2>2. ASSUME NEW a \in chain[parent] PROVE chain'[a] \subseteq chain'[b]
    BY <1>3, <1>4, <1>6, <1>7 DEF ChainsOK
  <2>. QED BY <1>4, <1>5, <1>7, <2>1, <2>2
<1>10. \A d \in Made' : \A a, c \in chain'[d] : chain'[a] \subseteq chain'[c] \/ chain'[c] \subseteq chain'[a]
  <2>1. ASSUME NEW d \in Made, NEW a \in chain[d], NEW c \in chain[d]
        PROVE  chain'[a] \subseteq chain'[c] \/ chain'[c] \subseteq chain'[a]
    <3>1. a \in Made /\ c \in Made
      BY DEF ChainsOK
    <3>. QED BY <1>7, <3>1 DEF ChainsOK
  <2>2. ASSUME NEW a \in chain'[b] PROVE chain'[a] \subseteq chain'[b]
    BY <1>5, <1>9
  <2>. QED BY <1>3, <1>4, <1>5, <1>7, <2>1, <2>2
<1>11. final' \in chain'[best']
  BY <1>1, <1>2, <1>4
<1>. QED BY <1>1, <1>3, <1>4, <1>5, <1>7, <1>8, <1>9, <1>10, <1>11 DEF ChainsOK

LEMMA FinalizeChains ==
  ASSUME TypeOK, ChainsOK, NEW b \in Blocks, Finalize(b)
  PROVE  /\ ChainsOK'
         /\ Made' = Made
         /\ chain[final] \subseteq chain'[final']
         /\ b \in chain'[final']
<1>1. b \in chain[best] /\ Height(b) = Height(final) + 1 /\ final' = b /\ UNCHANGED <<chain, best>>
  BY DEF Finalize
<1>2. best \in Made /\ final \in Blocks
  BY DEF TypeOK, Made
<1>3. final \in chain[best] /\ b \in Made
  BY <1>1, <1>2 DEF ChainsOK
<1>4. chain[final] \subseteq chain[b]
  BY <1>1, <1>2, <1>3, HigherContains DEF ChainsOK
<1>. QED BY <1>1, <1>3, <1>4 DEF ChainsOK, Made

\* Blocks and their extrinsics only become more, and so does what is final.
LEMMA Grows ==
  ASSUME TypeOK, ChainsOK, [Next]_vars
  PROVE  /\ ChainsOK'
         /\ Made \subseteq Made' /\ carriers \subseteq carriers'
         /\ chain[final] \subseteq chain'[final']
         /\ \A d \in Made : chain'[d] = chain[d]
<1>1. CASE UNCHANGED <<chain, carriers, best, final>>
  BY <1>1 DEF ChainsOK, Made
<1>2. ASSUME NEW b \in Blocks, NEW parent \in Blocks, NEW takes \in BOOLEAN, NewBlock(b, parent, takes)
      PROVE  carriers \subseteq carriers'
  BY <1>2 DEF NewBlock
<1>3. ASSUME NEW b \in Blocks, Finalize(b) PROVE carriers' = carriers /\ chain' = chain
  BY <1>3 DEF Finalize
<1>4. \/ \E b, parent \in Blocks, takes \in BOOLEAN : NewBlock(b, parent, takes)
      \/ \E b \in Blocks : Finalize(b)
      \/ UNCHANGED <<chain, carriers, best, final>>
  BY DEF Next, CallerStep, RecovererStep, TimeIsUp, NodeStep, vars, nodeVars, Begin, Accepted, AlreadyImported,
         Refused, PollFinds, Handle, RecoverScan, RecoverPool, Resubmitted, RacedIn, RecoverPolled, PollTimesOut,
         RecoverRaises, ConnectionGone, PollRound, Evict, FinalityTimeout, Lose, SubmitLost, ResubmitLost,
         AnswerLost, Taken
<1>. QED BY <1>1, <1>2, <1>3, <1>4, NewBlockChains, FinalizeChains

-----------------------------------------------------------------------------
(* The search.                                                             *)

\* A block that takes the extrinsic is one that was not there.
LEMMA CarriersNew ==
  ASSUME TypeOK, ChainsOK, SearchOK, [Next]_vars
  PROVE  carriers' \subseteq Made' /\ carriers' \cap Made \subseteq carriers
<1>1. ASSUME NEW b \in Blocks, NEW parent \in Blocks, NEW takes \in BOOLEAN, NewBlock(b, parent, takes)
      PROVE  carriers' \subseteq Made' /\ carriers' \cap Made \subseteq carriers
  <2>1. b \notin Made /\ carriers' \subseteq carriers \cup {b}
    BY <1>1 DEF NewBlock
  <2>2. Made' = Made \cup {b}
    BY <1>1, NewBlockChains
  <2>. QED BY <2>1, <2>2 DEF SearchOK
<1>2. ASSUME carriers' = carriers
      PROVE  carriers' \subseteq Made' /\ carriers' \cap Made \subseteq carriers
  BY <1>2, Grows DEF SearchOK
<1>3. \/ \E b, parent \in Blocks, takes \in BOOLEAN : NewBlock(b, parent, takes)
      \/ carriers' = carriers
  BY DEF Next, CallerStep, RecovererStep, TimeIsUp, NodeStep, vars, nodeVars, Begin, Accepted, AlreadyImported,
         Refused, PollFinds, Handle, RecoverScan, RecoverPool, Resubmitted, RacedIn, RecoverPolled, PollTimesOut,
         RecoverRaises, ConnectionGone, PollRound, Evict, FinalityTimeout, Lose, SubmitLost, ResubmitLost,
         AnswerLost, Taken, Finalize
<1>. QED BY <1>1, <1>2, <1>3

\* A round reads back from the head, and leaves out what is as deep as ScanDepth or
\* behind a block that was scanned before, below which the rest is left out already.
LEMMA RoundLeavesOut ==
  ASSUME TypeOK, ChainsOK, LeftOut, scanned \subseteq Made,
         NEW head \in Made,
         NEW d \in scanned \cup Walk(head, scanned),
         NEW b \in chain[d], b \notin scanned \cup Walk(head, scanned)
  PROVE  \E h \in scanned \cup Walk(head, scanned) : b \in chain[h] /\ Height(h) >= Height(b) + ScanDepth
<1>1. CASE d \in scanned
  BY <1>1 DEF LeftOut
<1>2. CASE d \in Walk(head, scanned)
  <2>0. Made \subseteq Blocks
    BY DEF Made
  <2>1. /\ d \in chain[head] /\ d \in Made /\ b \in chain[head] /\ b \in Made
    BY <1>2 DEF Walk, ChainsOK
  <2>2. Height(b) \in Nat /\ Height(d) \in Nat /\ Height(head) \in Nat /\ Height(d) <= Height(head)
    BY <2>0, <2>1, HeightType, Nested DEF ChainsOK
  <2>3. \A e \in chain[head] : Height(e) >= Height(d) => e \notin scanned
    BY <1>2 DEF Walk
  <2>4. CASE Height(head) >= Height(b) + ScanDepth
    <3>1. head \in Walk(head, scanned)
      <4>1. head \in chain[head] /\ Height(head) < Height(head) + ScanDepth
        BY <2>2, ExtrinsicAssumption DEF ChainsOK
      <4>2. \A e \in chain[head] : Height(e) >= Height(head) => e \notin scanned
        <5>1. \A e \in chain[head] : e \in Made /\ Height(e) \in Nat
          BY <2>0, HeightType DEF ChainsOK
        <5>. QED BY <2>2, <2>3, <5>1
      <4>. QED BY <4>1, <4>2 DEF Walk
    <3>. QED BY <2>1, <2>4, <3>1
  <2>5. CASE ~(Height(head) >= Height(b) + ScanDepth)
    <3>1. Height(head) < Height(b) + ScanDepth
      BY <2>2, <2>5, ExtrinsicAssumption
    <3>2. PICK e \in chain[head] : Height(e) >= Height(b) /\ e \in scanned
      BY <2>1, <3>1 DEF Walk
    <3>3. e \in Made /\ (chain[b] \subseteq chain[e] \/ chain[e] \subseteq chain[b])
      BY <2>1, <3>2 DEF ChainsOK
    <3>4. chain[b] \subseteq chain[e]
      BY <2>0, <2>1, <3>2, <3>3, Nested
    <3>5. b \in chain[e] \ scanned
      BY <2>1, <3>4 DEF ChainsOK
    <3>. QED BY <3>2, <3>5 DEF LeftOut
  <2>. QED BY <2>4, <2>5
<1>. QED BY <1>1, <1>2

\* What has been scanned is reset, or grows by a round that finds nothing.
LEMMA ScannedNew ==
  ASSUME [Next]_vars
  PROVE  \/ scanned' = scanned \/ scanned' = {}
         \/ /\ FoundIn(PolledHead, scanned) = {} /\ UNCHANGED nodeVars
            /\ scanned' = scanned \cup Walk(PolledHead, scanned)
BY DEF Next, CallerStep, RecovererStep, TimeIsUp, NodeStep, vars, Begin, Accepted, AlreadyImported,
       Refused, PollFinds, Handle, RecoverScan, RecoverPool, Resubmitted, RacedIn, RecoverPolled, PollTimesOut,
       RecoverRaises, ConnectionGone, PollRound, Evict, FinalityTimeout, Lose, SubmitLost, ResubmitLost,
       AnswerLost, NewBlock, Finalize, StartPolling

LEMMA NextSearch ==
  ASSUME TypeOK, ChainsOK, SearchOK, [Next]_vars
  PROVE  SearchOK'
<1>1. Made \subseteq Made' /\ \A d \in Made : chain'[d] = chain[d]
  BY Grows
<1>2. scanned \subseteq Made /\ scanned \cap carriers = {} /\ LeftOut
  BY DEF SearchOK
<1>3. carriers' \subseteq Made' /\ (carriers' \ carriers) \cap Made = {}
  BY CarriersNew DEF SearchOK
<1>4. CASE scanned' = scanned
  <2>1. \A d \in scanned : chain'[d] = chain[d] /\ \A b \in chain[d] : Height(b)' = Height(b)
    <3>1. \A d \in scanned : d \in Made /\ \A b \in chain[d] : b \in Made
      BY <1>2 DEF ChainsOK
    <3>. QED BY <1>1, <3>1 DEF Height
  <2>. QED BY <1>1, <1>2, <1>3, <1>4, <2>1 DEF SearchOK, LeftOut, Height
<1>5. CASE scanned' = {}
  BY <1>3, <1>5 DEF SearchOK, LeftOut
<1>6. CASE /\ FoundIn(PolledHead, scanned) = {} /\ UNCHANGED nodeVars
           /\ scanned' = scanned \cup Walk(PolledHead, scanned)
  <2>1. PolledHead \in Made
    BY DEF PolledHead, TypeOK
  <2>2. Walk(PolledHead, scanned) \subseteq Made
    BY <2>1 DEF Walk, ChainsOK
  <2>3. Walk(PolledHead, scanned) \cap carriers = {}
    BY <1>6 DEF FoundIn
  <2>4. chain' = chain /\ carriers' = carriers
    BY <1>6 DEF nodeVars
  <2>5. \A d \in scanned' : \A b \in chain[d] \ scanned' :
          \E h \in scanned' : b \in chain[h] /\ Height(h) >= Height(b) + ScanDepth
    BY <1>2, <1>6, <2>1, RoundLeavesOut
  <2>6. LeftOut'
    BY <2>4, <2>5 DEF LeftOut, Height
  <2>. QED BY <1>1, <1>2, <1>3, <1>6, <2>2, <2>3, <2>4, <2>6 DEF SearchOK
<1>. QED BY <1>4, <1>5, <1>6, ScannedNew

-----------------------------------------------------------------------------
(* The feed.                                                               *)

\* What was told stays true.
LEMMA StaysTrue ==
  ASSUME TypeOK, ChainsOK, FeedOK, [Next]_vars, NEW i \in 1 .. Len(feed)
  PROVE  Tells(feed[i], carriers', chain'[final'])
BY Grows DEF FeedOK, Tells

LEMMA FeedJoined ==
  ASSUME TypeOK, ChainsOK, FeedOK, [Next]_vars,
         NEW ms \in Seq(Messages), \A i \in 1 .. Len(ms) : Tells(ms[i], carriers', chain'[final']),
         feed' = feed \o ms
  PROVE  FeedOK'
<1>1. feed \in Seq(Messages)
  BY DEF TypeOK
<1>2. Len(feed') = Len(feed) + Len(ms) /\ Len(feed) \in Nat /\ Len(ms) \in Nat
  BY <1>1, ConcatProperties, LenProperties
<1>3. ASSUME NEW i \in 1 .. Len(feed') PROVE Tells(feed'[i], carriers', chain'[final'])
  <2>1. CASE i <= Len(feed)
    <3>1. i \in 1 .. Len(feed) /\ feed'[i] = feed[i]
      BY <1>1, <1>2, <2>1, ConcatProperties
    <3>. QED BY <3>1, StaysTrue
  <2>2. CASE i > Len(feed)
    <3>1. i - Len(feed) \in 1 .. Len(ms) /\ feed'[i] = ms[i - Len(feed)]
      BY <1>1, <1>2, <2>2, ConcatProperties
    <3>. QED BY <3>1
  <2>. QED BY <1>2, <2>1, <2>2
<1>. QED BY <1>3 DEF FeedOK

LEMMA FeedNotified ==
  ASSUME TypeOK, ChainsOK, FeedOK, [Next]_vars,
         NEW ms \in Seq(Messages), \A i \in 1 .. Len(ms) : Tells(ms[i], carriers', chain'[final']),
         Notify(ms)
  PROVE  FeedOK'
<1>1. CASE feed' = feed
  BY <1>1, StaysTrue DEF FeedOK
<1>. QED BY <1>1, FeedJoined DEF Notify

LEMMA FeedInjected ==
  ASSUME TypeOK, ChainsOK, FeedOK, [Next]_vars,
         NEW kind \in {"inblock", "finalized"} \cup FailureKinds, NEW b \in Blocks \cup {NoBlock},
         Tells(Message(kind, b), carriers', chain'[final']),
         Inject(kind, b)
  PROVE  FeedOK'
<1>. DEFINE m == Message(kind, b)
<1>1. <<m>> \in Seq(Messages) /\ m \in Messages
  BY MessageType
<1>2. \A i \in 1 .. Len(<<m>>) : Tells(<<m>>[i], carriers', chain'[final'])
  OBVIOUS
<1>3. Append(feed, m) = feed \o <<m>>
  BY <1>1 DEF TypeOK
<1>4. CASE feed' = feed
  BY <1>4, StaysTrue DEF FeedOK
<1>5. CASE feed' = feed \o <<m>>
  <2>. HIDE DEF m
  <2>. QED BY <1>1, <1>2, <1>5, FeedJoined
<1>. QED BY <1>3, <1>4, <1>5 DEF Inject

LEMMA NextFeed ==
  ASSUME TypeOK, ChainsOK, FeedOK, [Next]_vars
  PROVE  FeedOK'
<1>1. ASSUME feed' = feed PROVE FeedOK'
  BY <1>1, StaysTrue DEF FeedOK
<1>2. ASSUME feed' = <<>> PROVE FeedOK'
  BY <1>2 DEF FeedOK
<1>3. ASSUME NEW b \in Blocks, NEW parent \in Blocks, NEW takes \in BOOLEAN, NewBlock(b, parent, takes)
      PROVE  FeedOK'
  <2>1. PICK gone \in {<<>>, <<Message("retracted", best)>>},
             took \in IF takes THEN {<<Message("inblock", b)>>} ELSE {<<>>} : Notify(gone \o took)
    BY <1>3, Zenon DEF NewBlock
  <2>2. best \in Blocks
    BY DEF TypeOK, Made
  <2>3. gone \in Seq(Messages) /\ took \in Seq(Messages)
    <3>1. <<Message("retracted", best)>> \in Seq(Messages) /\ <<Message("inblock", b)>> \in Seq(Messages)
      BY <2>2, MessageType DEF FailureKinds
    <3>. QED BY <2>1, <3>1, MessageType
  <2>4. \A i \in 1 .. Len(gone) : Tells(gone[i], carriers', chain'[final'])
    BY <2>1 DEF Tells, Message
  <2>5. takes => b \in carriers'
    BY <1>3 DEF NewBlock
  <2>6. \A i \in 1 .. Len(took) : Tells(took[i], carriers', chain'[final'])
    BY <2>1, <2>5 DEF Tells, Message
  <2>7. gone \o took \in Seq(Messages) /\ Len(gone \o took) = Len(gone) + Len(took)
    BY <2>3, ConcatProperties
  <2>8. \A i \in 1 .. Len(gone \o took) : Tells((gone \o took)[i], carriers', chain'[final'])
    BY <2>3, <2>4, <2>6, <2>7, ConcatProperties
  <2>. QED BY <2>1, <2>7, <2>8, FeedNotified
<1>4. ASSUME NEW b \in Blocks, Finalize(b) PROVE FeedOK'
  <2>1. PICK ms \in IF b \in carriers THEN {<<Message("finalized", b)>>} ELSE {<<>>} : Notify(ms)
    BY <1>4, Zenon DEF Finalize
  <2>2. b \in chain'[final'] /\ carriers' = carriers
    BY <1>4, FinalizeChains DEF Finalize
  <2>3. ms \in Seq(Messages)
    BY <2>1, MessageType
  <2>4. \A i \in 1 .. Len(ms) : Tells(ms[i], carriers', chain'[final'])
    BY <2>1, <2>2 DEF Tells, Message
  <2>. QED BY <2>1, <2>3, <2>4, FeedNotified
<1>5. ASSUME NEW kind \in FailureKinds, Notify(<<Message(kind, NoBlock)>>) PROVE FeedOK'
  <2>1. <<Message(kind, NoBlock)>> \in Seq(Messages)
    BY MessageType
  <2>2. \A i \in 1 .. Len(<<Message(kind, NoBlock)>>) :
          Tells(<<Message(kind, NoBlock)>>[i], carriers', chain'[final'])
    BY DEF Tells, Message, FailureKinds
  <2>. QED BY <1>5, <2>1, <2>2, FeedNotified
<1>6. ASSUME Lose PROVE FeedOK'
  <2>1. PICK n \in 0 .. Len(feed) : feed' = SubSeq(feed, 1, n)
    BY <1>6 DEF Lose
  <2>2. Len(feed') = n /\ \A i \in 1 .. n : feed'[i] = feed[i] /\ i \in 1 .. Len(feed)
    BY <2>1, SubSeqProperties, LenProperties DEF TypeOK
  <2>. QED BY <2>2, StaysTrue DEF FeedOK
<1>7. ASSUME feed # <<>>, feed' = Tail(feed) PROVE FeedOK'
  <2>1. \A i \in 1 .. Len(feed') : i + 1 \in 1 .. Len(feed) /\ feed'[i] = feed[i + 1]
    BY <1>7, HeadTailProperties, LenProperties DEF TypeOK
  <2>. QED BY <2>1, StaysTrue DEF FeedOK
<1>8. ASSUME NEW b \in FoundIn(PolledHead, scanned),
             Inject(IF mode = "finalization" THEN "finalized" ELSE "inblock", b)
      PROVE  FeedOK'
  <2>1. b \in Blocks /\ b \in carriers /\ (mode = "finalization" => b \in chain[final])
    BY DEF FoundIn, Walk, PolledHead, TypeOK
  <2>2. b \in carriers' /\ (mode = "finalization" => b \in chain'[final'])
    BY <2>1, Grows
  <2>. QED BY <1>8, <2>1, <2>2, FeedInjected DEF Tells, Message
<1>9. ASSUME NEW b \in FoundIn(best, {}), Inject("inblock", b) PROVE FeedOK'
  <2>1. b \in Blocks /\ b \in carriers'
    BY Grows DEF FoundIn, TypeOK
  <2>. QED BY <1>9, <2>1, FeedInjected DEF Tells, Message
<1>10. ASSUME NEW kind \in FailureKinds, Inject(kind, NoBlock) PROVE FeedOK'
  <2>1. Tells(Message(kind, NoBlock), carriers', chain'[final'])
    BY DEF Tells, Message, FailureKinds
  <2>. QED BY <1>10, <2>1, FeedInjected
<1>11. RecoverRaises => \E kind \in FailureKinds : Inject(kind, NoBlock)
  BY DEF RecoverRaises, FailureKinds
<1>12. RecoverScan => feed' = feed \/ \E b \in FoundIn(best, {}) : Inject("inblock", b)
  BY DEF RecoverScan
<1>13. RecoverPolled => \E b \in FoundIn(PolledHead, scanned) :
                          Inject(IF mode = "finalization" THEN "finalized" ELSE "inblock", b)
  BY DEF RecoverPolled
<1>14. Handle \/ ConnectionGone => feed' = <<>> \/ (feed # <<>> /\ feed' = Tail(feed))
  BY DEF Handle, ConnectionGone
<1>15. \A kind \in {"usurped", "dropped", "invalid"} :
         Evict(kind) => kind \in FailureKinds /\ Notify(<<Message(kind, NoBlock)>>)
  BY DEF Evict, FailureKinds
<1>16. FinalityTimeout => "finalitytimeout" \in FailureKinds /\ Notify(<<Message("finalitytimeout", NoBlock)>>)
  BY DEF FinalityTimeout, FailureKinds
<1>17. \/ feed' = feed
       \/ RecoverRaises \/ RecoverScan \/ RecoverPolled \/ Handle \/ ConnectionGone \/ FinalityTimeout \/ Lose
       \/ \E kind \in {"usurped", "dropped", "invalid"} : Evict(kind)
       \/ \E b, parent \in Blocks, takes \in BOOLEAN : NewBlock(b, parent, takes)
       \/ \E b \in Blocks : Finalize(b)
  BY DEF Next, CallerStep, RecovererStep, TimeIsUp, NodeStep, vars, Begin, Accepted, AlreadyImported,
         Refused, PollFinds, RecoverPool, Resubmitted, RacedIn, PollTimesOut, PollRound, SubmitLost, ResubmitLost,
         AnswerLost
<1>. QED BY <1>1, <1>2, <1>3, <1>4, <1>5, <1>6, <1>7, <1>8, <1>9, <1>10, <1>11, <1>12, <1>13, <1>14, <1>15,
            <1>16, <1>17

-----------------------------------------------------------------------------
(* The receipt.                                                            *)

LEMMA NextReceipt ==
  ASSUME TypeOK, ChainsOK, FeedOK, ReceiptTrue, [Next]_vars
  PROVE  ReceiptTrue'
<1>1. mode' = mode
  BY DEF Next, CallerStep, RecovererStep, TimeIsUp, NodeStep, vars, callVars, Begin, Accepted, AlreadyImported,
         Refused, PollFinds, Handle, RecoverScan, RecoverPool, Resubmitted, RacedIn, RecoverPolled, PollTimesOut,
         RecoverRaises, ConnectionGone, PollRound, Evict, FinalityTimeout, Lose, SubmitLost, ResubmitLost,
         AnswerLost, NewBlock, Finalize, End
<1>2. ASSUME NEW b, b \in carriers, mode = "finalization" => b \in chain[final], result' = Receipt(b)
      PROVE  ReceiptTrue'
  <2>1. b \in carriers' /\ (mode' = "finalization" => b \in chain'[final'])
    BY <1>1, <1>2, Grows
  <2>. QED BY <1>1, <1>2, <2>1 DEF ReceiptTrue, Receipt
<1>3. ASSUME result' = result PROVE ReceiptTrue'
  BY <1>1, <1>3, Grows DEF ReceiptTrue
<1>4. ASSUME result'.kind # "receipt" PROVE ReceiptTrue'
  BY <1>4 DEF ReceiptTrue
<1>5. PollFinds => \E b \in carriers : (mode = "finalization" => b \in chain[final]) /\ result' = Receipt(b)
  BY DEF PollFinds, FoundIn, Walk, PolledHead, End
<1>6. Handle => \/ result' = result \/ result'.kind # "receipt"
                \/ \E b \in carriers : (mode = "finalization" => b \in chain[final]) /\ result' = Receipt(b)
  <2>. SUFFICES ASSUME Handle
                PROVE  \/ result' = result \/ result'.kind # "receipt"
                       \/ \E b \in carriers : (mode = "finalization" => b \in chain[final]) /\ result' = Receipt(b)
    OBVIOUS
  <2>1. Len(feed) \in Nat /\ Len(feed) > 0 /\ Head(feed) = feed[1]
    BY HeadTailProperties, LenProperties DEF Handle, TypeOK
  <2>2. Tells(Head(feed), carriers, chain[final])
    BY <2>1 DEF FeedOK
  <2>3. Completes(Head(feed)) => /\ Head(feed).block \in carriers
                                 /\ mode = "finalization" => Head(feed).block \in chain[final]
    BY <2>2 DEF Completes, Tells
  <2>4. Fails(Head(feed)) => Failed(Head(feed).kind).kind # "receipt"
    BY DEF Fails, FailureKinds, Failed, NoResult
  <2>. QED BY <2>3, <2>4 DEF Handle, End, callVars
<1>7. Accepted \/ AlreadyImported \/ Refused \/ PollTimesOut \/ ConnectionGone =>
        result' = result \/ result'.kind # "receipt"
  BY DEF Accepted, AlreadyImported, Refused, PollTimesOut, ConnectionGone, End, Failed, NoResult
<1>8. \/ result' = result
      \/ PollFinds \/ Handle \/ Accepted \/ AlreadyImported \/ Refused \/ PollTimesOut \/ ConnectionGone
  BY DEF Next, CallerStep, RecovererStep, TimeIsUp, NodeStep, vars, callVars, Begin, RecoverScan, RecoverPool,
         Resubmitted, RacedIn, RecoverPolled, RecoverRaises, PollRound, Evict, FinalityTimeout, Lose, SubmitLost,
         ResubmitLost, AnswerLost, NewBlock, Finalize
<1>. QED BY <1>2, <1>3, <1>4, <1>5, <1>6, <1>7, <1>8

-----------------------------------------------------------------------------
LEMMA InitInvariant == Init => IInv
<1>. SUFFICES ASSUME Init PROVE IInv
  OBVIOUS
<1>1. TypeOK /\ ChainsOK
  BY InitType, InitChains
<1>2. SearchOK
  BY DEF Init, SearchOK, LeftOut
<1>3. FeedOK
  BY DEF Init, FeedOK
<1>4. ReceiptTrue
  BY DEF Init, ReceiptTrue, NoResult
<1>. QED BY <1>1, <1>2, <1>3, <1>4 DEF IInv

LEMMA Inductive == IInv /\ [Next]_vars => IInv'
BY NextType, Grows, NextSearch, NextFeed, NextReceipt DEF IInv

LEMMA Invariant == Spec => []IInv
BY InitInvariant, Inductive, PTL DEF Spec

\* The state of a submission is always well formed; the feed in particular is
\* empty whenever nobody watches.
THEOREM TypeCorrect == Spec => []TypeOK
<1>1. IInv => TypeOK
  BY DEF IInv
<1>. QED BY <1>1, Invariant, PTL

\* However the watch, the recoverer and the polling interleave and whatever forks
\* the node makes, a receipt of submit_extrinsic names a block that has the
\* extrinsic, and a block of the finalized chain when the caller waited for
\* finalization: what is queued stays true, because final chains only grow.
THEOREM ReceiptCorrect == Spec => []ReceiptTrue
<1>1. IInv => ReceiptTrue
  BY DEF IInv
<1>. QED BY <1>1, Invariant, PTL

\* However the head moves and forks, _wait_for_extrinsic_inclusion_via_polling marks
\* no block known that has the extrinsic, and goes past one only by the depth of a
\* walk, when ScanDepth or more blocks have come upon it before a round reads them.
THEOREM PollingReach == Spec => []PassedByDepthOnly
<1>1. ASSUME IInv PROVE PassedByDepthOnly
  <2>1. ASSUME NEW b \in carriers, NEW d \in scanned, b \in chain[d]
        PROVE  /\ b \notin scanned
               /\ \E h \in scanned : b \in chain[h] /\ Height(h) >= Height(b) + ScanDepth
    BY <1>1, <2>1 DEF IInv, SearchOK, LeftOut
  <2>. QED BY <2>1 DEF PassedByDepthOnly
<1>2. IInv => PassedByDepthOnly
  BY <1>1
<1>. QED BY <1>2, Invariant, PTL
=============================================================================
