------------------------------ MODULE Receipt ------------------------------
(***************************************************************************)
(* AsyncExtrinsicReceipt and utils/receipt.py: the attributes of a receipt  *)
(* are computed on first use from the events of the extrinsic, and kept.   *)
(* Reads of one receipt are coroutines that interleave at the requests for *)
(* the block, for its events and for the runtime that names an error.      *)
(***************************************************************************)
EXTENDS Naturals, Sequences, FiniteSets, SequencesExt

CONSTANTS
  Readers,    \* tasks that read attributes, one after the other
  Histories,  \* what the events of an extrinsic may be
  MayFail     \* the requests of a read may fail

\* What an event says: a deposit or the fee paid (of one unit each), success, or a
\* failure whose error is looked up in the runtime ("module"), has a text of its
\* own ("system"), or is none that build_system_error_message knows ("unknown").
Failures   == {"module", "system", "unknown"}
Kinds      == Failures \cup {"success", "deposit", "feepaid"}
Attributes == {"is_success", "error_message", "total_fee_amount"}
Nobody     == "nobody"

ASSUME ReceiptAssumption ==
  /\ IsFiniteSet(Readers)
  /\ Histories \subseteq Seq(Kinds) \ {<<>>}
  /\ MayFail \in BOOLEAN
  /\ Nobody \notin Readers

VARIABLES
  events,   \* the events of the extrinsic in its block
  located,  \* __extrinsic_idx is known
  listed,   \* the reader that made the list in __triggered_events, or Nobody
  copies,   \* how often the events have been put in the list each reader made
  success,  \* __is_success: "unset", "yes" or "no"
  error,    \* __error_message is set
  fee,      \* __total_fee_amount ...
  priced,   \* ... and whether it is set
  at,       \* where each reader is
  asked,    \* the attribute it reads
  pass,     \* run of process_events for it: error_message may take two
  work,     \* its run: the list, the next event, and what it has seen
  answer,   \* what its last read returned
  clean     \* no two reads have overlapped and none has failed

receiptVars == <<located, listed, copies, success, error, fee, priced>>
vars == <<events, receiptVars, at, asked, pass, work, answer, clean>>

NoWork   == [list |-> Nobody, next |-> 1, paid |-> FALSE, possible |-> FALSE]
NoAnswer == [value |-> "none", fee |-> 0]

Init ==
  /\ events \in Histories
  /\ located = FALSE
  /\ listed = Nobody /\ copies = [r \in Readers |-> 0]
  /\ success = "unset" /\ error = FALSE /\ fee = 0 /\ priced = FALSE
  /\ at = [r \in Readers |-> "idle"]
  /\ asked = [r \in Readers |-> "is_success"]
  /\ pass = [r \in Readers |-> 1]
  /\ work = [r \in Readers |-> NoWork]
  /\ answer = [r \in Readers |-> NoAnswer]
  /\ clean = TRUE

-----------------------------------------------------------------------------
\* A reader that has not suspended runs alone.
Runs(r)    == \A q \in Readers \ {r} : at[q] # "begin"
Goto(r, p) == at' = [at EXCEPT ![r] = p]
Reply(r, value, amount) == answer' = [answer EXCEPT ![r] = [value |-> value, fee |-> amount]]

Cached(a) ==
  \/ a = "is_success" /\ success # "unset"
  \/ a = "error_message" /\ (error \/ success = "yes")
  \/ a = "total_fee_amount" /\ priced

\* What the fields hold for an attribute once nothing more is to be computed.
Value(a, ok, failed) ==
  CASE a = "is_success" -> IF ok = "unset" THEN "none" ELSE ok
    [] a = "error_message" -> IF failed THEN "error" ELSE "none"
    [] a = "total_fee_amount" -> "fee"

\* A property of the receipt is read: kept already, or to be computed.
Ask(r, a) ==
  /\ at[r] = "idle" /\ Runs(r)
  /\ asked' = [asked EXCEPT ![r] = a]
  /\ pass' = [pass EXCEPT ![r] = IF a = "error_message" /\ success = "unset" THEN 1 ELSE 2]
  /\ clean' = (clean /\ \A q \in Readers : at[q] = "idle")
  /\ IF Cached(a) THEN Reply(r, Value(a, success, error), fee) /\ UNCHANGED at
                  ELSE Reply(r, "none", 0) /\ Goto(r, "begin")
  /\ UNCHANGED <<events, receiptVars, work>>

\* A run of process_events is over: a read of error_message goes on to a second one
\* unless the extrinsic was successful.
Done(r) ==
  IF pass[r] = 1 /\ success' # "yes"
  THEN Goto(r, "begin") /\ pass' = [pass EXCEPT ![r] = 2] /\ UNCHANGED answer
  ELSE /\ Goto(r, "idle") /\ UNCHANGED pass
       /\ Reply(r, Value(asked[r], success', error'), fee')

\* triggered_events, when it needs the index of the extrinsic or the events first.
Lists(r) == listed' = r /\ Goto(r, "events")

\* MUTANT: the events are asked for again by every read.
Locate_Again(r) ==
  /\ at[r] = "begin"
  /\ IF located THEN Lists(r) ELSE Goto(r, "block") /\ UNCHANGED listed
  /\ UNCHANGED <<events, located, copies, success, error, fee, priced, asked, pass, work, answer, clean>>

Locate(r) ==
  /\ at[r] = "begin" /\ listed = Nobody
  /\ IF located THEN Lists(r) ELSE Goto(r, "block") /\ UNCHANGED listed
  /\ UNCHANGED <<events, located, copies, success, error, fee, priced, asked, pass, work, answer, clean>>

Located(r) ==
  /\ at[r] = "block" /\ Runs(r)
  /\ located' = TRUE
  /\ Lists(r)
  /\ UNCHANGED <<events, copies, success, error, fee, priced, asked, pass, work, answer, clean>>

-----------------------------------------------------------------------------
(* process_events                                                          *)

\* MUTANT: success is set as soon as its event is seen.
Verdict_AtOnce(ended, possible, failed, refused) ==
  IF possible THEN "yes" ELSE IF refused THEN "no" ELSE success

\* __is_success after a stretch of events: no at a failure, yes only at the end and
\* without an error message.
Verdict(ended, possible, failed, refused) ==
  IF ended /\ possible /\ ~failed THEN "yes" ELSE IF refused THEN "no" ELSE success

\* The events from the n-th to the m-th that are of one of these kinds, in a list
\* that has the events of the extrinsic once or several times.
Event(i) == events[1 + ((i - 1) % Len(events))]
Of(n, m, kinds) == {i \in n .. m : Event(i) \in kinds}
LastIs(n, m, kind, kinds) == \E i \in Of(n, m, {kind}) : \A j \in Of(n, m, kinds) : j <= i

\* Where the loop suspends: at an error that the runtime must name, or at the end.
End(n, m) ==
  LET stops == Of(n, m, {"module"}) IN
  IF stops = {} THEN m ELSE CHOOSE i \in stops : \A j \in stops : i <= j

\* The loop from the n-th event of a list on; `failed' is __error_message and
\* `amount' the fee before it.
Stretch(r, l, n, paid, possible, failed, amount) ==
  LET many  == copies'[l] * Len(events)
      ended == Of(n, many, {"module"}) = {}
      end   == End(n, many)
      good  == IF Of(n, end, Failures \cup {"success"}) = {} THEN possible
               ELSE LastIs(n, end, "success", Failures \cup {"success"})
      bad   == IF Of(n, end, {"system", "unknown"}) = {} THEN failed
               ELSE LastIs(n, end, "system", {"system", "unknown"})
  IN
  /\ fee' = amount + IF paid THEN 0 ELSE Cardinality(Of(n, end, {"deposit"}))
  /\ priced' = TRUE
  /\ error' = bad
  /\ success' = Verdict(ended, good, bad, Of(n, end, Failures) # {})
  /\ work' = [work EXCEPT ![r] = IF ended THEN NoWork
                                 ELSE [list |-> l, next |-> end + 1, paid |-> paid, possible |-> good]]
  /\ IF ended THEN Done(r) ELSE Goto(r, "runtime") /\ UNCHANGED <<pass, answer>>

\* MUTANT: the fee goes on from what a run before has counted.
Process_Adding(r) ==
  LET paid == "feepaid" \in ToSet(events) IN
  Stretch(r, listed, 1, paid, FALSE, error, IF paid THEN 1 ELSE fee)

\* A run over events there are: the fee begins with what TransactionFeePaid says.
Process(r) ==
  LET paid == "feepaid" \in ToSet(events) IN
  Stretch(r, listed, 1, paid, FALSE, error, IF paid THEN 1 ELSE 0)

\* The list is there.  It is empty while another reader waits for the events, or
\* when one that asked for them failed; then nothing is processed.
Listed(r) ==
  /\ at[r] = "begin" /\ listed # Nobody
  /\ UNCHANGED copies
  /\ IF copies[listed] = 0 THEN UNCHANGED <<success, error, fee, priced, work>> /\ Done(r) ELSE Process(r)
  /\ UNCHANGED <<events, located, listed, asked, clean>>

\* The events are appended to whatever list __triggered_events is by now.
Fetched(r) ==
  /\ at[r] = "events" /\ Runs(r)
  /\ copies' = [copies EXCEPT ![listed] = @ + 1]
  /\ Process(r)
  /\ UNCHANGED <<events, located, listed, asked, clean>>

\* The runtime is there: its text is the error message, and the loop goes on.
Resolved(r) ==
  /\ at[r] = "runtime" /\ Runs(r)
  /\ UNCHANGED copies
  /\ Stretch(r, work[r].list, work[r].next, work[r].paid, work[r].possible, TRUE, fee)
  /\ UNCHANGED <<events, located, listed, asked, clean>>

\* A request of the read fails, and with it the read.
RequestFails(r) ==
  /\ MayFail /\ Runs(r)
  /\ at[r] \in {"block", "events", "runtime"}
  /\ Goto(r, "idle")
  /\ Reply(r, "raised", 0)
  /\ clean' = FALSE
  /\ UNCHANGED <<events, receiptVars, asked, pass, work>>

Next ==
  \E r \in Readers :
    \/ \E a \in Attributes : Ask(r, a)
    \/ Locate(r) \/ Located(r) \/ Listed(r) \/ Fetched(r) \/ Resolved(r) \/ RequestFails(r)

Spec == Init /\ [][Next]_vars

-----------------------------------------------------------------------------
TypeOK ==
  /\ located \in BOOLEAN /\ error \in BOOLEAN /\ priced \in BOOLEAN /\ clean \in BOOLEAN
  /\ listed \in Readers \cup {Nobody}
  /\ copies \in [Readers -> 0 .. Cardinality(Readers)]
  /\ success \in {"unset", "yes", "no"}
  /\ fee \in Nat
  /\ at \in [Readers -> {"idle", "begin", "block", "events", "runtime"}]
  /\ asked \in [Readers -> Attributes]
  /\ pass \in [Readers -> {1, 2}]
  /\ work \in [Readers -> [list : Readers \cup {Nobody}, next : Nat, paid : BOOLEAN, possible : BOOLEAN]]
  /\ answer \in [Readers -> [value : {"none", "yes", "no", "error", "fee", "raised"}, fee : Nat]]

Failed == \E n \in DOMAIN events : events[n] \in Failures
Amount == IF "feepaid" \in ToSet(events) THEN 1
          ELSE Cardinality({n \in DOMAIN events : events[n] = "deposit"})

\* Whatever reads overlap or fail, is_success says no only of an extrinsic that
\* failed, and yes only of one whose last outcome is success and that has not
\* failed, or last with an error that build_system_error_message has no text for:
\* the last is what the code does against the docstring of is_success, for a
\* rejected call whose error is such, followed by the success of what carried it.
VerdictTrue ==
  \A r \in Readers :
    /\ answer[r].value = "no" => Failed
    /\ answer[r].value = "yes" =>
         /\ LastIs(1, Len(events), "success", Failures \cup {"success"})
         /\ Failed => LastIs(1, Len(events), "unknown", Failures)

\* Read one after the other, is_success has an answer and total_fee_amount is the
\* fee, however many runs of process_events it took.
ReadTrue ==
  clean => \A r \in Readers : at[r] = "idle" =>
    /\ answer[r].value = "fee" => answer[r].fee = Amount
    /\ answer[r].value = "none" => asked[r] # "is_success" \/ answer[r] = NoAnswer
=============================================================================
