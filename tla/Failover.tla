------------------------------ MODULE Failover ------------------------------
(***************************************************************************)
(* RetryAsyncSubstrate of substrate_addons.py: a method that fails with a  *)
(* connection error replaces the interface's websocket by one to the next  *)
(* fallback chain and runs once more.  Methods call each other through the *)
(* same wrapper, so that every level of a call has a retry of its own.     *)
(*                                                                         *)
(* Tasks share the interface, its websocket and the iterator of chains,    *)
(* and no lock is held.  The actions here are the parts of a call; what is *)
(* called, and where a retry begins again, is for the module that extends. *)
(***************************************************************************)
EXTENDS Naturals, FiniteSets

CONSTANTS
  Tasks,      \* tasks that call methods of the interface
  Fallbacks,  \* number of fallback_chains; chain 0 is url
  Forever,    \* retry_forever
  MaxSockets  \* bound: Websocket objects made

ASSUME FailoverAssumption ==
  /\ Fallbacks \in Nat /\ MaxSockets \in Nat \ {0}
  /\ Forever \in BOOLEAN

Chains  == 0 .. Fallbacks
Sockets == 1 .. MaxSockets

VARIABLES
  up,        \* chains that answer
  sock,      \* self.ws
  made,      \* Websocket objects made
  endpoint,  \* the chain of each
  taken,     \* chains taken from the iterator
  call,      \* state of each task's request: what its wrapper is doing
  on,        \* the websocket it went to
  used,      \* levels of the call that have had their retry
  target,    \* the chain a fail-over goes to
  depth,     \* levels of wrapped methods around the request, 1 the innermost
  tried      \* chains that have failed each task

callVars == <<call, on, depth, used, target, tried>>
failoverVars == <<up, sock, made, endpoint, taken, callVars>>

FailoverInit ==
  /\ up \in SUBSET Chains
  /\ sock = 1 /\ made = 1
  /\ endpoint = [s \in Sockets |-> 0]
  /\ taken = 0
  /\ call = [t \in Tasks |-> "none"]
  /\ on = [t \in Tasks |-> 1]
  /\ depth = [t \in Tasks |-> 1]
  /\ used = [t \in Tasks |-> {}]
  /\ target = [t \in Tasks |-> 0]
  /\ tried = [t \in Tasks |-> {}]

-----------------------------------------------------------------------------
\* cycle(fallback_chains + [url]), or iter(fallback_chains).
Exhausted == ~Forever /\ taken = Fallbacks
Following == IF taken % (Fallbacks + 1) = Fallbacks THEN 0 ELSE (taken % (Fallbacks + 1)) + 1

\* A request goes out on what self.ws is now, from under d wrapped methods.
Request(t, d) ==
  /\ call' = [call EXCEPT ![t] = "sent"]
  /\ depth' = [depth EXCEPT ![t] = d]
  /\ on' = [on EXCEPT ![t] = sock]

\* The answer; the caller of Request goes on.
Answered(t) ==
  /\ call[t] = "sent" /\ endpoint[on[t]] \in up
  /\ call' = [call EXCEPT ![t] = "none"]
  /\ UNCHANGED <<up, sock, made, endpoint, taken, on, depth, target, tried>>

\* The retries of the websocket are spent; the innermost level that has not had
\* its retry gets the error.
Unused(t) == (1 .. depth[t]) \ used[t]

RequestFails(t) ==
  /\ call[t] = "sent" /\ endpoint[on[t]] \notin up
  /\ tried' = [tried EXCEPT ![t] = @ \cup {endpoint[on[t]]}]
  /\ call' = [call EXCEPT ![t] = IF Unused(t) = {} THEN "raised" ELSE "failing"]
  /\ UNCHANGED <<up, sock, made, endpoint, taken, on, depth, used, target>>

\* _reinstantiate_substrate takes the next chain.  StopIteration does not get out
\* of a coroutine as such: the caller gets a RuntimeError, not MaxRetriesExceeded.
NextChain(t) ==
  /\ call[t] = "failing"
  /\ IF Exhausted THEN call' = [call EXCEPT ![t] = "raised"] /\ UNCHANGED <<taken, target>>
     ELSE /\ taken' = taken + 1
          /\ target' = [target EXCEPT ![t] = Following]
          /\ call' = [call EXCEPT ![t] = "closing"]
  /\ UNCHANGED <<up, sock, made, endpoint, on, depth, used, tried>>

\* It shuts self.ws down, whichever that is by then; requests in flight on it are
\* never answered.
CutOff(t) == {q \in Tasks \ {t} : call[q] = "sent" /\ on[q] = sock}

Shutdown(t) ==
  /\ call[t] = "closing"
  /\ call' = [q \in Tasks |-> IF q = t THEN "closed" ELSE IF q \in CutOff(t) THEN "stranded" ELSE call[q]]
  /\ UNCHANGED <<up, sock, made, endpoint, taken, on, depth, used, target, tried>>

\* And replaces it.  (initialize does nothing once the interface is initialized.)
Replace(t) ==
  /\ call[t] = "closed" /\ made < MaxSockets
  /\ made' = made + 1
  /\ sock' = made + 1
  /\ endpoint' = [endpoint EXCEPT ![made + 1] = target[t]]
  /\ call' = [call EXCEPT ![t] = "ready"]
  /\ UNCHANGED <<up, taken, on, depth, used, target, tried>>

\* The level that failed over runs again, with new calls below it.
RetryLevel(t) == CHOOSE l \in Unused(t) : \A m \in Unused(t) : l <= m
Retries(t) == used' = [used EXCEPT ![t] = {l \in @ : l > RetryLevel(t)} \cup {RetryLevel(t)}]

FailsOver(t) == NextChain(t) \/ Shutdown(t) \/ Replace(t)

\* A chain stops answering.
GoesDown(c) ==
  /\ c \in up
  /\ up' = up \ {c}
  /\ UNCHANGED <<sock, made, endpoint, taken, callVars>>

FailoverTypeOK ==
  /\ up \subseteq Chains
  /\ made \in Sockets /\ sock \in 1 .. made
  /\ endpoint \in [Sockets -> Chains]
  /\ taken \in Nat
  /\ call \in [Tasks -> {"none", "sent", "failing", "closing", "closed", "ready", "stranded", "raised"}]
  /\ on \in [Tasks -> Sockets]
  /\ depth \in [Tasks -> 1 .. 3] /\ used \in [Tasks -> SUBSET (1 .. 3)]
  /\ target \in [Tasks -> Chains]
  /\ tried \in [Tasks -> SUBSET Chains]
=============================================================================
