----------------------------- MODULE RpcService -----------------------------
(***************************************************************************)
(* What the Websocket object promises to a caller, with no connection,     *)
(* handler or lock: a request of Size[c] payloads is open until it ends    *)
(* once; it holds one permit of a shared pool for each payload that is out; *)
(* it ends answered exactly when each payload had its one response, and    *)
(* whatever way it ends it holds nothing any more.                         *)
(***************************************************************************)
EXTENDS Naturals

CONSTANTS
  Clients,     \* the requests
  Size,        \* Size[c]: number of payloads of request c
  MaxPermits   \* size of the pool

VARIABLES
  status,      \* how far each request is
  missing,     \* payloads of each request that have no response yet
  held,        \* permits each request holds
  free         \* permits in the pool

vars == <<status, missing, held, free>>

Ended == {"answered", "failed", "cancelled"}

Init ==
  /\ status = [c \in Clients |-> "idle"]
  /\ missing = Size
  /\ held = [c \in Clients |-> 0]
  /\ free = MaxPermits

Open(c) ==
  /\ status[c] = "idle"
  /\ status' = [status EXCEPT ![c] = "open"]
  /\ UNCHANGED <<missing, held, free>>

\* A permit for one more payload.
Take(c) ==
  /\ status[c] = "open"
  /\ free > 0
  /\ held[c] < missing[c]
  /\ free' = free - 1
  /\ held' = [held EXCEPT ![c] = @ + 1]
  /\ UNCHANGED <<status, missing>>

\* The response of one payload: its permit goes back with it.
Respond(c) ==
  /\ status[c] = "open"
  /\ held[c] > 0
  /\ missing' = [missing EXCEPT ![c] = @ - 1]
  /\ held' = [held EXCEPT ![c] = @ - 1]
  /\ free' = free + 1
  /\ UNCHANGED status

\* The request fails: it takes no further response, and gives back its permits.
Abort(c) ==
  /\ status[c] = "open"
  /\ status' = [status EXCEPT ![c] = "ending"]
  /\ missing' = [missing EXCEPT ![c] = 0]
  /\ UNCHANGED <<held, free>>

GiveBack(c) ==
  /\ status[c] = "ending"
  /\ held[c] > 0
  /\ held' = [held EXCEPT ![c] = @ - 1]
  /\ free' = free + 1
  /\ UNCHANGED <<status, missing>>

End(c, how) ==
  /\ held[c] = 0
  /\ \/ status[c] = "open" /\ missing[c] = 0 /\ how = "answered"
     \/ status[c] \in {"open", "ending"} /\ how = "failed"
  /\ status' = [status EXCEPT ![c] = how]
  /\ missing' = [missing EXCEPT ![c] = 0]
  /\ UNCHANGED <<held, free>>

Next ==
  \E c \in Clients :
    \/ Open(c) \/ Take(c) \/ Respond(c) \/ Abort(c) \/ GiveBack(c)
    \/ \E how \in Ended : End(c, how)

Spec == Init /\ [][Next]_vars
=============================================================================
