-------------------------- MODULE RequestDelivery --------------------------
(***************************************************************************)
(* What an MTProto session promises of each request, whatever happens to   *)
(* its connections: the request is executed at most once more than the     *)
(* two ends lost the session it was sent in, and its callback is called at *)
(* most once, with a result only if the server executed it.                *)
(***************************************************************************)
EXTENDS Naturals

CONSTANT Request

VARIABLES
    status,      \* of each request at the Instance
    executed,    \* how often the server executed it
    losses       \* how often one end lost the session

vars == <<status, executed, losses>>

Init ==
    /\ status = [r \in Request |-> "unsent"]
    /\ executed = [r \in Request |-> 0]
    /\ losses = 0

Send(r) ==
    /\ status[r] = "unsent"
    /\ status' = [status EXCEPT ![r] = "pending"]
    /\ UNCHANGED <<executed, losses>>

Cancel(r) ==
    /\ status[r] = "pending"
    /\ status' = [status EXCEPT ![r] = "cancelled"]
    /\ UNCHANGED <<executed, losses>>

\* A cancelled request may be on its way already, and one the server has
\* executed is not answered twice.
Execute(r) ==
    /\ status[r] # "unsent"
    /\ executed[r] <= losses
    /\ executed' = [executed EXCEPT ![r] = @ + 1]
    /\ UNCHANGED <<status, losses>>

Answer(r) ==
    /\ status[r] = "pending" /\ executed[r] > 0
    /\ status' = [status EXCEPT ![r] = "done"]
    /\ UNCHANGED <<executed, losses>>

Fail(r) ==
    /\ status[r] = "pending"
    /\ status' = [status EXCEPT ![r] = "failed"]
    /\ UNCHANGED <<executed, losses>>

Lose ==
    /\ losses' = losses + 1
    /\ UNCHANGED <<status, executed>>

Next ==
    \/ \E r \in Request : Send(r) \/ Cancel(r) \/ Execute(r) \/ Answer(r) \/ Fail(r)
    \/ Lose

Spec == Init /\ [][Next]_vars
=============================================================================
