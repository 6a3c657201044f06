------------------------- MODULE RendezvousPromise --------------------------
(***************************************************************************)
(* What rendezvous_barrier() and set_closed() promise to the agents, who   *)
(* see nothing of how a version comes about: at any moment there is one    *)
(* complete group or none.  A group is of an allowed size and has a        *)
(* version that no call returned before; its members get distinct ranks;   *)
(* it makes way for another one only after a member stopped renewing its   *)
(* keep-alive key; and once closed, the rendezvous gives nothing any more. *)
(***************************************************************************)
EXTENDS Integers

CONSTANTS Agents, MinWorkers, MaxWorkers

VARIABLES
  status,     \* "free", "final" or "closed"
  version,    \* of the group, while there is one
  size,       \* its world size
  waiting,    \* num_nodes_waiting()
  whole,      \* all its members are known to be alive
  granted     \* what the calls of next_rendezvous() returned

vars == <<status, version, size, waiting, whole, granted>>

NoGroup == version = 0 /\ size = 0 /\ waiting = 0 /\ ~whole

Init == status = "free" /\ NoGroup /\ granted = {}

\* A new group; a member may be gone by the time the last one confirms.
Form ==
  /\ status = "free" /\ status' = "final"
  /\ version' \in Nat \ {g.version : g \in granted}
  /\ size' \in MinWorkers .. MaxWorkers
  /\ waiting' = 0
  /\ whole' \in BOOLEAN
  /\ UNCHANGED granted

\* A call returns the group to one of its members.
Return ==
  /\ status = "final"
  /\ \E a \in Agents, r \in 0 .. size - 1 :
       /\ ~ \E g \in granted : g.version = version /\ g.rank = r
       /\ granted' = granted \cup
            {[agent |-> a, version |-> version, rank |-> r, size |-> size]}
  /\ UNCHANGED <<status, version, size, waiting, whole>>

\* Somebody who came too late is counted.
Announce ==
  /\ status = "final"
  /\ waiting' = waiting + 1
  /\ UNCHANGED <<status, version, size, whole, granted>>

\* A member is not heard of any more; that is not taken back.
Lose ==
  /\ whole /\ whole' = FALSE
  /\ UNCHANGED <<status, version, size, waiting, granted>>

Dissolve ==
  /\ status = "final" /\ ~whole
  /\ status' = "free" /\ NoGroup'
  /\ UNCHANGED granted

Close ==
  /\ status # "closed"
  /\ status' = "closed" /\ NoGroup'
  /\ UNCHANGED granted

Next == Form \/ Return \/ Announce \/ Lose \/ Dissolve \/ Close

Spec == Init /\ [][Next]_vars
=============================================================================
