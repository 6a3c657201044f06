---------------------------- MODULE ElasticAgent ----------------------------
(***************************************************************************)
(* The run loop of SimpleElasticAgent (torchelastic/agent/server/api.py),  *)
(* one agent per node, as launched by torchelastic/distributed/launch.py.  *)
(*                                                                         *)
(* The agents meet in the rendezvous barrier, exchange their roles and the *)
(* master's address through the store of the version they were given,      *)
(* start their workers, look at them every monitor_interval, restart them  *)
(* when they fail or when a node waits, and meet again in the exit barrier.*)
(*                                                                         *)
(* The barrier is that of RendezvousPromise, which EtcdRendezvous is shown *)
(* to implement, with the nodes that wait in it: a version is formed by    *)
(* them in one step, a node that finds a complete version announces itself *)
(* and dissolves it once a member no longer renews its keep-alive key.     *)
(* The store is the atomic one of AtomicStore.                             *)
(***************************************************************************)
EXTENDS Integers, Sequences, FiniteSets

CONSTANTS
  Nodes,        \* the nodes, one agent each
  MinNodes,     \* min_nodes
  MaxNodes,     \* max_nodes
  MaxRestarts,  \* max_restarts
  MaxVersions,  \* bound on the number of versions
  MaxCrashes,   \* bound on the number of crashes
  MaxFaults,    \* bound on the number of requests to etcd that fail
  NoNode        \* no master yet

ASSUME AgentAssumption ==
  /\ IsFiniteSet(Nodes)
  /\ MinNodes \in Nat \ {0}
  /\ MaxNodes \in Nat
  /\ MinNodes <= MaxNodes
  /\ MaxRestarts \in Nat
  /\ MaxVersions \in Nat
  /\ MaxCrashes \in Nat
  /\ MaxFaults \in Nat
  /\ NoNode \notin Nodes

VARIABLES
  \* the rendezvous
  status,       \* "free", "final" or "closed"
  version,      \* the last version formed
  members,      \* the members of each version, in the order of their ranks
  waiting,      \* num_workers_waiting of the last version
  renews,       \* the version whose keep-alive key each node renews, or 0
  announced,    \* the version each node waits to be dissolved, or 0
  \* the store of each version
  infos,        \* the ranks that published their role
  master,       \* the node whose address is MASTER_ADDR
  done,         \* the ranks that reached the exit barrier
  \* the agents
  pc,           \* where each agent is
  ver,          \* the version of its group, or 0
  state,        \* WorkerState of its group
  remaining,    \* _remaining_restarts
  workers,      \* what its worker processes really do
  \* history
  failures,     \* the failed groups each agent restarted
  gaveUp,       \* the agents whose exit barrier failed
  crashes,
  faults

rdzv  == <<status, version, members, waiting>>
store == <<infos, master, done>>
agent == <<pc, ver, state, remaining, workers>>
vars  == <<rdzv, renews, announced, store, agent, failures, gaveUp, crashes, faults>>

Versions == 1 .. MaxVersions

\* The rank and the size an agent was given with its version.
Rank(a) == (CHOOSE i \in DOMAIN members[ver[a]] : members[ver[a]][i] = a) - 1
Ranks(v) == 0 .. Len(members[v]) - 1

\* The orders in which the nodes of S may have joined.
Orders(S) ==
  {f \in [1 .. Cardinality(S) -> S] :
     \A i, j \in DOMAIN f : f[i] = f[j] => i = j}

Members(v) == {members[v][i] : i \in DOMAIN members[v]}

-----------------------------------------------------------------------------
Init ==
  /\ status = "free"
  /\ version = 0
  /\ members = [v \in Versions |-> <<>>]
  /\ waiting = 0
  /\ renews = [a \in Nodes |-> 0]
  /\ announced = [a \in Nodes |-> 0]
  /\ infos = [v \in Versions |-> {}]
  /\ master = [v \in Versions |-> NoNode]
  /\ done = [v \in Versions |-> {}]
  /\ pc = [a \in Nodes |-> "down"]
  /\ ver = [a \in Nodes |-> 0]
  /\ state = [a \in Nodes |-> "INIT"]
  /\ remaining = [a \in Nodes |-> MaxRestarts]
  /\ workers = [a \in Nodes |-> "none"]
  /\ failures = [a \in Nodes |-> 0]
  /\ gaveUp = {}
  /\ crashes = 0
  /\ faults = 0

GoTo(a, l) == pc' = [pc EXCEPT ![a] = l]

-----------------------------------------------------------------------------
(* The rendezvous barrier, as the agents see it.                           *)

\* next_rendezvous(): the previous keep-alive key is no longer renewed.
EnterBarrier(a) ==
  /\ GoTo(a, "rdzv")
  /\ ver' = [ver EXCEPT ![a] = 0]
  /\ renews' = [renews EXCEPT ![a] = 0]
  /\ announced' = [announced EXCEPT ![a] = 0]

\* A node arrives, or a job manager replaces one: a fresh agent runs.
Arrive(a) ==
  /\ pc[a] = "down"
  /\ EnterBarrier(a)
  /\ state' = [state EXCEPT ![a] = "INIT"]
  /\ remaining' = [remaining EXCEPT ![a] = MaxRestarts]
  /\ failures' = [failures EXCEPT ![a] = 0]
  /\ gaveUp' = gaveUp \ {a}
  /\ UNCHANGED <<rdzv, store, workers, crashes, faults>>

\* Enough nodes joined, and the last call ended or there was none.
Form(S) ==
  /\ status = "free"
  /\ version < MaxVersions
  /\ \A a \in S : pc[a] = "rdzv"
  /\ Cardinality(S) \in MinNodes .. MaxNodes
  /\ \E order \in Orders(S) : members' = [members EXCEPT ![version + 1] = order]
  /\ status' = "final"
  /\ version' = version + 1
  /\ waiting' = 0
  /\ pc' = [a \in Nodes |-> IF a \in S THEN "share" ELSE pc[a]]
  /\ ver' = [a \in Nodes |-> IF a \in S THEN version + 1 ELSE ver[a]]
  /\ renews' = [a \in Nodes |-> IF a \in S THEN version + 1 ELSE renews[a]]
  /\ announced' = [a \in Nodes |-> IF a \in S THEN 0 ELSE announced[a]]
  /\ UNCHANGED <<store, state, remaining, workers, failures, gaveUp, crashes, faults>>

\* announce_self_waiting().
Announce(a) ==
  /\ pc[a] = "rdzv"
  /\ status = "final"
  /\ announced[a] # version
  /\ waiting' = waiting + 1
  /\ announced' = [announced EXCEPT ![a] = version]
  /\ UNCHANGED <<status, version, members, renews, store, agent, failures,
                 gaveUp, crashes, faults>>

\* wait_for_rendezvous_to_free(): a keep-alive key has run out.
Dissolve(a) ==
  /\ pc[a] = "rdzv"
  /\ status = "final"
  /\ announced[a] = version
  /\ \E b \in Members(version) : renews[b] # version
  /\ status' = "free"
  /\ UNCHANGED <<version, members, waiting, renews, announced, store, agent,
                 failures, gaveUp, crashes, faults>>

\* RendezvousClosedException.
BarrierClosed(a) ==
  /\ pc[a] = "rdzv"
  /\ status = "closed"
  /\ GoTo(a, "raised")
  /\ UNCHANGED <<rdzv, renews, announced, store, ver, state, remaining,
                 workers, failures, gaveUp, crashes, faults>>

\* RendezvousTimeoutException.
BarrierTimeout(a) ==
  /\ pc[a] = "rdzv"
  /\ status # "closed"
  /\ GoTo(a, "raised")
  /\ UNCHANGED <<rdzv, renews, announced, store, ver, state, remaining,
                 workers, failures, gaveUp, crashes, faults>>

-----------------------------------------------------------------------------
(* _rendezvous() after the barrier, and _start_workers().                  *)

\* _share_and_gather(): publish the role of this agent.
Share(a) ==
  /\ pc[a] = "share"
  /\ infos' = [infos EXCEPT ![ver[a]] = @ \cup {Rank(a)}]
  /\ GoTo(a, "gather")
  /\ UNCHANGED <<rdzv, renews, announced, master, done, ver, state, remaining,
                 workers, failures, gaveUp, crashes, faults>>

\* The roles of all the agents are there; rank 0 publishes its address.
Gather(a) ==
  /\ pc[a] = "gather"
  /\ Ranks(ver[a]) \subseteq infos[ver[a]]
  /\ master' = IF Rank(a) = 0 THEN [master EXCEPT ![ver[a]] = a] ELSE master
  /\ GoTo(a, "connect")
  /\ UNCHANGED <<rdzv, renews, announced, infos, done, ver, state, remaining,
                 workers, failures, gaveUp, crashes, faults>>

\* Faulty variant: the workers are started whether the address is there or not.
StartWithoutMaster(a) ==
  /\ pc[a] = "connect"
  /\ workers' = [workers EXCEPT ![a] = "running"]
  /\ state' = [state EXCEPT ![a] = "HEALTHY"]
  /\ GoTo(a, "monitor")
  /\ UNCHANGED <<rdzv, renews, announced, store, ver, remaining, failures,
                 gaveUp, crashes, faults>>

\* The address of the master is there: start the workers.
StartWorkers(a) ==
  /\ pc[a] = "connect"
  /\ master[ver[a]] # NoNode
  /\ workers' = [workers EXCEPT ![a] = "running"]
  /\ state' = [state EXCEPT ![a] = "HEALTHY"]
  /\ GoTo(a, "monitor")
  /\ UNCHANGED <<rdzv, renews, announced, store, ver, remaining, failures,
                 gaveUp, crashes, faults>>

\* A key does not appear before the deadline of the store: LookupError.
StoreTimeout(a) ==
  /\ \/ pc[a] = "gather" /\ ~ Ranks(ver[a]) \subseteq infos[ver[a]]
     \/ pc[a] = "connect" /\ master[ver[a]] = NoNode
  /\ GoTo(a, "raised")
  /\ UNCHANGED <<rdzv, renews, announced, store, ver, state, remaining,
                 workers, failures, gaveUp, crashes, faults>>

-----------------------------------------------------------------------------
(* _invoke_run().                                                          *)

\* Faulty variant: the workers are left to themselves.
RestartWithoutStop(a) ==
  /\ EnterBarrier(a)
  /\ state' = [state EXCEPT ![a] = "STOPPED"]
  /\ UNCHANGED workers

\* _restart_workers(): stop the workers and enter the barrier.  _stop_workers()
\* returns when they have ended; LocalWorkers has what that takes.
Restart(a) ==
  /\ EnterBarrier(a)
  /\ state' = [state EXCEPT ![a] = "STOPPED"]
  /\ workers' = [workers EXCEPT ![a] = "none"]

\* The workers end by themselves, without this agent knowing.
WorkersEnd(a) ==
  /\ workers[a] = "running"
  /\ \E end \in {"succeeded", "failed"} : workers' = [workers EXCEPT ![a] = end]
  /\ UNCHANGED <<rdzv, renews, announced, store, pc, ver, state, remaining,
                 failures, gaveUp, crashes, faults>>

MonitorHealthy(a) ==
  /\ pc[a] = "monitor"
  /\ workers[a] = "running"
  /\ state' = [state EXCEPT ![a] = "HEALTHY"]
  /\ GoTo(a, "look")
  /\ UNCHANGED <<rdzv, renews, announced, store, ver, remaining, workers,
                 failures, gaveUp, crashes, faults>>

MonitorSucceeded(a) ==
  /\ pc[a] = "monitor"
  /\ workers[a] = "succeeded"
  /\ state' = [state EXCEPT ![a] = "SUCCEEDED"]
  /\ workers' = [workers EXCEPT ![a] = "none"]
  /\ GoTo(a, "exit")
  /\ UNCHANGED <<rdzv, renews, announced, store, ver, remaining, failures,
                 gaveUp, crashes, faults>>

MonitorFailed(a) ==
  /\ pc[a] = "monitor"
  /\ workers[a] = "failed"
  /\ \/ /\ remaining[a] > 0
        /\ remaining' = [remaining EXCEPT ![a] = @ - 1]
        /\ failures' = [failures EXCEPT ![a] = @ + 1]
        /\ Restart(a)
     \/ /\ remaining[a] = 0
        /\ state' = [state EXCEPT ![a] = "FAILED"]
        /\ workers' = [workers EXCEPT ![a] = "none"]
        /\ GoTo(a, "exit")
        /\ UNCHANGED <<renews, announced, ver, remaining, failures>>
  /\ UNCHANGED <<rdzv, store, gaveUp, crashes, faults>>

\* Faulty variant: a membership change counts as a retry.
LookCountingRetries(a) ==
  /\ pc[a] = "look"
  /\ IF status = "final" /\ waiting > 0
       THEN Restart(a) /\ remaining' = [remaining EXCEPT ![a] = @ - 1]
       ELSE GoTo(a, "monitor") /\ UNCHANGED <<renews, announced, ver, state,
                                              workers, remaining>>
  /\ UNCHANGED <<rdzv, store, failures, gaveUp, crashes, faults>>

\* Faulty variant: only a version that is not the agent's own counts.
LookElsewhere(a) ==
  /\ pc[a] = "look"
  /\ IF status = "final" /\ waiting > 0 /\ version # ver[a]
       THEN Restart(a)
       ELSE GoTo(a, "monitor") /\ UNCHANGED <<renews, announced, ver, state,
                                              workers>>
  /\ UNCHANGED <<rdzv, store, remaining, failures, gaveUp, crashes, faults>>

\* num_nodes_waiting() looks at the current version, whichever it is.
\* Membership changes do not count as retries.
Look(a) ==
  /\ pc[a] = "look"
  /\ IF status = "final" /\ waiting > 0
       THEN Restart(a)
       ELSE GoTo(a, "monitor") /\ UNCHANGED <<renews, announced, ver, state,
                                              workers>>
  /\ UNCHANGED <<rdzv, store, remaining, failures, gaveUp, crashes, faults>>

-----------------------------------------------------------------------------
(* _exit_barrier() and the launcher.                                       *)

ReachExitBarrier(a) ==
  /\ pc[a] = "exit"
  /\ done' = [done EXCEPT ![ver[a]] = @ \cup {Rank(a)}]
  /\ GoTo(a, "exitwait")
  /\ UNCHANGED <<rdzv, renews, announced, infos, master, ver, state, remaining,
                 workers, failures, gaveUp, crashes, faults>>

\* run() returns the results, or raises WorkerGroupFailureException.
Leave(a) == GoTo(a, IF state[a] = "SUCCEEDED" THEN "returned" ELSE "raised")

\* Faulty variant: the keys of the role exchange serve for the barrier too.
LeaveOnRoleKeys(a) ==
  /\ pc[a] = "exitwait"
  /\ Ranks(ver[a]) \subseteq infos[ver[a]]
  /\ Leave(a)
  /\ UNCHANGED <<rdzv, renews, announced, store, ver, state, remaining,
                 workers, failures, gaveUp, crashes, faults>>

LeaveExitBarrier(a) ==
  /\ pc[a] = "exitwait"
  /\ Ranks(ver[a]) \subseteq done[ver[a]]
  /\ Leave(a)
  /\ UNCHANGED <<rdzv, renews, announced, store, ver, state, remaining,
                 workers, failures, gaveUp, crashes, faults>>

\* Faulty variant: the exit barrier has no timeout.
WaitForever(a) == pc[a] = "exitwait" /\ UNCHANGED vars

\* The exception of the store is logged and ignored.
ExitBarrierTimeout(a) ==
  /\ pc[a] = "exitwait"
  /\ ~ Ranks(ver[a]) \subseteq done[ver[a]]
  /\ gaveUp' = gaveUp \cup {a}
  /\ Leave(a)
  /\ UNCHANGED <<rdzv, renews, announced, store, ver, state, remaining,
                 workers, failures, crashes, faults>>

\* The process of the agent ends, unless it still has workers: they are not
\* daemons, and the interpreter waits for them with the lease thread running.
EndProcess(a) ==
  IF workers[a] = "none"
    THEN GoTo(a, "gone") /\ renews' = [renews EXCEPT ![a] = 0]
    ELSE GoTo(a, "lingers") /\ UNCHANGED renews

\* The workers it waited for have ended.
Linger(a) ==
  /\ pc[a] = "lingers"
  /\ workers[a] # "running"
  /\ GoTo(a, "gone")
  /\ renews' = [renews EXCEPT ![a] = 0]
  /\ workers' = [workers EXCEPT ![a] = "none"]
  /\ UNCHANGED <<rdzv, announced, store, ver, state, remaining, failures,
                 gaveUp, crashes, faults>>

\* The finally clause of the launcher: close the rendezvous, whatever its
\* version, and exit.  A version that is being formed may have no key yet,
\* in which case nothing is closed.
Shutdown(a) ==
  /\ pc[a] \in {"returned", "raised"}
  /\ status' \in IF status = "free" THEN {"free", "closed"} ELSE {"closed"}
  /\ EndProcess(a)
  /\ UNCHANGED <<version, members, waiting, announced, store, ver, state,
                 remaining, workers, failures, gaveUp, crashes, faults>>

\* The node or its agent dies, and its workers with it.
Crash(a) ==
  /\ pc[a] \notin {"down", "gone"}
  /\ crashes < MaxCrashes
  /\ crashes' = crashes + 1
  /\ GoTo(a, "down")
  /\ ver' = [ver EXCEPT ![a] = 0]
  /\ renews' = [renews EXCEPT ![a] = 0]
  /\ announced' = [announced EXCEPT ![a] = 0]
  /\ workers' = [workers EXCEPT ![a] = "none"]
  /\ UNCHANGED <<rdzv, store, state, remaining, failures, gaveUp, faults>>

-----------------------------------------------------------------------------
(* A request to etcd fails for good, with an exception that is not one of  *)
(* those the code expects.  The barrier itself tries again.                *)

Fault == faults < MaxFaults /\ faults' = faults + 1

\* num_nodes_waiting() catches EtcdKeyNotFound only: any other exception ends
\* run(), which does not stop the workers.
LookFails(a) ==
  /\ Fault
  /\ pc[a] = "look"
  /\ GoTo(a, "raised")
  /\ UNCHANGED <<rdzv, renews, announced, store, ver, state, remaining,
                 workers, failures, gaveUp, crashes>>

\* Setting up the store, the role exchange or the address of the master.
StoreFails(a) ==
  /\ Fault
  /\ pc[a] \in {"share", "gather", "connect"}
  /\ GoTo(a, "raised")
  /\ UNCHANGED <<rdzv, renews, announced, store, ver, state, remaining,
                 workers, failures, gaveUp, crashes>>

\* The exception of the store is logged and ignored.
ExitBarrierFails(a) ==
  /\ Fault
  /\ pc[a] \in {"exit", "exitwait"}
  /\ gaveUp' = gaveUp \cup {a}
  /\ Leave(a)
  /\ UNCHANGED <<rdzv, renews, announced, store, ver, state, remaining,
                 workers, failures, crashes>>

\* shutdown() logs the exception: the rendezvous stays as it is.
ShutdownFails(a) ==
  /\ Fault
  /\ pc[a] \in {"returned", "raised"}
  /\ EndProcess(a)
  /\ UNCHANGED <<rdzv, announced, store, ver, state, remaining, workers,
                 failures, gaveUp, crashes>>

RequestFails(a) ==
  LookFails(a) \/ StoreFails(a) \/ ExitBarrierFails(a) \/ ShutdownFails(a)

-----------------------------------------------------------------------------
\* What the agent of a does by itself.
Run(a) ==
  \/ Announce(a) \/ Dissolve(a) \/ BarrierClosed(a)
  \/ Share(a) \/ Gather(a) \/ StartWorkers(a)
  \/ MonitorHealthy(a) \/ MonitorSucceeded(a) \/ MonitorFailed(a) \/ Look(a)
  \/ ReachExitBarrier(a) \/ LeaveExitBarrier(a) \/ Shutdown(a) \/ Linger(a)

\* A deadline of agent a passes.
Deadline(a) == BarrierTimeout(a) \/ StoreTimeout(a) \/ ExitBarrierTimeout(a)

Next ==
  \/ \E a \in Nodes :
       \/ Arrive(a) \/ Run(a) \/ Deadline(a) \/ WorkersEnd(a)
       \/ Crash(a) \/ RequestFails(a)
  \/ \E S \in SUBSET Nodes : Form(S)

Spec == Init /\ [][Next]_vars

\* The agents run, and nodes that wait together form a version when they can.
\* Nothing is assumed of the workers or of deadlines.
FairSpec ==
  /\ Spec
  /\ \A a \in Nodes : WF_vars(Run(a))
  /\ WF_vars(\E S \in SUBSET Nodes : Form(S))

\* Workers end, and deadlines pass.
Ending == \A a \in Nodes : WF_vars(WorkersEnd(a)) /\ WF_vars(Deadline(a))

-----------------------------------------------------------------------------
Places == {"down", "rdzv", "share", "gather", "connect", "monitor", "look",
           "exit", "exitwait", "returned", "raised", "lingers", "gone"}

\* The agent is in a group.
InGroup == {"share", "gather", "connect", "monitor", "look", "exit", "exitwait"}

\* The states of a worker group; the agent sets neither UNKNOWN nor UNHEALTHY.
WorkerState == {"UNKNOWN", "INIT", "HEALTHY", "UNHEALTHY", "STOPPED",
                "SUCCEEDED", "FAILED"}

TypeOK ==
  /\ status \in {"free", "final", "closed"}
  /\ version \in 0 .. MaxVersions
  /\ members \in [Versions -> Seq(Nodes)]
  /\ waiting \in Nat
  /\ renews \in [Nodes -> 0 .. MaxVersions]
  /\ announced \in [Nodes -> 0 .. MaxVersions]
  /\ infos \in [Versions -> SUBSET Nat]
  /\ master \in [Versions -> Nodes \cup {NoNode}]
  /\ done \in [Versions -> SUBSET Nat]
  /\ pc \in [Nodes -> Places]
  /\ ver \in [Nodes -> 0 .. MaxVersions]
  /\ state \in [Nodes -> WorkerState \ {"UNKNOWN", "UNHEALTHY"}]
  /\ remaining \in [Nodes -> Nat]
  /\ workers \in [Nodes -> {"none", "running", "succeeded", "failed"}]
  /\ failures \in [Nodes -> Nat]
  /\ gaveUp \subseteq Nodes
  /\ crashes \in Nat
  /\ faults \in Nat

\* No worker outlives its agent's interest in it: an agent has workers in the
\* monitoring loop only, so that none of an old version runs while the agent
\* waits for the next one, or beside the workers of the next one, or once the
\* agent has its outcome or is gone.  One way out of the loop leaves them: the
\* exception of num_nodes_waiting(), after which the agent never starts others
\* and its process stays for as long as they run.
NoOrphans ==
  \A a \in Nodes : workers[a] # "none" =>
    \/ pc[a] \in {"monitor", "look"}
    \/ pc[a] \in {"raised", "lingers"} /\ state[a] = "HEALTHY"

\* The exit barrier holds: an agent that finished its version and did not
\* give up waiting left no member of the version running workers of it.
ExitTogether ==
  \A a, b \in Nodes :
    /\ pc[a] \in {"returned", "raised", "gone"}
    /\ state[a] \in {"SUCCEEDED", "FAILED"}
    /\ a \notin gaveUp
    /\ ver[b] = ver[a]
    => workers[b] = "none"

\* Retries are spent on failures of the workers and on nothing else, and the
\* group fails only after the last one: an agent that raised because of its
\* workers has used up max_restarts.
RestartBudget ==
  \A a \in Nodes :
    /\ pc[a] # "down" => remaining[a] + failures[a] = MaxRestarts
    /\ state[a] = "FAILED" /\ pc[a] # "down" => remaining[a] = 0

\* Workers are started with the master of their own version, which is its
\* member of rank 0, after every member of the version told its role.
RightMaster ==
  \A a \in Nodes : workers[a] # "none" =>
    /\ master[ver[a]] = members[ver[a]][1]
    /\ Ranks(ver[a]) \subseteq infos[ver[a]]

\* A node that waits is noticed: the version it waits on is dissolved or
\* closed, unless the node gives up, or a member whose look and shutdown both
\* failed holds the version for as long as its workers run.
ArrivalNoticed ==
  \A a \in Nodes :
    []<>~(/\ pc[a] = "rdzv" /\ status = "final" /\ announced[a] = version
          /\ \A b \in Members(version) : pc[b] # "lingers")

\* Every agent that runs ends, whatever the others do, provided that workers
\* end and deadlines pass.
AgentsEnd ==
  Ending => \A a \in Nodes : []<>(pc[a] \in {"down", "gone"})

-----------------------------------------------------------------------------
(* The inductive invariant behind the safety properties.                   *)

Left == {"returned", "raised", "lingers", "gone"}

\* The agent knows the end of its group.
Over(a) == state[a] \in {"SUCCEEDED", "FAILED"}

\* Nothing is in the store of a version that was not formed, and an agent
\* with a version is a member of it.
MemberInv ==
  /\ \A v \in Versions : v > version => master[v] = NoNode /\ done[v] = {}
  /\ \A a \in Nodes :
       /\ ver[a] # 0 => ver[a] <= version /\ a \in Members(ver[a])
       /\ pc[a] \in InGroup \/ workers[a] # "none" => ver[a] # 0

\* The address of the master is published by rank 0, after all the roles.
MasterInv ==
  \A v \in Versions : master[v] # NoNode =>
    master[v] = members[v][1] /\ Ranks(v) \subseteq infos[v]

\* An agent that knows the end of its group goes for the exit barrier.
OverInv ==
  \A a \in Nodes : Over(a) /\ pc[a] # "down" =>
    ver[a] # 0 /\ pc[a] \in {"exit", "exitwait"} \cup Left

\* An agent looks for waiting nodes only after it saw its workers healthy.
LookInv == \A a \in Nodes : pc[a] = "look" => state[a] = "HEALTHY"

\* An agent is counted in the exit barrier once it has reached it without
\* workers, and has seen the others there when it left without giving up.
BarrierInv ==
  \A a \in Nodes :
    /\ ver[a] # 0 /\ Rank(a) \in done[ver[a]] =>
         pc[a] \in {"exitwait"} \cup Left /\ workers[a] = "none"
    /\ pc[a] \in Left /\ Over(a) /\ a \notin gaveUp =>
         Ranks(ver[a]) \subseteq done[ver[a]]

Inv ==
  /\ TypeOK /\ MemberInv /\ MasterInv /\ OverInv /\ LookInv /\ BarrierInv
  /\ NoOrphans /\ RestartBudget /\ RightMaster
=============================================================================
