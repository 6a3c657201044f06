------------------------- MODULE ElasticAgentProofs -------------------------
(***************************************************************************)
(* Proofs that the agents of ElasticAgent keep their promises for every    *)
(* set of nodes, every min_nodes <= max_nodes, every max_restarts and every*)
(* number of versions and crashes, and that the ranks of WorkerRanks       *)
(* number the workers for every number of agents, roles and workers.       *)
(***************************************************************************)
EXTENDS ElasticAgent, WorkerRanks, FiniteSetTheorems, WellFoundedInduction, TLAPS

\* A group is a sequence of nodes.
LEMMA OrderTypes ==
  ASSUME NEW S \in SUBSET Nodes, NEW order \in Orders(S)
  PROVE  /\ order \in Seq(Nodes)
         /\ Len(order) = Cardinality(S)
         /\ Cardinality(S) \in Nat
<1>1. IsFiniteSet(S)
  BY AgentAssumption, FS_Subset
<1>2. Cardinality(S) \in Nat
  BY <1>1, FS_CardinalityType
<1> QED
  BY <1>2 DEF Orders

\* An order in which the nodes of S joined leaves none of them out.
LEMMA OrderOnto ==
  ASSUME NEW S \in SUBSET Nodes, NEW order \in Orders(S), NEW x \in S
  PROVE  \E i \in DOMAIN order : order[i] = x
<1> DEFINE n == Cardinality(S)
<1>1. IsFiniteSet(S) /\ n \in Nat
  BY AgentAssumption, FS_Subset, FS_CardinalityType
<1>2. /\ order \in [1 .. n -> S]
      /\ \A i, j \in 1 .. n : order[i] = order[j] => i = j
  BY <1>1 DEF Orders
<1>3. IsFiniteSet(S \ {x}) /\ Cardinality(S \ {x}) = n - 1
  BY <1>1, FS_RemoveElement
<1>7. IsFiniteSet(1 .. n) /\ Cardinality(1 .. n) = n
  <2>1. 1 \in Int /\ n \in Int
    BY <1>1
  <2> HIDE DEF n
  <2> QED
    BY <1>1, <2>1, FS_Interval
<1> HIDE DEF n
<1> SUFFICES ASSUME \A i \in 1 .. n : order[i] # x
             PROVE  FALSE
  BY <1>2
<1>4. order \in [1 .. n -> S \ {x}]
  BY <1>2
<1>5. Cardinality(S \ {x}) < Cardinality(1 .. n)
  BY <1>1, <1>3, <1>7
<1>6. \E i, j \in 1 .. n : i # j /\ order[i] = order[j]
  <2> DEFINE D == 1 .. n
             T == S \ {x}
  <2>1. IsFiniteSet(D) /\ IsFiniteSet(T) /\ Cardinality(T) < Cardinality(D)
    BY <1>3, <1>5, <1>7
  <2>2. order \in [D -> T]
    BY <1>4
  <2> SUFFICES \E i, j \in D : i # j /\ order[i] = order[j]
    OBVIOUS
  <2> HIDE DEF D, T
  <2> QED
    BY <2>1, <2>2, FS_PigeonHole
<1> QED
  BY <1>2, <1>6

LEMMA FormType ==
  ASSUME TypeOK, NEW S \in SUBSET Nodes, Form(S)
  PROVE  TypeOK'
<1>1. version + 1 \in Versions /\ version + 1 \in 0 .. MaxVersions
  BY AgentAssumption DEF TypeOK, Form, Versions
<1>2. members' \in [Versions -> Seq(Nodes)]
  BY <1>1, OrderTypes DEF TypeOK, Form
<1>3. /\ pc' \in [Nodes -> Places]
      /\ ver' \in [Nodes -> 0 .. MaxVersions]
      /\ renews' \in [Nodes -> 0 .. MaxVersions]
      /\ announced' \in [Nodes -> 0 .. MaxVersions]
  BY <1>1, AgentAssumption DEF TypeOK, Form, Places
<1> QED
  BY <1>1, <1>2, <1>3 DEF TypeOK, Form, store

\* The rank of an agent with a version is its place among the members.
LEMMA RankIs ==
  ASSUME TypeOK, MemberInv, NEW a \in Nodes, ver[a] # 0
  PROVE  /\ ver[a] \in Versions /\ ver[a] <= version
         /\ Rank(a) \in Ranks(ver[a])
         /\ Rank(a) \in Nat
         /\ members[ver[a]][Rank(a) + 1] = a
<1>1. ver[a] \in Versions /\ ver[a] <= version /\ a \in Members(ver[a])
  BY AgentAssumption DEF TypeOK, MemberInv, Versions
<1>2. members[ver[a]] \in Seq(Nodes)
  BY <1>1 DEF TypeOK
<1> DEFINE i == CHOOSE i \in DOMAIN members[ver[a]] : members[ver[a]][i] = a
<1>3. i \in DOMAIN members[ver[a]] /\ members[ver[a]][i] = a
  BY <1>1 DEF Members
<1>4. i \in 1 .. Len(members[ver[a]]) /\ Rank(a) = i - 1
  BY <1>2, <1>3 DEF Rank
<1>5. ASSUME NEW j \in 1 .. Len(members[ver[a]]), NEW r, r = j - 1
      PROVE  r \in Ranks(ver[a]) /\ r \in Nat /\ r + 1 = j
  BY <1>2, <1>5 DEF Ranks
<1>6. Rank(a) \in Ranks(ver[a]) /\ Rank(a) \in Nat /\ Rank(a) + 1 = i
  BY <1>4, <1>5
<1> QED
  BY <1>1, <1>3, <1>6

\* Entering the barrier, after a restart or not.
LEMMA EnterTypes ==
  ASSUME TypeOK, NEW a \in Nodes, EnterBarrier(a)
  PROVE  /\ pc' \in [Nodes -> Places]
         /\ ver' \in [Nodes -> 0 .. MaxVersions]
         /\ renews' \in [Nodes -> 0 .. MaxVersions]
         /\ announced' \in [Nodes -> 0 .. MaxVersions]
  BY AgentAssumption DEF TypeOK, EnterBarrier, GoTo, Places

LEMMA RestartTypes ==
  ASSUME TypeOK, NEW a \in Nodes, Restart(a)
  PROVE  /\ state' \in [Nodes -> WorkerState \ {"UNKNOWN", "UNHEALTHY"}]
         /\ workers' \in [Nodes -> {"none", "running", "succeeded", "failed"}]
  BY DEF TypeOK, Restart, WorkerState

LEMMA EndTypes ==
  ASSUME TypeOK, NEW a \in Nodes, EndProcess(a)
  PROVE  pc' \in [Nodes -> Places] /\ renews' \in [Nodes -> 0 .. MaxVersions]
<1>1. CASE workers[a] = "none"
  <2>1. pc' = [pc EXCEPT ![a] = "gone"] /\ renews' = [renews EXCEPT ![a] = 0]
    BY <1>1 DEF EndProcess, GoTo
  <2>2. "gone" \in Places /\ 0 \in 0 .. MaxVersions
    BY AgentAssumption DEF Places
  <2> QED
    BY <2>1, <2>2 DEF TypeOK
<1>2. CASE workers[a] # "none"
  BY <1>2 DEF TypeOK, EndProcess, GoTo, Places
<1> QED
  BY <1>1, <1>2

LEMMA BarrierStepType ==
  ASSUME TypeOK, NEW a \in Nodes,
         \/ Arrive(a) \/ Announce(a) \/ Dissolve(a) \/ BarrierClosed(a)
         \/ Deadline(a) \/ Shutdown(a) \/ Linger(a) \/ Crash(a) \/ RequestFails(a)
  PROVE  TypeOK'
<1> USE DEF TypeOK, GoTo, Places, WorkerState, rdzv, store, agent
<1>1. CASE Arrive(a)
  BY <1>1, EnterTypes, AgentAssumption DEF Arrive
<1>5. CASE Crash(a)
  BY <1>5, AgentAssumption DEF Crash
<1>2. CASE Announce(a) \/ Dissolve(a)
  <2>1. CASE Announce(a)
    <3>1. waiting' \in Nat /\ announced' \in [Nodes -> 0 .. MaxVersions]
      BY <2>1 DEF Announce
    <3> QED
      BY <2>1, <3>1 DEF Announce
  <2>2. CASE Dissolve(a)
    BY <2>2 DEF Dissolve
  <2> QED
    BY <1>2, <2>1, <2>2
<1>3. CASE BarrierClosed(a)
  BY <1>3 DEF BarrierClosed
<1>6. CASE Shutdown(a)
  <2>1. status' \in {"free", "final", "closed"}
    BY <1>6 DEF Shutdown
  <2>2. pc' \in [Nodes -> Places] /\ renews' \in [Nodes -> 0 .. MaxVersions]
    BY <1>6, EndTypes DEF Shutdown
  <2> QED
    BY <1>6, <2>1, <2>2 DEF Shutdown
<1>7. CASE Linger(a)
  <2>1. /\ pc' \in [Nodes -> Places] /\ renews' \in [Nodes -> 0 .. MaxVersions]
        /\ workers' \in [Nodes -> {"none", "running", "succeeded", "failed"}]
    BY <1>7, AgentAssumption DEF Linger
  <2> QED
    BY <1>7, <2>1 DEF Linger
<1>8. CASE RequestFails(a)
  <2>1. faults' \in Nat /\ crashes' = crashes
    BY <1>8 DEF RequestFails, LookFails, StoreFails, ExitBarrierFails, ShutdownFails, Fault
  <2>2. CASE LookFails(a) \/ StoreFails(a) \/ ExitBarrierFails(a)
    BY <2>1, <2>2 DEF LookFails, StoreFails, ExitBarrierFails, Leave
  <2>3. CASE ShutdownFails(a)
    <3>1. pc' \in [Nodes -> Places] /\ renews' \in [Nodes -> 0 .. MaxVersions]
      BY <2>3, EndTypes DEF ShutdownFails
    <3> QED
      BY <2>1, <2>3, <3>1 DEF ShutdownFails
  <2> QED
    BY <1>8, <2>2, <2>3 DEF RequestFails
<1>4. CASE Deadline(a)
  BY <1>4 DEF Deadline, BarrierTimeout, StoreTimeout, ExitBarrierTimeout, Leave
<1> QED
  BY <1>1, <1>2, <1>3, <1>4, <1>5, <1>6, <1>7, <1>8

LEMMA WorkStepType ==
  ASSUME TypeOK, MemberInv, NEW a \in Nodes,
         \/ Share(a) \/ Gather(a) \/ StartWorkers(a) \/ WorkersEnd(a)
         \/ MonitorHealthy(a) \/ MonitorSucceeded(a) \/ MonitorFailed(a)
         \/ Look(a) \/ ReachExitBarrier(a) \/ LeaveExitBarrier(a)
  PROVE  TypeOK'
<1> USE DEF TypeOK, GoTo, Places, WorkerState, rdzv, store
<1>1. CASE Share(a) \/ ReachExitBarrier(a)
  <2>1. ver[a] \in Versions /\ Rank(a) \in Nat
    BY <1>1, RankIs DEF Share, ReachExitBarrier, MemberInv, InGroup
  <2> QED
    <3>1. CASE Share(a)
      <4>1. infos[ver[a]] \cup {Rank(a)} \in SUBSET Nat
        BY <2>1
      <4> QED
        BY <2>1, <3>1, <4>1 DEF Share
    <3>2. CASE ReachExitBarrier(a)
      <4>1. done[ver[a]] \cup {Rank(a)} \in SUBSET Nat
        BY <2>1
      <4> QED
        BY <2>1, <3>2, <4>1 DEF ReachExitBarrier
    <3> QED
      BY <1>1, <3>1, <3>2
<1>2. CASE Gather(a)
  BY <1>2 DEF Gather
<1>3. CASE StartWorkers(a) \/ WorkersEnd(a)
  <2>1. CASE StartWorkers(a)
    BY <2>1 DEF StartWorkers
  <2>2. CASE WorkersEnd(a)
    <3>1. workers' \in [Nodes -> {"none", "running", "succeeded", "failed"}]
      BY <2>2 DEF WorkersEnd
    <3> QED
      BY <2>2, <3>1 DEF WorkersEnd
  <2> QED
    BY <1>3, <2>1, <2>2
<1>4. CASE MonitorHealthy(a) \/ MonitorSucceeded(a)
  <2>1. CASE MonitorHealthy(a)
    BY <2>1 DEF MonitorHealthy
  <2>2. CASE MonitorSucceeded(a)
    BY <2>2 DEF MonitorSucceeded
  <2> QED
    BY <1>4, <2>1, <2>2
<1>5. CASE MonitorFailed(a)
  <2>1. CASE remaining[a] > 0 /\ Restart(a)
    <3>1. EnterBarrier(a)
      BY <2>1 DEF Restart
    <3>2. remaining' \in [Nodes -> Nat] /\ failures' \in [Nodes -> Nat]
      <4>1. remaining[a] - 1 \in Nat /\ failures[a] + 1 \in Nat
        BY <2>1
      <4>2. /\ remaining' = [remaining EXCEPT ![a] = remaining[a] - 1]
            /\ failures' = [failures EXCEPT ![a] = failures[a] + 1]
        BY <1>5, <2>1 DEF MonitorFailed
      <4> QED
        BY <4>1, <4>2
    <3> QED
      BY <1>5, <2>1, <3>1, <3>2, EnterTypes, RestartTypes DEF MonitorFailed
  <2>2. CASE ~(remaining[a] > 0 /\ Restart(a))
    BY <1>5, <2>2 DEF MonitorFailed
  <2> QED
    BY <2>1, <2>2
<1>6. CASE Look(a)
  <2>1. CASE Restart(a)
    <3>1. EnterBarrier(a)
      BY <2>1 DEF Restart
    <3> QED
      BY <1>6, <2>1, <3>1, EnterTypes, RestartTypes DEF Look
  <2>2. CASE ~Restart(a)
    BY <1>6, <2>2 DEF Look
  <2> QED
    BY <2>1, <2>2
<1>7. CASE LeaveExitBarrier(a)
  BY <1>7 DEF LeaveExitBarrier, Leave
<1> QED
  BY <1>1, <1>2, <1>3, <1>4, <1>5, <1>6, <1>7

-----------------------------------------------------------------------------
(* What a step of one agent changes.                                       *)

Step(a) ==
  \/ Arrive(a) \/ Run(a) \/ Deadline(a) \/ WorkersEnd(a)
  \/ Crash(a) \/ RequestFails(a)

\* The groups and the other agents stay as they are.
Alone(a) ==
  /\ UNCHANGED <<version, members>>
  /\ \A b \in Nodes : b # a =>
       /\ pc'[b] = pc[b] /\ ver'[b] = ver[b] /\ state'[b] = state[b]
       /\ workers'[b] = workers[b]
       /\ remaining'[b] = remaining[b] /\ failures'[b] = failures[b]
       /\ b \in gaveUp' <=> b \in gaveUp

LEMMA StepAlone ==
  ASSUME TypeOK, NEW a \in Nodes, Step(a)
  PROVE  Alone(a)
<1> USE DEF Alone, TypeOK, GoTo, rdzv, store, agent
<1>1. CASE Arrive(a) \/ Announce(a) \/ Dissolve(a) \/ BarrierClosed(a)
  <2>1. CASE Arrive(a)
    BY <2>1 DEF Arrive, EnterBarrier
  <2>2. CASE Announce(a)
    BY <2>2 DEF Announce
  <2>3. CASE Dissolve(a)
    BY <2>3 DEF Dissolve
  <2>4. CASE BarrierClosed(a)
    BY <2>4 DEF BarrierClosed
  <2> QED
    BY <1>1, <2>1, <2>2, <2>3, <2>4
<1>2. CASE Deadline(a)
  BY <1>2 DEF Deadline, BarrierTimeout, StoreTimeout, ExitBarrierTimeout, Leave
<1>3. CASE Share(a) \/ Gather(a) \/ StartWorkers(a) \/ WorkersEnd(a)
  <2>1. CASE Share(a)
    BY <2>1 DEF Share
  <2>2. CASE Gather(a)
    BY <2>2 DEF Gather
  <2>3. CASE StartWorkers(a)
    BY <2>3 DEF StartWorkers
  <2>4. CASE WorkersEnd(a)
    BY <2>4 DEF WorkersEnd
  <2> QED
    BY <1>3, <2>1, <2>2, <2>3, <2>4
<1>4. CASE MonitorHealthy(a) \/ MonitorSucceeded(a)
  <2>1. CASE MonitorHealthy(a)
    BY <2>1 DEF MonitorHealthy
  <2>2. CASE MonitorSucceeded(a)
    BY <2>2 DEF MonitorSucceeded
  <2> QED
    BY <1>4, <2>1, <2>2
<1>5. CASE MonitorFailed(a) \/ Look(a)
  <2>1. CASE MonitorFailed(a)
    <3>1. CASE Restart(a)
      BY <2>1, <3>1 DEF MonitorFailed, Restart, EnterBarrier
    <3>2. CASE ~Restart(a)
      BY <2>1, <3>2 DEF MonitorFailed
    <3> QED
      BY <3>1, <3>2
  <2>2. CASE Look(a)
    <3>1. CASE Restart(a)
      BY <2>2, <3>1 DEF Look, Restart, EnterBarrier
    <3>2. CASE ~Restart(a)
      BY <2>2, <3>2 DEF Look
    <3> QED
      BY <3>1, <3>2
  <2> QED
    BY <1>5, <2>1, <2>2
<1>6. CASE ReachExitBarrier(a) \/ LeaveExitBarrier(a) \/ Shutdown(a) \/ Crash(a)
  <2>1. CASE ReachExitBarrier(a)
    BY <2>1 DEF ReachExitBarrier
  <2>2. CASE LeaveExitBarrier(a)
    BY <2>2 DEF LeaveExitBarrier, Leave
  <2>3. CASE Shutdown(a)
    BY <2>3 DEF Shutdown, EndProcess
  <2>4. CASE Crash(a)
    BY <2>4 DEF Crash
  <2> QED
    BY <1>6, <2>1, <2>2, <2>3, <2>4
<1>7. CASE Linger(a)
  BY <1>7 DEF Linger
<1>8. CASE RequestFails(a)
  <2>1. CASE LookFails(a) \/ StoreFails(a)
    BY <2>1 DEF LookFails, StoreFails
  <2>2. CASE ExitBarrierFails(a)
    BY <2>2 DEF ExitBarrierFails, Leave
  <2>3. CASE ShutdownFails(a)
    BY <2>3 DEF ShutdownFails, EndProcess
  <2> QED
    BY <1>8, <2>1, <2>2, <2>3 DEF RequestFails
<1> QED
  BY <1>1, <1>2, <1>3, <1>4, <1>5, <1>6, <1>7, <1>8 DEF Step, Run

\* Only the members write to the store of a version: their role, the address
\* of the master, and that they have reached the exit barrier.
Publishes(a) ==
  \/ UNCHANGED store
  \/ /\ pc[a] = "share"
     /\ infos' = [infos EXCEPT ![ver[a]] = @ \cup {Rank(a)}]
     /\ UNCHANGED <<master, done>>
  \/ /\ pc[a] = "gather" /\ Rank(a) = 0
     /\ Ranks(ver[a]) \subseteq infos[ver[a]]
     /\ master' = [master EXCEPT ![ver[a]] = a]
     /\ UNCHANGED <<infos, done>>
  \/ /\ pc[a] = "exit" /\ pc'[a] = "exitwait"
     /\ done' = [done EXCEPT ![ver[a]] = @ \cup {Rank(a)}]
     /\ UNCHANGED <<infos, master>>

LEMMA StepPublishes ==
  ASSUME TypeOK, NEW a \in Nodes, Step(a)
  PROVE  Publishes(a)
<1> USE DEF Publishes, TypeOK, GoTo, store
<1>1. CASE Arrive(a) \/ Announce(a) \/ Dissolve(a) \/ BarrierClosed(a) \/ Crash(a)
  BY <1>1 DEF Arrive, Announce, Dissolve, BarrierClosed, Crash
<1>2. CASE Deadline(a) \/ WorkersEnd(a) \/ StartWorkers(a)
  BY <1>2 DEF Deadline, BarrierTimeout, StoreTimeout, ExitBarrierTimeout,
              WorkersEnd, StartWorkers
<1>3. CASE Share(a) \/ Gather(a) \/ ReachExitBarrier(a)
  BY <1>3 DEF Share, Gather, ReachExitBarrier
<1>4. CASE MonitorHealthy(a) \/ MonitorSucceeded(a) \/ MonitorFailed(a) \/ Look(a)
  BY <1>4 DEF MonitorHealthy, MonitorSucceeded, MonitorFailed, Look
<1>5. CASE LeaveExitBarrier(a) \/ Shutdown(a) \/ Linger(a)
  BY <1>5 DEF LeaveExitBarrier, Shutdown, Linger
<1>6. CASE RequestFails(a)
  BY <1>6 DEF RequestFails, LookFails, StoreFails, ExitBarrierFails, ShutdownFails
<1> QED
  BY <1>1, <1>2, <1>3, <1>4, <1>5, <1>6 DEF Step, Run

\* How an agent comes to have a version, workers and an outcome.
Proceeds(a) ==
  /\ ver'[a] \in {0, ver[a]}
  /\ pc'[a] \in InGroup => pc[a] \in InGroup /\ ver'[a] = ver[a]
  /\ workers'[a] # "none" =>
       /\ \/ pc'[a] \in {"monitor", "look"}
          \/ pc'[a] \in {"raised", "lingers"} /\ state'[a] = "HEALTHY"
       /\ ver'[a] = ver[a]
       /\ workers[a] # "none" \/ (pc[a] = "connect" /\ master[ver[a]] # NoNode)
  /\ pc'[a] = "look" => state'[a] = "HEALTHY"
  /\ Over(a)' /\ pc'[a] # "down" =>
       /\ ver'[a] = ver[a]
       /\ \/ pc[a] = "monitor" /\ pc'[a] = "exit"
          \/ pc[a] = "exit" /\ pc'[a] = "exitwait" /\ Over(a)
          \/ /\ pc[a] \in {"exit", "exitwait"} /\ pc'[a] \in Left /\ Over(a)
             /\ a \in gaveUp' \/ Ranks(ver[a]) \subseteq done[ver[a]]
          \/ /\ pc'[a] = pc[a] \/ (pc[a] \in Left /\ pc'[a] \in Left)
             /\ Over(a) /\ (a \in gaveUp' <=> a \in gaveUp)
  /\ pc[a] \in {"exitwait"} \cup Left =>
       ver'[a] = 0 \/ pc'[a] \in {"exitwait"} \cup Left

LEMMA StepProceeds ==
  ASSUME TypeOK, NoOrphans, OverInv, LookInv, NEW a \in Nodes, Step(a)
  PROVE  Proceeds(a)
<1> USE DEF Proceeds, TypeOK, GoTo, rdzv, store, agent, InGroup, Left, Over
<1>0. /\ workers[a] # "none" =>
           \/ pc[a] \in {"monitor", "look"}
           \/ pc[a] \in {"raised", "lingers"} /\ state[a] = "HEALTHY"
      /\ Over(a) /\ pc[a] # "down" =>
           ver[a] # 0 /\ pc[a] \in {"exit", "exitwait"} \cup Left
      /\ pc[a] = "look" => state[a] = "HEALTHY"
  BY DEF NoOrphans, OverInv, LookInv
<1>1. CASE Arrive(a) \/ Announce(a) \/ Dissolve(a) \/ BarrierClosed(a) \/ Crash(a)
  BY <1>0, <1>1 DEF Arrive, EnterBarrier, Announce, Dissolve, BarrierClosed, Crash
<1>2. CASE Deadline(a)
  BY <1>0, <1>2 DEF Deadline, BarrierTimeout, StoreTimeout, ExitBarrierTimeout, Leave
<1>3. CASE Share(a) \/ Gather(a) \/ StartWorkers(a) \/ WorkersEnd(a)
  <2>1. CASE Share(a) \/ Gather(a)
    BY <1>0, <2>1 DEF Share, Gather
  <2>2. CASE StartWorkers(a)
    BY <1>0, <2>2 DEF StartWorkers
  <2>3. CASE WorkersEnd(a)
    BY <1>0, <2>3 DEF WorkersEnd
  <2> QED
    BY <1>3, <2>1, <2>2, <2>3
<1>4. CASE MonitorHealthy(a) \/ MonitorSucceeded(a)
  BY <1>0, <1>4 DEF MonitorHealthy, MonitorSucceeded
<1>5. CASE MonitorFailed(a) \/ Look(a)
  <2>1. CASE MonitorFailed(a)
    BY <1>0, <2>1 DEF MonitorFailed, Restart, EnterBarrier
  <2>2. CASE Look(a)
    <3>0. pc[a] = "look" /\ ~Over(a)
      BY <1>0, <2>2 DEF Look
    <3>1. CASE Restart(a)
      <4>1. pc'[a] = "rdzv" /\ ver'[a] = 0 /\ workers'[a] = "none" /\ state'[a] = "STOPPED"
        BY <3>1 DEF Restart, EnterBarrier
      <4> QED
        BY <3>0, <4>1
    <3>2. CASE ~Restart(a)
      <4>1. /\ pc'[a] = "monitor" /\ ver'[a] = ver[a] /\ workers'[a] = workers[a]
            /\ state'[a] = state[a]
        BY <2>2, <3>2 DEF Look
      <4> QED
        BY <3>0, <4>1
    <3> QED
      BY <3>1, <3>2
  <2> QED
    BY <1>5, <2>1, <2>2
<1>6. CASE ReachExitBarrier(a) \/ LeaveExitBarrier(a)
  BY <1>0, <1>6 DEF ReachExitBarrier, LeaveExitBarrier, Leave
<1>7. CASE Shutdown(a) \/ Linger(a)
  <2>1. CASE Shutdown(a)
    BY <1>0, <2>1 DEF Shutdown, EndProcess
  <2>2. CASE Linger(a)
    BY <1>0, <2>2 DEF Linger
  <2> QED
    BY <1>7, <2>1, <2>2
<1>8. CASE RequestFails(a)
  <2>1. CASE LookFails(a) \/ StoreFails(a)
    BY <1>0, <2>1 DEF LookFails, StoreFails
  <2>2. CASE ExitBarrierFails(a)
    BY <1>0, <2>2 DEF ExitBarrierFails, Leave
  <2>3. CASE ShutdownFails(a)
    BY <1>0, <2>3 DEF ShutdownFails, EndProcess
  <2> QED
    BY <1>8, <2>1, <2>2, <2>3 DEF RequestFails
<1> QED
  BY <1>1, <1>2, <1>3, <1>4, <1>5, <1>6, <1>7, <1>8 DEF Step, Run

-----------------------------------------------------------------------------
(* The invariant is kept by the steps of one agent.                        *)

LEMMA StepType ==
  ASSUME TypeOK, MemberInv, NEW a \in Nodes, Step(a)
  PROVE  TypeOK'
BY BarrierStepType, WorkStepType DEF Step, Run

LEMMA StepMembers ==
  ASSUME TypeOK, MemberInv, NEW a \in Nodes, Alone(a), Publishes(a), Proceeds(a)
  PROVE  MemberInv'
<1>1. ASSUME NEW b \in Nodes
      PROVE  /\ ver'[b] # 0 => ver'[b] <= version' /\ (b \in Members(ver[b]))'
             /\ pc'[b] \in InGroup \/ workers'[b] # "none" => ver'[b] # 0
  <2>1. /\ ver'[b] \in {0, ver[b]}
        /\ pc'[b] \in InGroup => pc[b] \in InGroup /\ ver'[b] = ver[b]
        /\ workers'[b] # "none" =>
             (workers[b] # "none" \/ pc[b] = "connect") /\ ver'[b] = ver[b]
    BY DEF Alone, Proceeds
  <2>2. version' = version /\ members' = members
    BY DEF Alone
  <2> QED
    BY <2>1, <2>2 DEF MemberInv, Members, InGroup
<1>2. pc[a] \in InGroup => ver[a] \in Versions /\ ver[a] <= version
  BY RankIs DEF MemberInv
<1>3. \A v \in Versions : v > version' => master'[v] = NoNode /\ done'[v] = {}
  <2> SUFFICES ASSUME NEW v \in Versions, v > version
               PROVE  master'[v] = NoNode /\ done'[v] = {}
    BY DEF Alone
  <2>1. pc[a] \in InGroup => v # ver[a]
    BY <1>2 DEF TypeOK, Versions
  <2> QED
    BY <2>1 DEF Publishes, MemberInv, TypeOK, InGroup, store
<1> QED
  BY <1>1, <1>3 DEF MemberInv

LEMMA StepMaster ==
  ASSUME TypeOK, MemberInv, MasterInv, NEW a \in Nodes, Alone(a), Publishes(a)
  PROVE  MasterInv'
<1> SUFFICES ASSUME NEW v \in Versions, master'[v] # NoNode
             PROVE  master'[v] = members[v][1] /\ Ranks(v) \subseteq infos'[v]
  BY DEF MasterInv, Ranks, Alone
<1>1. infos[v] \subseteq infos'[v]
  <2>1. infos' = infos \/ infos' = [infos EXCEPT ![ver[a]] = @ \cup {Rank(a)}]
    BY DEF Publishes, store
  <2>2. DOMAIN infos = Versions
    BY DEF TypeOK
  <2> QED
    BY <2>1, <2>2
<1>2. CASE master'[v] = master[v]
  BY <1>1, <1>2 DEF MasterInv
<1>3. CASE master'[v] # master[v]
  <2>1. /\ pc[a] = "gather" /\ Rank(a) = 0 /\ v = ver[a] /\ master'[v] = a
        /\ Ranks(v) \subseteq infos[v]
    BY <1>3 DEF Publishes, TypeOK, store
  <2>2. ver[a] # 0
    BY <2>1 DEF MemberInv, InGroup
  <2>3. members[v][1] = a
    BY <2>1, <2>2, RankIs
  <2> QED
    BY <1>1, <2>1, <2>3
<1> QED
  BY <1>2, <1>3

LEMMA StepOver ==
  ASSUME MemberInv, OverInv, NEW a \in Nodes, Alone(a), Proceeds(a)
  PROVE  OverInv'
<1>1. ASSUME NEW b \in Nodes, b # a, Over(b)', pc'[b] # "down"
      PROVE  ver'[b] # 0 /\ pc'[b] \in {"exit", "exitwait"} \cup Left
  BY <1>1 DEF OverInv, Alone, Over
<1>2. ASSUME Over(a)', pc'[a] # "down"
      PROVE  ver'[a] # 0 /\ pc'[a] \in {"exit", "exitwait"} \cup Left
  BY <1>2 DEF OverInv, MemberInv, Proceeds, Over, InGroup, Left
<1> QED
  BY <1>1, <1>2 DEF OverInv

LEMMA StepBarrier ==
  ASSUME TypeOK, MemberInv, OverInv, BarrierInv, NoOrphans, NEW a \in Nodes,
         Alone(a), Publishes(a), Proceeds(a)
  PROVE  BarrierInv'
<1>1. \A v \in Versions : done[v] \subseteq done'[v] /\ Ranks(v)' = Ranks(v)
  BY DEF Publishes, TypeOK, store, Alone, Ranks
<1>2. ASSUME NEW b \in Nodes, ver'[b] # 0, Rank(b)' \in done'[ver'[b]]
      PROVE  pc'[b] \in {"exitwait"} \cup Left /\ workers'[b] = "none"
  <2>0. ver'[b] = ver[b] /\ members' = members
    BY <1>2 DEF Alone, Proceeds
  <2>1. ver'[b] = ver[b] /\ Rank(b)' = Rank(b)
    BY <2>0 DEF Rank
  <2>2. CASE Rank(b) \in done[ver[b]]
    <3>1. pc[b] \in {"exitwait"} \cup Left /\ workers[b] = "none"
      BY <1>2, <2>1, <2>2 DEF BarrierInv
    <3> QED
      BY <1>2, <2>1, <3>1 DEF Alone, Proceeds, Left
  <2>3. CASE Rank(b) \notin done[ver[b]]
    <3>1. /\ pc'[a] = "exitwait" /\ pc[a] = "exit"
          /\ ver[b] = ver[a] /\ Rank(b) = Rank(a)
      <4>1. ver[b] \in Versions
        BY <1>2, <2>1, RankIs
      <4>2. Rank(b) \in done'[ver[b]] /\ done' # done
        BY <1>2, <2>1, <2>3
      <4>3. /\ pc[a] = "exit" /\ pc'[a] = "exitwait"
            /\ done' = [done EXCEPT ![ver[a]] = @ \cup {Rank(a)}]
        BY <4>2 DEF Publishes, store
      <4> QED
        BY <2>3, <4>1, <4>2, <4>3 DEF TypeOK
    <3>2. ver[a] # 0 /\ ver[b] # 0
      BY <1>2, <2>1, <3>1
    <3>3. a = b
      BY <3>1, <3>2, RankIs
    <3>4. workers[a] = "none"
      BY <3>1 DEF NoOrphans
    <3> QED
      BY <3>1, <3>3, <3>4 DEF Proceeds
  <2> QED
    BY <2>2, <2>3
<1>3. ASSUME NEW b \in Nodes, pc'[b] \in Left, Over(b)', b \notin gaveUp'
      PROVE  (Ranks(ver[b]) \subseteq done[ver[b]])'
  <2>1. ver'[b] = ver[b] /\ ver[b] # 0 /\ Ranks(ver[b]) \subseteq done[ver[b]]
    <3>1. CASE b # a
      BY <1>3, <3>1 DEF BarrierInv, OverInv, Alone, Over, Left
    <3>2. CASE b = a
      BY <1>3, <3>2 DEF BarrierInv, OverInv, Proceeds, Left
    <3> QED
      BY <3>1, <3>2
  <2>2. ver[b] \in Versions
    BY <2>1, RankIs
  <2>3. members' = members
    BY DEF Alone
  <2> QED
    BY <1>1, <2>1, <2>2, <2>3 DEF Ranks
<1> QED
  BY <1>2, <1>3 DEF BarrierInv

LEMMA StepWorkers ==
  ASSUME TypeOK, MemberInv, MasterInv, NoOrphans, RightMaster, MasterInv',
         NEW a \in Nodes, Alone(a), Publishes(a), Proceeds(a)
  PROVE  NoOrphans' /\ RightMaster'
<1>1. NoOrphans'
  BY DEF NoOrphans, Alone, Proceeds
<1>2. ASSUME NEW b \in Nodes, workers'[b] # "none"
      PROVE  (/\ master[ver[b]] = members[ver[b]][1]
              /\ Ranks(ver[b]) \subseteq infos[ver[b]])'
  <2>1. ver'[b] = ver[b] /\ members' = members
    BY <1>2 DEF Alone, Proceeds
  <2>2. ver[b] # 0
    BY <1>2 DEF MemberInv, Alone, Proceeds, InGroup
  <2>3. ver[b] \in Versions
    BY <2>2, RankIs
  <2>4. master[ver[b]] # NoNode
    <3>1. ver[b] \in Versions /\ members[ver[b]] \in Seq(Nodes) /\ Rank(b) \in Ranks(ver[b])
      BY <2>2, RankIs DEF TypeOK
    <3>2. members[ver[b]][1] \in Nodes
      BY <3>1 DEF Ranks
    <3> QED
      BY <1>2, <3>2, AgentAssumption DEF RightMaster, Alone, Proceeds
  <2>5. master'[ver[b]] # NoNode
    BY <2>3, <2>4, AgentAssumption DEF Publishes, TypeOK, store
  <2> QED
    BY <2>1, <2>3, <2>5 DEF MasterInv, Ranks
<1> QED
  BY <1>1, <1>2 DEF RightMaster

LEMMA StepBudget ==
  ASSUME TypeOK, RestartBudget, NEW a \in Nodes, Step(a)
  PROVE  RestartBudget'
<1> USE DEF RestartBudget, TypeOK, GoTo, rdzv, store, agent
<1>1. CASE Announce(a) \/ Dissolve(a) \/ BarrierClosed(a) \/ Crash(a)
  BY <1>1 DEF Announce, Dissolve, BarrierClosed, Crash
<1>2. CASE Arrive(a)
  BY <1>2, AgentAssumption DEF Arrive, EnterBarrier
<1>3. CASE Deadline(a)
  BY <1>3 DEF Deadline, BarrierTimeout, StoreTimeout, ExitBarrierTimeout, Leave
<1>4. CASE Share(a) \/ Gather(a) \/ StartWorkers(a) \/ WorkersEnd(a)
  <2>1. CASE Share(a)
    BY <2>1 DEF Share
  <2>2. CASE Gather(a)
    BY <2>2 DEF Gather
  <2>3. CASE StartWorkers(a)
    BY <2>3 DEF StartWorkers
  <2>4. CASE WorkersEnd(a)
    BY <2>4 DEF WorkersEnd
  <2> QED
    BY <1>4, <2>1, <2>2, <2>3, <2>4
<1>5. CASE MonitorHealthy(a) \/ MonitorSucceeded(a)
  <2>1. CASE MonitorHealthy(a)
    BY <2>1 DEF MonitorHealthy
  <2>2. CASE MonitorSucceeded(a)
    BY <2>2 DEF MonitorSucceeded
  <2> QED
    BY <1>5, <2>1, <2>2
<1>6. CASE MonitorFailed(a)
  <2>1. \/ /\ remaining[a] > 0 /\ state'[a] = "STOPPED"
           /\ remaining'[a] = remaining[a] - 1 /\ failures'[a] = failures[a] + 1
        \/ /\ remaining[a] = 0 /\ remaining'[a] = 0 /\ failures'[a] = failures[a]
    BY <1>6 DEF MonitorFailed, Restart
  <2>2. pc[a] # "down"
    BY <1>6 DEF MonitorFailed
  <2>3. \A b \in Nodes : b # a =>
          /\ pc'[b] = pc[b] /\ state'[b] = state[b]
          /\ remaining'[b] = remaining[b] /\ failures'[b] = failures[b]
    BY StepAlone DEF Alone
  <2>4. (pc[a] # "down" => remaining[a] + failures[a] = MaxRestarts)'
    BY <2>1, <2>2, AgentAssumption
  <2>5. (state[a] = "FAILED" /\ pc[a] # "down" => remaining[a] = 0)'
    BY <2>1
  <2> QED
    BY <2>3, <2>4, <2>5
<1>7. CASE Look(a)
  BY <1>7 DEF Look, Restart, EnterBarrier
<1>8. CASE ReachExitBarrier(a) \/ LeaveExitBarrier(a)
  BY <1>8 DEF ReachExitBarrier, LeaveExitBarrier, Leave
<1>9. CASE Shutdown(a) \/ Linger(a)
  BY <1>9 DEF Shutdown, EndProcess, Linger
<1>10. CASE RequestFails(a)
  <2>1. CASE LookFails(a) \/ StoreFails(a)
    BY <2>1 DEF LookFails, StoreFails
  <2>2. CASE ExitBarrierFails(a)
    BY <2>2 DEF ExitBarrierFails, Leave
  <2>3. CASE ShutdownFails(a)
    BY <2>3 DEF ShutdownFails, EndProcess
  <2> QED
    BY <1>10, <2>1, <2>2, <2>3 DEF RequestFails
<1> QED
  BY <1>1, <1>2, <1>3, <1>4, <1>5, <1>6, <1>7, <1>8, <1>9, <1>10 DEF Step, Run

\* An agent comes to look for waiting nodes from its healthy workers only.
LEMMA StepLook ==
  ASSUME LookInv, NEW a \in Nodes, Alone(a), Proceeds(a)
  PROVE  LookInv'
  BY DEF LookInv, Alone, Proceeds

LEMMA StepInv ==
  ASSUME Inv, NEW a \in Nodes, Step(a)
  PROVE  Inv'
<1>1. Alone(a) /\ Publishes(a) /\ Proceeds(a)
  BY StepAlone, StepPublishes, StepProceeds DEF Inv
<1>2. TypeOK' /\ MemberInv' /\ MasterInv'
  BY <1>1, StepType, StepMembers, StepMaster DEF Inv
<1>3. OverInv' /\ LookInv' /\ BarrierInv'
  BY <1>1, StepOver, StepLook, StepBarrier DEF Inv
<1>4. NoOrphans' /\ RightMaster' /\ RestartBudget'
  BY <1>1, <1>2, StepWorkers, StepBudget DEF Inv
<1> QED
  BY <1>2, <1>3, <1>4 DEF Inv

-----------------------------------------------------------------------------
(* The invariant is kept when a version is formed.                         *)

\* The new members had no version and no workers, the others keep theirs.
LEMMA FormChanges ==
  ASSUME Inv, NEW S \in SUBSET Nodes, Form(S)
  PROVE  /\ version + 1 \in Versions
         /\ \A v \in Versions : v # version + 1 => members'[v] = members[v]
         /\ \A a \in S :
              /\ ver'[a] = version + 1 /\ pc'[a] = "share"
              /\ \E i \in DOMAIN members'[version + 1] : members'[version + 1][i] = a
              /\ workers[a] = "none" /\ ~Over(a)
         /\ \A a \in Nodes : a \notin S => ver'[a] = ver[a] /\ pc'[a] = pc[a]
<1>1. version + 1 \in Versions
  BY AgentAssumption DEF Inv, TypeOK, Form, Versions
<1>2. PICK order \in Orders(S) : members' = [members EXCEPT ![version + 1] = order]
  BY DEF Form
<1>3. \A v \in Versions : v # version + 1 => members'[v] = members[v]
  BY <1>2 DEF Inv, TypeOK
<1>4. members'[version + 1] = order
  BY <1>1, <1>2 DEF Inv, TypeOK
<1>5. \A a \in S : \E i \in DOMAIN order : order[i] = a
  BY OrderOnto
<1>6. \A a \in S : \E i \in DOMAIN members'[version + 1] : members'[version + 1][i] = a
  BY <1>4, <1>5
<1>7. \A a \in S : ver'[a] = version + 1 /\ pc'[a] = "share" /\ pc[a] = "rdzv"
  BY DEF Form
<1>8. \A a \in S : workers[a] = "none" /\ ~Over(a)
  BY <1>7 DEF Inv, NoOrphans, OverInv, Left
<1> QED
  BY <1>1, <1>3, <1>6, <1>7, <1>8 DEF Form

LEMMA FormInv ==
  ASSUME Inv, NEW S \in SUBSET Nodes, Form(S)
  PROVE  Inv'
<1>1. TypeOK'
  BY FormType DEF Inv
<1>2. /\ infos' = infos /\ master' = master /\ done' = done /\ state' = state
      /\ workers' = workers /\ gaveUp' = gaveUp /\ version' = version + 1
      /\ remaining' = remaining /\ failures' = failures
  BY DEF Form, store
<1>3. version \in Nat /\ version + 1 \in Versions
  BY FormChanges, AgentAssumption DEF Inv, TypeOK
<1>4. ASSUME NEW a \in Nodes, ver[a] # 0
      PROVE  /\ ver[a] \in Versions /\ ver[a] <= version /\ ver[a] # version + 1
             /\ members'[ver[a]] = members[ver[a]]
  <2>1. ver[a] \in Versions /\ ver[a] <= version
    BY <1>4, RankIs DEF Inv
  <2>2. ver[a] # version + 1
    BY <1>3, <2>1 DEF Versions
  <2> QED
    BY <2>1, <2>2, FormChanges
<1>5. master[version + 1] = NoNode /\ done[version + 1] = {}
  BY <1>3 DEF Inv, MemberInv
<1>6. MemberInv'
  <2>1. \A v \in Versions : v > version' => master'[v] = NoNode /\ done'[v] = {}
    BY <1>2, <1>3 DEF Inv, MemberInv, Versions
  <2>2. ASSUME NEW a \in Nodes
        PROVE  /\ ver'[a] # 0 => ver'[a] <= version' /\ (a \in Members(ver[a]))'
               /\ pc'[a] \in InGroup \/ workers'[a] # "none" => ver'[a] # 0
    <3>1. CASE a \in S
      <4>1. ver'[a] = version + 1 /\ \E i \in DOMAIN members'[version + 1] : members'[version + 1][i] = a
        BY <3>1, FormChanges
      <4> QED
        BY <1>2, <1>3, <4>1 DEF Members
    <3>2. CASE a \notin S
      <4>1. ver'[a] = ver[a] /\ pc'[a] = pc[a]
        BY <3>2, FormChanges
      <4>2. ver[a] # 0 => /\ a \in Members(ver[a]) /\ ver[a] <= version'
                          /\ members'[ver[a]] = members[ver[a]]
        BY <1>2, <1>3, <1>4 DEF Inv, MemberInv, Versions
      <4> QED
        BY <1>2, <4>1, <4>2 DEF Inv, MemberInv, Members
    <3> QED
      BY <3>1, <3>2
  <2> QED
    BY <2>1, <2>2 DEF MemberInv
<1>7. MasterInv'
  <2> SUFFICES ASSUME NEW v \in Versions, master[v] # NoNode
               PROVE  (master[v] = members[v][1] /\ Ranks(v) \subseteq infos[v])'
    BY <1>2 DEF MasterInv
  <2>1. v # version + 1
    BY <1>5
  <2>2. members'[v] = members[v]
    BY <2>1, FormChanges
  <2> QED
    BY <1>2, <2>2 DEF Inv, MasterInv, Ranks
<1>8. OverInv'
  <2> SUFFICES ASSUME NEW a \in Nodes, Over(a)', pc'[a] # "down"
               PROVE  ver'[a] # 0 /\ pc'[a] \in {"exit", "exitwait"} \cup Left
    BY DEF OverInv
  <2>1. Over(a) /\ a \notin S
    BY <1>2, FormChanges DEF Over
  <2>2. ver'[a] = ver[a] /\ pc'[a] = pc[a]
    BY <2>1, FormChanges
  <2> QED
    BY <2>1, <2>2 DEF Inv, OverInv
<1>9. BarrierInv'
  <2> SUFFICES ASSUME NEW a \in Nodes
               PROVE  (/\ ver[a] # 0 /\ Rank(a) \in done[ver[a]] =>
                            pc[a] \in {"exitwait"} \cup Left /\ workers[a] = "none"
                       /\ pc[a] \in Left /\ Over(a) /\ a \notin gaveUp =>
                            Ranks(ver[a]) \subseteq done[ver[a]])'
    BY DEF BarrierInv
  <2>1. CASE a \in S
    BY <1>2, <1>5, <2>1, FormChanges DEF Left
  <2>2. CASE a \notin S
    <3>1. ver'[a] = ver[a] /\ pc'[a] = pc[a] /\ (Over(a)' <=> Over(a))
      BY <1>2, <2>2, FormChanges DEF Over
    <3>2. CASE ver[a] = 0
      BY <1>2, <3>1, <3>2 DEF Inv, OverInv, Left
    <3>3. CASE ver[a] # 0
      <4>1. Rank(a)' = Rank(a) /\ (Ranks(ver[a]))' = Ranks(ver[a])
        BY <1>4, <3>1, <3>3 DEF Rank, Ranks
      <4> QED
        BY <1>2, <3>1, <3>3, <4>1 DEF Inv, BarrierInv
    <3> QED
      BY <3>2, <3>3
  <2> QED
    BY <2>1, <2>2
<1>10. NoOrphans' /\ RestartBudget' /\ LookInv'
  <2>1. \A a \in Nodes : pc'[a] = pc[a] \/ (pc[a] = "rdzv" /\ pc'[a] = "share")
    BY DEF Form
  <2> QED
    BY <1>2, <2>1 DEF Inv, NoOrphans, RestartBudget, LookInv
<1>11. RightMaster'
  <2> SUFFICES ASSUME NEW a \in Nodes, workers[a] # "none"
               PROVE  (/\ master[ver[a]] = members[ver[a]][1]
                       /\ Ranks(ver[a]) \subseteq infos[ver[a]])'
    BY <1>2 DEF RightMaster
  <2>1. ver'[a] = ver[a] /\ ver[a] # 0
    BY FormChanges DEF Inv, MemberInv
  <2> QED
    BY <1>2, <1>4, <2>1 DEF Inv, RightMaster, Ranks
<1> QED
  BY <1>1, <1>6, <1>7, <1>8, <1>9, <1>10, <1>11 DEF Inv

-----------------------------------------------------------------------------
(* The theorems.                                                           *)

\* The invariant holds in every reachable state: it holds before the first
\* agent arrives, and every step of an agent, its deadlines, its crashes and
\* the forming of a version keep it.
THEOREM Invariance == Spec => []Inv
<1>1. Init => Inv
  <2> SUFFICES ASSUME Init PROVE Inv
    OBVIOUS
  <2>1. TypeOK
    BY AgentAssumption DEF Init, TypeOK, Places, WorkerState, Versions
  <2>2. MemberInv /\ MasterInv
    BY DEF Init, MemberInv, MasterInv, InGroup
  <2>3. OverInv /\ LookInv /\ BarrierInv
    BY DEF Init, OverInv, LookInv, BarrierInv, Over, Left
  <2>4. NoOrphans /\ RestartBudget /\ RightMaster
    BY DEF Init, NoOrphans, RestartBudget, RightMaster
  <2> QED
    BY <2>1, <2>2, <2>3, <2>4 DEF Inv
<1>2. Inv /\ [Next]_vars => Inv'
  <2> SUFFICES ASSUME Inv, [Next]_vars PROVE Inv'
    OBVIOUS
  <2>1. CASE \E a \in Nodes : Step(a)
    BY <2>1, StepInv
  <2>2. CASE \E S \in SUBSET Nodes : Form(S)
    BY <2>2, FormInv
  <2>3. CASE UNCHANGED vars
    <3> USE <2>3 DEF vars, rdzv, store, agent, Inv
    <3>1. TypeOK' /\ MasterInv' /\ RightMaster'
      BY DEF TypeOK, MasterInv, RightMaster, Ranks
    <3>2. MemberInv' /\ OverInv' /\ LookInv'
      BY DEF MemberInv, OverInv, LookInv, Members, Over
    <3>3. BarrierInv'
      BY DEF BarrierInv, Over, Rank, Ranks
    <3>4. NoOrphans' /\ RestartBudget'
      BY DEF NoOrphans, RestartBudget
    <3> QED
      BY <3>1, <3>2, <3>3, <3>4
  <2> QED
    BY <2>1, <2>2, <2>3 DEF Next, Step
<1> QED
  BY <1>1, <1>2, PTL DEF Spec

\* Every variable keeps the type of the object it stands for.
THEOREM TypeCorrect == Spec => []TypeOK
<1>1. Inv => TypeOK
  BY DEF Inv
<1> QED
  BY <1>1, Invariance, PTL

\* No agent has workers outside its monitoring loop: _restart_workers(),
\* _monitor_workers() and the death of the node stop them before the agent
\* goes on, except when num_nodes_waiting() raises, which ends the agent's
\* run() with its workers unwatched until they end.
THEOREM NoOrphanWorkers == Spec => []NoOrphans
<1>1. Inv => NoOrphans
  BY DEF Inv
<1> QED
  BY <1>1, Invariance, PTL

\* An agent fails its group only after max_restarts failures of its workers,
\* however many membership changes it went through.
THEOREM BudgetKept == Spec => []RestartBudget
<1>1. Inv => RestartBudget
  BY DEF Inv
<1> QED
  BY <1>1, Invariance, PTL

\* The workers of a version were started with the address of its rank 0.
THEOREM MasterIsRankZero == Spec => []RightMaster
<1>1. Inv => RightMaster
  BY DEF Inv
<1> QED
  BY <1>1, Invariance, PTL

\* An agent that left the exit barrier without giving up left no worker of
\* its version behind, on any node.
THEOREM LeaveTogether == Spec => []ExitTogether
<1>1. Inv => ExitTogether
  <2> SUFFICES ASSUME Inv, NEW a \in Nodes, NEW b \in Nodes,
                      pc[a] \in Left, Over(a), a \notin gaveUp, ver[b] = ver[a]
               PROVE  workers[b] = "none"
    BY DEF ExitTogether, Left, Over
  <2>1. ver[a] # 0 /\ Ranks(ver[a]) \subseteq done[ver[a]]
    BY DEF Inv, OverInv, BarrierInv, Left
  <2>2. Rank(b) \in done[ver[b]]
    BY <2>1, RankIs DEF Inv
  <2> QED
    BY <2>1, <2>2 DEF Inv, BarrierInv
<1> QED
  BY <1>1, Invariance, PTL

-----------------------------------------------------------------------------
(* The ranks of the workers: what the numbering rests on.                  *)

\* A set of numbers has a smallest one.
LEMMA Smallest ==
  ASSUME NEW T \in SUBSET Nat, T # {}
  PROVE  \E x \in T : \A y \in T : x <= y
<1> DEFINE R == OpToRel(<, Nat)
<1>1. IsWellFoundedOn(R, Nat)
  BY NatLessThanWellFounded
<1>2. \A x, y \in Nat : <<y, x>> \in R <=> y < x
  BY DEF OpToRel
<1> HIDE DEF R
<1>3. PICK x \in T : \A y \in T : ~(<<y, x>> \in R)
  BY <1>1, WFMin
<1>4. \A y \in T : x \in Nat /\ y \in Nat /\ ~(y < x)
  BY <1>2, <1>3
<1> QED
  BY <1>3, <1>4

\* What holds at a and is kept by every step from n to n + 1 holds up to b.
LEMMA Climb ==
  ASSUME NEW a \in Nat, NEW b \in Nat, NEW G,
         a \in G, \A n \in a .. b - 1 : n \in G => n + 1 \in G
  PROVE  \A n \in a .. b : n \in G
<1> DEFINE T == {n \in a .. b : n \notin G}
<1> SUFFICES ASSUME T # {} PROVE FALSE
  OBVIOUS
<1>1. T \in SUBSET Nat
  OBVIOUS
<1>2. PICK x \in T : \A y \in T : x <= y
  BY <1>1, Smallest
<1>3. x \in a .. b /\ x \notin G /\ x # a
  BY <1>2
<1>4. x - 1 \in a .. b - 1 /\ x - 1 \notin T /\ x - 1 + 1 = x
  BY <1>2, <1>3
<1>5. x - 1 \in G
  BY <1>4
<1> QED
  BY <1>3, <1>4, <1>5

-----------------------------------------------------------------------------
(* The sum of the sizes counts the workers.                                *)

\* The workers of the agents that come at the indices from a up to b - 1,
\* each known by the index of its agent, from 1, and its own number.
Seats(rs, a, b) == {s \in (a + 1 .. b) \X Nat : s[2] \in 1 .. rs[s[1]].size}

\* The same and the first k workers of the next agent.
SeatsAnd(rs, a, n, k) == Seats(rs, a, n) \cup ({n + 1} \X (1 .. k))

\* They are k more.
LEMMA SeatsStep ==
  ASSUME NEW rs, NEW a \in Nat, NEW n \in Nat, NEW k \in Nat,
         IsFiniteSet(Seats(rs, a, n))
  PROVE  /\ IsFiniteSet(SeatsAnd(rs, a, n, k))
         /\ Cardinality(SeatsAnd(rs, a, n, k)) = Cardinality(Seats(rs, a, n)) + k
<1> DEFINE S == Seats(rs, a, n)
           B == {n + 1} \X (1 .. k)
<1>1. IsFiniteSet(1 .. k) /\ Cardinality(1 .. k) = k
  <2>1. 1 \in Int /\ k \in Int
    OBVIOUS
  <2>2. IsFiniteSet(1 .. k) /\ Cardinality(1 .. k) = IF 1 > k THEN 0 ELSE k - 1 + 1
    BY <2>1, FS_Interval
  <2> QED
    BY <2>2
<1>2. IsFiniteSet({n + 1}) /\ Cardinality({n + 1}) = 1
  BY FS_Singleton
<1>3. IsFiniteSet(B) /\ Cardinality(B) = k
  <2> DEFINE I == 1 .. k
             J == {n + 1}
  <2>1. IsFiniteSet(B) /\ Cardinality(B) = 1 * k
    <3>1. IsFiniteSet(I) /\ Cardinality(I) = k /\ IsFiniteSet(J) /\ Cardinality(J) = 1
      BY <1>1, <1>2
    <3>2. B = J \X I
      OBVIOUS
    <3> HIDE DEF B, I, J
    <3>3. IsFiniteSet(J \X I) /\ Cardinality(J \X I) = Cardinality(J) * Cardinality(I)
      BY <3>1, FS_Product
    <3> QED
      BY <3>1, <3>2, <3>3
  <2> HIDE DEF B
  <2> QED
    BY <2>1
<1>4. S \cap B = {}
  BY DEF Seats
<1>5. Cardinality(S) \in Nat
  BY FS_CardinalityType
<1> HIDE DEF S, B
<1>6. /\ IsFiniteSet(S \cup B)
      /\ Cardinality(S \cup B) = Cardinality(S) + Cardinality(B) - Cardinality(S \cap B)
  BY <1>3, FS_Union DEF S
<1>7. Cardinality(S \cap B) = 0
  BY <1>4, FS_EmptySet
<1>8. Cardinality(S \cup B) = Cardinality(S) + k
  BY <1>3, <1>5, <1>6, <1>7
<1> QED
  BY <1>6, <1>8 DEF S, B, SeatsAnd

\* With one more agent there are as many more workers as it has.
LEMMA SeatsNext ==
  ASSUME NEW rs, NEW a \in Nat, NEW n \in Nat, a <= n, rs[n + 1].size \in Nat,
         IsFiniteSet(Seats(rs, a, n))
  PROVE  /\ IsFiniteSet(Seats(rs, a, n + 1))
         /\ Cardinality(Seats(rs, a, n + 1)) = Cardinality(Seats(rs, a, n)) + rs[n + 1].size
<1> DEFINE z == rs[n + 1].size
           S == SeatsAnd(rs, a, n, z)
<1>1. Seats(rs, a, n + 1) = S
  BY DEF Seats, SeatsAnd
<1>2. z \in Nat
  OBVIOUS
<1> HIDE DEF z
<1>3. IsFiniteSet(S) /\ Cardinality(S) = Cardinality(Seats(rs, a, n)) + z
  BY <1>2, SeatsStep
<1> QED
  BY <1>1, <1>3 DEF z

\* Finitely many agents have finitely many workers.
LEMMA SeatsFinite ==
  ASSUME NEW rs, NEW m \in Nat, \A i \in 1 .. m : rs[i].size \in Nat,
         NEW a \in Nat, NEW b \in a .. m
  PROVE  IsFiniteSet(Seats(rs, a, b)) /\ Cardinality(Seats(rs, a, b)) \in Nat
<1> DEFINE G == {n \in Nat : IsFiniteSet(Seats(rs, a, n))}
<1>1. a \in G
  <2>1. Seats(rs, a, a) = {}
    BY DEF Seats
  <2> QED
    BY <2>1, FS_EmptySet
<1>2. ASSUME NEW n \in a .. m - 1, n \in G PROVE n + 1 \in G
  <2>1. /\ n \in Nat /\ n + 1 \in Nat /\ a <= n
        /\ rs[n + 1].size \in Nat
        /\ IsFiniteSet(Seats(rs, a, n))
    BY <1>2
  <2>2. IsFiniteSet(Seats(rs, a, n + 1))
    BY <2>1, SeatsNext
  <2> QED
    BY <2>1, <2>2
<1> HIDE DEF G
<1>3. \A n \in a .. m : n \in G
  BY <1>1, <1>2, Climb
<1>4. IsFiniteSet(Seats(rs, a, b))
  BY <1>3 DEF G
<1> QED
  BY <1>4, FS_CardinalityType

\* The prefix sums and the totals of _get_ranks() count workers.
LEMMA SizeCounts ==
  ASSUME NEW rs, Len(rs) \in Nat, \A i \in 1 .. Len(rs) : rs[i].size \in Nat,
         NEW a \in Nat, NEW b \in a .. Len(rs)
  PROVE  SizeUpTo(rs, a, b) = Cardinality(Seats(rs, a, b))
<1> DEFINE m == Len(rs)
           C(n) == IF n <= a THEN 0 ELSE Cardinality(Seats(rs, a, n))
           Good(g) == g = [n \in 0 .. m |-> IF n <= a THEN 0 ELSE g[n - 1] + rs[n].size]
           h == [n \in 0 .. m |-> C(n)]
           g == CHOOSE f : Good(f)
<1>1. \A n \in a .. m : IsFiniteSet(Seats(rs, a, n)) /\ Cardinality(Seats(rs, a, n)) \in Nat
  BY SeatsFinite
<1>2. Cardinality(Seats(rs, a, a)) = 0
  <2>1. Seats(rs, a, a) = {}
    BY DEF Seats
  <2> QED
    BY <2>1, FS_EmptySet
<1>3. ASSUME NEW n \in a .. m - 1
      PROVE  Cardinality(Seats(rs, a, n + 1)) = Cardinality(Seats(rs, a, n)) + rs[n + 1].size
  <2>1. n \in Nat /\ a <= n /\ rs[n + 1].size \in Nat
    BY <1>3
  <2>2. IsFiniteSet(Seats(rs, a, n))
    BY <1>1, <1>3
  <2> QED
    BY <2>1, <2>2, SeatsNext
<1>4. Good(h)
  <2>1. ASSUME NEW n \in 0 .. m
        PROVE  h[n] = IF n <= a THEN 0 ELSE h[n - 1] + rs[n].size
    <3>1. CASE n <= a
      BY <3>1
    <3>2. CASE ~(n <= a)
      <4>1. n - 1 \in a .. m - 1 /\ n - 1 \in 0 .. m /\ n - 1 + 1 = n
        BY <3>2
      <4>2. h[n] = Cardinality(Seats(rs, a, n))
        BY <3>2
      <4>3. h[n - 1] = Cardinality(Seats(rs, a, n - 1))
        BY <1>2, <4>1
      <4>4. Cardinality(Seats(rs, a, n)) = Cardinality(Seats(rs, a, n - 1)) + rs[n].size
        BY <1>3, <4>1
      <4> QED
        BY <3>2, <4>2, <4>3, <4>4
    <3> QED
      BY <3>1, <3>2
  <2> HIDE DEF C
  <2> QED
    BY <2>1
<1>5. Good(g)
  <2> HIDE DEF Good, h
  <2> QED
    BY <1>4
<1>6. SizeUpTo(rs, a, b) = g[b]
  BY DEF SizeUpTo
<1>10. \A x \in 0 .. m : g[x] = IF x <= a THEN 0 ELSE g[x - 1] + rs[x].size
  <2> HIDE DEF g
  <2> QED
    BY <1>5
<1> HIDE DEF g
<1> DEFINE G == {n \in Nat : g[n] = Cardinality(Seats(rs, a, n))}
<1>7. a \in G
  <2>1. g[a] = 0
    BY <1>10
  <2> QED
    BY <1>2, <2>1
<1>8. ASSUME NEW n \in a .. m - 1, n \in G PROVE n + 1 \in G
  <2>1. n + 1 \in 0 .. m /\ ~(n + 1 <= a) /\ n + 1 - 1 = n /\ n + 1 \in Nat
    BY <1>8
  <2>2. g[n + 1] = IF n + 1 <= a THEN 0 ELSE g[n + 1 - 1] + rs[n + 1].size
    BY <1>10, <2>1
  <2>3. g[n + 1] = g[n] + rs[n + 1].size
    BY <2>1, <2>2
  <2> QED
    BY <1>3, <1>8, <2>1, <2>3
<1> HIDE DEF G
<1>9. \A n \in a .. m : n \in G
  BY <1>7, <1>8, Climb
<1> QED
  BY <1>6, <1>9 DEF G

-----------------------------------------------------------------------------
(* Counting predecessors numbers a set.                                    *)

\* Different images of the elements of a set are as many as the elements.
LEMMA ImageCount ==
  ASSUME NEW A, IsFiniteSet(A), NEW f, NEW D, D = {f[x] : x \in A},
         \A x, y \in A : f[x] = f[y] => x = y
  PROVE  IsFiniteSet(D) /\ Cardinality(D) = Cardinality(A)
<1> DEFINE g == [x \in A |-> f[x]]
<1>1. g \in Bijection(A, D)
  BY DEF Bijection, Injection, Surjection, IsInjective
<1> HIDE DEF g
<1>2. ExistsBijection(A, D)
  BY <1>1 DEF ExistsBijection
<1> QED
  BY <1>2, FS_Bijection

\* O is a strict total order of S, and f counts the predecessors in it.
StrictOrder(S, O) ==
  /\ \A x \in S : <<x, x>> \notin O
  /\ \A x, y, z \in S : <<x, y>> \in O /\ <<y, z>> \in O => <<x, z>> \in O
  /\ \A x, y \in S : x = y \/ <<x, y>> \in O \/ <<y, x>> \in O
Counts(f, S, O) == \A x \in S : f[x] = Cardinality({y \in S : <<y, x>> \in O})

\* The number of predecessors in a finite total order is a numbering from 0
\* that follows the order.
LEMMA Numbering ==
  ASSUME NEW S, IsFiniteSet(S), NEW O, StrictOrder(S, O), NEW f, Counts(f, S, O)
  PROVE  /\ Cardinality(S) \in Nat
         /\ \A x, y \in S : <<x, y>> \in O => f[x] < f[y]
         /\ \A x \in S : f[x] \in 0 .. Cardinality(S) - 1
         /\ \A r \in 0 .. Cardinality(S) - 1 : \E x \in S : f[x] = r
<1> DEFINE N == Cardinality(S)
           P(x) == {y \in S : <<y, x>> \in O}
<1>1. N \in Nat
  BY FS_CardinalityType
<1>2. ASSUME NEW x \in S
      PROVE  IsFiniteSet(P(x)) /\ Cardinality(P(x)) \in Nat
  <2>1. P(x) \in SUBSET S
    OBVIOUS
  <2> HIDE DEF P
  <2> QED
    BY <2>1, FS_Subset, FS_CardinalityType
<1>3. ASSUME NEW x \in S
      PROVE  f[x] \in 0 .. N - 1
  <2>1. P(x) \in SUBSET S /\ P(x) # S /\ f[x] = Cardinality(P(x))
    BY DEF StrictOrder, Counts
  <2>2. Cardinality(P(x)) \in Nat
    BY <1>2
  <2> HIDE DEF P
  <2>3. Cardinality(P(x)) <= N /\ Cardinality(P(x)) # N
    BY <2>1, FS_Subset
  <2> HIDE DEF N
  <2> QED
    BY <1>1, <2>1, <2>2, <2>3
<1>4. ASSUME NEW x \in S, NEW y \in S, <<x, y>> \in O
      PROVE  f[x] < f[y]
  <2>1. P(x) \in SUBSET P(y) /\ x \in P(y) /\ x \notin P(x)
    BY <1>4 DEF StrictOrder
  <2>2. f[x] = Cardinality(P(x)) /\ f[y] = Cardinality(P(y))
    BY DEF Counts
  <2>3. IsFiniteSet(P(y)) /\ Cardinality(P(x)) \in Nat /\ Cardinality(P(y)) \in Nat
    BY <1>2
  <2> HIDE DEF P
  <2>4. Cardinality(P(x)) <= Cardinality(P(y)) /\ Cardinality(P(x)) # Cardinality(P(y))
    BY <2>1, <2>3, FS_Subset
  <2> QED
    BY <2>2, <2>3, <2>4
<1>5. ASSUME NEW r \in 0 .. N - 1 PROVE \E x \in S : f[x] = r
  <2> DEFINE T == 0 .. N - 1
             g == [x \in S |-> f[x]]
  <2>1. g \in Injection(S, T)
    <3>1. g \in [S -> T]
      BY <1>3
    <3>2. ASSUME NEW x \in S, NEW y \in S, g[x] = g[y] PROVE x = y
      <4>1. f[x] = f[y] /\ f[x] \in Int
        BY <1>3, <3>2
      <4>2. ~(f[x] < f[y]) /\ ~(f[y] < f[x])
        BY <4>1
      <4> QED
        BY <1>4, <4>2 DEF StrictOrder
    <3> QED
      BY <3>1, <3>2 DEF Injection, IsInjective
  <2>2. IsFiniteSet(T) /\ Cardinality(T) = N
    <3> HIDE DEF N
    <3>1. N - 1 \in Int /\ 0 \in Int
      BY <1>1
    <3>2. IsFiniteSet(T) /\ Cardinality(T) = IF 0 > N - 1 THEN 0 ELSE N - 1 - 0 + 1
      BY <3>1, FS_Interval
    <3> QED
      BY <1>1, <3>2
  <2>3. g \in Surjection(S, T)
    <3> HIDE DEF g, T
    <3> QED
      BY <2>1, <2>2, FS_Injection
  <2>4. \E x \in S : g[x] = r
    BY <1>5, <2>3 DEF Surjection
  <2> QED
    BY <2>4
<1> QED
  BY <1>1, <1>3, <1>4, <1>5

\* The order of the workers: by agent, then by local rank.
Ahead(v, w) == v[1] < w[1] \/ (v[1] = w[1] /\ v[2] < w[2])

\* The agents come in the order of their ranks, and S are their workers.
Measured(q) ==
  /\ Len(q) \in Nat
  /\ \A i \in 1 .. Len(q) : q[i].size \in Nat /\ q[i].rank \in Int
Ascending(q, a, b) == \A i, j \in a + 1 .. b : i < j => q[i].rank < q[j].rank
SeatedAt(S, q, a, b) == S = {<<q[s[1]].rank + 1, s[2]>> : s \in Seats(q, a, b)}

\* _get_ranks() counts: when the agents come in the order of their ranks, the
\* rank of a worker is the number of the workers of these agents before it.
LEMMA RanksCount ==
  ASSUME NEW q, Measured(q), NEW a \in Nat, NEW b \in a .. Len(q),
         Ascending(q, a, b), NEW S, SeatedAt(S, q, a, b)
  PROVE  /\ IsFiniteSet(S)
         /\ \A p \in a .. b - 1 :
              /\ GetRanks(q, p, a, b).total = Cardinality(S)
              /\ \A k \in 1 .. q[p + 1].size :
                   GetRanks(q, p, a, b).ranks[k]
                     = Cardinality({v \in S : Ahead(v, <<q[p + 1].rank + 1, k>>)})
<1> USE DEF Measured, Ascending, SeatedAt
<1> DEFINE X == Seats(q, a, b)
           f == [s \in X |-> <<q[s[1]].rank + 1, s[2]>>]
<1>0. \A x, y \in Int : (x + 1 = y + 1 <=> x = y) /\ (x + 1 < y + 1 <=> x < y)
  OBVIOUS
<1>1. IsFiniteSet(X) /\ S = {f[s] : s \in X}
  BY SeatsFinite
<1>2. ASSUME NEW s \in X
      PROVE  /\ s = <<s[1], s[2]>> /\ s[1] \in a + 1 .. b /\ s[2] \in Nat
             /\ s[2] \in 1 .. q[s[1]].size /\ s[1] \in 1 .. Len(q)
             /\ q[s[1]].rank \in Int /\ q[s[1]].size \in Nat
             /\ f[s] = <<q[s[1]].rank + 1, s[2]>>
  <2>1. s = <<s[1], s[2]>> /\ s[1] \in a + 1 .. b /\ s[2] \in Nat /\ s[2] \in 1 .. q[s[1]].size
    BY DEF Seats
  <2>2. s[1] \in 1 .. Len(q)
    BY <2>1
  <2> QED
    BY <2>1, <2>2
<1>3. ASSUME NEW s \in X, NEW t \in X, f[s] = f[t] PROVE s = t
  <2>1. q[s[1]].rank + 1 = q[t[1]].rank + 1 /\ s[2] = t[2]
    BY <1>2, <1>3
  <2>2. /\ s[1] \in a + 1 .. b /\ q[s[1]].rank \in Int
        /\ t[1] \in a + 1 .. b /\ q[t[1]].rank \in Int
    BY <1>2
  <2>3. s[1] = t[1]
    <3>1. q[s[1]].rank = q[t[1]].rank
      BY <1>0, <2>1, <2>2, Zenon
    <3>2. /\ s[1] < t[1] => q[s[1]].rank < q[t[1]].rank
          /\ t[1] < s[1] => q[t[1]].rank < q[s[1]].rank
      BY <2>2
    <3> HIDE DEF X, Ascending, Measured, SeatedAt
    <3> QED
      BY <2>2, <3>1, <3>2
  <2> QED
    BY <1>2, <2>1, <2>3
<1> HIDE DEF f
<1>4. IsFiniteSet(S) /\ Cardinality(S) = Cardinality(X)
  <2>1. \A s, t \in X : f[s] = f[t] => s = t
    BY <1>3
  <2> HIDE DEF X, Ascending, Measured, SeatedAt
  <2> QED
    BY <1>1, <2>1, ImageCount
<1>5. ASSUME NEW p \in a .. b - 1, NEW k \in 1 .. q[p + 1].size
      PROVE  GetRanks(q, p, a, b).ranks[k]
               = Cardinality({v \in S : Ahead(v, <<q[p + 1].rank + 1, k>>)})
  <2> DEFINE w == <<q[p + 1].rank + 1, k>>
             D == {v \in S : Ahead(v, w)}
             A == SeatsAnd(q, a, p, k - 1)
  <2>1. /\ p \in Nat /\ a <= p /\ p \in a .. Len(q) /\ p + 1 \in 1 .. Len(q)
        /\ p + 1 \in a + 1 .. b
    BY <1>5
  <2>2. q[p + 1].size \in Nat /\ q[p + 1].rank \in Int /\ k \in Nat
    BY <2>1
  <2>3. IsFiniteSet(Seats(q, a, p))
    BY <2>1, SeatsFinite
  <2>4. IsFiniteSet(A) /\ Cardinality(A) = Cardinality(Seats(q, a, p)) + (k - 1)
    <3>1. k - 1 \in Nat
      BY <2>2
    <3>2. p \in Nat
      BY <2>1
    <3> HIDE DEF X, Ascending, Measured, SeatedAt
    <3> QED
      BY <2>3, <3>1, <3>2, SeatsStep
  <2>5. A = {s \in X : s[1] < p + 1 \/ (s[1] = p + 1 /\ s[2] < k)}
    <3> HIDE DEF Ascending, Measured, SeatedAt
    <3>1. ASSUME NEW s \in A PROVE s \in X /\ (s[1] < p + 1 \/ (s[1] = p + 1 /\ s[2] < k))
      <4>1. CASE s \in Seats(q, a, p)
        BY <2>1, <4>1 DEF Seats
      <4>2. CASE s \in {p + 1} \X (1 .. k - 1)
        BY <2>1, <2>2, <4>2 DEF Seats
      <4> QED
        BY <3>1, <4>1, <4>2 DEF SeatsAnd
    <3>2. ASSUME NEW s \in X, s[1] < p + 1 PROVE s \in A
      BY <2>1, <3>2 DEF Seats, SeatsAnd
    <3>3. ASSUME NEW s \in X, s[1] = p + 1, s[2] < k PROVE s \in A
      BY <2>1, <2>2, <3>3 DEF Seats, SeatsAnd
    <3> HIDE DEF A, X
    <3> QED
      BY <3>1, <3>2, <3>3
  <2>6. ASSUME NEW s \in X
        PROVE  s \in A <=> Ahead(f[s], w)
    <3>1. f[s][1] = q[s[1]].rank + 1 /\ f[s][2] = s[2] /\ w[1] = q[p + 1].rank + 1 /\ w[2] = k
      BY <1>2
    <3>2. s[1] \in a + 1 .. b /\ s[2] \in Nat /\ q[s[1]].rank \in Int
      BY <1>2
    <3>3. /\ s[1] < p + 1 => q[s[1]].rank < q[p + 1].rank
          /\ p + 1 < s[1] => q[p + 1].rank < q[s[1]].rank
      BY <2>1, <3>2
    <3> HIDE DEF w, X, A
    <3>4. s \in A <=> s[1] < p + 1 \/ (s[1] = p + 1 /\ s[2] < k)
      BY <2>5
    <3>5. Ahead(f[s], w) <=> q[s[1]].rank < q[p + 1].rank \/ (q[s[1]].rank = q[p + 1].rank /\ s[2] < k)
      <4>1. Ahead(f[s], w) <=> \/ q[s[1]].rank + 1 < q[p + 1].rank + 1
                               \/ q[s[1]].rank + 1 = q[p + 1].rank + 1 /\ s[2] < k
        BY <3>1 DEF Ahead
      <4>2. /\ q[s[1]].rank + 1 = q[p + 1].rank + 1 <=> q[s[1]].rank = q[p + 1].rank
            /\ q[s[1]].rank + 1 < q[p + 1].rank + 1 <=> q[s[1]].rank < q[p + 1].rank
        <5>1. q[s[1]].rank \in Int /\ q[p + 1].rank \in Int
          BY <2>2, <3>2
        <5> HIDE DEF Ascending, Measured, SeatedAt
        <5> QED
          BY <1>0, <5>1, Zenon
      <4> QED
        BY <4>1, <4>2, Zenon
    <3>6. s[1] \in Int /\ p + 1 \in Int
      BY <2>1, <3>2
    <3> HIDE DEF Ascending, Measured, SeatedAt
    <3> QED
      BY <2>2, <3>2, <3>3, <3>4, <3>5, <3>6
  <2>7. D = {f[s] : s \in A} /\ A \subseteq X
    <3> HIDE DEF w
    <3>1. A \subseteq X
      BY <2>5
    <3> HIDE DEF A, X
    <3> QED
      BY <1>1, <2>6, <3>1
  <2> HIDE DEF A, D, X
  <2>8. Cardinality(D) = Cardinality(A)
    <3>1. \A x, y \in A : f[x] = f[y] => x = y
      BY <1>3, <2>7
    <3> QED
      BY <2>4, <2>7, <3>1, ImageCount
  <2>9. Cardinality(Seats(q, a, p)) \in Nat /\ SizeUpTo(q, a, p) = Cardinality(Seats(q, a, p))
    BY <2>1, SeatsFinite, SizeCounts
  <2>10. GetRanks(q, p, a, b).ranks[k] = SizeUpTo(q, a, p) + k - 1
    BY <1>5 DEF GetRanks
  <2>11. GetRanks(q, p, a, b).ranks[k] = Cardinality(D)
    BY <2>2, <2>4, <2>8, <2>9, <2>10
  <2> QED
    BY <2>11 DEF D
<1>6. ASSUME NEW p \in a .. b - 1
      PROVE  GetRanks(q, p, a, b).total = Cardinality(S)
  <2>1. GetRanks(q, p, a, b).total = SizeUpTo(q, a, b)
    BY DEF GetRanks
  <2> QED
    BY <1>4, <2>1, SizeCounts
<1> QED
  BY <1>4, <1>5, <1>6

-----------------------------------------------------------------------------
(* The sorted infos.                                                       *)

\* compare(): what an info that comes before another one has to do with it.
LEMMA BeforeIs ==
  ASSUME NEW x, NEW y, Before(x, y), x.role \in Int, y.role \in Int
  PROVE  x.role <= y.role /\ (x.role = y.role => x.rank < y.rank)
<1> DEFINE s == x.role
           t == y.role
<1>1. s < t \/ (s = t /\ x.rank < y.rank)
  BY DEF Before
<1>2. s \in Int /\ t \in Int
  OBVIOUS
<1> HIDE DEF s, t
<1>3. s <= t /\ (s = t => x.rank < y.rank)
  BY <1>1, <1>2
<1> QED
  BY <1>3 DEF s, t

\* Infos with comparable roles and ranks of their own.
Comparable(rs, n) ==
  /\ DOMAIN rs = 1 .. n
  /\ \A i \in 1 .. n : rs[i].role \in Int /\ rs[i].rank \in Int
  /\ \A i, j \in 1 .. n : rs[i].rank = rs[j].rank => i = j

\* sorted() finds an order of the infos, and leaves none of them out.
LEMMA SortedIs ==
  ASSUME NEW n \in Nat, NEW rs, Comparable(rs, n)
  PROVE  \E p \in [1 .. n -> 1 .. n] :
           /\ Sorted(rs) = [i \in 1 .. n |-> rs[p[i]]]
           /\ \A i, j \in 1 .. n : i < j => Before(rs[p[i]], rs[p[j]])
           /\ \A i \in 1 .. n : \E j \in 1 .. n : p[j] = i
<1> USE DEF Comparable
<1> DEFINE S == 1 .. n
           O == {x \in S \X S : Before(rs[x[1]], rs[x[2]])}
           f == [x \in S |-> Cardinality({y \in S : <<y, x>> \in O})]
           Good(p) == \A i, j \in S : i < j => Before(rs[p[i]], rs[p[j]])
<1>1. IsFiniteSet(S) /\ Cardinality(S) = n
  <2>1. 1 \in Int /\ n \in Int
    OBVIOUS
  <2>2. IsFiniteSet(S) /\ Cardinality(S) = IF 1 > n THEN 0 ELSE n - 1 + 1
    BY <2>1, FS_Interval
  <2> QED
    BY <2>2
<1>2. \A i, j \in S : <<i, j>> \in O <=> Before(rs[i], rs[j])
  OBVIOUS
<1>3. /\ \A i \in S : ~Before(rs[i], rs[i])
      /\ \A i, j, k \in S : Before(rs[i], rs[j]) /\ Before(rs[j], rs[k]) => Before(rs[i], rs[k])
      /\ \A i, j \in S : i = j \/ Before(rs[i], rs[j]) \/ Before(rs[j], rs[i])
  BY DEF Before
<1>4. Counts(f, S, O)
  BY DEF Counts
<1> HIDE DEF O, f
<1>5. StrictOrder(S, O)
  <2> HIDE DEF S
  <2> QED
    BY <1>2, <1>3 DEF StrictOrder
<1>6. /\ \A x, y \in S : <<x, y>> \in O => f[x] < f[y]
      /\ \A x \in S : f[x] \in 0 .. n - 1
      /\ \A r \in 0 .. n - 1 : \E x \in S : f[x] = r
  <2> HIDE DEF S
  <2>1. /\ \A x, y \in S : <<x, y>> \in O => f[x] < f[y]
        /\ \A x \in S : f[x] \in 0 .. Cardinality(S) - 1
        /\ \A r \in 0 .. Cardinality(S) - 1 : \E x \in S : f[x] = r
    BY <1>1, <1>4, <1>5, Numbering
  <2> QED
    BY <1>1, <2>1
<1> DEFINE h == [i \in S |-> CHOOSE x \in S : f[x] = i - 1]
<1>7. \A i \in S : h[i] \in S /\ f[h[i]] = i - 1
  <2>1. \A i \in S : i - 1 \in 0 .. n - 1
    OBVIOUS
  <2> QED
    BY <1>6, <2>1
<1>8. h \in [S -> S] /\ Good(h)
  <2> HIDE DEF h
  <2>1. ASSUME NEW i \in S, NEW j \in S, i < j PROVE Before(rs[h[i]], rs[h[j]])
    <3>1. f[h[i]] = i - 1 /\ f[h[j]] = j - 1 /\ h[i] \in S /\ h[j] \in S
      BY <1>7
    <3>2. h[i] # h[j] /\ ~(f[h[j]] < f[h[i]])
      BY <2>1, <3>1
    <3>3. <<h[j], h[i]>> \notin O
      BY <1>6, <3>1, <3>2
    <3> QED
      BY <1>2, <1>5, <3>1, <3>2, <3>3 DEF StrictOrder
  <2>2. h \in [S -> S]
    BY <1>7 DEF h
  <2> QED
    BY <2>1, <2>2
<1> HIDE DEF h
<1> DEFINE p == CHOOSE x \in [S -> S] : Good(x)
<1>9. p \in [S -> S] /\ Good(p)
  <2> HIDE DEF Good
  <2> QED
    BY <1>8
<1>10. Sorted(rs) = [i \in S |-> rs[p[i]]]
  BY DEF Sorted
<1> HIDE DEF p
<1>11. p \in Injection(S, S)
  <2>1. ASSUME NEW i \in S, NEW j \in S, p[i] = p[j] PROVE i = j
    <3>1. ~(i < j) /\ ~(j < i)
      <4>1. p[i] \in S /\ p[j] \in S
        BY <1>9
      <4> QED
        BY <1>3, <1>9, <2>1, <4>1
    <3> QED
      BY <3>1
  <2> QED
    BY <1>9, <2>1 DEF Injection, IsInjective
<1>12. p \in Surjection(S, S)
  <2> HIDE DEF S
  <2> QED
    BY <1>1, <1>11, FS_Injection
<1>13. \A i \in S : \E j \in S : p[j] = i
  BY <1>12 DEF Surjection
<1> QED
  BY <1>9, <1>10, <1>13

\* The roles of n infos never decrease.
ByRole(q, n) ==
  /\ Len(q) = n
  /\ \A i \in 1 .. n : q[i].role \in Int
  /\ \A i, j \in 1 .. n : i < j => q[i].role <= q[j].role

\* find_role_boundaries(): in infos sorted by role, those of a role are the
\* ones between the boundaries.
LEMMA Boundaries ==
  ASSUME NEW n \in Nat, NEW q, ByRole(q, n),
         NEW role \in Int, \E i \in 1 .. n : q[i].role = role
  PROVE  /\ RoleStart(q, role) \in 0 .. n - 1
         /\ RoleEnd(q, role) \in RoleStart(q, role) .. n - 1
         /\ \A i \in 1 .. n : q[i].role = role
                                <=> i \in RoleStart(q, role) + 1 .. RoleEnd(q, role) + 1
<1> USE DEF ByRole
<1> DEFINE T == {i \in 0 .. n - 1 : q[i + 1].role = role}
           U == {n - i : i \in T}
           Low(i) == q[i + 1].role = role /\ \A j \in 0 .. i - 1 : q[j + 1].role # role
           High(i) == q[i + 1].role = role /\ \A j \in i + 1 .. n - 1 : q[j + 1].role # role
           a == RoleStart(q, role)
           e == RoleEnd(q, role)
<1>1. T \in SUBSET Nat /\ T # {}
  <2>1. PICK i \in 1 .. n : q[i].role = role
    OBVIOUS
  <2>2. i - 1 \in 0 .. n - 1 /\ i - 1 + 1 = i
    BY <2>1
  <2>3. i - 1 \in T
    BY <2>1, <2>2
  <2>4. T \in SUBSET Nat
    OBVIOUS
  <2> HIDE DEF T
  <2> QED
    BY <2>3, <2>4
<1>2. a \in 0 .. n - 1 /\ Low(a)
  <2>1. PICK x \in T : \A y \in T : x <= y
    BY <1>1, Smallest
  <2>2. x \in 0 .. n - 1 /\ Low(x)
    <3>1. ASSUME NEW j \in 0 .. x - 1 PROVE q[j + 1].role # role
      <4>1. j \in 0 .. n - 1 /\ j \notin T
        BY <2>1, <3>1
      <4> QED
        BY <4>1
    <3> QED
      BY <2>1, <3>1
  <2>3. a = CHOOSE i \in 0 .. n - 1 : Low(i)
    BY DEF RoleStart
  <2> HIDE DEF Low, a
  <2> QED
    BY <2>2, <2>3
<1>3. e \in 0 .. n - 1 /\ High(e)
  <2>1. U \in SUBSET Nat /\ U # {}
    <3>1. \A i \in T : n - i \in Nat
      OBVIOUS
    <3> QED
      BY <1>1, <3>1
  <2>2. PICK u \in U : \A y \in U : u <= y
    BY <2>1, Smallest
  <2>3. PICK x \in T : u = n - x
    BY <2>2
  <2>4. x \in 0 .. n - 1 /\ High(x)
    <3>1. ASSUME NEW j \in x + 1 .. n - 1 PROVE q[j + 1].role # role
      <4>1. j \in 0 .. n - 1 /\ ~(n - x <= n - j)
        BY <2>3, <3>1
      <4>2. j \notin T
        BY <2>2, <2>3, <4>1
      <4> QED
        BY <4>1, <4>2
    <3> QED
      BY <2>3, <3>1
  <2>5. e = CHOOSE i \in 0 .. n - 1 : High(i)
    BY DEF RoleEnd
  <2> HIDE DEF High, e
  <2> QED
    BY <2>4, <2>5
<1> HIDE DEF a, e
<1>4. a <= e
  <2> SUFFICES ASSUME e < a PROVE FALSE
    BY <1>2, <1>3
  <2>1. e \in 0 .. a - 1
    BY <1>2, <1>3
  <2> QED
    BY <1>2, <1>3, <2>1
<1>5. ASSUME NEW i \in 1 .. n, q[i].role = role PROVE i \in a + 1 .. e + 1
  <2>1. i - 1 \in 0 .. n - 1 /\ i - 1 + 1 = i
    OBVIOUS
  <2>2. i - 1 \notin 0 .. a - 1 /\ i - 1 \notin e + 1 .. n - 1
    BY <1>2, <1>3, <1>5, <2>1
  <2> QED
    BY <1>2, <1>3, <2>1, <2>2
<1>6. ASSUME NEW i \in a + 1 .. e + 1 PROVE q[i].role = role
  <2>1. i \in 1 .. n /\ a + 1 \in 1 .. n /\ e + 1 \in 1 .. n
    BY <1>2, <1>3
  <2>2. q[a + 1].role <= q[i].role /\ q[i].role <= q[e + 1].role
    <3>1. i = a + 1 \/ a + 1 < i
      BY <1>2, <2>1
    <3>2. i = e + 1 \/ i < e + 1
      BY <1>3, <2>1
    <3>3. q[i].role \in Int
      BY <2>1
    <3> QED
      BY <2>1, <3>1, <3>2, <3>3
  <2> QED
    BY <1>2, <1>3, <2>1, <2>2
<1>7. /\ a \in 0 .. n - 1 /\ e \in a .. n - 1
      /\ \A i \in 1 .. n : q[i].role = role <=> i \in a + 1 .. e + 1
  BY <1>2, <1>3, <1>4, <1>5, <1>6
<1> QED
  BY <1>7 DEF a, e

-----------------------------------------------------------------------------
(* The ranks of the group.                                                 *)

\* The workers of a group of n agents.
AllWorkers(n) == {w \in (1 .. n) \X Nat : w[2] \in 1 .. specs[w[1]].size}

\* The infos that the agents have read.
LEMMA InfosAre ==
  ASSUME NEW n \in Nat, specs \in [1 .. n -> Info]
  PROVE  /\ DOMAIN RoleInfos = 1 .. n /\ Len(RoleInfos) = n /\ Len(specs) = n
         /\ \A i \in 1 .. n :
              /\ RoleInfos[i].role = specs[i].role /\ specs[i].role \in Int
              /\ RoleInfos[i].rank = i - 1 /\ i - 1 \in Int
              /\ RoleInfos[i].size = specs[i].size /\ specs[i].size \in Nat
<1>1. DOMAIN RoleInfos = 1 .. n /\ Len(RoleInfos) = n /\ Len(specs) = n
  BY DEF RoleInfos
<1>2. ASSUME NEW i \in 1 .. n
      PROVE  specs[i] \in Info /\ specs[i].role \in Int /\ specs[i].size \in Nat
  BY RanksAssumption DEF Info
<1>3. ASSUME NEW i \in 1 .. n
      PROVE  RoleInfos[i] = [role |-> specs[i].role, rank |-> i - 1, size |-> specs[i].size]
  BY DEF RoleInfos
<1> QED
  BY <1>1, <1>2, <1>3

\* The global ranks count the workers of the group.
LEMMA GlobalCount ==
  ASSUME NEW n \in Nat, specs \in [1 .. n -> Info]
  PROVE  /\ IsFiniteSet(AllWorkers(n))
         /\ \A i \in 1 .. n :
              /\ GetRanks(RoleInfos, i - 1, 0, n).total = Cardinality(AllWorkers(n))
              /\ \A k \in 1 .. specs[i].size :
                   GetRanks(RoleInfos, i - 1, 0, n).ranks[k]
                     = Cardinality({v \in AllWorkers(n) : Ahead(v, <<i, k>>)})
<1> DEFINE q == RoleInfos
           S == AllWorkers(n)
<1>1. /\ Len(q) = n
      /\ \A i \in 1 .. n :
           q[i].rank = i - 1 /\ q[i].size = specs[i].size /\ specs[i].size \in Nat
  BY InfosAre
<1> HIDE DEF q
<1>2. Measured(q) /\ n \in 0 .. Len(q) /\ 0 \in Nat /\ Ascending(q, 0, n)
  BY <1>1 DEF Measured, Ascending
<1>3. SeatedAt(S, q, 0, n)
  <2>1. \A s : s \in S <=> s \in Seats(q, 0, n)
    BY <1>1 DEF Seats, AllWorkers
  <2>2. ASSUME NEW s \in S PROVE <<q[s[1]].rank + 1, s[2]>> = s
    <3>1. s = <<s[1], s[2]>> /\ s[1] \in 1 .. n
      BY <2>2 DEF AllWorkers
    <3> QED
      BY <1>1, <3>1
  <2> HIDE DEF S
  <2> QED
    BY <2>1, <2>2 DEF SeatedAt
<1> HIDE DEF S
<1>4. /\ IsFiniteSet(S)
      /\ \A p \in 0 .. n - 1 :
           /\ GetRanks(q, p, 0, n).total = Cardinality(S)
           /\ \A k \in 1 .. q[p + 1].size :
                GetRanks(q, p, 0, n).ranks[k]
                  = Cardinality({v \in S : Ahead(v, <<q[p + 1].rank + 1, k>>)})
  BY <1>2, <1>3, RanksCount
<1>5. ASSUME NEW i \in 1 .. n
      PROVE  /\ GetRanks(q, i - 1, 0, n).total = Cardinality(S)
             /\ \A k \in 1 .. specs[i].size :
                  GetRanks(q, i - 1, 0, n).ranks[k] = Cardinality({v \in S : Ahead(v, <<i, k>>)})
  <2>1. /\ i - 1 \in 0 .. n - 1 /\ i - 1 + 1 = i /\ q[i].rank + 1 = i
        /\ q[i].size = specs[i].size
    BY <1>1
  <2> QED
    BY <1>4, <2>1
<1> QED
  BY <1>4, <1>5 DEF q, S

\* The workers of a role, and what the agent at index i, from 1, computes in it.
RoleWorkers(n, role) == {w \in AllWorkers(n) : specs[w[1]].role = role}
Position(i) == CHOOSE x \in 0 .. Len(Sorted(RoleInfos)) - 1 :
                 Sorted(RoleInfos)[x + 1] = RoleInfos[i]
InRole(i) ==
  GetRanks(Sorted(RoleInfos), Position(i), RoleStart(Sorted(RoleInfos), RoleInfos[i].role),
           RoleEnd(Sorted(RoleInfos), RoleInfos[i].role) + 1)

\* The role ranks count the workers of the role.
LEMMA RoleCount ==
  ASSUME NEW n \in Nat, specs \in [1 .. n -> Info], NEW i \in 1 .. n
  PROVE  /\ IsFiniteSet(RoleWorkers(n, specs[i].role))
         /\ InRole(i).total = Cardinality(RoleWorkers(n, specs[i].role))
         /\ \A k \in 1 .. specs[i].size :
              InRole(i).ranks[k]
                = Cardinality({v \in RoleWorkers(n, specs[i].role) : Ahead(v, <<i, k>>)})
<1> DEFINE rs == RoleInfos
           role == specs[i].role
           q == Sorted(rs)
           p == CHOOSE x \in 0 .. Len(q) - 1 : q[x + 1] = rs[i]
           a == RoleStart(q, rs[i].role)
           e == RoleEnd(q, rs[i].role)
           b == e + 1
           S == RoleWorkers(n, role)
<1>0. InRole(i) = GetRanks(q, p, a, b)
  BY DEF InRole, Position
<1>1. /\ DOMAIN rs = 1 .. n /\ Len(rs) = n
      /\ \A j \in 1 .. n :
           /\ rs[j].role = specs[j].role /\ specs[j].role \in Int
           /\ rs[j].rank = j - 1
           /\ rs[j].size = specs[j].size /\ specs[j].size \in Nat
  BY InfosAre
<1> HIDE DEF rs, q, p, a, e, b, S
<1>2. Comparable(rs, n)
  <2>1. \A j \in 1 .. n : rs[j].role \in Int /\ rs[j].rank \in Int
    BY <1>1
  <2>2. ASSUME NEW j \in 1 .. n, NEW k \in 1 .. n, rs[j].rank = rs[k].rank PROVE j = k
    <3>1. j - 1 = k - 1
      BY <1>1, <2>2
    <3> QED
      BY <3>1
  <2> QED
    BY <1>1, <2>1, <2>2 DEF Comparable
<1>3. PICK o \in [1 .. n -> 1 .. n] :
        /\ Sorted(rs) = [j \in 1 .. n |-> rs[o[j]]]
        /\ \A j, k \in 1 .. n : j < k => Before(rs[o[j]], rs[o[k]])
        /\ \A j \in 1 .. n : \E k \in 1 .. n : o[k] = j
  BY <1>2, SortedIs
<1>4. /\ q = [j \in 1 .. n |-> rs[o[j]]] /\ Len(q) = n
      /\ \A j \in 1 .. n : q[j] = rs[o[j]] /\ o[j] \in 1 .. n
  <2>1. q = [j \in 1 .. n |-> rs[o[j]]]
    BY <1>3 DEF q
  <2>2. Len([j \in 1 .. n |-> rs[o[j]]]) = n
    OBVIOUS
  <2> QED
    BY <1>3, <2>1, <2>2
<1>5. ASSUME NEW j \in 1 .. n
      PROVE  /\ q[j].role = specs[o[j]].role /\ q[j].role \in Int
             /\ q[j].rank + 1 = o[j] /\ q[j].rank \in Int
             /\ q[j].size = specs[o[j]].size /\ q[j].size \in Nat
  <2>1. q[j] = rs[o[j]] /\ o[j] \in 1 .. n
    BY <1>4
  <2>2. /\ rs[o[j]].role = specs[o[j]].role /\ specs[o[j]].role \in Int
        /\ rs[o[j]].rank = o[j] - 1
        /\ rs[o[j]].size = specs[o[j]].size /\ specs[o[j]].size \in Nat
    BY <1>1, <2>1
  <2> QED
    BY <2>1, <2>2
<1>6. ASSUME NEW j \in 1 .. n, NEW k \in 1 .. n, j < k
      PROVE  q[j].role <= q[k].role /\ (q[j].role = q[k].role => q[j].rank < q[k].rank)
  <2>1. Before(q[j], q[k])
    BY <1>3, <1>4, <1>6
  <2>2. q[j].role \in Int /\ q[k].role \in Int
    BY <1>5
  <2> QED
    BY <2>1, <2>2, BeforeIs
<1>7. PICK m \in 1 .. n : o[m] = i
  BY <1>3
<1>8. q[m] = rs[i] /\ q[m].role = role /\ role \in Int /\ rs[i].role = role
  BY <1>1, <1>4, <1>7
<1> HIDE DEF role
<1>9. /\ a \in 0 .. n - 1 /\ e \in a .. n - 1 /\ b = e + 1
      /\ \A j \in 1 .. n : q[j].role = role <=> j \in a + 1 .. b
  <2>1. \A j, k \in 1 .. n : j < k => q[j].role <= q[k].role
    BY <1>6
  <2>2. ByRole(q, n)
    BY <1>4, <1>5, <2>1 DEF ByRole
  <2>3. a = RoleStart(q, role) /\ e = RoleEnd(q, role) /\ b = e + 1
    BY <1>8 DEF a, e, b
  <2>4. \E j \in 1 .. n : q[j].role = role
    BY <1>8
  <2>5. /\ RoleStart(q, role) \in 0 .. n - 1
        /\ RoleEnd(q, role) \in RoleStart(q, role) .. n - 1
        /\ \A j \in 1 .. n : q[j].role = role
                               <=> j \in RoleStart(q, role) + 1 .. RoleEnd(q, role) + 1
    BY <1>8, <2>2, <2>4, Boundaries
  <2> QED
    BY <2>3, <2>5
<1>10. p \in 0 .. n - 1 /\ q[p + 1] = rs[i]
  <2>1. m - 1 \in 0 .. n - 1 /\ m - 1 + 1 = m
    OBVIOUS
  <2>2. \E x \in 0 .. n - 1 : q[x + 1] = rs[i]
    BY <1>8, <2>1
  <2>3. p = CHOOSE x \in 0 .. n - 1 : q[x + 1] = rs[i]
    BY <1>4 DEF p
  <2> QED
    BY <2>2, <2>3
<1>11. /\ a \in Nat /\ b \in a .. Len(q) /\ Len(q) \in Nat
       /\ p \in a .. b - 1 /\ q[p + 1].rank + 1 = i /\ q[p + 1].size = specs[i].size
  <2>1. a \in Nat /\ b \in a .. Len(q) /\ Len(q) \in Nat
    BY <1>4, <1>9
  <2>2. p + 1 \in 1 .. n /\ q[p + 1].role = role
    BY <1>8, <1>10
  <2>3. p + 1 \in a + 1 .. b
    BY <1>9, <2>2
  <2>4. rs[i].rank = i - 1 /\ rs[i].size = specs[i].size
    BY <1>1
  <2>5. p \in a .. b - 1
    BY <1>10, <2>1, <2>3
  <2>6. rs[i].rank + 1 = i
    BY <2>4
  <2> QED
    BY <1>10, <2>1, <2>4, <2>5, <2>6
<1>12. /\ Measured(q) /\ Ascending(q, a, b)
       /\ \A j \in a + 1 .. b : j \in 1 .. n /\ q[j].role = role
  <2>1. Measured(q)
    BY <1>4, <1>5 DEF Measured
  <2>2. ASSUME NEW j \in a + 1 .. b PROVE j \in 1 .. n /\ q[j].role = role
    <3>1. j \in 1 .. n
      BY <1>4, <1>11
    <3> QED
      BY <1>9, <3>1
  <2>3. Ascending(q, a, b)
    BY <1>6, <2>2 DEF Ascending
  <2> QED
    BY <2>1, <2>2, <2>3
<1>13. SeatedAt(S, q, a, b)
  <2>1. ASSUME NEW s \in Seats(q, a, b)
        PROVE  <<q[s[1]].rank + 1, s[2]>> \in S
    <3>1. s[1] \in a + 1 .. b /\ s[2] \in Nat /\ s[2] \in 1 .. q[s[1]].size
      BY DEF Seats
    <3>2. s[1] \in 1 .. n /\ q[s[1]].role = role
      BY <1>12, <3>1
    <3>3. /\ q[s[1]].rank + 1 = o[s[1]] /\ o[s[1]] \in 1 .. n
          /\ q[s[1]].size = specs[o[s[1]]].size /\ specs[o[s[1]]].role = role
      BY <1>4, <1>5, <3>2
    <3>4. <<o[s[1]], s[2]>> \in AllWorkers(n)
      BY <3>1, <3>3 DEF AllWorkers
    <3> QED
      BY <3>3, <3>4 DEF S, RoleWorkers
  <2>2. ASSUME NEW w \in S
        PROVE  \E s \in Seats(q, a, b) : w = <<q[s[1]].rank + 1, s[2]>>
    <3>1. /\ w = <<w[1], w[2]>> /\ w[1] \in 1 .. n /\ w[2] \in Nat
          /\ w[2] \in 1 .. specs[w[1]].size /\ specs[w[1]].role = role
      BY DEF AllWorkers, S, RoleWorkers
    <3>2. PICK j \in 1 .. n : o[j] = w[1]
      BY <1>3, <3>1
    <3>3. q[j].role = role /\ q[j].rank + 1 = w[1] /\ q[j].size = specs[w[1]].size
      BY <1>5, <3>1, <3>2
    <3>4. j \in a + 1 .. b
      BY <1>9, <3>3
    <3>5. <<j, w[2]>> \in Seats(q, a, b)
      BY <3>1, <3>3, <3>4 DEF Seats
    <3> QED
      BY <3>1, <3>3, <3>5
  <2> QED
    BY <2>1, <2>2 DEF SeatedAt
<1>14. /\ IsFiniteSet(S)
       /\ GetRanks(q, p, a, b).total = Cardinality(S)
       /\ \A k \in 1 .. q[p + 1].size :
            GetRanks(q, p, a, b).ranks[k]
              = Cardinality({v \in S : Ahead(v, <<q[p + 1].rank + 1, k>>)})
  <2>1. a \in Nat /\ b \in a .. Len(q)
    BY <1>11
  <2>2. Measured(q) /\ Ascending(q, a, b)
    BY <1>12
  <2>3. /\ IsFiniteSet(S)
        /\ \A x \in a .. b - 1 :
             /\ GetRanks(q, x, a, b).total = Cardinality(S)
             /\ \A k \in 1 .. q[x + 1].size :
                  GetRanks(q, x, a, b).ranks[k]
                    = Cardinality({v \in S : Ahead(v, <<q[x + 1].rank + 1, k>>)})
    BY <1>13, <2>1, <2>2, RanksCount
  <2> QED
    BY <1>11, <2>3
<1> QED
  BY <1>0, <1>11, <1>14 DEF S, role

\* A count of predecessors satisfies Numbered.
LEMMA CountsNumber ==
  ASSUME NEW S \in SUBSET (Int \X Int), IsFiniteSet(S), NEW f,
         \A w \in S : f[w] = Cardinality({v \in S : Ahead(v, w)})
  PROVE  /\ {f[w] : w \in S} = 0 .. Cardinality(S) - 1
         /\ \A v, w \in S : Ahead(v, w) => f[v] < f[w]
<1> DEFINE O == {x \in S \X S : Ahead(x[1], x[2])}
<1>1. \A v, w \in S : <<v, w>> \in O <=> Ahead(v, w)
  OBVIOUS
<1>2. \A w \in S : w = <<w[1], w[2]>> /\ w[1] \in Int /\ w[2] \in Int
  OBVIOUS
<1> HIDE DEF O
<1>3. StrictOrder(S, O)
  <2>1. \A w \in S : ~Ahead(w, w)
    BY <1>2 DEF Ahead
  <2>2. \A u, v, w \in S : Ahead(u, v) /\ Ahead(v, w) => Ahead(u, w)
    BY <1>2 DEF Ahead
  <2>3. ASSUME NEW v \in S, NEW w \in S PROVE v = w \/ Ahead(v, w) \/ Ahead(w, v)
    <3>1. /\ v = <<v[1], v[2]>> /\ v[1] \in Int /\ v[2] \in Int
          /\ w = <<w[1], w[2]>> /\ w[1] \in Int /\ w[2] \in Int
      BY <1>2
    <3> QED
      BY <3>1 DEF Ahead
  <2> QED
    BY <1>1, <2>1, <2>2, <2>3 DEF StrictOrder
<1>4. Counts(f, S, O)
  <2>1. ASSUME NEW w \in S
        PROVE  {v \in S : <<v, w>> \in O} = {v \in S : Ahead(v, w)}
    BY <1>1
  <2> QED
    BY <2>1 DEF Counts
<1>5. /\ \A v, w \in S : <<v, w>> \in O => f[v] < f[w]
      /\ \A w \in S : f[w] \in 0 .. Cardinality(S) - 1
      /\ \A r \in 0 .. Cardinality(S) - 1 : \E w \in S : f[w] = r
  BY <1>3, <1>4, Numbering
<1> QED
  BY <1>1, <1>5

\* Every agent that has created its workers gave them the ranks that it
\* computed from what all the agents have read.
RanksInv ==
  /\ specs \in UNION {[1 .. n -> Info] : n \in 1 .. MaxAgents}
  /\ DOMAIN created = DOMAIN specs
  /\ \A i \in DOMAIN specs : created[i] \in {None, AssignWorkerRanks(i - 1)}

\* The workers and their ranks once all the agents have assigned them.
LEMMA AssignedIs ==
  ASSUME RanksInv, AllAssigned
  PROVE  \E n \in Nat :
           /\ specs \in [1 .. n -> Info]
           /\ Workers = AllWorkers(n)
           /\ \A i \in 1 .. n : \A k \in 1 .. specs[i].size :
                Worker(<<i, k>>) = NewWorker(k, GetRanks(RoleInfos, i - 1, 0, n), InRole(i))
<1>1. PICK n \in 1 .. MaxAgents : specs \in [1 .. n -> Info]
  BY DEF RanksInv
<1>2. n \in Nat
  BY RanksAssumption
<1>3. ASSUME NEW i \in 1 .. n
      PROVE  created[i] = [k \in 1 .. specs[i].size |->
                             NewWorker(k, GetRanks(RoleInfos, i - 1, 0, n), InRole(i))]
  <2>1. created[i] = AssignWorkerRanks(i - 1)
    BY <1>1 DEF RanksInv, AllAssigned
  <2>2. i - 1 + 1 = i /\ Len(specs) = n /\ RoleInfos[i].size = specs[i].size
    BY <1>1, <1>2, InfosAre
  <2> QED
    BY <2>1, <2>2 DEF AssignWorkerRanks, InRole, Position
<1>4. \A i \in 1 .. n : DOMAIN created[i] = 1 .. specs[i].size
  BY <1>3
<1>5. \A i \in 1 .. n : specs[i].size \in Nat
  BY <1>1, <1>2, InfosAre
<1>6. Workers = AllWorkers(n)
  <2>1. DOMAIN specs = 1 .. n
    BY <1>1
  <2>2. ASSUME NEW w PROVE w \in Workers <=> w \in AllWorkers(n)
    <3>1. w \in Workers <=> \E i \in 1 .. n : \E k \in 1 .. specs[i].size : w = <<i, k>>
      <4>1. w \in Workers <=> \E i \in DOMAIN specs : w \in {<<i, k>> : k \in DOMAIN created[i]}
        BY Zenon DEF Workers
      <4>2. \A i \in 1 .. n : {<<i, k>> : k \in DOMAIN created[i]} = {<<i, k>> : k \in 1 .. specs[i].size}
        BY <1>4
      <4> QED
        BY <2>1, <4>1, <4>2
    <3>2. w \in AllWorkers(n) <=> \E i \in 1 .. n : \E k \in 1 .. specs[i].size : w = <<i, k>>
      BY <1>5 DEF AllWorkers
    <3> QED
      BY <3>1, <3>2
  <2> QED
    BY <2>2
<1>7. ASSUME NEW i \in 1 .. n, NEW k \in 1 .. specs[i].size
      PROVE  Worker(<<i, k>>) = NewWorker(k, GetRanks(RoleInfos, i - 1, 0, n), InRole(i))
  BY <1>3 DEF Worker
<1> QED
  BY <1>1, <1>2, <1>6, <1>7

\* By GlobalCount and CountsNumber.
LEMMA GlobalNumbered ==
  ASSUME RanksInv
  PROVE  GlobalRanks
<1> SUFFICES ASSUME AllAssigned
             PROVE  /\ {Worker(w).global_rank : w \in Workers} = 0 .. Cardinality(Workers) - 1
                    /\ \A w \in Workers : Worker(w).world_size = Cardinality(Workers)
                    /\ \A v, w \in Workers :
                         Ahead(v, w) => Worker(v).global_rank < Worker(w).global_rank
  BY DEF GlobalRanks, Numbered, Ahead
<1>1. PICK n \in Nat :
        /\ specs \in [1 .. n -> Info]
        /\ Workers = AllWorkers(n)
        /\ \A i \in 1 .. n : \A k \in 1 .. specs[i].size :
             Worker(<<i, k>>) = NewWorker(k, GetRanks(RoleInfos, i - 1, 0, n), InRole(i))
  BY AssignedIs
<1> DEFINE S == AllWorkers(n)
           f == [w \in S |-> Worker(w).global_rank]
<1>2. /\ IsFiniteSet(S)
      /\ \A i \in 1 .. n :
           /\ GetRanks(RoleInfos, i - 1, 0, n).total = Cardinality(S)
           /\ \A k \in 1 .. specs[i].size :
                GetRanks(RoleInfos, i - 1, 0, n).ranks[k]
                  = Cardinality({v \in S : Ahead(v, <<i, k>>)})
  BY <1>1, GlobalCount
<1>3. /\ S \in SUBSET (Int \X Int)
      /\ \A w \in S : w = <<w[1], w[2]>> /\ w[1] \in 1 .. n /\ w[2] \in 1 .. specs[w[1]].size
  BY DEF AllWorkers
<1> HIDE DEF S
<1>4. ASSUME NEW w \in S
      PROVE  /\ Worker(w).global_rank = Cardinality({v \in S : Ahead(v, w)})
             /\ Worker(w).world_size = Cardinality(S)
  <2>1. PICK i \in 1 .. n, k \in Int : k \in 1 .. specs[i].size /\ w = <<i, k>>
    BY <1>3
  <2>2. Worker(w) = NewWorker(k, GetRanks(RoleInfos, i - 1, 0, n), InRole(i))
    BY <1>1, <2>1
  <2>3. /\ Worker(w).global_rank = GetRanks(RoleInfos, i - 1, 0, n).ranks[k]
        /\ Worker(w).world_size = GetRanks(RoleInfos, i - 1, 0, n).total
    BY <2>2 DEF NewWorker
  <2> QED
    BY <1>2, <2>1, <2>3
<1>5. \A w \in S : f[w] = Cardinality({v \in S : Ahead(v, w)}) /\ f[w] = Worker(w).global_rank
  BY <1>4
<1> HIDE DEF f
<1>6. /\ {f[w] : w \in S} = 0 .. Cardinality(S) - 1
      /\ \A v, w \in S : Ahead(v, w) => f[v] < f[w]
  BY <1>2, <1>3, <1>5, CountsNumber
<1>7. {Worker(w).global_rank : w \in S} = {f[w] : w \in S}
  BY <1>5
<1>8. Workers = S
  BY <1>1 DEF S
<1> QED
  BY <1>4, <1>5, <1>6, <1>7, <1>8

\* By RoleCount and CountsNumber; a role without workers has an empty numbering.
LEMMA RolesNumbered ==
  ASSUME RanksInv
  PROVE  RoleRanks
<1> SUFFICES ASSUME AllAssigned, NEW role \in Roles
             PROVE  /\ {Worker(w).role_rank : w \in OfRole(role)}
                         = 0 .. Cardinality(OfRole(role)) - 1
                    /\ \A w \in OfRole(role) :
                         Worker(w).role_world_size = Cardinality(OfRole(role))
                    /\ \A v, w \in OfRole(role) :
                         Ahead(v, w) => Worker(v).role_rank < Worker(w).role_rank
  BY DEF RoleRanks, Numbered, Ahead
<1>1. PICK n \in Nat :
        /\ specs \in [1 .. n -> Info]
        /\ Workers = AllWorkers(n)
        /\ \A i \in 1 .. n : \A k \in 1 .. specs[i].size :
             Worker(<<i, k>>) = NewWorker(k, GetRanks(RoleInfos, i - 1, 0, n), InRole(i))
  BY AssignedIs
<1> DEFINE S == RoleWorkers(n, role)
           f == [w \in S |-> Worker(w).role_rank]
<1>2. OfRole(role) = S
  BY <1>1 DEF OfRole, RoleWorkers
<1>3. /\ S \in SUBSET (Int \X Int)
      /\ \A w \in S : /\ w = <<w[1], w[2]>> /\ w[1] \in 1 .. n /\ w[2] \in 1 .. specs[w[1]].size
                      /\ specs[w[1]].role = role
  BY DEF AllWorkers, RoleWorkers
<1> HIDE DEF S
<1>4. ASSUME NEW w \in S
      PROVE  /\ IsFiniteSet(S)
             /\ Worker(w).role_rank = Cardinality({v \in S : Ahead(v, w)})
             /\ Worker(w).role_world_size = Cardinality(S)
  <2>1. PICK i \in 1 .. n, k \in Int : k \in 1 .. specs[i].size /\ w = <<i, k>> /\ specs[i].role = role
    BY <1>3
  <2>2. Worker(w) = NewWorker(k, GetRanks(RoleInfos, i - 1, 0, n), InRole(i))
    BY <1>1, <2>1
  <2>3. /\ Worker(w).role_rank = InRole(i).ranks[k]
        /\ Worker(w).role_world_size = InRole(i).total
    BY <2>2 DEF NewWorker
  <2>4. /\ IsFiniteSet(RoleWorkers(n, specs[i].role))
        /\ InRole(i).total = Cardinality(RoleWorkers(n, specs[i].role))
        /\ \A l \in 1 .. specs[i].size :
             InRole(i).ranks[l]
               = Cardinality({v \in RoleWorkers(n, specs[i].role) : Ahead(v, <<i, l>>)})
    BY <1>1, RoleCount
  <2>5. RoleWorkers(n, specs[i].role) = S
    BY <2>1 DEF S
  <2> QED
    BY <2>1, <2>3, <2>4, <2>5
<1>5. \A w \in S : f[w] = Cardinality({v \in S : Ahead(v, w)}) /\ f[w] = Worker(w).role_rank
  BY <1>4
<1> HIDE DEF f
<1>6. IsFiniteSet(S)
  BY <1>4, FS_EmptySet
<1>7. /\ {f[w] : w \in S} = 0 .. Cardinality(S) - 1
      /\ \A v, w \in S : Ahead(v, w) => f[v] < f[w]
  BY <1>3, <1>5, <1>6, CountsNumber
<1>8. {Worker(w).role_rank : w \in S} = {f[w] : w \in S}
  BY <1>5
<1> QED
  BY <1>2, <1>4, <1>5, <1>7, <1>8

\* The invariant of the assignment.
LEMMA RanksInvariance == RanksSpec => []RanksInv
<1>1. RanksInit => RanksInv
  BY DEF RanksInit, RanksInv
<1>2. RanksInv /\ [RanksNext]_ranksVars => RanksInv'
  <2> SUFFICES ASSUME RanksInv, [RanksNext]_ranksVars PROVE RanksInv'
    OBVIOUS
  <2>1. specs' = specs
    BY DEF RanksNext, Assign, ranksVars
  <2>2. \A i \in DOMAIN specs : AssignWorkerRanks(i - 1)' = AssignWorkerRanks(i - 1)
    BY <2>1 DEF AssignWorkerRanks, RoleInfos
  <2>3. /\ DOMAIN created' = DOMAIN specs
        /\ \A i \in DOMAIN specs : created'[i] \in {None, AssignWorkerRanks(i - 1)}
    BY DEF RanksNext, Assign, ranksVars, RanksInv
  <2> QED
    BY <2>1, <2>2, <2>3 DEF RanksInv
<1> QED
  BY <1>1, <1>2, PTL DEF RanksSpec

\* The global ranks that the agents compute separately number all the workers
\* of the group, for any number of agents, roles and workers of each.
THEOREM GlobalRanksNumber == RanksSpec => []GlobalRanks
  BY RanksInvariance, GlobalNumbered, PTL

\* The role ranks number the workers of each role.
THEOREM RoleRanksNumber == RanksSpec => []RoleRanks
  BY RanksInvariance, RolesNumbered, PTL
=============================================================================
