# Verification of torchelastic

This directory holds TLA+ models of torchelastic, the TLC runs that check them
on small instances, and TLAPS proofs about them for every instance.
`PROJECT.json` lists the components, the runs, one mutant per checked property,
the map from definitions to source lines, the hazards, the findings and the
theorems. Paths below are relative to `src/torchelastic/` unless they start
with another directory of the repository.

    tlc -workers 2 -config rdzv_recovers.cfg MCEtcdRendezvous     # a run
    tlapm EtcdRendezvousProofs.tla                                # proofs

## 1. Inventory

torchelastic runs a distributed training job on a changing set of nodes. On
each node an *agent* starts worker processes. The agents find each other in a
*rendezvous* over etcd, share a key-value *store* kept in etcd as well, and
restart their workers when one fails or a node arrives.

| Component | State | Operations | Interacts with |
|---|---|---|---|
| etcd rendezvous (`rendezvous/etcd_rendezvous.py`) | `/rdzv/active_version` (setup, joinable, frozen, final, closed), `/rdzv/version_counter`, keep-alive keys with a TTL, one lease thread per member | `rendezvous_barrier`, `set_closed`, `num_nodes_waiting`, `is_closed` | agents, through etcd only |
| etcd store (same file) | a directory of keys per rendezvous version | `set`, `get`, `add`, `wait`, `check` | agents and workers of one version |
| elastic agent (`agent/server/api.py`) | worker group state, ranks, remaining restarts | `_rendezvous`, `_assign_worker_ranks`, `_initialize_workers`, `_restart_workers`, `_invoke_run`, `_exit_barrier` | rendezvous, store, workers |
| local worker group (`agent/server/local_elastic_agent.py`, on the process context of torch.multiprocessing) | processes, joined sentinels, queue of return values | start, poll, join, terminate | agent, operating system |
| timers (`timer/`) | table of timers, request queue | enter and leave `expires()`, watchdog pass, reap | worker processes |
| local scheduler and session (`tsm/driver/`) | last id of each name, applications and their processes in a bounded cache, the ids a session knows | run (submit), status (describe), wait, stop, cancel, list, attach, `__del__` | processes |
| elastic job controller (`kubernetes/controllers/`) | the job, its conditions, pods and services; a cache of them; expectations | Reconcile, create and delete events, status updates | API server, kubeflow/common, pods |
| elastic training script (`examples/imagenet/main.py`) | weights and epoch of each worker, a checkpoint file per node | load and agree on a checkpoint, train, validate, save | agents (which start it), sampler |
| sampler (`utils/data/`) | indices | pure | training scripts |
| launcher (`distributed/launch.py`) | none | checks its arguments, runs the agent, closes the rendezvous at the end | agent, rendezvous, pods |
| cycling iterator, c10d store helper (`utils/`) | an iterator; a port and attempts | none that anything uses outside tests | |
| parameters, registry, test etcd server, metrics, events, error files, cloud command lines | dictionaries, files | parsing and I/O | all of them |

What is hard, and what makes each part correct:

- **Rendezvous.** Any number of processes coordinate by compare-and-swap on one
  key. Between the read and the swap anything may happen: a TTL runs out, a peer
  dies, the client resends a request whose reply was lost, somebody closes the
  rendezvous. Correct means: members of one version agree on its size and have
  distinct ranks; a version number is not used twice; a final version lists
  everyone; closed is terminal and everyone learns of it; survivors of a crash
  form a group; late nodes are counted; every call ends.
- **Store.** `add()` and the reads take several requests. Correct means that
  they look atomic, that no write is missed between a scan and the watch that
  follows it, and that a read fails only for a reason.
- **Agent.** It polls, so what it sees is old. Correct means: no workers of an old
  version beside the agent's next one, restarts spent on failures only, the exit
  barrier holds everyone, an arrival is noticed, every agent ends.
- **Ranks.** Each agent computes its own; together they must be a numbering.
- **Local workers.** Processes end between polls in any manner and order.
  Correct means: success is complete, failure leaves no process, a healthy
  report overlooks nothing, no process outlives a stop.
- **Timers.** Requests travel through per-process buffers and a pipe, the
  watchdog takes them in batches sized by a counter, and a process may die with
  requests unsent. Correct means: the table follows the workers, nobody is
  killed on a timer whose release was received, stuck workers are killed, dead
  ones are forgotten.
- **Scheduler, session.** A cache at its limit, processes whose end nobody asked
  about, submissions that fail half way. Correct means: a terminal state is true
  and nothing runs after it, no process is lost, ids are not reused, waiting ends.
- **Job controller.** It decides on a cache whose kinds of objects lag behind
  independently, writes the whole job back at the end, and counts on events that
  a failed creation never raises. Correct means: it never undoes what the user
  applied, an outcome it reported stays, and the job's end is reported.
- **Training script.** Workers die at any line; a new group has other members,
  other disks and another size. Correct means: everyone starts from one state,
  the most advanced; a checkpoint is whole; the samples are all used.

## 2. Plan

Done in this order, the behaviour that everything rests on first:

1. `EtcdRendezvous` (with `MCEtcdRendezvous`) and its invariant; proofs.
2. `AtomicStore`, the abstract specification of the store, and `EtcdStore`,
   shown to implement it by TLC and by proof.
3. `ElasticAgent`, which composes agents with the rendezvous of item 1 and with
   the store of item 2; `WorkerRanks` for the ranks.
4. `LocalTimer`.
5. `LocalWorkers` and its proofs; `ElasticAgent` uses its outcomes.
6. `RendezvousPromise`, the abstract specification of the barrier that
   `ElasticAgent` builds on, and the refinement by `EtcdRendezvous`.
7. `AppLifecycle`, the abstract specification of a scheduler, and
   `LocalScheduler`, which implements it.
8. `ElasticJob`: reconciliation on stale caches, with the launcher in the pods.
9. `ElasticSampler` and `ElasticTraining`: what the restarts of the agents mean
   for a script and its checkpoints.

10. Proofs: every safety invariant, action property and refinement that the runs
    check has a theorem. The last were the ranks, which needed a recursive sum
    and a sorted sequence to be replaced by counting.

Left: liveness, which stays with TLC.

Theorems worth proving are the safety properties whose argument needs an
invariant over several actors. Each component's theorems live in a module of
their own. No module uses RECURSIVE operators.

## 3. Modules

### EtcdRendezvous

One step is one etcd request with the local computation up to the next request.
`active` is the value of `active_version` (participants are always `0..n-1` and
kept as `n`; of the list of keep-alive keys the code uses the length and the
members, kept as `confirms` and `keep_alives`); `ephemeral` tells whether the
key has a TTL; `counter` and `leases` are the version counter and the keep-alive
keys. An agent has a place `pc`, the snapshot `snap` of the value it read, its
`ver` and `rank`, and the key its lease thread renews. `published` and
`granted` are histories.

| Code | Actions |
|---|---|
| `init_phase`, `try_create_rendezvous` | `TryCreate`, `ObserveExisting`, `ReadVersionCounter`, `UpdateVersionCounter`, `PublishJoinable` |
| `join_phase`, `join_rendezvous`, `handle_join_last_call` | `JoinRead`, `JoinSwap`, `LastCallRead`, `LastCallFreeze`, `LastCallRefresh`, `WaitForPeers` |
| `confirm_phase`, `confirm_membership`, `wait_for_final` | `ConfirmRead`, `SetKeepAlive`, `ConfirmSwap`, `WaitForFinal` |
| `handle_existing_rendezvous`, `announce_self_waiting`, `wait_for_rendezvous_to_free` | `AnnounceRead`, `AnnounceSwap`, `FreeRead`, `FreeCheck`, `FreeDelete` |
| `set_closed`, launcher's `finally` | `Shutdown`, `SetClosedRead`, `SetClosedSwap` |
| deadline of the barrier | `Timeout` |

The environment: `ExpireAbandoned` and `LeaseExpires` (a TTL nobody renews),
`ActiveLapses` and `LeaseLapses` (a TTL that runs out under a live but slow
agent), `Crash`, `LeaseThreadDies`, `RequestFails` for any request of the
barrier and of `set_closed()`, and `ReplyLost` and `RequestResent` for the swaps
of `active_version`. The last one exists because the client is created with
`allow_reconnect=True`. Executed requests without a reply are left out for the
creation of the setup key (line 463), the version counter (473), the directory
of a version (484), the keep-alive key (604) and the deletion (718).

Abstracted: a watch is a re-read that may wait; the creation of the version's
directory is merged with the publication that follows it.

`RendezvousPromise` is what the agents may assume of all this: there is one
group or none; a group has an allowed size, a version that no call returned
before, distinct ranks; late nodes are counted; the group is dissolved only
after a keep-alive key of it was lost, and closed is the end. `BarrierPromise ==
Promise!Spec` states that `EtcdRendezvous` implements it. The mapping reads
`num_nodes_waiting()`, `is_closed()` and the members off `active` and `leases`;
whatever is not final or closed is "free".

### AtomicStore and EtcdStore

`AtomicStore` is what callers may assume: each write and each successful read
happens at one instant; a read may fail with `LookupError` only after a key was
missing during the call. Its client is that of the rendezvous, so at most
`MaxFaults` requests go wrong: a call raises, after its write or without it
(`Raise`), or a write takes effect and will do so once more (`Repeat`), which
only a fault may cause. `EtcdStore` has one action per request: `add()` creates,
or reads and swaps until the swap succeeds; any request may fail
(`RequestFails`), and an executed write may lose its reply (`ReplyLost`) or be
sent again (`RequestResent`), after which `add()` takes its own first attempt
for that of another client; a read scans the directory, and if a key is missing
watches from the index after the scan, until all keys are there, or its deadline
passes. `Linearizable == Store!Spec` states the refinement; the mapping is the
identity on the shared variables, and the write or the last scan is the instant.
Keys and values are not encoded, because base64 is a bijection and both sides of
every comparison are encoded; values are integers.

### ElasticAgent and WorkerRanks

One agent per node goes through rendezvous, role exchange (`Share`, `Gather`),
connection and start of workers, `monitor`, a look at the number of waiting
nodes, exit barrier and shutdown. The rendezvous is that of `RendezvousPromise`
with the nodes that wait in it: `Form` makes a version of waiting nodes in any
order of ranks, `Announce` counts a late node, `Dissolve` removes a version with
a missing keep-alive key. `workers` is what the processes really do, `state`
what the agent believes. Failed groups are restarted while `remaining` lasts;
`StoreTimeout`, `BarrierTimeout` and `ExitBarrierTimeout` are the deadlines. A
request that fails for good (`RequestFails`) raises out of `run()` from the look
(`LookFails`) or the role exchange (`StoreFails`), is logged by the exit barrier
and by `shutdown()`, and is tried again by the barrier of the rendezvous. Only
the look leaves workers behind: the agent then `lingers`, since the interpreter
waits for processes that are not daemons while the lease thread goes on.

`WorkerRanks` translates `_assign_worker_ranks` and its helpers: the agents'
role infos are sorted, prefix sums give the base ranks; the reference
definition is "the ranks number the workers". `specs` is what the agents run, by
group rank, and `created` the workers they have created, each on its own; a role
is a number, of which only the order matters. `Sorted` takes the infos in an order
in which each is `Before` the later ones, and `SizeUpTo` is a recursive function
over the indices, as the loop of `_get_ranks`.

### LocalTimer

A multiprocessing queue is a buffer per process, one pipe and a counter that
`qsize()` reads. The watchdog reads the counter (`GetSize`), takes that many
requests (`Take`, or `GetEnds` when the pipe stays empty), registers them,
finds expired timers, kills their processes one by one, and clears their
timers. A kill may find nobody or fail. `last` and `received` are histories: what
a worker asked for last about a scope, and what the server took off the queue
last. A worker enters and leaves nested
blocks, its feeder thread sends its requests, and it may die at any moment,
losing those not sent.

### LocalWorkers

`proc` has the processes of every start. A process returns (`PutValue` counts
its value, `ReturnValue` is its exit after the feeder thread has written it),
ends early in one of the ways the code tells apart, or is sent SIGTERM. Then it
may die of it, exit with any code, return its value all the same, or ignore it:
the handler of the launcher (`distributed/launch.py:397-404`) only passes the
signal on. `capacity` is how many values fit into the pipe, any number up to N,
chosen at each start. The process context is that of torch.multiprocessing,
which the agent imports (`local_elastic_agent.py:12`), and is external;
`multiprocessing/spawn.py` is a copy of it that only tests use, read here as the
description of what it does. A poll (`ProcessContext.join(timeout=-1)`) is
`JoinSome`, `JoinAll` or `JoinFailure`, by what the ready processes did.
Terminating and joining goes one process at a time, so the others go on
meanwhile. `JoinAll` contains the assertion of `_monitor_workers()` on the
number of return values, which makes the group FAILED.

### AppLifecycle and LocalScheduler

One thread makes calls on sessions or on the scheduler, one after the other; a
call takes several steps (`Run`, then one `StartReplica` per process, then
`Register`; `Wait` and `WaitLoop`; `CancelExists` and `Kill`) between which
processes end (`ProcessEnds`). `cache` has the ids in the order of the dict,
`procs` all processes ever started, known or not. A call that raises without
having changed anything is a stuttering step. `Scheduler.wait()` with a timeout
(`TimedWaitLoop`) raises before it looks, as the code does. Two conversions are
inlined by what they decide: an application is a name and its roles, a container
is an image that can be fetched or not.

`AppLifecycle` is what a scheduler does with its ids: an id is given once, to an
application that lives or to a submission that fails; an application ends once
and is forgotten only after that. It has one value for every terminal state and
does not say that an ended application keeps the one it has, which it does not
(section 5). `AppPromise == Lifecycle!Spec`; the mapping takes the state from the
cache, and an id below the last one that is in no cache is gone.

### ElasticJob

`api` is the API server, `watch` the changes of each kind that are on their way,
`cache` what the controller reads. `Deliver` brings a change, satisfies
expectations and queues the job; `Reconcile` reads the cache and decides; then
each of `CreatePod`, `DeletePod`, `CreateService`, `DeleteService`, `Update`
(with `UpdateJobStatusInApiServer`) and `DeleteJob` is one request, which the
API server may refuse because the object has changed, or fail. `Restart` is the
controller's process. The pods run the launcher: `main` evaluates its arguments
and assertions, with the bounds that `SetClusterSpecForPod` wrote.

kubeflow/common and Kubernetes are external, with these assumptions: setting
an expectation starts anew with one creation; pods and services beyond the number
of replicas are deleted; the status counts the pods of the wanted replicas or, in
the pass that deletes them, those of the surplus ones as well (`Counted`, either
may happen); an update with an old resource version is refused. Expectations that
expire and informers that resynchronize are left out, so that nothing rests on
them. `Reconcile` reads the job, the expectations and the two lists in one step,
while the code reads them one after the other
(`elasticjob_controller.go:64-96`); the kinds lag behind each other anyway.

### ElasticSampler and ElasticTraining

`ElasticSampler` has the indices as functions of world size, rank, start index
and epoch. In `ElasticTraining` every worker goes through `load_checkpoint`
(`Load`, `Restore`, `Start`), and per epoch `Train`, `Validate`, and for local
rank 0 `Save`, `Saved`, `Commit`, `Copy`. A collective operation waits for every
member of the group (`Complete`). Agents are external: `Rendezvous` forms a group
of any nodes one of which is new or broken. Weights are the sequence of the
groups that trained them, so that two histories differ when they should. The
rename in `Commit` is taken as durable, together with the contents of the file.

## 4. Runs

| Run | Instance | Shows |
|---|---|---|
| `rdzv_recovers` | 3 agents, groups of 2, a crash | a final state lists its members, late nodes counted, survivors form a group (`RecoversFromCrash`) without any deadline |
| `rdzv_lapses` | 3 agents, groups of 1 or 2, a crash and a TTL lost under a live agent | consistent ranks, versions unique, one complete group, refinement of `RendezvousPromise` |
| `rdzv_ends` | 2 agents, 1 is enough, a crash, one request failing, losing its reply or resent | closing is noticed in every place of the barrier; with time passing every call ends |
| `rdzv_quorum` (violation) | 2 agents, one resent request | the finding of section 5 |
| `store_calls` | 3 clients, 2 keys, 3 calls of any kind, one request failing, losing its reply or resent | refinement of `AtomicStore`, no lost wake-up, failures have a reason, reads end |
| `agent` | 2 nodes, 1 is enough, a crash, 2 failing requests, 2 versions, 1 restart | no orphans but by a failing look, exit together, restart budget, right master, arrivals are noticed, every agent ends |
| `ranks` | up to 4 agents, 3 roles, 1 or 2 workers each | global and role ranks are numberings |
| `timers` | 2 workers, 1 scope, 2 blocks, clock up to 2, one failing kill | table in step, received releases heeded, stuck reaped, dead forgotten |
| `workers` | 2 workers, 2 starts, room for 0 to 2 values | complete success and failure, no strays, true polls, groups settle |
| `scheduler` | 1 session, cache of 1, 3 ids, applications that start, fail half way or are refused | remembered states are true, no process lost, refinement of `AppLifecycle`, waiting without a timeout ends |
| `job` | 3 specifications of up to 2 replicas, 2 upsets, one undelivered change per kind | no change of the user is undone, a reported outcome stays, the end is reported |
| `training` | 2 nodes with 2 workers, 5 samples, 2 epochs, 3 groups, 2 failures | equal weights, samples covered, checkpoints whole and never falling behind |

Every property of a passing run has a mutant: a plausible bug in one mapped
definition, kept as a "Faulty variant" next to it, under which TLC finds the
property violated.

**Bounds.** The interesting cases of the rendezvous need a group, an outsider
and a replacement: three agents with room for two, and `MaxCalls = 3` calls, so
that each enters once or one enters again. `MaxCrashes = 1` crash at any place
already reaches every cleanup path; `MaxLapses` and `MaxFaults` of 1 are enough
to break the mutants, and one run each keeps the product small. `MaxWaiting`
bounds `num_workers_waiting`. Two waiters that find a version dissolve it and
announce themselves again at the next can do so without end; the bound ends this
duel, which `RecoversFromCrash` therefore does not cover. A store's client needs
one fault to count twice. `MaxVersions = 2` gives each agent a change of
version, `MaxRestarts = 1` a retry and its exhaustion, and two faults are a look
and then a shutdown that fail. For the timers, the second block of `MaxAcquires
= 2` nests or follows the first, and `MaxTime = 2` is one unit past the longest
expiration. For the workers, `MaxStarts = 2` is a restart, and each start takes
any room in the pipe, from values none of which fits to values that all do. The
scheduler's cache of one is full with the first application, so that every later
submission evicts; three ids are two evictions. A job's two upsets are any two
of a failing request, a failing or evicted pod, a restart of the controller,
scaling and deletion, and `MaxLag = 1` lets each kind be one change behind,
which is enough for a job that is older than its pods and the reverse. In
training, two epochs let a checkpoint be behind another; five samples are odd
for two and for four workers; two failures and three groups lose a disk and then
the node that had the better one. Symmetry is used in `rdzv_lapses` only, which
checks no liveness. `CHECK_DEADLOCK FALSE` is set where the program ends or a
bound is used up.

**Fairness.** `EtcdRendezvous!Progress`: a live agent keeps executing (weak
fairness of its requests), TTLs nobody renews run out, and the leader of the
last call, who compares the time with a fixed deadline in every round, sees it
pass (strong fairness, because watching and refreshing interrupt it). No
fairness of `Timeout` is assumed except in `BarrierTerminates`, whose premise
`TimePasses` says that an agent that looks at the clock again and again sees its
deadline pass. `EtcdStore`: clients execute and etcd delivers events; neither
spurious wake-ups nor deadlines are relied on. `ElasticAgent`: agents run and
nodes that wait form a version (the recovery shown by `EtcdRendezvous`); that
workers end and deadlines pass is a premise of `AgentsEnd` alone. `LocalTimer`:
the watchdog and feeder threads run and the clock advances; nothing is assumed
of the workers. `LocalWorkers`: the agent's loop runs and values are written
when there is room; nothing makes a function return. That a process which was
sent SIGTERM ends is not assumed either: it is the premise `Obedient` of
`Settles`. `LocalScheduler`: the thread that makes calls runs; no process has to
end. `ElasticJob`: the controller runs, watches deliver, containers start and
scripts end; `JobEnds` has as premise that the pods can do their work
(`Workable`) and allows one state in which nothing happens (`Stuck`, section 5).

## 5. Findings

`rdzv_quorum`, code bug, `rendezvous/etcd_rendezvous.py:607`:
`confirm_membership()` appends its key without looking whether it is listed and
compares only lengths. When the client resends a swap that was executed, the
loop confirms again, and the state becomes final although another participant
has not confirmed. `FinalMeansConfirmed` is proved under `~Resend`, which shows
that this is the only way.

Observations that no run states:

- Rendezvous and agent. Two groups can exist while a member of the old one has
  lost its lease and not noticed (`OneCompleteGroup` is what holds). An agent
  that looks for waiting nodes only after its version was dissolved and replaced
  sees nobody waiting, and its workers go on beside the new group
  (`agent/server/api.py:779`), although `distributed/launch.py:168` says that
  all existing workers are stopped. A departing node is not announced to the
  others, who learn of it through failing workers (`distributed/launch.py:164`).
  `check()` with a repeated key compares counts.
- Agent. `num_nodes_waiting()` catches `EtcdKeyNotFound` only
  (`etcd_rendezvous.py:175-182`), and `run()` has no clause that stops the workers
  (`agent/server/api.py:683-689`): any other exception of the look at
  `api.py:779` leaves the workers running. `NoOrphans` names this way out. They
  are not daemons, so the process waits for them, and its lease keeps the
  version alive if the shutdown failed as well.
- Store. A create (`etcd_rendezvous.py:1047`) or swap (1062) of `add()` that was
  executed and is sent again finds its own value there, and `add()` increments
  once more, although line 1034 says "Atomically increment". `AtomicStore` has
  this as `Repeat`: without faults every write takes effect once, and a fault
  costs at most one more.
- Workers. Return values larger than the pipe block every worker, and the agent
  polls forever (`local_elastic_agent.py:228`): `Settles` excepts this as
  `Clogged`. `proc.join()` has no timeout (line 169), so that stopping waits for a
  worker that ignores SIGTERM. Of several failures the one met first is reported,
  not the one that came first.
- Timers. `timer/api.py:66-67` says of a release "After this method is called,
  the countdown timer on the scope is no longer in effect". In the local timers it
  is in effect until the server has taken the release off the queue: a worker that
  has left its block can be killed while its release is on its way.
  `ReleaseHeeded` says what does hold, that no received release is disregarded.
- Scheduler. Of several finished applications the last of the dict is evicted
  (`tsm/driver/local_scheduler.py:170`), not the oldest (lines 159-160); one
  that finished but was never described can not be evicted. `wait()` with a
  timeout sets its deadline to the present (line 291) and raises (307) at once,
  also for an application that has finished, although line 283 says that it
  waits for a terminal state; `WaitReturns` is about waiting without a timeout.
  A failing `Popen` leaves the processes started before it to nobody (line 221).
  `cancel()`, `stop()` and `__del__()` make an application that had succeeded or
  failed CANCELLED (lines 275-279), which `tsm/driver/api.py:345` says of one
  that "was cancelled before completing"; `AppLifecycle` therefore says nothing
  on which terminal state it is. `attach()` replaces the entry of an application
  that the session ran (`standalone_session.py:88`).
- Job controller. With a pod and a service creation both expected and failed,
  nothing happens until the expectations expire (`Stuck`). A failed job's
  completion time is set on an object that is not written (`job.go:153`), so its
  time to live never starts. Restarting is displaced at once by Running
  (`job.go:145`, `170`). A pod that failed for good under the policy ExitCode
  leaves the job neither restarted nor failed. `job.go:124` says "when all
  workers succeed, the job is finished", but success is a count of pods in the
  cache. When a job is scaled down and up again and the cache still shows the
  surplus pod, which succeeded but was deleted in between, the job is reported
  as succeeded although the wanted replica has no pod and will get none; and, if
  kubeflow/common counts pods that it is deleting, when a surplus pod succeeded
  in place of a wanted one, which may still run. Both happen in the run; no
  property says that a reported success is true, and `OutcomeKept` says that it
  is not taken back. Default bounds are fixed in a pod's arguments when it is
  created, while the replicas may be scaled later.
- Sampler. Padding is done once, so that with more than twice as many replicas
  as samples left the assertion stops every worker
  (`elastic_distributed_sampler.py:63`). The copy of the best model is not atomic.
- Checkpoints. The file is renamed without fsync
  (`examples/imagenet/main.py:415-416`); that a crash of the machine leaves a
  whole checkpoint is therefore an assumption on the file system.

## 6. Proofs

All proofs are for every value of the constants that satisfies the named
assumptions: any number of agents, versions, calls, crashes, workers, epochs, and
any value of the constants that bound the runs. Each `Inv` was checked by TLC on
the run of its module before it was proved. The properties are seldom inductive
themselves; what follows is what had to be added.

**EtcdRendezvousProofs** (`WorkersAssumption`, `BoundsAssumption`). The
properties are not inductive. `Inv` adds what the program knows when it
swaps: `SnapshotInv` (what an agent holds is what it checked), `ActiveInv` (only
unfinished states have a TTL; a joinable state has space), `VersionInv`
(versions about to be published are new and belong to one creator: the counter
is swapped, so two creators never draw the same number, even if both believe
they own the setup key), `RankInv` (a rank of a version belongs to one agent,
because a join succeeds only from the very state it read) and `GrantInv` (a
returned version is final and its size fixed as long as it is active). One lemma
per group of actions. Results: `TypeCorrect`, `InvHolds`, `GroupsConsistent`,
`JoinableNeverFull`, and the action properties `NeverReopened` and
`VersionsNeverReused`. `FinalMeansConfirmed` uses `ConfirmInv` on top, where
the listed keys are counted by cardinality, and needs `~Resend`.

`LateWorkersSeen` needs `LateInv` (a version that somebody came too late for is
final, closed or gone). `GroupsExclusive` and `BarrierRefines` need `DissolveInv`
(the agent about to delete a final state has seen one of its keys missing, and
nobody sets a key of a final version again) and `GroupInv` (a returned group is
never confirmed again and is the current one while all its keys exist). With
these, every step is a step of `RendezvousPromise` or a stutter: the swap that
confirms last forms the group, the deletion dissolves it, the announcement is
counted, `set_closed` closes. Both are under `~Resend`, since a resent
confirmation makes groups that were never confirmed.

**EtcdStoreProofs** (`RequestsAssumption`; `Distinct` for the refinement: reads
name distinct keys, since `check()` and the scan compare counts). `Inv ==
WellFormed /\ WatchBound`: each place belongs to one method, the key that
`add()` found is still there, and no watch starts beyond the next event. Each
step maps to a step of `AtomicStore` or a stutter, a request that goes wrong to
`Raise`, or to `Repeat` when it is sent again: `StoreLinearizable`, with any
number of faults. `StoreNoLostWakeup`, `StoreFailureIsTrue` and
`StoreWellFormed` follow from the same invariant.

**LocalWorkersProofs** (`LocalAssumption`). `ProcessInv` says which processes
must have ended at each place of the agent, `QueueInv` that the counter is at
most the number of processes that can have put a value, and the pipe holds the
values of those that returned. When all processes ended with code 0 and the
counter is N, the contributors are N of N, so everyone returned:
`SuccessComplete`. `FailureComplete`, `NoStrayProcess`, `LocalTypeCorrect` and
the action property `PollIsTrue` follow from the same invariant.

**ElasticAgentProofs** (`AgentAssumption`). `MemberInv` (an agent with a version
is a member of it, and the store of a version to come is empty), `MasterInv`
(the address of the master is written by rank 0 after all roles), `OverInv` (who
knows the end of its group is on the way through the exit barrier) and
`BarrierInv` (who is counted there has stopped its workers, and who left without
giving up saw all). `LookInv` (who looks for waiting nodes saw its workers
healthy) is what confines the workers that outlive `run()` to a failed look. A
step is summarised once: what it leaves of the other agents (`Alone`), what it
writes to the store (`Publishes`), how its own place changes (`Proceeds`).
Results: `NoOrphanWorkers`, `BudgetKept`, `MasterIsRankZero`, `LeaveTogether`.

The module also holds the proofs about `WorkerRanks` (`RanksAssumption`: roles
are numbers, every agent has at least one worker, as `WorkerSpec` asserts). The
invariant is short, since the agents do not interact any more; the work is in
what they compute. Everything is turned into counting. The sum of the sizes
between two indices is the number of workers there (`SizeCounts`): the recursive
function exists, because those numbers satisfy its equation, and it has no other
solution, because a smallest index where one differs would have a predecessor
(`Climb`). `sorted()` finds an order: the number of infos before an info is a
numbering (`Numbering`), whose inverse sorts them (`SortedIs`). The infos of a
role are then exactly those between its boundaries (`Boundaries`), and come in the
order of their ranks, so that the base rank and the local rank of a worker add up
to the number of workers of its role before it (`RanksCount`, `RoleCount`); with
all the infos in one role and in the order of the group, the same holds of the
global ranks (`GlobalCount`). A count of predecessors in a total order is a
numbering without gaps. Results: `GlobalRanksNumber`, `RoleRanksNumber`.

**LocalTimerProofs** (`TimerAssumption`). `InStep` needs that a process asks for
its own timers only (`OwnInv`), so that the order of the buffers does not matter.
`SizeInv` says that the counter of the queue is at least the number of requests
in pipe and buffers, counted by cardinality, so that taking one never brings it
below zero. `Latest` is shown
to follow an append, a removal from the front and a registration. `ReapInv` keeps
expired timers in the table until their process is reaped, and `ReceivedInv` says
that the table with the batch in hand is what was received: `TableFollows`,
`ReleasesHeeded`.

**LocalSchedulerProofs** (`AppsAssumption`, `NothingAssumption`). `CacheInv`,
`SubmitInv` and `DeleteInv` say what a half finished `submit()` and `__del__()`
have still to do; the eviction is shown to remove one finished entry and to keep
the order of the others. Results: `DescribeIsTrue` (`Settled`), `NoProcessLost`
(`NoStrays`), `CacheBounded`, and the refinement `SchedulerRefines`
(`AppPromise`).

**ElasticJobProofs** (`SpecsAssumption`, `BoundsAssumption`). `JobInv`: there is
one job, of the size that was applied last; `WorkInv`: a reconciliation under way
has changed nothing but the status of the job it read. An update is accepted only
if the job is still the one that was read, so `ScaleNeverUndone` follows; a
finished job is never updated, so `OutcomeStays` does. Nothing is assumed of the
counts.

**ElasticTrainingProofs** (`TrainingAssumption`, `DatasetAssumption`). As long as
a group is complete, those that were restored have the state that the others
will get (`AgreeInv`: the state of the first of the most advanced workers stays
the same while one after the other takes it over), and no worker is more than one
epoch ahead, of the same weights (`AheadInv`). `SaveInv`: the saving worker is
never behind the checkpoint of its node. Results: `WeightsEqual`,
`CheckpointsKept`. `SamplesCovered` (`EpochCovers`) shows that the ranks of a
complete group are all numbers below the world size, by cardinality, and that
rounding up, padding and striding over a permutation then give every sample to
somebody, for any sizes of data and group.

Only model-checked: all liveness (`RecoversFromCrash`, `ClosedPropagates`,
`BarrierTerminates`, `ReadsEnd`, `ArrivalNoticed`, `AgentsEnd`, `StuckReaped`,
`DeadForgotten`, `Settles`, `WaitReturns`, `JobEnds`: fairness is out of the
prover's reach).

## 7. Not modelled

- The two-hour TTL of the run directory, and with it the loss of the version
  counter while agents live.
- The process context of torch.multiprocessing, which is not in the repository: it
  is part of `LocalWorkers` by what the agent relies on. Its copy
  `multiprocessing/spawn.py` is used by tests only.
- `store_extra_data`, `load_extra_data`: nothing in the repository calls them.
- Worker states UNKNOWN and UNHEALTHY, which no `_monitor_workers()` returns;
  metrics and events; environment variables of workers.
- Reuse of a pid by the operating system, and a timer server started again
  after `stop()`.
- Arguments, environment variables, resources and macros of applications, which
  nothing in the scheduler depends on.
- Expiry of expectations, resynchronization of informers, and events other than
  those of the job's own objects; deep copies, labels and generated code.
- The launcher's command line beyond the checks of `main()`.
- `CyclingIterator`, used nowhere; `create_c10d_store`, a sequential loop of at
  most two attempts, used by tests.
- Meters, accuracies and the learning rate of the training script.
- Argument parsing, registry, test etcd server, error files, cloud command
  lines: no control state.
