----------------------------- MODULE ElasticJob -----------------------------
(***************************************************************************)
(* The ElasticJob controller (kubernetes/controllers/*.go), the API server *)
(* with the watches that feed the cache of the controller, and the pods it *)
(* creates, whose containers run torchelastic.distributed.launch.          *)
(*                                                                         *)
(* kubeflow/common drives the handlers of the controller and is external:  *)
(* it creates the missing pods and services of a replica, deletes those of *)
(* replicas that are not wanted, counts the pods and has the status        *)
(* written.  Each request to the API server is a step.  An object is the   *)
(* empty set when it does not exist and the set of its record when it does.*)
(* Expectations expire after five minutes and informers resynchronize      *)
(* after hours; neither is modelled, so nothing below relies on them.      *)
(***************************************************************************)
EXTENDS Integers, Sequences, FiniteSets

CONSTANTS
  Specs,        \* the job specifications a user may apply
  MaxReplicas,  \* bound: the largest number of replicas
  MaxLag,       \* bound: changes of a kind that the cache has not seen
  MaxUpsets     \* bound: requests and pods that fail, evictions, restarts of
                \* the controller, changes and deletions by the user, together

\* ElasticJobSpec; min and max are 0 when the user leaves them out.
Spec_ == [replicas : 0 .. MaxReplicas, min : Nat, max : Nat,
          policy : {"ExitCode", "Never"}, clean : {"None", "All"},
          ttl : BOOLEAN, nproc : STRING]

ASSUME SpecsAssumption == Specs \subseteq Spec_

ASSUME BoundsAssumption ==
  MaxReplicas \in Nat /\ MaxLag \in Nat /\ MaxUpsets \in Nat

Replicas == 0 .. MaxReplicas - 1
Job == <<"job", 0>>
Pod(i) == <<"pod", i>>
Dependents == {"pod", "service"} \X Replicas
Objects == {Job} \cup Dependents
Kinds == {"job", "pod", "service"}

VARIABLES
  api,       \* what the API server holds
  cache,     \* what the client of the controller reads
  watch,     \* the changes of each kind that the cache has not seen yet
  pending,   \* Expectations: the kinds with a creation not observed yet
  queued,    \* the job is in the work queue
  work,      \* the reconciliation under way
  upsets,    \* what has gone wrong or changed so far
  wanted     \* history: the replicas the user asked for last

cluster == <<api, watch>>
controller == <<cache, pending, queued, work>>
vars == <<cluster, controller, upsets, wanted>>

New(spec) == [spec |-> spec, version |-> 0, deleting |-> FALSE,
              conditions |-> {}, completed |-> FALSE]

Init ==
  /\ \E spec \in Specs :
       /\ api = [o \in Objects |-> IF o = Job THEN {New(spec)} ELSE {}]
       /\ wanted = spec.replicas
  /\ cache = [o \in Objects |-> {}]
  /\ watch = [k \in Kinds |-> IF k = "job" THEN <<<<Job, api[Job]>>>> ELSE <<>>]
  /\ pending = {}
  /\ queued = FALSE
  /\ work = {}
  /\ upsets = 0

Upset == upsets < MaxUpsets /\ upsets' = upsets + 1

\* A write to the API server; every watcher will see it.
Put(o, state) ==
  /\ Len(watch[o[1]]) < MaxLag
  /\ api' = [api EXCEPT ![o] = state]
  /\ watch' = [watch EXCEPT ![o[1]] = Append(@, <<o, state>>)]

IsSucceeded(job) == "Succeeded" \in job.conditions
Finished(job) == IsSucceeded(job) \/ "Failed" \in job.conditions

-----------------------------------------------------------------------------
(* The cache and the events it raises.                                     *)

\* Faulty variant: both kinds have to be satisfied.
satisfiedExpectationsBoth == pending = {}

\* A reconciliation may go ahead when the creations of one of the two kinds
\* have been observed.
satisfiedExpectations == pending # {"pod", "service"}

\* onDependentCreateFunc and onDependentDeleteFunc: each of ExpectCreations
\* starts anew with one creation, so that the first one observed satisfies
\* it, and a deletion drops the record.
Observed(o, state) ==
  IF o # Job /\ (cache[o] = {} \/ state = {}) THEN pending \ {o[1]} ELSE pending

\* The cache takes in the next change of a kind of objects; its event puts
\* the job in the queue.
Deliver(k) ==
  /\ watch[k] # <<>>
  /\ LET o == Head(watch[k])[1]
         state == Head(watch[k])[2]
     IN  /\ cache' = [cache EXCEPT ![o] = state]
         /\ pending' = Observed(o, state)
  /\ watch' = [watch EXCEPT ![k] = Tail(@)]
  /\ queued' = TRUE
  /\ UNCHANGED <<api, work, upsets, wanted>>

\* The controller process dies and starts again: it lists every object and
\* has forgotten its expectations.
Restart ==
  /\ Upset
  /\ cache' = api
  /\ watch' = [k \in Kinds |-> <<>>]
  /\ pending' = {}
  /\ queued' = TRUE
  /\ work' = {}
  /\ UNCHANGED <<api, wanted>>

-----------------------------------------------------------------------------
(* Reconcile                                                               *)

Retryable(pod) == pod.phase = "Failed" /\ ~pod.permanent

\* What ReconcileJobs does about a pod or service: create it, delete it or
\* nothing.  A finished job is cleaned up if its policy says so.
Need(job, o) ==
  IF Finished(job)
    THEN IF job.spec.clean = "All" /\ cache[o] # {} THEN "delete" ELSE "nothing"
  ELSE IF o[2] < job.spec.replicas
    THEN IF cache[o] = {} THEN "create"
         ELSE IF /\ o[1] = "pod" /\ job.spec.policy = "ExitCode"
                 /\ \E pod \in cache[o] : Retryable(pod)
           THEN "delete" ELSE "nothing"
  ELSE IF cache[o] # {} THEN "delete" ELSE "nothing"

\* Pods first, then services, each in the order of the replicas.
Before(p, o) ==
  \/ p[1] = "pod" /\ o[1] = "service"
  \/ p[1] = o[1] /\ p[2] < o[2]

computeDesiredReplicas(job) == job.spec.replicas

\* SetClusterSpecForPod: the bounds in the launch arguments of a new pod.
SetClusterSpecForPod(job) ==
  LET default(n) == IF n = 0 THEN computeDesiredReplicas(job) ELSE n
  IN  [phase |-> "Pending", permanent |-> FALSE,
       nnodes |-> <<default(job.spec.min), default(job.spec.max)>>,
       nproc |-> job.spec.nproc]

\* The replicas whose pods ReconcilePods counts: the wanted ones and, in the
\* pass that deletes them, perhaps those that are not wanted any more.
Counted(job) == {{i \in Replicas : i < job.spec.replicas}, Replicas}

\* The pod of a replica, if the cache lists one.
GetPodsForJob(i) == cache[Pod(i)]

Count(counted, phase) ==
  Cardinality({i \in counted : \E pod \in GetPodsForJob(i) : pod.phase = phase})

\* UpdateJobConditions: Running and Restarting displace each other, and the
\* end of the job displaces Running.
Condition(conditions, type) ==
  {type} \cup (conditions \ (IF type = "Running" THEN {"Restarting"} ELSE {"Running"}))

\* UpdateJobStatus: succeeded when as many pods have as there are replicas;
\* otherwise failed when some pod has and is not restarted, and in any case
\* Running again.  The completion time of a failed job goes into the job that
\* is not written.
UpdateJobStatus(job, counted) ==
  LET expected == job.spec.replicas - Count(counted, "Succeeded")
      running == Count(counted, "Running")
      failed == Count(counted, "Failed")
      c1 == IF running > 0 THEN Condition(job.conditions, "Running")
            ELSE job.conditions
      c2 == IF failed = 0 THEN c1
            ELSE Condition(c1, IF job.spec.policy = "ExitCode"
                                 THEN "Restarting" ELSE "Failed")
  IN  IF expected = 0
        THEN [job EXCEPT !.completed = TRUE, !.conditions = Condition(c1, "Succeeded")]
        ELSE [job EXCEPT !.conditions = Condition(c2, "Running")]

\* Reconcile reads the job and lists its pods and services from the cache,
\* which decides on all that it does.
Reconcile ==
  /\ queued
  /\ work = {}
  /\ queued' = FALSE
  /\ LET go == {job \in cache[Job] : satisfiedExpectations /\ ~job.deleting}
     IN  IF go = {} THEN work' = {}
         ELSE \E job \in go : \E counted \in Counted(job) :
                work' = {[job |-> job, updated |-> UpdateJobStatus(job, counted),
                          need |-> [o \in Dependents |-> Need(job, o)]]}
  /\ UNCHANGED <<api, cache, watch, pending, upsets, wanted>>

Continue(w, o) == work' = {[w EXCEPT !.need[o] = "nothing"]} /\ UNCHANGED queued
Done == work' = {} /\ UNCHANGED queued
\* An error of Reconcile puts the job back into the queue.
Abort == work' = {} /\ queued' = TRUE

\* The API server refuses a request that does not fit, or fails.
Fails(fits) ==
  /\ UNCHANGED cluster
  /\ \/ ~fits /\ UNCHANGED upsets
     \/ Upset

\* The next pod or service that needs something.
Doing(w, o, kind, need) ==
  /\ o[1] = kind /\ w.need[o] = need
  /\ \A p \in Dependents : Before(p, o) => w.need[p] = "nothing"

\* ExpectCreations and CreatePod: an error ends the reconciliation.
CreatePod(w, o) ==
  /\ Doing(w, o, "pod", "create")
  /\ pending' = pending \cup {"pod"}
  /\ \/ /\ api[o] = {}
        /\ Put(o, {SetClusterSpecForPod(w.job)})
        /\ Continue(w, o) /\ UNCHANGED upsets
     \/ Fails(api[o] = {}) /\ Abort

DeletePod(w, o) ==
  /\ Doing(w, o, "pod", "delete")
  /\ UNCHANGED pending
  /\ \/ api[o] # {} /\ Put(o, {}) /\ Continue(w, o) /\ UNCHANGED upsets
     \/ Fails(api[o] # {}) /\ Abort

\* CreateService logs an error and goes on.
CreateService(w, o) ==
  /\ Doing(w, o, "service", "create")
  /\ pending' = pending \cup {"service"}
  /\ \/ api[o] = {} /\ Put(o, {"headless"}) /\ UNCHANGED upsets
     \/ Fails(api[o] = {})
  /\ Continue(w, o)

\* DeleteService ignores an error once the job has succeeded.
DeleteService(w, o) ==
  /\ Doing(w, o, "service", "delete")
  /\ UNCHANGED pending
  /\ \/ api[o] # {} /\ Put(o, {}) /\ Continue(w, o) /\ UNCHANGED upsets
     \/ /\ Fails(api[o] # {})
        /\ IF IsSucceeded(w.job) THEN Continue(w, o) ELSE Abort

\* The pods and services are as wanted.
AsWanted(w) == \A o \in Dependents : w.need[o] = "nothing"

\* Faulty variant: a conflict is met by writing over the newer version.
UpdateJobStatusInApiServerForced(w) ==
      \/ /\ api[Job] # {}
         /\ Put(Job, {[w.updated EXCEPT !.version = job.version + 1] : job \in api[Job]})
         /\ Done /\ UNCHANGED upsets
      \/ Fails(api[Job] # {}) /\ Abort

\* Faulty variant: a conflict is met by writing the status into the newer
\* version.
UpdateJobStatusInApiServerRetried(w) ==
      \/ /\ api[Job] # {}
         /\ Put(Job, {[job EXCEPT !.conditions = w.updated.conditions,
                                  !.completed = w.updated.completed,
                                  !.version = @ + 1] : job \in api[Job]})
         /\ Done /\ UNCHANGED upsets
      \/ Fails(api[Job] # {}) /\ Abort

\* UpdateJobStatusInApiServer writes the job as it was read, with the new
\* status; the API server refuses it when the job has changed since.
UpdateJobStatusInApiServer(w) ==
  LET current == {w.job} = api[Job]
  IN  \/ /\ current
         /\ Put(Job, {[w.updated EXCEPT !.version = @ + 1]})
         /\ Done /\ UNCHANGED upsets
      \/ Fails(current) /\ Abort

\* In the end the status is written if it changed.
Update(w) ==
  /\ AsWanted(w)
  /\ ~Finished(w.job)
  /\ IF w.updated = w.job
       THEN Done /\ UNCHANGED <<cluster, upsets>>
       ELSE UpdateJobStatusInApiServer(w)
  /\ UNCHANGED pending

\* A finished job with a time to live and a completion time is deleted.
DeleteJob(w) ==
  /\ AsWanted(w)
  /\ Finished(w.job)
  /\ IF w.job.spec.ttl /\ w.job.completed
       THEN \/ api[Job] # {} /\ Put(Job, {}) /\ Done /\ UNCHANGED upsets
            \/ Fails(api[Job] # {}) /\ Abort
       ELSE Done /\ UNCHANGED <<cluster, upsets>>
  /\ UNCHANGED pending

ReconcileJobs ==
  /\ \E w \in work :
       \/ \E o \in Dependents : \/ CreatePod(w, o) \/ DeletePod(w, o)
                               \/ CreateService(w, o) \/ DeleteService(w, o)
       \/ Update(w) \/ DeleteJob(w)
  /\ UNCHANGED <<cache, wanted>>

-----------------------------------------------------------------------------
(* The launcher in a pod.                                                  *)

\* "MIN:MAX" as the sequence of its numbers.
parse_min_max_nnodes(nnodes) ==
  CASE Len(nnodes) = 1 -> {<<nnodes[1], nnodes[1]>>}
    [] Len(nnodes) = 2 -> {nnodes}
    [] OTHER -> {}

Int_ == [text \in {"0", "1", "2"} |->
           CASE text = "0" -> 0 [] text = "1" -> 1 [] text = "2" -> 2]

\* The workers of a node with that many CPUs and GPUs, none if it raises.
determine_local_world_size(nproc_per_node, cpus, gpus) ==
  CASE nproc_per_node \in DOMAIN Int_ -> {Int_[nproc_per_node]}
    [] nproc_per_node = "cpu" -> {cpus}
    [] nproc_per_node = "gpu" -> IF gpus > 0 THEN {gpus} ELSE {}
    [] nproc_per_node = "auto" -> {IF gpus > 0 THEN gpus ELSE cpus}
    [] OTHER -> {}

\* main() reaches the run loop of the agent: the assertions on the bounds,
\* of RendezvousParameters and of WorkerSpec hold.
main(pod, cpus, gpus) ==
  /\ \E bounds \in parse_min_max_nnodes(pod.nnodes) :
       0 < bounds[1] /\ bounds[1] <= bounds[2]
  /\ \E n \in determine_local_world_size(pod.nproc, cpus, gpus) : n > 0

\* The job is deleted, or will be.
Orphaned == \A job \in api[Job] : job.deleting

Becomes(i, pod, phase, permanent) ==
  /\ Put(Pod(i), {[pod EXCEPT !.phase = phase, !.permanent = permanent]})
  /\ UNCHANGED <<controller, wanted>>

\* The container of a pending pod starts, on a node with or without GPUs.
Launch(i) ==
  \E pod \in api[Pod(i)], gpus \in 0 .. 1 :
    /\ pod.phase = "Pending"
    /\ UNCHANGED upsets
    /\ IF main(pod, 1, gpus) THEN Becomes(i, pod, "Running", FALSE)
       ELSE Becomes(i, pod, "Failed", TRUE)

Joined == {i \in Replicas : \E pod \in api[Pod(i)] : pod.phase \in {"Running", "Succeeded"}}

\* The script of a pod comes to its end; the agents had to meet for that.
PodSucceeds(i) ==
  \E pod \in api[Pod(i)] :
    /\ pod.phase = "Running"
    /\ Cardinality(Joined) >= pod.nnodes[1]
    /\ Becomes(i, pod, "Succeeded", FALSE)
    /\ UNCHANGED upsets

\* A pod fails, with an exit code that is worth a retry or not.
PodFails(i, permanent) ==
  \E pod \in api[Pod(i)] :
    /\ pod.phase = "Running"
    /\ Upset
    /\ Becomes(i, pod, "Failed", permanent)

-----------------------------------------------------------------------------
(* Kubernetes and its users.                                               *)

\* The node of a pod is lost, and the pod with it.
Evict(i) ==
  /\ \E pod \in api[Pod(i)] : pod.phase \in {"Pending", "Running"}
  /\ Upset
  /\ Put(Pod(i), {})
  /\ UNCHANGED <<controller, wanted>>

\* The user applies another number of replicas.
Scale(n) ==
  \E job \in api[Job] :
    /\ ~job.deleting
    /\ n # job.spec.replicas
    /\ Upset
    /\ wanted' = n
    /\ Put(Job, {[job EXCEPT !.spec.replicas = n, !.version = @ + 1]})
    /\ UNCHANGED controller

\* The user deletes the job, and Kubernetes its pods and services before it.
UserDeletes ==
  \E job \in api[Job] :
    /\ ~job.deleting
    /\ Upset
    /\ Put(Job, {[job EXCEPT !.deleting = TRUE, !.version = @ + 1]})
    /\ UNCHANGED <<controller, wanted>>

GarbageCollect(o) ==
  /\ Orphaned
  /\ api[o] # {}
  /\ o = Job => \A d \in Dependents : api[d] = {}
  /\ Put(o, {})
  /\ UNCHANGED <<controller, upsets, wanted>>

Next ==
  \/ Reconcile \/ ReconcileJobs \/ Restart \/ UserDeletes
  \/ \E k \in Kinds : Deliver(k)
  \/ \E o \in Objects : GarbageCollect(o)
  \/ \E i \in Replicas :
       Launch(i) \/ PodSucceeds(i) \/ Evict(i) \/ \E p \in BOOLEAN : PodFails(i, p)
  \/ \E n \in 1 .. MaxReplicas : Scale(n)

Spec == Init /\ [][Next]_vars

\* The controller runs, watches deliver, and the containers start and end.
FairSpec ==
  /\ Spec
  /\ WF_vars(Reconcile) /\ WF_vars(ReconcileJobs)
  /\ \A k \in Kinds : WF_vars(Deliver(k))
  /\ \A i \in Replicas : WF_vars(Launch(i)) /\ WF_vars(PodSucceeds(i))

-----------------------------------------------------------------------------
(* What the controller promises.                                           *)

\* The status update of a reconciliation, which writes the whole job, never
\* takes back the number of replicas that a user applied meanwhile.
ScaleKept == \A job \in api[Job] : job.spec.replicas = wanted

Outcome(job) == job.conditions \cap {"Succeeded", "Failed"}

\* A job that was reported as succeeded or failed keeps that outcome, although
\* later reconciliations start from a cache that does not show it yet and
\* count pods that are gone or new by then.
OutcomeKept ==
  [][\A old \in api[Job], new \in api[Job]' :
       Outcome(old) # {} => Outcome(new) = Outcome(old)]_vars

\* Both expectations wait for events that will not come.
Stuck == pending = {"pod", "service"} /\ \A k \in Kinds : watch[k] = <<>>

\* The pods can do their work: none failed for good under a policy that
\* neither restarts it nor fails the job, and none waits for more pods than
\* the user asks for.
Workable ==
  \A job \in api[Job], i \in Replicas : \A pod \in api[Pod(i)] :
    /\ job.spec.policy = "ExitCode" => ~pod.permanent
    /\ pod.nnodes[1] <= job.spec.replicas

\* Whatever requests fail, pods are lost and notifications lag, the missing
\* pods are created and the end of the job is reported, without waiting for
\* a resynchronization, unless both expectations are stuck.
JobEnds ==
  []Workable =>
    []<>(Stuck \/ \A job \in api[Job] : job.deleting \/ Finished(job))

-----------------------------------------------------------------------------
(* The inductive invariant behind the safety properties.                   *)

Conditions == {"Running", "Restarting", "Succeeded", "Failed"}
Phases == {"Pending", "Running", "Succeeded", "Failed"}

Jobs == [spec : Spec_, version : Nat, deleting : BOOLEAN,
         conditions : SUBSET Conditions, completed : BOOLEAN]

Pods == [phase : Phases, permanent : BOOLEAN, nnodes : Nat \X Nat, nproc : STRING]

\* What an object of each kind can be.
States(k) ==
  SUBSET CASE k = "job" -> Jobs [] k = "pod" -> Pods [] k = "service" -> {"headless"}

Objects_(k) == {o \in Objects : o[1] = k}

Needs == {"create", "delete", "nothing"}

TypeOK ==
  /\ DOMAIN api = Objects /\ DOMAIN cache = Objects /\ DOMAIN watch = Kinds
  /\ \A o \in Objects : api[o] \in States(o[1]) /\ cache[o] \in States(o[1])
  /\ \A k \in Kinds : watch[k] \in Seq(Objects_(k) \X States(k))
  /\ pending \subseteq Kinds
  /\ queued \in BOOLEAN
  /\ work \subseteq [job : Jobs, updated : Jobs, need : [Dependents -> Needs]]
  /\ upsets \in Nat
  /\ wanted \in 0 .. MaxReplicas

\* There is one job, of the size the user applied last.
JobInv == \A job \in api[Job] : api[Job] = {job} /\ job.spec.replicas = wanted

\* A reconciliation changes the status of the job it read and nothing else.
WorkInv ==
  \A w \in work :
    /\ ~w.job.deleting
    /\ w.updated.spec = w.job.spec /\ w.updated.deleting = w.job.deleting

Inv == TypeOK /\ JobInv /\ WorkInv
=============================================================================
