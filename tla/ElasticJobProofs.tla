-------------------------- MODULE ElasticJobProofs --------------------------
(***************************************************************************)
(* Proofs about the ElasticJob controller for every number of replicas,    *)
(* however far the cache lags behind and whatever fails, restarts or is    *)
(* scaled meanwhile.                                                       *)
(***************************************************************************)
EXTENDS ElasticJob, TLAPS

-----------------------------------------------------------------------------
(* Objects and what they can be.                                           *)

\* The job, its pods and its services are different objects.
LEMMA ObjectsAre ==
  /\ Job \in Objects /\ Job[1] = "job" /\ Job \notin Dependents
  /\ \A o \in Objects : o = Job \/ o \in Dependents
  /\ \A o \in Dependents : o \in Objects /\ o[1] \in {"pod", "service"} /\ o[2] \in Replicas
  /\ \A i \in Replicas : Pod(i) \in Dependents /\ Pod(i)[1] = "pod" /\ Pod(i)[2] = i
  /\ \A o \in Dependents : o[1] = "pod" => o = Pod(o[2])
  /\ \A o \in Objects : o[1] \in Kinds
  BY DEF Job, Objects, Dependents, Pod, Kinds

\* The states of each kind of object.
LEMMA StatesAre ==
  /\ States("job") = SUBSET Jobs
  /\ States("pod") = SUBSET Pods
  /\ States("service") = SUBSET {"headless"}
  BY DEF States

ClusterOK ==
  /\ DOMAIN api = Objects /\ DOMAIN watch = Kinds
  /\ \A o \in Objects : api[o] \in States(o[1])
  /\ \A k \in Kinds : watch[k] \in Seq(Objects_(k) \X States(k))

CacheOK ==
  DOMAIN cache = Objects /\ \A o \in Objects : cache[o] \in States(o[1])

WorkOK == work \subseteq [job : Jobs, updated : Jobs, need : [Dependents -> Needs]]

RestOK ==
  /\ pending \subseteq Kinds /\ queued \in BOOLEAN /\ upsets \in Nat
  /\ wanted \in 0 .. MaxReplicas

\* The parts of the type invariant.
LEMMA TypeParts == TypeOK <=> ClusterOK /\ CacheOK /\ WorkOK /\ RestOK
  BY DEF TypeOK, ClusterOK, CacheOK, WorkOK, RestOK

LEMMA TypePartsNext == TypeOK' <=> ClusterOK' /\ CacheOK' /\ WorkOK' /\ RestOK'
  BY DEF TypeOK, ClusterOK, CacheOK, WorkOK, RestOK

\* A write changes one object and is announced to its watchers.
LEMMA PutEffect ==
  ASSUME ClusterOK, NEW o \in Objects, NEW state, Put(o, state)
  PROVE  /\ api'[o] = state
         /\ \A p \in Objects : p # o => api'[p] = api[p]
         /\ watch'[o[1]] = Append(watch[o[1]], <<o, state>>)
         /\ \A k \in Kinds : k # o[1] => watch'[k] = watch[k]
         /\ DOMAIN api' = Objects /\ DOMAIN watch' = Kinds
  BY ObjectsAre DEF ClusterOK, Put

\* A write of a well-formed state.
LEMMA PutType ==
  ASSUME ClusterOK, NEW o \in Objects, NEW state \in States(o[1]), Put(o, state)
  PROVE  ClusterOK'
<1>1. o[1] \in Kinds /\ <<o, state>> \in Objects_(o[1]) \X States(o[1])
  BY ObjectsAre DEF Objects_
<1>2. Append(watch[o[1]], <<o, state>>) \in Seq(Objects_(o[1]) \X States(o[1]))
  BY <1>1 DEF ClusterOK
<1>3. \A p \in Objects : api'[p] \in States(p[1])
  BY PutEffect DEF ClusterOK
<1>4. ASSUME NEW k \in Kinds PROVE watch'[k] \in Seq(Objects_(k) \X States(k))
  <2>1. CASE k = o[1]
    BY <1>2, <2>1, PutEffect
  <2>2. CASE k # o[1]
    BY <2>2, PutEffect DEF ClusterOK
  <2> QED
    BY <2>1, <2>2
<1> QED
  BY <1>3, <1>4, PutEffect DEF ClusterOK

\* The bounds a pod is launched with.
LEMMA NewPod ==
  ASSUME NEW job \in Jobs
  PROVE  {SetClusterSpecForPod(job)} \in States("pod")
         /\ SetClusterSpecForPod(job).phase = "Pending"
<1>1. /\ job.spec.replicas \in Nat /\ job.spec.min \in Nat /\ job.spec.max \in Nat
      /\ job.spec.nproc \in STRING
  BY BoundsAssumption DEF Jobs, Spec_
<1> DEFINE lo == IF job.spec.min = 0 THEN job.spec.replicas ELSE job.spec.min
           hi == IF job.spec.max = 0 THEN job.spec.replicas ELSE job.spec.max
<1>2. SetClusterSpecForPod(job) = [phase |-> "Pending", permanent |-> FALSE,
                                   nnodes |-> <<lo, hi>>, nproc |-> job.spec.nproc]
  BY DEF SetClusterSpecForPod, computeDesiredReplicas
<1>3. lo \in Nat /\ hi \in Nat
  BY <1>1
<1> HIDE DEF lo, hi
<1>4. <<lo, hi>> \in Nat \X Nat
  BY <1>3
<1>5. SetClusterSpecForPod(job) \in Pods /\ SetClusterSpecForPod(job).phase = "Pending"
  BY <1>1, <1>2, <1>4 DEF Pods, Phases
<1> QED
  BY <1>5, StatesAre

-----------------------------------------------------------------------------
(* UpdateJobStatus.                                                        *)

\* Conditions are conditions.
LEMMA ConditionIs ==
  ASSUME NEW c \in SUBSET Conditions, NEW t \in Conditions
  PROVE  Condition(c, t) \in SUBSET Conditions
  BY DEF Condition, Conditions

\* The status that UpdateJobStatus computes: the job stays what it is.
LEMMA StatusIs ==
  ASSUME NEW job \in Jobs, NEW counted
  PROVE  /\ UpdateJobStatus(job, counted) \in Jobs
         /\ UpdateJobStatus(job, counted).spec = job.spec
         /\ UpdateJobStatus(job, counted).deleting = job.deleting
<1> DEFINE running == Count(counted, "Running")
           failed == Count(counted, "Failed")
           c1 == IF running > 0 THEN Condition(job.conditions, "Running")
                 ELSE job.conditions
           c2 == IF failed = 0 THEN c1
                 ELSE Condition(c1, IF job.spec.policy = "ExitCode"
                                      THEN "Restarting" ELSE "Failed")
           good == [job EXCEPT !.completed = TRUE, !.conditions = Condition(c1, "Succeeded")]
           other == [job EXCEPT !.conditions = Condition(c2, "Running")]
<1>1. UpdateJobStatus(job, counted) =
        IF job.spec.replicas - Count(counted, "Succeeded") = 0 THEN good ELSE other
  BY DEF UpdateJobStatus
<1>2. c1 \in SUBSET Conditions
  BY ConditionIs DEF Jobs, Conditions
<1>3. c2 \in SUBSET Conditions
  BY <1>2, ConditionIs DEF Conditions
<1>4. /\ Condition(c1, "Succeeded") \in SUBSET Conditions
      /\ Condition(c2, "Running") \in SUBSET Conditions
  BY <1>2, <1>3, ConditionIs DEF Conditions
<1> HIDE DEF c1, c2
<1>5. /\ good \in Jobs /\ good.spec = job.spec /\ good.deleting = job.deleting
      /\ other \in Jobs /\ other.spec = job.spec /\ other.deleting = job.deleting
  BY <1>4 DEF Jobs
<1> HIDE DEF good, other
<1> QED
  BY <1>1, <1>5

-----------------------------------------------------------------------------
(* The kinds of steps.                                                     *)

\* What a step does to the API server and the cache.
ClusterStep ==
  \/ UNCHANGED <<api, watch, cache>>
  \/ /\ UNCHANGED cache
     /\ \E o \in Objects : \E state \in States(o[1]) : Put(o, state)
  \/ \E k \in Kinds : Deliver(k)
  \/ Restart

\* What it does to the job.
JobStep ==
  \/ UNCHANGED <<api[Job], wanted>>
  \/ api'[Job] = {} /\ UNCHANGED wanted
  \/ \E job \in api[Job], n \in 1 .. MaxReplicas :
       /\ ~job.deleting /\ wanted' = n
       /\ api'[Job] = {[job EXCEPT !.spec.replicas = n, !.version = @ + 1]}
  \/ /\ \E job \in api[Job] :
          api'[Job] = {[job EXCEPT !.deleting = TRUE, !.version = @ + 1]}
     /\ UNCHANGED wanted
  \/ /\ \E w \in work :
          /\ api[Job] = {w.job} /\ ~Finished(w.job)
          /\ api'[Job] = {[w.updated EXCEPT !.version = @ + 1]}
     /\ UNCHANGED wanted

\* What it does to the reconciliation under way.
WorkStep ==
  \/ work' = {}
  \/ work' = work
  \/ \E w \in work, o \in Dependents : work' = {[w EXCEPT !.need[o] = "nothing"]}
  \/ Reconcile

StepOK == ClusterStep /\ JobStep /\ WorkStep /\ RestOK'

\* The queue, the expectations and the bound.
LEMMA RestStep ==
  ASSUME TypeOK, queued' = queued \/ queued' = TRUE \/ queued' = FALSE,
         upsets' = upsets \/ upsets' = upsets + 1,
         pending' \subseteq pending \cup {"pod", "service"},
         wanted' \in 0 .. MaxReplicas
  PROVE  RestOK'
<1>1. queued' \in BOOLEAN
  BY Zenon DEF TypeOK
<1>2. upsets' \in Nat
  BY DEF TypeOK
<1>3. pending' \subseteq Kinds
  BY DEF TypeOK, Kinds
<1> QED
  BY <1>1, <1>2, <1>3 DEF RestOK

\* The requests of a reconciliation about a pod or service.
LEMMA DependentSteps ==
  ASSUME TypeOK, NEW w \in work, NEW o \in Dependents,
         \/ CreatePod(w, o) \/ DeletePod(w, o)
         \/ CreateService(w, o) \/ DeleteService(w, o),
         UNCHANGED <<cache, wanted>>
  PROVE  StepOK
<1>0. w.job \in Jobs /\ o \in Objects /\ o # Job /\ Job \in Objects /\ o[1] \in Kinds
  BY ObjectsAre DEF TypeOK
<1>1. WorkStep
  BY DEF CreatePod, DeletePod, CreateService, DeleteService, Continue, Abort, WorkStep
<1>2. /\ queued' = queued \/ queued' = TRUE
      /\ upsets' = upsets \/ upsets' = upsets + 1
      /\ pending' \subseteq pending \cup {"pod", "service"}
  BY DEF CreatePod, DeletePod, CreateService, DeleteService, Continue, Abort,
         Fails, Upset
<1>3. RestOK'
  BY <1>2, RestStep DEF TypeOK
<1>4. CASE UNCHANGED cluster
  <2>1. ClusterStep /\ JobStep
    BY <1>4 DEF ClusterStep, JobStep, cluster
  <2> QED
    BY <1>1, <1>3, <2>1 DEF StepOK
<1>5. ASSUME NEW state \in States(o[1]), Put(o, state)
      PROVE  StepOK
  <2>1. ClusterStep
    BY <1>0, <1>5 DEF ClusterStep
  <2>2. api'[Job] = api[Job]
    BY <1>0, <1>5, PutEffect, TypeParts
  <2>3. JobStep
    BY <2>2 DEF JobStep
  <2> QED
    BY <1>1, <1>3, <2>1, <2>3 DEF StepOK
<1>6. {} \in States("pod") /\ {} \in States("service") /\ {"headless"} \in States("service")
  BY StatesAre
<1>7. CASE CreatePod(w, o)
  BY <1>0, <1>4, <1>5, <1>7, NewPod DEF CreatePod, Doing, Fails
<1>8. CASE DeletePod(w, o)
  BY <1>4, <1>5, <1>6, <1>8 DEF DeletePod, Doing, Fails
<1>9. CASE CreateService(w, o)
  BY <1>4, <1>5, <1>6, <1>9 DEF CreateService, Doing, Fails
<1>10. CASE DeleteService(w, o)
  BY <1>4, <1>5, <1>6, <1>10 DEF DeleteService, Doing, Fails
<1> QED
  BY <1>7, <1>8, <1>9, <1>10

\* The end of a reconciliation.
LEMMA JobWrites ==
  ASSUME TypeOK, NEW w \in work, Update(w) \/ DeleteJob(w), UNCHANGED <<cache, wanted>>
  PROVE  StepOK
<1>0. w.job \in Jobs /\ w.updated \in Jobs
  BY DEF TypeOK
<1>1. WorkStep
  BY DEF Update, DeleteJob, UpdateJobStatusInApiServer, Done, Abort, WorkStep
<1>2. /\ queued' = queued \/ queued' = TRUE
      /\ upsets' = upsets \/ upsets' = upsets + 1
      /\ pending' \subseteq pending \cup {"pod", "service"}
  BY DEF Update, DeleteJob, UpdateJobStatusInApiServer, Done, Abort, Fails, Upset
<1>3. RestOK'
  BY <1>2, RestStep DEF TypeOK
<1>4. CASE UNCHANGED cluster
  <2>1. ClusterStep /\ JobStep
    BY <1>4 DEF ClusterStep, JobStep, cluster
  <2> QED
    BY <1>1, <1>3, <2>1 DEF StepOK
<1>5. ASSUME NEW state \in SUBSET Jobs, Put(Job, state)
      PROVE  ClusterStep /\ api'[Job] = state
  BY <1>5, ObjectsAre, StatesAre, PutEffect, TypeParts DEF ClusterStep
<1>6. CASE Update(w) /\ Put(Job, {[w.updated EXCEPT !.version = @ + 1]})
           /\ {w.job} = api[Job]
  <2>1. {[w.updated EXCEPT !.version = @ + 1]} \in SUBSET Jobs
    BY <1>0 DEF Jobs
  <2>2. JobStep
    BY <1>5, <1>6, <2>1 DEF JobStep, Update
  <2> QED
    BY <1>1, <1>3, <1>5, <1>6, <2>1, <2>2 DEF StepOK
<1>7. CASE Put(Job, {})
  <2>1. JobStep
    BY <1>5, <1>7 DEF JobStep
  <2> QED
    BY <1>1, <1>3, <1>5, <1>7, <2>1 DEF StepOK
<1> QED
  BY <1>4, <1>6, <1>7 DEF Update, DeleteJob, UpdateJobStatusInApiServer, Fails

\* A pod that changes by itself, as Kubernetes reports it.
LEMMA PodSteps ==
  ASSUME TypeOK, NEW i \in Replicas, NEW state \in States("pod"), Put(Pod(i), state),
         upsets' = upsets \/ upsets' = upsets + 1,
         UNCHANGED <<controller, wanted>>
  PROVE  StepOK
<1>1. /\ Pod(i) \in Objects /\ Pod(i)[1] = "pod" /\ Pod(i)[2] = i /\ Pod(i) # Job
      /\ Job \in Objects
  BY ObjectsAre
<1>2. api'[Job] = api[Job]
  BY <1>1, PutEffect, TypeParts
<1>3. ClusterStep
  BY <1>1 DEF ClusterStep, controller
<1>4. JobStep /\ WorkStep
  BY <1>2 DEF JobStep, WorkStep, controller
<1>5. RestOK'
  BY RestStep DEF TypeOK, controller
<1> QED
  BY <1>3, <1>4, <1>5 DEF StepOK

\* A change of the phase of a pod.
LEMMA PhaseSteps ==
  ASSUME TypeOK, NEW i \in Replicas, NEW pod \in api[Pod(i)],
         NEW phase \in Phases, NEW permanent \in BOOLEAN,
         Becomes(i, pod, phase, permanent),
         upsets' = upsets \/ upsets' = upsets + 1
  PROVE  StepOK
<1> DEFINE new == [pod EXCEPT !.phase = phase, !.permanent = permanent]
<1>1. pod \in Pods
  BY ObjectsAre, StatesAre DEF TypeOK
<1>2. new \in Pods
  BY <1>1 DEF Pods
<1>3. {new} \in States("pod")
  BY <1>2, StatesAre
<1> QED
  BY <1>3, PodSteps DEF Becomes

\* The job as the user scales it.
LEMMA ScaledJob ==
  ASSUME NEW job \in Jobs, NEW n \in 1 .. MaxReplicas
  PROVE  LET new == [job EXCEPT !.spec.replicas = n, !.version = @ + 1]
         IN  new \in Jobs /\ new.spec.replicas = n /\ new.conditions = job.conditions
<1>1. job.spec \in Spec_ /\ job.version + 1 \in Nat
  BY DEF Jobs
<1>2. n \in 0 .. MaxReplicas
  BY BoundsAssumption
<1>3. [job.spec EXCEPT !.replicas = n] \in Spec_ /\ [job.spec EXCEPT !.replicas = n].replicas = n
  BY <1>1, <1>2 DEF Spec_
<1>4. DOMAIN job = {"spec", "version", "deleting", "conditions", "completed"}
  BY DEF Jobs
<1>5. LET new == [job EXCEPT !.spec.replicas = n, !.version = @ + 1]
      IN  /\ new \in Jobs /\ new.spec = [job.spec EXCEPT !.replicas = n]
          /\ new.conditions = job.conditions
  BY <1>1, <1>3, <1>4 DEF Jobs
<1> QED
  BY <1>3, <1>5

\* The job as the user deletes it.
LEMMA DeletedJob ==
  ASSUME NEW job \in Jobs
  PROVE  LET new == [job EXCEPT !.deleting = TRUE, !.version = @ + 1]
         IN  /\ new \in Jobs /\ new.deleting = TRUE
             /\ new.spec = job.spec /\ new.conditions = job.conditions
<1>1. job.version + 1 \in Nat
  BY DEF Jobs
<1> QED
  BY <1>1 DEF Jobs

\* The user applies another size or deletes the job.
LEMMA UserSteps ==
  ASSUME TypeOK, UserDeletes \/ \E n \in 1 .. MaxReplicas : Scale(n)
  PROVE  StepOK
<1> USE DEF controller
<1>1. ASSUME NEW state \in SUBSET Jobs, Put(Job, state)
      PROVE  (UNCHANGED cache => ClusterStep) /\ api'[Job] = state
  BY <1>1, ObjectsAre, StatesAre, PutEffect, TypeParts DEF ClusterStep
<1>2. api[Job] \subseteq Jobs
  BY ObjectsAre, StatesAre DEF TypeOK
<1>3. CASE UserDeletes
  <2>1. PICK job \in api[Job] :
          /\ Upset /\ UNCHANGED <<controller, wanted>>
          /\ Put(Job, {[job EXCEPT !.deleting = TRUE, !.version = @ + 1]})
    BY <1>3 DEF UserDeletes
  <2>2. [job EXCEPT !.deleting = TRUE, !.version = @ + 1] \in Jobs
    BY <1>2, DeletedJob
  <2>3. /\ ClusterStep
        /\ api'[Job] = {[job EXCEPT !.deleting = TRUE, !.version = @ + 1]}
    BY <1>1, <2>1, <2>2
  <2>4. JobStep /\ WorkStep
    BY <2>1, <2>3 DEF JobStep, WorkStep
  <2>5. RestOK'
    BY <2>1, RestStep DEF Upset, TypeOK
  <2> QED
    BY <2>3, <2>4, <2>5 DEF StepOK
<1>4. ASSUME NEW n \in 1 .. MaxReplicas, Scale(n) PROVE StepOK
  <2>1. PICK job \in api[Job] :
          /\ ~job.deleting /\ Upset /\ wanted' = n /\ UNCHANGED controller
          /\ Put(Job, {[job EXCEPT !.spec.replicas = n, !.version = @ + 1]})
    BY <1>4 DEF Scale
  <2>2. [job EXCEPT !.spec.replicas = n, !.version = @ + 1] \in Jobs
    BY <1>2, ScaledJob
  <2>3. /\ ClusterStep
        /\ api'[Job] = {[job EXCEPT !.spec.replicas = n, !.version = @ + 1]}
    BY <1>1, <2>1, <2>2
  <2>4. JobStep /\ WorkStep
    BY <2>1, <2>3 DEF JobStep, WorkStep
  <2>5. RestOK'
    BY <2>1, RestStep, BoundsAssumption DEF Upset, TypeOK
  <2> QED
    BY <2>3, <2>4, <2>5 DEF StepOK
<1> QED
  BY <1>3, <1>4

\* What is left of a deleted job is collected.
LEMMA CollectSteps ==
  ASSUME TypeOK, NEW o \in Objects, GarbageCollect(o)
  PROVE  StepOK
<1>1. {} \in States(o[1])
  BY ObjectsAre, StatesAre
<1>2. Put(o, {}) /\ UNCHANGED <<controller, upsets, wanted>>
  BY DEF GarbageCollect
<1>3. api'[Job] = api[Job] \/ api'[Job] = {}
  BY <1>2, PutEffect, TypeParts, ObjectsAre
<1>4. ClusterStep
  BY <1>1, <1>2 DEF ClusterStep, controller
<1>5. JobStep /\ WorkStep
  BY <1>2, <1>3 DEF JobStep, WorkStep, controller
<1>6. RestOK'
  BY <1>2, RestStep DEF TypeOK, controller
<1> QED
  BY <1>4, <1>5, <1>6 DEF StepOK

\* The steps of the cache and of the start of a reconciliation.
LEMMA ControllerSteps ==
  ASSUME TypeOK, Reconcile \/ Restart \/ \E k \in Kinds : Deliver(k)
  PROVE  StepOK
<1>1. /\ UNCHANGED <<api, wanted>>
      /\ upsets' = upsets \/ upsets' = upsets + 1
      /\ queued' = TRUE \/ queued' = FALSE
  BY DEF Reconcile, Restart, Deliver, Upset
<1>2. pending' \subseteq pending \cup {"pod", "service"}
  BY DEF Reconcile, Restart, Deliver, Observed
<1>3. RestOK'
  BY <1>1, <1>2, RestStep DEF TypeOK
<1>4. ClusterStep
  BY DEF ClusterStep, Reconcile
<1>5. JobStep
  BY <1>1 DEF JobStep
<1>6. WorkStep
  BY DEF WorkStep, Restart, Deliver
<1> QED
  BY <1>3, <1>4, <1>5, <1>6 DEF StepOK

\* Every step is of these kinds.
LEMMA Steps ==
  ASSUME TypeOK, [Next]_vars
  PROVE  StepOK
<1>1. CASE UNCHANGED vars
  <2>1. UNCHANGED <<cluster, controller, upsets, wanted>>
    BY <1>1 DEF vars
  <2>2. RestOK'
    BY <2>1, RestStep DEF TypeOK, controller
  <2> QED
    BY <2>1, <2>2
    DEF StepOK, ClusterStep, JobStep, WorkStep, cluster, controller
<1>2. CASE ReconcileJobs
  BY <1>2, DependentSteps, JobWrites DEF ReconcileJobs
<1>3. ASSUME NEW i \in Replicas,
             Launch(i) \/ PodSucceeds(i) \/ \E p \in BOOLEAN : PodFails(i, p)
      PROVE  StepOK
  BY <1>3, PhaseSteps DEF Launch, PodSucceeds, PodFails, Upset, Phases
<1>4. ASSUME NEW i \in Replicas, Evict(i) PROVE StepOK
  <2>1. {} \in States("pod")
    BY StatesAre
  <2>2. Put(Pod(i), {}) /\ Upset /\ UNCHANGED <<controller, wanted>>
    BY <1>4 DEF Evict
  <2> QED
    BY <2>1, <2>2, PodSteps DEF Upset
<1> QED
  BY <1>1, <1>2, <1>3, <1>4, UserSteps, CollectSteps, ControllerSteps DEF Next

-----------------------------------------------------------------------------
(* The invariant.                                                          *)

\* The status that is written leaves the rest of the job alone.
LEMMA WrittenJob ==
  ASSUME TypeOK, NEW w \in work
  PROVE  LET new == [w.updated EXCEPT !.version = @ + 1]
         IN  new \in Jobs /\ new.spec = w.updated.spec /\ new.conditions = w.updated.conditions
<1>1. w.updated \in Jobs
  BY DEF TypeOK
<1>2. w.updated.version + 1 \in Nat
  BY <1>1 DEF Jobs
<1> QED
  BY <1>1, <1>2 DEF Jobs

LEMMA JobInvStep ==
  ASSUME TypeOK, JobInv, WorkInv, JobStep
  PROVE  JobInv'
<1>0. api[Job] \subseteq Jobs
  BY ObjectsAre, StatesAre DEF TypeOK
<1>1. CASE UNCHANGED <<api[Job], wanted>>
  BY <1>1 DEF JobInv
<1>2. CASE api'[Job] = {}
  BY <1>2 DEF JobInv
<1>3. ASSUME NEW job \in api[Job], NEW n \in 1 .. MaxReplicas, wanted' = n,
             api'[Job] = {[job EXCEPT !.spec.replicas = n, !.version = @ + 1]}
      PROVE  JobInv'
  <2> DEFINE new == [job EXCEPT !.spec.replicas = n, !.version = @ + 1]
  <2>1. new.spec.replicas = n
    BY <1>0, ScaledJob
  <2> HIDE DEF new
  <2>2. api'[Job] = {new}
    BY <1>3 DEF new
  <2> QED
    BY <1>3, <2>1, <2>2 DEF JobInv
<1>4. ASSUME NEW job \in api[Job], wanted' = wanted,
             api'[Job] = {[job EXCEPT !.deleting = TRUE, !.version = @ + 1]}
      PROVE  JobInv'
  <2> DEFINE new == [job EXCEPT !.deleting = TRUE, !.version = @ + 1]
  <2>1. new.spec = job.spec
    BY <1>0, DeletedJob
  <2>2. api'[Job] = {new}
    BY <1>4
  <2> HIDE DEF new
  <2> QED
    BY <1>4, <2>1, <2>2 DEF JobInv
<1>5. ASSUME NEW w \in work, api[Job] = {w.job}, wanted' = wanted,
             api'[Job] = {[w.updated EXCEPT !.version = @ + 1]}
      PROVE  JobInv'
  <2> DEFINE new == [w.updated EXCEPT !.version = @ + 1]
  <2>1. new.spec = w.job.spec
    BY WrittenJob DEF WorkInv
  <2>2. w.job.spec.replicas = wanted
    BY <1>5 DEF JobInv
  <2> HIDE DEF new
  <2>3. api'[Job] = {new}
    BY <1>5 DEF new
  <2> QED
    BY <1>5, <2>1, <2>2, <2>3 DEF JobInv
<1> QED
  BY <1>1, <1>2, <1>3, <1>4, <1>5 DEF JobStep

\* Well-formed states stay well formed.
LEMMA ClusterTypeStep ==
  ASSUME TypeOK, ClusterStep
  PROVE  ClusterOK' /\ CacheOK'
<1>0. ClusterOK /\ CacheOK
  BY TypeParts
<1>1. CASE UNCHANGED <<api, watch, cache>>
  BY <1>0, <1>1 DEF ClusterOK, CacheOK
<1>2. ASSUME NEW o \in Objects, NEW state \in States(o[1]), Put(o, state), UNCHANGED cache
      PROVE  ClusterOK' /\ CacheOK'
  BY <1>0, <1>2, PutType DEF CacheOK
<1>3. ASSUME NEW k \in Kinds, Deliver(k)
      PROVE  ClusterOK' /\ CacheOK'
  <2> DEFINE e == Head(watch[k])
  <2>1. /\ watch[k] \in Seq(Objects_(k) \X States(k)) /\ watch[k] # <<>>
        /\ cache' = [cache EXCEPT ![e[1]] = e[2]]
        /\ watch' = [watch EXCEPT ![k] = Tail(@)] /\ UNCHANGED api
    BY <1>0, <1>3 DEF ClusterOK, Deliver
  <2>2. e \in Objects_(k) \X States(k) /\ Tail(watch[k]) \in Seq(Objects_(k) \X States(k))
    BY <2>1
  <2> HIDE DEF e
  <2>3. e[1] \in Objects /\ e[1][1] = k /\ e[2] \in States(k)
    BY <2>2 DEF Objects_
  <2>4. CacheOK'
    BY <1>0, <2>1, <2>3 DEF CacheOK
  <2>5. ClusterOK'
    BY <1>0, <2>1, <2>2 DEF ClusterOK
  <2> QED
    BY <2>4, <2>5
<1>4. CASE Restart
  <2>1. cache' = api /\ watch' = [k \in Kinds |-> <<>>] /\ UNCHANGED api
    BY <1>4 DEF Restart
  <2>2. \A k \in Kinds : watch'[k] \in Seq(Objects_(k) \X States(k))
    BY <2>1
  <2> QED
    BY <1>0, <2>1, <2>2 DEF ClusterOK, CacheOK
<1> QED
  BY <1>1, <1>2, <1>3, <1>4 DEF ClusterStep

\* The reconciliation of a job, as it begins.
Begun(w, job) ==
  \E counted \in Counted(job) :
    w = [job |-> job, updated |-> UpdateJobStatus(job, counted),
         need |-> [o \in Dependents |-> Need(job, o)]]

LEMMA ReconcileBegins ==
  ASSUME Reconcile, NEW w \in work'
  PROVE  \E job \in cache[Job] : ~job.deleting /\ Begun(w, job)
  BY DEF Reconcile, Begun

LEMMA WorkTypeStep ==
  ASSUME TypeOK, WorkStep
  PROVE  WorkOK'
<1>1. CASE work' = {} \/ work' = work
  BY <1>1 DEF TypeOK, WorkOK
<1>2. ASSUME NEW w \in work, NEW o \in Dependents, work' = {[w EXCEPT !.need[o] = "nothing"]}
      PROVE  WorkOK'
  <2>1. w \in [job : Jobs, updated : Jobs, need : [Dependents -> Needs]]
    BY DEF TypeOK
  <2>2. [w.need EXCEPT ![o] = "nothing"] \in [Dependents -> Needs]
    BY <2>1 DEF Needs
  <2> QED
    BY <1>2, <2>1, <2>2 DEF WorkOK
<1>3. CASE Reconcile
  <2>1. cache[Job] \subseteq Jobs
    BY ObjectsAre, StatesAre DEF TypeOK
  <2>2. ASSUME NEW w \in work'
        PROVE  w \in [job : Jobs, updated : Jobs, need : [Dependents -> Needs]]
    <3>0. PICK job \in cache[Job] : Begun(w, job)
      BY <1>3, <2>2, ReconcileBegins
    <3>1. PICK counted \in Counted(job) :
            w = [job |-> job, updated |-> UpdateJobStatus(job, counted),
                 need |-> [o \in Dependents |-> Need(job, o)]]
      BY <3>0 DEF Begun
    <3>2. job \in Jobs /\ UpdateJobStatus(job, counted) \in Jobs
      BY <2>1, StatusIs
    <3>3. \A o \in Dependents : Need(job, o) \in Needs
      BY DEF Need, Needs
    <3> QED
      BY <3>1, <3>2, <3>3
  <2> QED
    BY <2>2 DEF WorkOK
<1> QED
  BY <1>1, <1>2, <1>3 DEF WorkStep

\* A reconciliation changes nothing of the job but its status.
LEMMA WorkInvStep ==
  ASSUME TypeOK, WorkInv, WorkStep
  PROVE  WorkInv'
<1> DEFINE Good(w) ==
      /\ ~w.job.deleting
      /\ w.updated.spec = w.job.spec /\ w.updated.deleting = w.job.deleting
<1>1. \A w \in work : Good(w)
  BY DEF WorkInv
<1> SUFFICES \A w \in work' : Good(w)
  BY DEF WorkInv
<1>2. CASE work' = {} \/ work' = work
  BY <1>1, <1>2
<1>3. ASSUME NEW w \in work, NEW o \in Dependents, work' = {[w EXCEPT !.need[o] = "nothing"]}
      PROVE  \A v \in work' : Good(v)
  <2> DEFINE v == [w EXCEPT !.need[o] = "nothing"]
  <2>1. v.job = w.job /\ v.updated = w.updated
    BY DEF TypeOK
  <2> HIDE DEF v
  <2>2. Good(v)
    BY <1>1, <2>1
  <2>3. work' = {v}
    BY <1>3 DEF v
  <2> QED
    BY <2>2, <2>3
<1>4. CASE Reconcile
  <2>1. cache[Job] \subseteq Jobs
    BY ObjectsAre, StatesAre DEF TypeOK
  <2>2. ASSUME NEW w \in work' PROVE Good(w)
    <3>1. PICK job \in cache[Job] : ~job.deleting /\ Begun(w, job)
      BY <1>4, <2>2, ReconcileBegins
    <3>2. w.job = job /\ w.updated.spec = job.spec /\ w.updated.deleting = job.deleting
      BY <2>1, <3>1, StatusIs DEF Begun
    <3> QED
      BY <3>1, <3>2
  <2> QED
    BY <2>2
<1> QED
  BY <1>2, <1>3, <1>4 DEF WorkStep

\* The invariant holds at the start, when the job is announced.
LEMMA InitInv == Init => Inv
<1> SUFFICES ASSUME Init PROVE Inv
  OBVIOUS
<1>1. PICK spec \in Specs :
        /\ api = [o \in Objects |-> IF o = Job THEN {New(spec)} ELSE {}]
        /\ wanted = spec.replicas
  BY DEF Init
<1>2. spec \in Spec_
  BY SpecsAssumption
<1>3. New(spec) \in Jobs /\ New(spec).spec = spec
  BY <1>2 DEF New, Jobs
<1>4. /\ api[Job] = {New(spec)} /\ DOMAIN api = Objects
      /\ \A o \in Objects : o # Job => api[o] = {}
  BY <1>1, ObjectsAre
<1>5. api[Job] \in States("job") /\ \A o \in Objects : {} \in States(o[1])
  BY <1>3, <1>4, ObjectsAre, StatesAre
<1>6. /\ cache = [o \in Objects |-> {}] /\ work = {} /\ pending = {}
      /\ watch = [k \in Kinds |-> IF k = "job" THEN <<<<Job, api[Job]>>>> ELSE <<>>]
      /\ queued = FALSE /\ upsets = 0
  BY DEF Init
<1>7. ClusterOK
  <2>1. ASSUME NEW o \in Objects PROVE api[o] \in States(o[1])
    <3>1. CASE o = Job
      BY <1>5, <3>1, ObjectsAre
    <3>2. CASE o # Job
      BY <1>4, <1>5, <3>2
    <3> QED
      BY <3>1, <3>2
  <2>2. ASSUME NEW k \in Kinds PROVE watch[k] \in Seq(Objects_(k) \X States(k))
    <3>1. CASE k = "job"
      <4>1. <<Job, api[Job]>> \in Objects_(k) \X States(k)
        BY <1>5, <3>1, ObjectsAre DEF Objects_
      <4> QED
        BY <1>6, <3>1, <4>1
    <3>2. CASE k # "job"
      BY <1>6, <3>2
    <3> QED
      BY <3>1, <3>2
  <2>3. DOMAIN watch = Kinds
    BY <1>6
  <2> QED
    BY <1>4, <2>1, <2>2, <2>3 DEF ClusterOK
<1>8. CacheOK /\ WorkOK
  BY <1>5, <1>6 DEF CacheOK, WorkOK
<1>9. RestOK
  <2>1. queued \in BOOLEAN
    BY <1>6
  <2>2. wanted \in 0 .. MaxReplicas
    BY <1>1, <1>2 DEF Spec_
  <2> QED
    BY <1>6, <2>1, <2>2 DEF RestOK
<1>10. JobInv
  BY <1>1, <1>3, <1>4 DEF JobInv
<1>11. WorkInv
  BY <1>6 DEF WorkInv
<1> QED
  BY <1>7, <1>8, <1>9, <1>10, <1>11, TypeParts DEF Inv

\* Every step preserves the invariant.
LEMMA InvStep == Inv /\ [Next]_vars => Inv'
<1> SUFFICES ASSUME Inv, [Next]_vars PROVE Inv'
  OBVIOUS
<1>1. TypeOK /\ JobInv /\ WorkInv
  BY DEF Inv
<1>2. ClusterStep /\ JobStep /\ WorkStep /\ RestOK'
  BY <1>1, Steps DEF StepOK
<1>3. TypeOK'
  BY <1>1, <1>2, ClusterTypeStep, WorkTypeStep, TypePartsNext
<1>4. JobInv' /\ WorkInv'
  BY <1>1, <1>2, JobInvStep, WorkInvStep
<1> QED
  BY <1>3, <1>4 DEF Inv

-----------------------------------------------------------------------------
(* The theorems.                                                           *)

\* The objects of the API server, the cache and the watches between them are
\* well formed, there is one job of the size the user applied last, and a
\* reconciliation is about to write the job it read with another status.
THEOREM Invariance == Spec => []Inv
  BY InitInv, InvStep, PTL DEF Spec

\* The state of the controller and of the cluster has its type.
THEOREM TypeCorrect == Spec => []TypeOK
<1>1. Inv => TypeOK
  BY DEF Inv
<1> QED
  BY <1>1, Invariance, PTL

\* No status update takes back the number of replicas that a user applied
\* while the reconciliation was under way, for any lag of the cache, any
\* failures of requests and any restarts of the controller.
THEOREM ScaleNeverUndone == Spec => []ScaleKept
<1>1. Inv => ScaleKept
  BY DEF Inv, JobInv, ScaleKept
<1> QED
  BY <1>1, Invariance, PTL

\* A step that writes the job keeps its outcome.
LEMMA OutcomeStep ==
  ASSUME Inv, [Next]_vars, NEW old \in api[Job], NEW new \in api[Job]',
         Outcome(old) # {}
  PROVE  Outcome(new) = Outcome(old)
<1>1. TypeOK /\ JobInv /\ JobStep
  BY Steps DEF Inv, StepOK
<1>2. api[Job] = {old} /\ old \in Jobs
  BY <1>1, ObjectsAre, StatesAre DEF JobInv, TypeOK
<1>3. Finished(old)
  BY DEF Outcome, Finished, IsSucceeded
<1>4. CASE UNCHANGED api[Job] \/ api'[Job] = {}
  BY <1>2, <1>4
<1>5. ASSUME NEW n \in 1 .. MaxReplicas,
             api'[Job] = {[old EXCEPT !.spec.replicas = n, !.version = @ + 1]}
      PROVE  new.conditions = old.conditions
  <2> DEFINE scaled == [old EXCEPT !.spec.replicas = n, !.version = @ + 1]
  <2>1. scaled.conditions = old.conditions
    BY <1>2, ScaledJob
  <2> HIDE DEF scaled
  <2>2. new = scaled
    BY <1>5 DEF scaled
  <2> QED
    BY <2>1, <2>2
<1>6. ASSUME api'[Job] = {[old EXCEPT !.deleting = TRUE, !.version = @ + 1]}
      PROVE  new.conditions = old.conditions
  BY <1>2, <1>6, DeletedJob
<1>7. ASSUME NEW w \in work, api[Job] = {w.job}, ~Finished(w.job) PROVE FALSE
  BY <1>2, <1>3, <1>7
<1>8. ASSUME new.conditions = old.conditions PROVE Outcome(new) = Outcome(old)
  BY <1>8 DEF Outcome
<1>9. ASSUME NEW job \in api[Job] PROVE job = old
  BY <1>2
<1> QED
  BY <1>1, <1>4, <1>5, <1>6, <1>7, <1>8, <1>9 DEF JobStep

\* A job keeps the outcome that was reported, however far the cache lags from
\* which later reconciliations start, and whatever is scaled, fails, restarts
\* or is lost meanwhile.
THEOREM OutcomeStays == Spec => OutcomeKept
<1>1. Inv /\ [Next]_vars =>
        [\A old \in api[Job], new \in api[Job]' :
           Outcome(old) # {} => Outcome(new) = Outcome(old)]_vars
  BY OutcomeStep
<1> QED
  BY <1>1, Invariance, PTL DEF Spec, OutcomeKept
=============================================================================
