--------------------------- MODULE LocalScheduler ---------------------------
(***************************************************************************)
(* The local scheduler of TSM and the standalone sessions in front of it:  *)
(* torchelastic/tsm/driver/local_scheduler.py, standalone_session.py and   *)
(* the types and base classes of api.py.                                   *)
(*                                                                         *)
(* One thread makes the calls, one after the other; the processes of the   *)
(* applications end meanwhile, at any step of a call.  A call that raises  *)
(* before it has changed anything is a stuttering step and has no action:  *)
(* the input validation, an attached application in run(), an id unknown   *)
(* to the session, and a full cache.                                       *)
(***************************************************************************)
EXTENDS Integers, Sequences, FiniteSets, Functions

CONSTANTS
  Apps,        \* the Application objects of the user
  Sessions,    \* the sessions that share the scheduler
  CacheSize,   \* cache_size
  MaxId,       \* bound: the largest suffix of an application id
  Nothing      \* the call of an idle thread

\* Container: an image that can be fetched or not, require() called or not.
Container == [image : BOOLEAN, resources : BOOLEAN]
NullContainer == [image |-> FALSE, resources |-> FALSE]

\* Role: runs() gives the entrypoint, on() the container, replicas() the
\* number of replicas.
Role == [entrypoint : BOOLEAN, container : Container, num_replicas : Int]
Application == [name : STRING, roles : Seq(Role)]

ASSUME AppsAssumption ==
  /\ Apps \subseteq Application
  /\ CacheSize \in Nat \ {0}
  /\ MaxId \in Nat

Names == {a.name : a \in Apps}
Ids == Names \X (0 .. MaxId)

HEADLESS == "HEADLESS"
MANAGED == "MANAGED"
RunMode == {HEADLESS, MANAGED}
AppState == {"PENDING", "RUNNING", "SUCCEEDED", "FAILED", "CANCELLED"}

Gone == [op |-> "gone"]

\* What the thread may be doing, with the locals of the call.
Calls ==
  [op : {"submit"}, s : Sessions, id : Ids, app : Apps, mode : RunMode,
   role : Nat, replica : Nat]
  \cup [op : {"wait"}, s : Sessions, id : Ids]
  \cup [op : {"list"}, s : Sessions, todo : SUBSET Ids]
  \cup [op : {"schedulerwait", "timedwait", "cancel", "kill"}, id : Ids]
  \cup [op : {"del"}, todo : SUBSET Ids]
  \cup {Gone}

ASSUME NothingAssumption == Nothing \notin Calls

VARIABLES
  ids,         \* _ids: the last suffix used for each name
  cache,       \* _apps of the scheduler: the ids in the order of the dict
  app,         \* the _LocalApplication of each id: its state and run mode
  procs,       \* every process started for an id, known or not
  sess,        \* _apps of each session: the ids it ran or attached
  call,        \* the call under way and how far it is
  rejected     \* history: the ids whose submission raised

vars == <<ids, cache, app, procs, sess, call, rejected>>
scheduler == <<ids, cache, app, procs, rejected>>

Alive(i) == \E p \in Range(procs[i]) : p.run = "alive"
Idle == call = Nothing
Doing(op) == call # Nothing /\ call.op = op

\* The terminal states of an application.
is_terminal(state) == state \in {"SUCCEEDED", "FAILED", "CANCELLED"}

New == [state |-> "PENDING", mode |-> MANAGED]

Init ==
  /\ ids = [n \in Names |-> -1]
  /\ cache = <<>>
  /\ app = [i \in Ids |-> New]
  /\ procs = [i \in Ids |-> <<>>]
  /\ sess = [s \in Sessions |-> {}]
  /\ call = Nothing
  /\ rejected = {}

-----------------------------------------------------------------------------
(* run()                                                                   *)

\* The input validation of Session.run().
Invalid(a) ==
  \/ a.roles = <<>>
  \/ \E r \in DOMAIN a.roles :
       \/ ~a.roles[r].entrypoint
       \/ a.roles[r].num_replicas <= 0
       \/ a.roles[r].container = NullContainer
       \/ ~a.roles[r].container.resources

Finished == {j \in DOMAIN cache : is_terminal(app[cache[j]].state)}

\* _evict_lru(): lru_time stays sys.maxsize, so that every finished
\* application passes the comparison and the last of the dict is evicted.
EvictLru ==
  LET lru == CHOOSE j \in Finished : \A k \in Finished : k <= j
  IN  SubSeq(cache, 1, lru - 1) \o SubSeq(cache, lru + 1, Len(cache))

\* Faulty variant: the name is removed from _ids with its evicted
\* application, as the comment in __init__() suggests.
NextIdForgotten(a) == IF Len(cache) = CacheSize THEN 0 ELSE ids[a.name] + 1

\* The suffix of the next application of that name.
NextId(a) == ids[a.name] + 1

\* run() of a session up to the first Popen of submit().  A full cache has
\* to hold an application that is known to have finished.
Run(s, a, mode) ==
  /\ Idle
  /\ ~Invalid(a)
  /\ Len(cache) = CacheSize => Finished # {}
  /\ NextId(a) <= MaxId
  /\ cache' = IF Len(cache) = CacheSize THEN EvictLru ELSE cache
  /\ app' = [i \in Ids |-> IF i \in Range(cache') THEN app[i] ELSE New]
  /\ ids' = [ids EXCEPT ![a.name] = NextId(a)]
  /\ call' = [op |-> "submit", s |-> s, id |-> <<a.name, NextId(a)>>, app |-> a,
              mode |-> mode, role |-> 1, replica |-> 0]
  /\ UNCHANGED <<procs, sess, rejected>>

\* The role that submit() is at.
CallRole == call.app.roles[call.role]
Submitting == Doing("submit")

\* Popen() of one replica, with the macros of its arguments substituted.
StartReplica ==
  /\ Submitting /\ call.role <= Len(call.app.roles)
  /\ CallRole.container.image
  /\ procs' = [procs EXCEPT ![call.id] =
                 Append(@, [role |-> call.role, replica_id |-> call.replica,
                            run |-> "alive"])]
  /\ IF call.replica + 1 < CallRole.num_replicas
       THEN call' = [call EXCEPT !.replica = @ + 1]
       ELSE call' = [call EXCEPT !.replica = 0, !.role = @ + 1]
  /\ UNCHANGED <<ids, cache, app, sess, rejected>>

\* fetch() or Popen() raises: what was started goes on, known to nobody.
StartFails ==
  /\ Submitting /\ call.role <= Len(call.app.roles)
  /\ call' = Nothing
  /\ rejected' = rejected \cup {call.id}
  /\ UNCHANGED <<ids, cache, app, procs, sess>>

\* The end of submit() and of _run().
Register ==
  /\ Submitting /\ call.role > Len(call.app.roles)
  /\ cache' = Append(cache, call.id)
  /\ app' = [app EXCEPT ![call.id] = [New EXCEPT !.mode = call.mode]]
  /\ sess' = [sess EXCEPT ![call.s] = @ \cup {call.id}]
  /\ call' = Nothing
  /\ UNCHANGED <<ids, procs, rejected>>

-----------------------------------------------------------------------------
(* describe() and the calls made of it                                     *)

\* Faulty variant: the application counts as ended when a process has.
DescribedByAny(i) ==
  LET now == {p.run : p \in Range(procs[i])}
  IN  IF is_terminal(app[i].state) THEN app[i].state
      ELSE IF now = {"alive"} THEN "RUNNING"
      ELSE IF "err" \in now THEN "FAILED"
      ELSE "SUCCEEDED"

\* describe(): the state of an application, remembered once it is terminal.
\* With a process running it is RUNNING whatever failed, so that there is
\* nobody left when _terminate() is called for danglers.
Described(i) ==
  LET now == {p.run : p \in Range(procs[i])}
  IN  IF is_terminal(app[i].state) THEN app[i].state
      ELSE IF "alive" \in now THEN "RUNNING"
      ELSE IF "err" \in now THEN "FAILED"
      ELSE "SUCCEEDED"

Known(i) == i \in Range(cache)

Describe(i) ==
  app' = IF Known(i) THEN [app EXCEPT ![i].state = Described(i)] ELSE app

\* status() of a session: drops an application the scheduler does not know.
StatusOf(s, i) ==
  /\ Describe(i)
  /\ sess' = IF Known(i) THEN sess ELSE [sess EXCEPT ![s] = @ \ {i}]
  /\ UNCHANGED <<ids, cache, procs, rejected>>

\* status() returns a terminal state, or None.
Over(i) == ~Known(i) \/ is_terminal(Described(i))

\* The call ends if x, and goes on as c otherwise.
EndsOr(x, c) == call' = IF x THEN Nothing ELSE c

Status(s, i) ==
  /\ Idle /\ i \in sess[s]
  /\ StatusOf(s, i)
  /\ UNCHANGED call

\* stop(): cancels what is not terminal, and returns otherwise.
Stop(s, i) ==
  /\ Idle /\ i \in sess[s]
  /\ StatusOf(s, i)
  /\ EndsOr(Over(i), [op |-> "cancel", id |-> i])

\* wait() and list() of a session: status() in a loop.
Wait(s, i) ==
  /\ Idle /\ i \in sess[s]
  /\ call' = [op |-> "wait", s |-> s, id |-> i]
  /\ UNCHANGED <<scheduler, sess>>

\* Faulty variant: wait() ends on SUCCEEDED only.
WaitLoopForSuccess ==
  /\ Doing("wait")
  /\ StatusOf(call.s, call.id)
  /\ EndsOr(~Known(call.id) \/ Described(call.id) = "SUCCEEDED", call)

WaitLoop ==
  /\ Doing("wait")
  /\ StatusOf(call.s, call.id)
  /\ EndsOr(Over(call.id), call)

List(s) ==
  /\ Idle
  /\ call' = [op |-> "list", s |-> s, todo |-> sess[s]]
  /\ UNCHANGED <<scheduler, sess>>

ListLoop ==
  /\ Doing("list")
  /\ \/ \E i \in call.todo :
          /\ StatusOf(call.s, i)
          /\ call' = [call EXCEPT !.todo = @ \ {i}]
     \/ /\ call.todo = {}
        /\ call' = Nothing
        /\ UNCHANGED <<scheduler, sess>>

\* attach(): also of an id that the scheduler does not know.
Attach(s, i) ==
  /\ Idle
  /\ sess' = [sess EXCEPT ![s] = @ \cup {i}]
  /\ UNCHANGED <<scheduler, call>>

\* wait() of the scheduler itself, without a timeout or with one.
SchedulerWait(i) ==
  /\ Idle
  /\ \E op \in {"schedulerwait", "timedwait"} : call' = [op |-> op, id |-> i]
  /\ UNCHANGED <<scheduler, sess>>

SchedulerWaitLoop ==
  /\ Doing("schedulerwait")
  /\ Describe(call.id)
  /\ EndsOr(Over(call.id), call)
  /\ UNCHANGED <<ids, cache, procs, sess, rejected>>

\* With a timeout the expiry is the time of the call, not that time plus the
\* timeout: the loop ends before its first describe() and TimeoutError is
\* raised, also for an application that has finished or is unknown.
TimedWaitLoop ==
  /\ Doing("timedwait")
  /\ call' = Nothing
  /\ UNCHANGED <<scheduler, sess>>

-----------------------------------------------------------------------------
(* cancel() and the end of the scheduler                                   *)

Cancel(i) ==
  /\ Idle
  /\ call' = [op |-> "cancel", id |-> i]
  /\ UNCHANGED <<scheduler, sess>>

\* exists() describes the application, which may have ended by now; it is
\* cancelled all the same, and its SUCCEEDED or FAILED becomes CANCELLED.
CancelExists ==
  /\ Doing("cancel")
  /\ Describe(call.id)
  /\ EndsOr(~Known(call.id), [op |-> "kill", id |-> call.id])
  /\ UNCHANGED <<ids, cache, procs, sess, rejected>>

\* Faulty variant: the state is set and the processes are left alone.
CancelLabel(i) ==
  /\ app' = [app EXCEPT ![i].state = "CANCELLED"]
  /\ UNCHANGED <<ids, cache, procs, sess, rejected>>

\* _cancel_existing(): terminate() and wait() for each process, which ends
\* with the code of its choice.
CancelExisting(i) ==
  /\ \E end \in [DOMAIN procs[i] -> {"ok", "err"}] :
       procs' = [procs EXCEPT ![i] =
         [k \in DOMAIN procs[i] |->
            IF procs[i][k].run = "alive"
              THEN [procs[i][k] EXCEPT !.run = end[k]] ELSE procs[i][k]]]
  /\ app' = [app EXCEPT ![i].state = "CANCELLED"]
  /\ UNCHANGED <<ids, cache, sess, rejected>>

Kill ==
  /\ Doing("kill")
  /\ CancelExisting(call.id)
  /\ call' = Nothing

\* __del__(): every MANAGED application is cancelled.
Delete ==
  /\ Idle
  /\ call' = [op |-> "del",
              todo |-> {i \in Range(cache) : app[i].mode = MANAGED}]
  /\ UNCHANGED <<scheduler, sess>>

DeleteLoop ==
  /\ Doing("del")
  /\ \/ \E i \in call.todo :
          /\ CancelExisting(i)
          /\ call' = [call EXCEPT !.todo = @ \ {i}]
     \/ /\ call.todo = {}
        /\ call' = Gone
        /\ UNCHANGED <<scheduler, sess>>

-----------------------------------------------------------------------------
\* A process ends by itself.
ProcessEnds(i, k, how) ==
  /\ procs[i][k].run = "alive"
  /\ procs' = [procs EXCEPT ![i][k].run = how]
  /\ UNCHANGED <<ids, cache, app, sess, call, rejected>>

\* A new call of the user.
Call ==
  \/ \E s \in Sessions :
       \/ \E a \in Apps, m \in RunMode : Run(s, a, m)
       \/ \E i \in Ids : Status(s, i) \/ Stop(s, i) \/ Wait(s, i) \/ Attach(s, i)
       \/ List(s)
  \/ \E i \in Ids : Cancel(i) \/ SchedulerWait(i)
  \/ Delete

\* The call under way goes on.  Kill and DeleteLoop wait for processes, which
\* need not end on SIGTERM.
Continue ==
  \/ StartReplica \/ StartFails \/ Register
  \/ WaitLoop \/ ListLoop \/ SchedulerWaitLoop \/ TimedWaitLoop \/ CancelExists
Killing == Kill \/ DeleteLoop

Ends == \E i \in Ids : \E k \in DOMAIN procs[i] :
          \E how \in {"ok", "err"} : ProcessEnds(i, k, how)

Next == Call \/ Continue \/ Killing \/ Ends

Spec == Init /\ [][Next]_vars

\* The thread that makes the calls runs.
FairSpec == Spec /\ WF_vars(Continue)

-----------------------------------------------------------------------------
(* What the scheduler promises.                                            *)

\* A state that describe() remembers is true as long as it is remembered: a
\* terminal application has no process left, SUCCEEDED means that all of them
\* returned 0 and FAILED that one did not, however they ended between two
\* polls.  Nothing is said of how an application that is CANCELLED ended.
Settled ==
  \A i \in Range(cache) :
    LET ends == {p.run : p \in Range(procs[i])}
    IN  /\ is_terminal(app[i].state) => "alive" \notin ends
        /\ app[i].state = "SUCCEEDED" => ends = {"ok"}
        /\ app[i].state = "FAILED" => "err" \in ends

\* No process is lost: a living process belongs to an application that can
\* be cancelled, to the submission under way, or to one that raised.  Once
\* the scheduler is gone only HEADLESS applications and those rests live.
NoStrays ==
  \A i \in Ids : Alive(i) =>
    \/ i \in rejected
    \/ Submitting /\ call.id = i
    \/ Known(i) /\ (call = Gone => app[i].mode = HEADLESS)

\* A wait() of the session, or of the scheduler without a timeout, for an
\* application whose processes have all ended returns, also when it failed,
\* was cancelled or is unknown.  (One with a timeout never looks.)
WaitReturns ==
  []<>~(/\ call # Nothing
        /\ call.op \in {"wait", "schedulerwait"}
        /\ ~Alive(call.id))

\* The scheduler implements the life of an application: no id comes back, no
\* running application is forgotten, and one that has ended does not live
\* again.
KnownAs(i) ==
  IF Known(i)
    THEN IF is_terminal(app[i].state) THEN "ended" ELSE "live"
    ELSE IF i[2] > ids[i[1]] \/ (Submitting /\ call.id = i)
           THEN "unsubmitted" ELSE "gone"

Lifecycle == INSTANCE AppLifecycle
               WITH Ids <- Ids, status <- [i \in Ids |-> KnownAs(i)]

AppPromise == Lifecycle!Spec

-----------------------------------------------------------------------------
(* The inductive invariant behind the safety properties.                   *)

Process == [role : Nat, replica_id : Nat, run : {"alive", "ok", "err"}]

TypeOK ==
  /\ ids \in [Names -> -1 .. MaxId]
  /\ cache \in Seq(Ids)
  /\ app \in [Ids -> [state : AppState, mode : RunMode]]
  /\ procs \in [Ids -> Seq(Process)]
  /\ sess \in [Sessions -> SUBSET Ids]
  /\ call \in Calls \cup {Nothing}
  /\ rejected \subseteq Ids

\* An application in the cache has used up its id and has processes.
CacheInv ==
  \A i \in Range(cache) : i[2] <= ids[i[1]] /\ procs[i] # <<>>

\* submit() has the newest id of the name, which is in no cache, and has
\* started a process once it is past the first replica of the first role.
SubmitInv ==
  Submitting =>
    /\ ~Invalid(call.app)
    /\ call.id = <<call.app.name, ids[call.app.name]>>
    /\ ~Known(call.id)
    /\ call.role # 0
    /\ call.role # 1 \/ call.replica # 0 => procs[call.id] # <<>>

\* __del__() has yet to come to what lives and is MANAGED.
DeleteInv ==
  Doing("del") =>
    \A i \in Range(cache) : app[i].mode = MANAGED /\ Alive(i) => i \in call.todo

\* The cache never holds more than cache_size applications, the one that is
\* being submitted included.
CacheBound ==
  /\ Len(cache) <= CacheSize
  /\ Submitting => Len(cache) < CacheSize

Inv ==
  /\ TypeOK /\ CacheInv /\ SubmitInv /\ DeleteInv /\ CacheBound
  /\ Settled /\ NoStrays
=============================================================================
