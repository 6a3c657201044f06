---------------------------- MODULE LocalWorkers ----------------------------
(***************************************************************************)
(* The worker processes of one agent: LocalElasticAgent                    *)
(* (torchelastic/agent/server/local_elastic_agent.py) on top of the        *)
(* ProcessContext of torch.multiprocessing, a library, of which            *)
(* torchelastic/multiprocessing/spawn.py is a copy with the same control.  *)
(*                                                                         *)
(* The agent starts local_world_size processes, polls them, and stops them *)
(* one after the other; a process returns a value through a queue, raises, *)
(* exits or dies at any moment.  ElasticAgent sees all this as one group   *)
(* that runs, has succeeded or has failed.                                 *)
(***************************************************************************)
EXTENDS Integers, FiniteSets

CONSTANTS
  N,            \* local_world_size
  MaxStarts     \* bound on the number of times the workers are started

ASSUME LocalAssumption ==
  /\ N \in Nat \ {0}
  /\ MaxStarts \in Nat \ {0}

VARIABLES
  pc,           \* where the agent is
  start,        \* how often the workers were started
  proc,         \* what became of each process of each start
  sentinels,    \* ProcessContext.sentinels: processes not yet joined
  failed,       \* error_index, or NoIndex
  next,         \* the process that the agent stops next
  capacity,     \* the return values that the pipe of _ret_val_queue can hold
  qsize,        \* the counter of _ret_val_queue
  pipe,         \* the processes whose return values are in its pipe
  result,       \* the state of the last MonitorResult
  ret_vals      \* the return values of the last MonitorResult

vars == <<pc, start, proc, sentinels, failed, next, capacity, qsize, pipe,
          result, ret_vals>>

Locals  == 0 .. N - 1
Starts  == 1 .. MaxStarts
NoIndex == -1

\* A process is alive in these states: it runs or has put its return value on
\* the queue, and it was sent SIGTERM while it ran or after that.
Alive == {"running", "returning", "terminating", "leaving"}
\* How a process ends: exit code 0 with or without a return value, a trace
\* on its error queue and exit code 1, another exit code, or a signal.
Failure == {"raised", "exited", "signaled"}
Ended   == {"returned", "quit"} \cup Failure

P(i) == proc[<<start, i>>]

-----------------------------------------------------------------------------
Init ==
  /\ pc = "stopped"
  /\ start = 0
  /\ proc = [x \in Starts \X Locals |-> "none"]
  /\ sentinels = {}
  /\ failed = NoIndex
  /\ next = 0
  /\ capacity = 0
  /\ qsize = 0
  /\ pipe = {}
  /\ result = "none"
  /\ ret_vals = {}

\* _start_workers() and start_processes(): a new queue, new processes.  How
\* many values fit into the pipe depends on what the functions will return.
StartWorkers ==
  /\ pc = "stopped"
  /\ start < MaxStarts
  /\ start' = start + 1
  /\ proc' = [x \in Starts \X Locals |->
                IF x[1] = start + 1 THEN "running" ELSE proc[x]]
  /\ sentinels' = Locals
  /\ failed' = NoIndex
  /\ capacity' \in 0 .. N
  /\ qsize' = 0
  /\ pipe' = {}
  /\ pc' = "monitor"
  /\ result' = "none"
  /\ ret_vals' = {}
  /\ UNCHANGED next

-----------------------------------------------------------------------------
(* The worker processes: _wrap() of both files.                            *)

Becomes(i, s) == proc' = [proc EXCEPT ![<<start, i>>] = s]

Untouched ==
  UNCHANGED <<pc, start, sentinels, failed, next, capacity, result, ret_vals>>

\* The function returns: its value goes to the buffer of the queue.  SIGTERM
\* need not keep it from that: the handler of the launcher only passes the
\* signal on, and the script may exit with 0.
PutValue(i) ==
  /\ start > 0
  /\ \/ P(i) = "running" /\ Becomes(i, "returning")
     \/ P(i) = "terminating" /\ Becomes(i, "leaving")
  /\ qsize' = qsize + 1
  /\ UNCHANGED pipe
  /\ Untouched

\* The process ends once its feeder thread has written the value.
ReturnValue(i) ==
  /\ start > 0
  /\ P(i) \in {"returning", "leaving"}
  /\ Cardinality(pipe) < capacity
  /\ Becomes(i, "returned")
  /\ pipe' = pipe \cup {i}
  /\ UNCHANGED qsize
  /\ Untouched

\* The function raises, calls sys.exit(), is interrupted (KeyboardInterrupt
\* is swallowed: exit code 0), or the process dies of a signal.
EndEarly(i) ==
  /\ start > 0
  /\ \/ P(i) = "running" /\ \E s \in {"raised", "exited", "quit"} : Becomes(i, s)
     \/ P(i) \in {"running", "returning"} /\ Becomes(i, "signaled")
  /\ UNCHANGED <<qsize, pipe>>
  /\ Untouched

\* SIGTERM was sent: the process dies of it, exits in a handler, or raises
\* because the script that the launcher passed it on to has died.
DieOfSigterm(i) ==
  /\ start > 0
  /\ \/ P(i) = "terminating" /\ \E s \in Failure \cup {"quit"} : Becomes(i, s)
     \/ P(i) = "leaving" /\ \E s \in {"exited", "signaled"} : Becomes(i, s)
  /\ UNCHANGED <<qsize, pipe>>
  /\ Untouched

-----------------------------------------------------------------------------
(* _monitor_workers() and ProcessContext.join(timeout=-1).                 *)

\* Faulty variant: only processes that ended well are looked at.
ReadyAndWell == {i \in sentinels : P(i) \in {"returned", "quit"}}

Ready == {i \in sentinels : P(i) \in Ended}

\* No process that is ready failed, and some are left.
JoinSome ==
  /\ pc = "monitor"
  /\ \A i \in Ready : P(i) \notin Failure
  /\ sentinels \ Ready # {}
  /\ sentinels' = sentinels \ Ready
  /\ result' = "HEALTHY"
  /\ UNCHANGED <<pc, start, proc, failed, next, capacity, qsize, pipe, ret_vals>>

\* Faulty variant: the return values are not counted.
JoinAllUncounted ==
  /\ pc = "monitor"
  /\ \A i \in Ready : P(i) \notin Failure
  /\ sentinels \ Ready = {}
  /\ sentinels' = {}
  /\ result' = "SUCCEEDED" /\ ret_vals' = pipe /\ pipe' = {} /\ pc' = "finished"
  /\ UNCHANGED <<start, proc, failed, next, capacity, qsize>>

\* All processes have been joined.  The assertion on the number of return
\* values fails when a process ended without one.
JoinAll ==
  /\ pc = "monitor"
  /\ \A i \in Ready : P(i) \notin Failure
  /\ sentinels \ Ready = {}
  /\ sentinels' = {}
  /\ IF qsize = N
       THEN /\ result' = "SUCCEEDED"
            /\ ret_vals' = pipe
            /\ pipe' = {}
            /\ pc' = "finished"
       ELSE /\ result' = "FAILED"
            /\ pc' = "failed"
            /\ UNCHANGED <<pipe, ret_vals>>
  /\ UNCHANGED <<start, proc, failed, next, capacity, qsize>>

\* Faulty variant: the processes that are still alive are left alone.
JoinFailureOnly ==
  /\ pc = "monitor"
  /\ \E i \in Ready, S \in SUBSET Ready :
       /\ P(i) \in Failure
       /\ \A j \in S : P(j) \notin Failure
       /\ sentinels' = sentinels \ (S \cup {i})
       /\ failed' = i
  /\ next' = N
  /\ pc' = "killing"
  /\ UNCHANGED <<start, proc, capacity, qsize, pipe, result, ret_vals>>

\* Processes are joined until one that failed is met; the order in which
\* multiprocessing.connection.wait() lists them is not the order in which
\* they ended.
JoinFailure ==
  /\ pc = "monitor"
  /\ \E i \in Ready, S \in SUBSET Ready :
       /\ P(i) \in Failure
       /\ \A j \in S : P(j) \notin Failure
       /\ sentinels' = sentinels \ (S \cup {i})
       /\ failed' = i
  /\ next' = 0
  /\ pc' = "killing"
  /\ UNCHANGED <<start, proc, capacity, qsize, pipe, result, ret_vals>>

-----------------------------------------------------------------------------
(* Terminating and joining the processes one by one, in join() after a     *)
(* failure and in _stop_workers().                                         *)

Terminate ==
  /\ pc \in {"killing", "stopping"}
  /\ next < N
  /\ P(next) \in {"running", "returning"}
  /\ Becomes(next, IF P(next) = "running" THEN "terminating" ELSE "leaving")
  /\ UNCHANGED <<pc, start, sentinels, failed, next, capacity, qsize, pipe,
                 result, ret_vals>>

\* Faulty variant: only a process that was terminated is joined.
JoinTerminated ==
  /\ pc \in {"killing", "stopping"}
  /\ next < N
  /\ P(next) = "signaled"
  /\ next' = next + 1
  /\ UNCHANGED <<pc, start, proc, sentinels, failed, capacity, qsize, pipe,
                 result, ret_vals>>

\* process.join() waits for the end of the process.
Join ==
  /\ pc \in {"killing", "stopping"}
  /\ next < N
  /\ P(next) \in Ended
  /\ next' = next + 1
  /\ UNCHANGED <<pc, start, proc, sentinels, failed, capacity, qsize, pipe,
                 result, ret_vals>>

\* join() raises WorkerRaisedException, WorkerExitedException or
\* WorkerSignaledException.
RaiseFailure ==
  /\ pc = "killing"
  /\ next = N
  /\ result' = "FAILED"
  /\ pc' = "failed"
  /\ UNCHANGED <<start, proc, sentinels, failed, next, capacity, qsize, pipe,
                 ret_vals>>

\* Faulty variant: the last process is forgotten.
StopAllButLast ==
  /\ pc \in {"monitor", "failed"}
  /\ result \in {"HEALTHY", "FAILED"}
  /\ next' = 1
  /\ pc' = "stopping"
  /\ UNCHANGED <<start, proc, sentinels, failed, capacity, qsize, pipe, result,
                 ret_vals>>

\* The agent restarts its workers after a failure or because a node waits,
\* or gives up.
StopWorkers ==
  /\ pc \in {"monitor", "failed"}
  /\ result \in {"HEALTHY", "FAILED"}
  /\ next' = 0
  /\ pc' = "stopping"
  /\ UNCHANGED <<start, proc, sentinels, failed, capacity, qsize, pipe, result,
                 ret_vals>>

AllStopped ==
  /\ pc = "stopping"
  /\ next = N
  /\ pc' = "stopped"
  /\ UNCHANGED <<start, proc, sentinels, failed, next, capacity, qsize, pipe,
                 result, ret_vals>>

-----------------------------------------------------------------------------
Monitor == JoinSome \/ JoinAll \/ JoinFailure

Agent == StartWorkers \/ Monitor \/ Terminate \/ Join \/ RaiseFailure \/ AllStopped

Process(i) == PutValue(i) \/ ReturnValue(i) \/ EndEarly(i) \/ DieOfSigterm(i)

Next == Agent \/ StopWorkers \/ \E i \in Locals : Process(i)

Spec == Init /\ [][Next]_vars

\* The agent goes on, and a value is written when there is room for it.
\* Nothing makes a function return, or a process heed SIGTERM.
FairSpec ==
  /\ Spec
  /\ WF_vars(Agent)
  /\ \A i \in Locals : WF_vars(ReturnValue(i))

\* A process that was sent SIGTERM does not ignore it forever.
Obedient == \A i \in Locals : WF_vars(DieOfSigterm(i))

-----------------------------------------------------------------------------
TypeOK ==
  /\ pc \in {"stopped", "monitor", "killing", "failed", "stopping", "finished"}
  /\ start \in 0 .. MaxStarts
  /\ proc \in [Starts \X Locals -> {"none"} \cup Alive \cup Ended]
  /\ sentinels \subseteq Locals
  /\ failed \in Locals \cup {NoIndex}
  /\ next \in 0 .. N
  /\ capacity \in 0 .. N
  /\ qsize \in 0 .. N
  /\ pipe \subseteq Locals
  /\ result \in {"none", "HEALTHY", "SUCCEEDED", "FAILED"}
  /\ ret_vals \subseteq Locals

\* A group that is reported as succeeded has a return value of every worker,
\* of this start, although the processes were joined in several polls.
SuccessIsComplete ==
  result = "SUCCEEDED" =>
    ret_vals = Locals /\ \A i \in Locals : P(i) = "returned"

\* A group that is reported as failed has no process left, whether a process
\* failed or one ended without a return value.
FailureIsComplete ==
  pc = "failed" => \A i \in Locals : P(i) \notin Alive

\* No process of an earlier start is alive beside those of the current one,
\* or after the workers were stopped.
NoStrays ==
  \A s \in Starts, i \in Locals :
    proc[<<s, i>>] \in Alive => s = start /\ pc # "stopped"

\* A poll does not overlook anything: it reports a healthy group only if no
\* process has failed and some are alive.
HealthyIsTrue ==
  [][Monitor /\ pc' = "monitor" =>
       /\ \A i \in Locals : P(i) \notin Failure
       /\ \E i \in Locals : P(i) \in Alive]_vars

\* The pipe is full, and the end of a process waits for room in it.
Clogged == Cardinality(pipe) = capacity /\ \E i \in Locals : P(i) = "returning"

\* A group with a failed process is reported as failed or stopped, whatever
\* the others do and also when their values do not fit into the pipe; one
\* whose functions have all returned is settled too, and the pipe is the only
\* thing that can keep it from that.  Stopping takes as long as the processes
\* take to end: join() has no timeout.
Settles ==
  Obedient =>
    /\ pc = "monitor" /\ (\E i \in Locals : P(i) \in Failure)
         ~> pc \in {"failed", "stopped"}
    /\ pc = "monitor" /\ (\A i \in Locals : P(i) \in {"returning", "returned"})
         ~> pc \in {"failed", "finished", "stopped"} \/ Clogged

-----------------------------------------------------------------------------
(* The inductive invariant behind the safety properties.                   *)

\* Processes of other starts are gone or not there yet, and those that were
\* stopped or joined have ended.
ProcessInv ==
  /\ \A s \in Starts, i \in Locals : s # start => proc[<<s, i>>] \notin Alive
  /\ start > 0 => \A i \in Locals :
       /\ P(i) # "none"
       /\ pc \in {"stopped", "failed", "finished"} => P(i) \in Ended
       /\ pc \in {"killing", "stopping"} /\ i < next => P(i) \in Ended
       /\ pc = "monitor" => P(i) \notin {"terminating", "leaving"}
       /\ pc = "monitor" /\ i \notin sentinels => P(i) \in {"returned", "quit"}
  /\ start = 0 => pc = "stopped" /\ qsize = 0

\* The processes that may have put a value on the queue, which counts them.
Contributors ==
  {i \in Locals : P(i) \notin {"running", "terminating", "quit"}}

QueueInv ==
  /\ start > 0 => qsize <= Cardinality(Contributors)
  /\ start > 0 /\ pc # "finished" =>
       pipe = {i \in Locals : P(i) = "returned"}

Inv == TypeOK /\ ProcessInv /\ QueueInv /\ SuccessIsComplete
=============================================================================
