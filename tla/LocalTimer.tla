----------------------------- MODULE LocalTimer -----------------------------
(***************************************************************************)
(* The expiration timers of torchelastic/timer: worker processes wrap code *)
(* that may get stuck in `with expires(after)', which puts an acquire and  *)
(* later a release request on a multiprocessing queue; the watchdog thread *)
(* of LocalTimerServer takes the requests in batches, keeps a table of     *)
(* timers and kills the processes whose timers have expired.               *)
(*                                                                         *)
(* A multiprocessing queue is a buffer in each process, emptied by a       *)
(* thread into one pipe, and a counter that qsize() reads; a process that  *)
(* is killed takes its buffer with it.  A process is its pid.              *)
(***************************************************************************)
EXTENDS Integers, Sequences, FiniteSets

CONSTANTS
  Workers,      \* the worker processes
  Scopes,       \* the scopes of timers
  Durations,    \* the values of `after'
  MaxTime,      \* bound on the clock
  MaxAcquires,  \* bound on the number of blocks entered
  MaxFailures   \* bound on the number of failing kills

ASSUME TimerAssumption ==
  /\ Durations \subseteq Nat
  /\ MaxTime \in Nat
  /\ MaxAcquires \in Nat
  /\ MaxFailures \in Nat

VARIABLES
  now,          \* the clock
  alive,        \* the processes that exist
  blocks,       \* the scopes of the blocks each process is in, innermost last
  buffer,       \* the requests that each process has put and not sent
  pipe,         \* the requests that were sent
  qsize,        \* the counter of the queue
  pc,           \* where the watchdog is
  batch,        \* how many more requests it takes
  taken,        \* the requests it took and did not register
  timers,       \* _timers: expiration times, NoTimer where there is none
  doomed,       \* the processes with expired timers that it has not reaped
  reaped,       \* reaped_worker_ids
  stopped,      \* _stop_signaled
  \* history
  last,         \* the last request of each process for each scope
  received,     \* the last one that the watchdog took off the queue
  acquires, failures

queue    == <<buffer, pipe, qsize>>
watchdog == <<pc, batch, taken, timers, doomed, reaped>>
vars     == <<now, alive, blocks, queue, watchdog, stopped, last, received,
              acquires, failures>>

\* A negative expiration time is a release.
NoTimer == -1

Keys == Workers \X Scopes
Request == [worker : Workers, scope : Scopes, exp : Nat \cup {NoTimer}]

-----------------------------------------------------------------------------
Init ==
  /\ now = 0
  /\ alive = Workers
  /\ blocks = [w \in Workers |-> <<>>]
  /\ buffer = [w \in Workers |-> <<>>]
  /\ pipe = <<>>
  /\ qsize = 0
  /\ pc = "loop"
  /\ batch = 0
  /\ taken = <<>>
  /\ timers = [k \in Keys |-> NoTimer]
  /\ doomed = {}
  /\ reaped = {}
  /\ stopped = FALSE
  /\ last = [k \in Keys |-> NoTimer]
  /\ received = [k \in Keys |-> NoTimer]
  /\ acquires = 0
  /\ failures = 0

-----------------------------------------------------------------------------
(* The workers.                                                            *)

\* LocalTimerClient: put a request on the queue.
Put(w, s, exp) ==
  /\ buffer' = [buffer EXCEPT
       ![w] = Append(@, [worker |-> w, scope |-> s, exp |-> exp])]
  /\ qsize' = qsize + 1
  /\ last' = [last EXCEPT ![<<w, s>>] = exp]
  /\ UNCHANGED pipe

\* expires(): acquire a timer and enter the block.  A scope may be entered
\* again, as a recursive function does.
Enter(w, s, after) ==
  /\ w \in alive
  /\ acquires < MaxAcquires
  /\ now + after <= MaxTime
  /\ acquires' = acquires + 1
  /\ Put(w, s, now + after)
  /\ blocks' = [blocks EXCEPT ![w] = Append(@, s)]
  /\ UNCHANGED <<now, alive, watchdog, stopped, received, failures>>

\* The block ends or raises: the finally clause releases the timer.
Leave(w) ==
  /\ w \in alive
  /\ blocks[w] # <<>>
  /\ Put(w, blocks[w][Len(blocks[w])], NoTimer)
  /\ blocks' = [blocks EXCEPT ![w] = SubSeq(@, 1, Len(@) - 1)]
  /\ UNCHANGED <<now, alive, watchdog, stopped, received, acquires, failures>>

\* The feeder thread of the process writes to the pipe.
Send(w) ==
  /\ buffer[w] # <<>>
  /\ pipe' = Append(pipe, Head(buffer[w]))
  /\ buffer' = [buffer EXCEPT ![w] = Tail(@)]
  /\ UNCHANGED <<now, alive, blocks, qsize, watchdog, stopped, last, received,
                 acquires, failures>>

\* The process is gone, and what it did not send is lost.
Gone(w) ==
  /\ alive' = alive \ {w}
  /\ blocks' = [blocks EXCEPT ![w] = <<>>]
  /\ buffer' = [buffer EXCEPT ![w] = <<>>]

Crash(w) ==
  /\ w \in alive
  /\ Gone(w)
  /\ UNCHANGED <<now, pipe, qsize, watchdog, stopped, last, received, acquires,
                 failures>>

Tick ==
  /\ now < MaxTime
  /\ now' = now + 1
  /\ UNCHANGED <<alive, blocks, queue, watchdog, stopped, last, received,
                 acquires, failures>>

-----------------------------------------------------------------------------
(* _watchdog_loop() and _run_watchdog().                                   *)

WatchdogEnds ==
  /\ pc = "loop"
  /\ stopped
  /\ pc' = "ended"
  /\ UNCHANGED <<now, alive, blocks, queue, batch, taken, timers, doomed,
                 reaped, stopped, last, received, acquires, failures>>

GetSize ==
  /\ pc = "loop"
  /\ ~ stopped
  /\ batch' = IF qsize = 0 THEN 1 ELSE qsize
  /\ pc' = "get"
  /\ UNCHANGED <<now, alive, blocks, queue, taken, timers, doomed, reaped,
                 stopped, last, received, acquires, failures>>

\* MultiprocessingRequestQueue.get(): one more request.
Take ==
  /\ pc = "get"
  /\ pipe # <<>>
  /\ taken' = Append(taken, Head(pipe))
  /\ received' = [received EXCEPT
       ![<<Head(pipe).worker, Head(pipe).scope>>] = Head(pipe).exp]
  /\ pipe' = Tail(pipe)
  /\ qsize' = qsize - 1
  /\ batch' = batch - 1
  /\ pc' = IF batch = 1 THEN "register" ELSE "get"
  /\ UNCHANGED <<now, alive, blocks, buffer, timers, doomed, reaped, stopped,
                 last, acquires, failures>>

\* Nothing came for max_interval, or max_interval is used up after a request.
GetEnds ==
  /\ pc = "get"
  /\ pipe = <<>> \/ taken # <<>>
  /\ pc' = "register"
  /\ UNCHANGED <<now, alive, blocks, queue, batch, taken, timers, doomed,
                 reaped, stopped, last, received, acquires, failures>>

\* Faulty variant: a released timer is left in the table.
RegisteredForGood(t, r) ==
  IF r.exp = NoTimer THEN t ELSE [t EXCEPT ![<<r.worker, r.scope>>] = r.exp]

\* register_timers() on one request: a release removes the timer.
Registered(t, r) == [t EXCEPT ![<<r.worker, r.scope>>] = r.exp]

Register ==
  /\ pc = "register"
  /\ taken # <<>>
  /\ timers' = Registered(timers, Head(taken))
  /\ taken' = Tail(taken)
  /\ UNCHANGED <<now, alive, blocks, queue, pc, batch, doomed, reaped, stopped,
                 last, received, acquires, failures>>

Expired(k) == timers[k] # NoTimer /\ timers[k] <= now

\* Faulty variant: the timers are looked at before the batch is registered.
GetExpiredFirst ==
  /\ pc = "register"
  /\ doomed' = {w \in Workers : \E s \in Scopes : Expired(<<w, s>>)}
  /\ pc' = "reap"
  /\ UNCHANGED <<now, alive, blocks, queue, batch, taken, timers, reaped,
                 stopped, last, received, acquires, failures>>

\* get_expired_timers(now).
GetExpired ==
  /\ pc = "register"
  /\ taken = <<>>
  /\ doomed' = {w \in Workers : \E s \in Scopes : Expired(<<w, s>>)}
  /\ pc' = "reap"
  /\ UNCHANGED <<now, alive, blocks, queue, batch, taken, timers, reaped,
                 stopped, last, received, acquires, failures>>

Kill(w) ==
  /\ pc = "reap"
  /\ w \in doomed \cap alive
  /\ Gone(w)
  /\ doomed' = doomed \ {w}
  /\ reaped' = reaped \cup {w}
  /\ UNCHANGED <<now, pipe, qsize, pc, batch, taken, timers, stopped, last,
                 received, acquires, failures>>

\* Faulty variant: a process that is gone was not reaped.
KillNobodyAgain(w) ==
  /\ pc = "reap"
  /\ w \in doomed \ alive
  /\ doomed' = doomed \ {w}
  /\ UNCHANGED <<now, alive, blocks, queue, pc, batch, taken, timers, reaped,
                 stopped, last, received, acquires, failures>>

\* ProcessLookupError: counts as reaped.
KillNobody(w) ==
  /\ pc = "reap"
  /\ w \in doomed \ alive
  /\ doomed' = doomed \ {w}
  /\ reaped' = reaped \cup {w}
  /\ UNCHANGED <<now, alive, blocks, queue, pc, batch, taken, timers, stopped,
                 last, received, acquires, failures>>

\* Faulty variant: an exception of os.kill() ends the watchdog thread.
KillFailsForGood(w) ==
  /\ pc = "reap"
  /\ w \in doomed \cap alive
  /\ failures < MaxFailures
  /\ failures' = failures + 1
  /\ pc' = "ended"
  /\ UNCHANGED <<now, alive, blocks, queue, batch, taken, timers, doomed,
                 reaped, stopped, last, received, acquires>>

\* Any other exception of os.kill(): tried again by the next pass.
KillFails(w) ==
  /\ pc = "reap"
  /\ w \in doomed \cap alive
  /\ failures < MaxFailures
  /\ failures' = failures + 1
  /\ doomed' = doomed \ {w}
  /\ UNCHANGED <<now, alive, blocks, queue, pc, batch, taken, timers, reaped,
                 stopped, last, received, acquires>>

ClearTimers ==
  /\ pc = "reap"
  /\ doomed = {}
  /\ timers' = [k \in Keys |-> IF k[1] \in reaped THEN NoTimer ELSE timers[k]]
  /\ reaped' = {}
  /\ pc' = "loop"
  /\ UNCHANGED <<now, alive, blocks, queue, batch, taken, doomed, stopped,
                 last, received, acquires, failures>>

\* stop(): the loop ends after the current pass.
Stop ==
  /\ ~ stopped
  /\ stopped' = TRUE
  /\ UNCHANGED <<now, alive, blocks, queue, watchdog, last, received, acquires,
                 failures>>

-----------------------------------------------------------------------------
Watchdog ==
  \/ WatchdogEnds \/ GetSize \/ Take \/ GetEnds \/ Register \/ GetExpired
  \/ \E w \in Workers : Kill(w) \/ KillNobody(w) \/ KillFails(w)
  \/ ClearTimers

Worker(w) ==
  \/ \E s \in Scopes, after \in Durations : Enter(w, s, after)
  \/ Leave(w) \/ Send(w) \/ Crash(w)

Next == Tick \/ Stop \/ Watchdog \/ \E w \in Workers : Worker(w)

Spec == Init /\ [][Next]_vars

\* The watchdog and the feeder threads run, and time passes.
FairSpec ==
  /\ Spec
  /\ WF_vars(Watchdog)
  /\ WF_vars(Tick)
  /\ \A w \in Workers : WF_vars(Send(w))

-----------------------------------------------------------------------------
TypeOK ==
  /\ now \in Nat
  /\ alive \subseteq Workers
  /\ blocks \in [Workers -> Seq(Scopes)]
  /\ buffer \in [Workers -> Seq(Request)]
  /\ pipe \in Seq(Request)
  /\ qsize \in Nat
  /\ pc \in {"loop", "get", "register", "reap", "ended"}
  /\ batch \in Nat
  /\ pc = "get" => batch > 0
  /\ taken \in Seq(Request)
  /\ timers \in [Keys -> Nat \cup {NoTimer}]
  /\ doomed \subseteq Workers
  /\ reaped \subseteq Workers
  /\ stopped \in BOOLEAN
  /\ last \in [Keys -> Nat \cup {NoTimer}]
  /\ received \in [Keys -> Nat \cup {NoTimer}]
  /\ acquires \in Nat
  /\ failures \in Nat

\* What the last request of q about key k says, if there is one.
Latest(q, k, otherwise) ==
  LET I == {i \in DOMAIN q : <<q[i].worker, q[i].scope>> = k}
  IN  IF I = {} THEN otherwise ELSE q[CHOOSE i \in I : \A j \in I : j <= i].exp

\* What the table will say of key k when every request has arrived.
Outcome(k) == Latest(buffer[k[1]], k, Latest(pipe, k, Latest(taken, k, timers[k])))

\* The table follows the workers: through buffers, pipe and batches no
\* request of a live worker is lost, doubled or overtaken.
InStep == \A k \in Keys : k[1] \in alive => Outcome(k) = last[k]

\* Every kill is on a timer that expired, and never on one whose release the
\* server has taken off the queue, wherever in a batch it was: the last request
\* about some scope of the process that the server received asks for it.
ReleaseHeeded ==
  [][\A w \in alive : Kill(w) =>
       \E s \in Scopes : received[<<w, s>>] \in 0 .. now]_vars

\* A worker that is stuck in a block after its timer expired is killed, as
\* long as the server is not stopped, even if killing it fails at first.
StuckReaped ==
  \A w \in Workers, s \in Scopes :
    (w \in alive /\ last[<<w, s>>] \in 0 .. now)
      ~> (w \notin alive \/ last[<<w, s>>] \notin 0 .. now \/ stopped)

\* The timers of processes that are gone do not stay in the table, from where
\* they could kill a process with the same pid: neither those that were there
\* nor those whose requests arrive after their process.
DeadForgotten ==
  <>[](stopped \/ \A k \in Keys : k[1] \notin alive => timers[k] = NoTimer)

-----------------------------------------------------------------------------
(* The inductive invariant behind InStep and ReleaseHeeded.                *)

\* A process puts requests about its own timers only.
OwnInv == \A w \in Workers : \A i \in DOMAIN buffer[w] : buffer[w][i].worker = w

\* The places of the requests that were not sent.
Unsent == UNION {{w} \X DOMAIN buffer[w] : w \in Workers}

\* The counter of the queue covers every request that is left; it keeps
\* counting those that were lost with their process.
SizeInv == IsFiniteSet(Unsent) /\ Len(pipe) + Cardinality(Unsent) <= qsize

\* What was received is in the table or about to be.
ReceivedInv ==
  \A k \in Keys : k[1] \in alive => Latest(taken, k, timers[k]) = received[k]

\* What is reaped is gone, and what is to be reaped has an expired timer in
\* the table, to which every request that was received was registered.
ReapInv ==
  /\ reaped \cap alive = {}
  /\ pc = "reap" =>
       /\ taken = <<>>
       /\ \A w \in doomed : \E s \in Scopes : timers[<<w, s>>] \in 0 .. now

Inv == TypeOK /\ OwnInv /\ SizeInv /\ ReapInv /\ InStep /\ ReceivedInv
=============================================================================
