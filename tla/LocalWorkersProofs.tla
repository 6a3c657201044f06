------------------------- MODULE LocalWorkersProofs -------------------------
(***************************************************************************)
(* Proofs about LocalWorkers, for every number of workers and of starts.   *)
(***************************************************************************)
EXTENDS LocalWorkers, FiniteSetTheorems, TLAPS

States == {"none"} \cup Alive \cup Ended

LEMMA LocalsFinite == IsFiniteSet(Locals) /\ Cardinality(Locals) = N
BY LocalAssumption, FS_Interval DEF Locals

\* The processes that put a value on the queue are at most N.
LEMMA ContributorsFinite ==
  ASSUME NEW S, S \subseteq Locals
  PROVE  /\ IsFiniteSet(S)
         /\ Cardinality(S) \in 0 .. N
         /\ Cardinality(S) = N => S = Locals
<1>1. IsFiniteSet(S) /\ Cardinality(S) <= N /\ (Cardinality(S) = N => S = Locals)
  BY LocalsFinite, FS_Subset
<1>2. Cardinality(S) \in Nat
  BY <1>1, FS_CardinalityType
<1> QED
  BY <1>1, <1>2, LocalAssumption

\* Fewer contributors before than after make a smaller bound.
LEMMA ContributorsGrow ==
  ASSUME NEW S, NEW T, S \subseteq T, T \subseteq Locals
  PROVE  Cardinality(S) <= Cardinality(T)
BY ContributorsFinite, FS_Subset

\* One contributor more.
LEMMA ContributorsAdd ==
  ASSUME NEW S, NEW T, NEW x, S \cup {x} \subseteq T, x \notin S, T \subseteq Locals
  PROVE  Cardinality(S) + 1 <= Cardinality(T)
<1>1. S \subseteq Locals /\ S \cup {x} \subseteq Locals
  OBVIOUS
<1>2. IsFiniteSet(S) /\ Cardinality(S) \in Nat
  BY <1>1, ContributorsFinite
<1>3. Cardinality(S \cup {x}) = Cardinality(S) + 1
  BY <1>2, FS_AddElement
<1> QED
  BY <1>3, ContributorsGrow

-----------------------------------------------------------------------------
(* Steps of the processes.                                                 *)

\* One process of the current start changes its state, and no other.
LEMMA BecomesFacts ==
  ASSUME TypeOK, start > 0, NEW i \in Locals, NEW s \in States, Becomes(i, s),
         start' = start
  PROVE  /\ proc' \in [Starts \X Locals -> States]
         /\ \A t \in Starts, j \in Locals :
              t # start => proc'[<<t, j>>] = proc[<<t, j>>]
         /\ \A j \in Locals : j # i => P(j)' = P(j)
         /\ P(i)' = s
         /\ start \in Starts
<1>1. start \in Starts
  BY LocalAssumption DEF TypeOK, Starts
<1>2. proc \in [Starts \X Locals -> States]
  BY DEF TypeOK, States
<1> QED
  BY <1>1, <1>2 DEF Becomes, P

\* A live process ends, without a value on the queue or with one that was
\* counted before.
LEMMA InvEnds ==
  ASSUME Inv, start > 0, NEW i \in Locals, NEW s \in Ended, Becomes(i, s),
         P(i) \in Alive, s = "quit" => P(i) \in {"running", "terminating"},
         s = "returned" => pipe' = pipe \cup {i},
         s # "returned" => pipe' = pipe,
         qsize' = qsize, Untouched
  PROVE  Inv'
<1>0. TypeOK /\ ProcessInv /\ QueueInv /\ SuccessIsComplete
  BY DEF Inv
<1>u. UNCHANGED <<pc, start, sentinels, failed, next, capacity, result, ret_vals>>
  BY DEF Untouched
<1>s. s \in States /\ s \notin Alive /\ s # "none"
  BY DEF States, Ended, Failure, Alive
<1>f. /\ proc' \in [Starts \X Locals -> States]
      /\ \A t \in Starts, j \in Locals : t # start => proc'[<<t, j>>] = proc[<<t, j>>]
      /\ \A j \in Locals : j # i => P(j)' = P(j)
      /\ P(i)' = s
  BY <1>0, <1>s, <1>u, BecomesFacts
<1>1. TypeOK'
  BY <1>0, <1>u, <1>f DEF TypeOK, States
<1>2. ProcessInv'
  <2>1. \A t \in Starts, j \in Locals : t # start => proc'[<<t, j>>] \notin Alive
    BY <1>0, <1>f DEF ProcessInv
  <2>2. P(i)' \in Ended /\ P(i)' # "none" /\ P(i)' \notin {"terminating", "leaving"}
    BY <1>f, <1>s DEF Alive
  <2>3. pc = "monitor" /\ i \notin sentinels => P(i) \in {"returned", "quit"}
    BY <1>0 DEF ProcessInv
  <2>4. pc = "monitor" => i \in sentinels
    BY <2>3 DEF Alive
  <2> QED
    BY <1>0, <1>u, <1>f, <2>1, <2>2, <2>4 DEF ProcessInv
<1>3. QueueInv'
  <2>1. Contributors \subseteq Contributors'
    BY <1>f, <1>u DEF Contributors, Alive, Ended, Failure
  <2>2. Contributors' \subseteq Locals
    BY DEF Contributors, Locals
  <2>3. Cardinality(Contributors) <= Cardinality(Contributors')
    BY <2>1, <2>2, ContributorsGrow
  <2>4. /\ Cardinality(Contributors) \in Nat
        /\ Cardinality(Contributors') \in Nat
    BY <2>2, ContributorsFinite DEF Contributors
  <2>5. qsize' <= Cardinality(Contributors)'
    BY <1>0, <2>3, <2>4 DEF QueueInv, TypeOK
  <2>6. start' > 0 /\ pc' # "finished" =>
          pipe' = {j \in Locals : P(j)' = "returned"}
    BY <1>0, <1>u, <1>f DEF QueueInv, Alive
  <2> QED
    BY <2>5, <2>6 DEF QueueInv, Locals
<1>4. SuccessIsComplete'
  <2>1. result # "SUCCEEDED"
    BY <1>0 DEF SuccessIsComplete, Alive
  <2> QED
    BY <2>1, <1>u DEF SuccessIsComplete
<1> QED
  BY <1>1, <1>2, <1>3, <1>4 DEF Inv
\* A function returns: the process was no contributor and becomes one.
LEMMA InvPutValue ==
  ASSUME Inv, NEW i \in Locals, PutValue(i)
  PROVE  Inv'
<1>0. TypeOK /\ ProcessInv /\ QueueInv /\ SuccessIsComplete
  BY DEF Inv
<1>u. /\ UNCHANGED <<pc, start, sentinels, failed, next, capacity, pipe, result, ret_vals>>
      /\ start > 0 /\ qsize' = qsize + 1
  BY DEF PutValue, Untouched
<1>w. PICK s \in {"returning", "leaving"} :
        /\ Becomes(i, s)
        /\ P(i) = IF s = "returning" THEN "running" ELSE "terminating"
  BY DEF PutValue
<1>f. /\ proc' \in [Starts \X Locals -> States]
      /\ \A t \in Starts, j \in Locals : t # start => proc'[<<t, j>>] = proc[<<t, j>>]
      /\ \A j \in Locals : j # i => P(j)' = P(j)
      /\ P(i)' = s
  <2>1. s \in States
    BY DEF States, Alive
  <2> QED
    BY <1>0, <1>u, <1>w, <2>1, BecomesFacts
<1>c. qsize + 1 <= Cardinality(Contributors') /\ Cardinality(Contributors') \in 0 .. N
  <2>1. Contributors \cup {i} \subseteq Contributors'
    BY <1>f, <1>u, <1>w DEF Contributors
  <2>2. i \notin Contributors /\ Contributors' \subseteq Locals
    BY <1>w DEF Contributors, Locals
  <2>3. Cardinality(Contributors) + 1 <= Cardinality(Contributors')
    BY <2>1, <2>2, ContributorsAdd
  <2>4. /\ Cardinality(Contributors) \in Nat
        /\ Cardinality(Contributors') \in 0 .. N
    BY <2>2, LocalAssumption, ContributorsFinite DEF Contributors
  <2>5. qsize <= Cardinality(Contributors) /\ qsize \in Int
    BY <1>0, <1>u DEF QueueInv, TypeOK
  <2> QED
    BY <2>3, <2>4, <2>5
<1>1. TypeOK'
  <2>1. qsize' \in 0 .. N
    BY <1>0, <1>u, <1>c, LocalAssumption DEF TypeOK
  <2> QED
    BY <1>0, <1>u, <1>f, <2>1 DEF TypeOK, States
<1>2. ProcessInv'
  <2>1. \A t \in Starts, j \in Locals : t # start => proc'[<<t, j>>] \notin Alive
    BY <1>0, <1>f DEF ProcessInv
  <2>2. /\ pc \notin {"stopped", "failed", "finished"}
        /\ ~ (pc \in {"killing", "stopping"} /\ i < next)
        /\ pc = "monitor" => i \in sentinels /\ s = "returning"
    BY <1>0, <1>u, <1>w DEF ProcessInv, Ended, Failure
  <2> QED
    BY <1>0, <1>u, <1>f, <2>1, <2>2 DEF ProcessInv
<1>3. QueueInv'
  BY <1>0, <1>u, <1>w, <1>f, <1>c DEF QueueInv, Locals
<1>4. SuccessIsComplete'
  BY <1>0, <1>u, <1>w DEF SuccessIsComplete
<1> QED
  BY <1>1, <1>2, <1>3, <1>4 DEF Inv

\* SIGTERM is sent to the process that is stopped next.
LEMMA InvTerminate ==
  ASSUME Inv, Terminate
  PROVE  Inv'
<1>0. TypeOK /\ ProcessInv /\ QueueInv /\ SuccessIsComplete
  BY DEF Inv
<1>u. /\ UNCHANGED <<pc, start, sentinels, failed, next, capacity, qsize, pipe, result,
                     ret_vals>>
      /\ pc \in {"killing", "stopping"}
      /\ P(next) \in {"running", "returning"}
  BY DEF Terminate
<1>w. PICK s \in {"terminating", "leaving"} :
        /\ Becomes(next, s)
        /\ P(next) = IF s = "terminating" THEN "running" ELSE "returning"
  BY <1>u DEF Terminate
<1>n. next \in Locals /\ start > 0
  BY <1>0, LocalAssumption DEF Terminate, TypeOK, Locals, ProcessInv
<1>f. /\ proc' \in [Starts \X Locals -> States]
      /\ \A t \in Starts, j \in Locals : t # start => proc'[<<t, j>>] = proc[<<t, j>>]
      /\ \A j \in Locals : j # next => P(j)' = P(j)
      /\ P(next)' = s
  <2>1. s \in States
    BY DEF States, Alive
  <2> QED
    BY <1>0, <1>u, <1>w, <1>n, <2>1, BecomesFacts
<1>1. TypeOK'
  BY <1>0, <1>u, <1>f DEF TypeOK, States
<1>2. ProcessInv'
  <2>1. \A t \in Starts, j \in Locals : t # start => proc'[<<t, j>>] \notin Alive
    BY <1>0, <1>f DEF ProcessInv
  <2>2. ~ (next < next)
    BY <1>0 DEF TypeOK
  <2> QED
    BY <1>0, <1>u, <1>n, <1>f, <2>1, <2>2 DEF ProcessInv
<1>3. QueueInv'
  <2>1. Contributors \subseteq Contributors'
    BY <1>f, <1>u, <1>w DEF Contributors
  <2>2. Contributors' \subseteq Locals
    BY DEF Contributors, Locals
  <2>3. /\ Cardinality(Contributors) <= Cardinality(Contributors')
        /\ Cardinality(Contributors) \in Nat
        /\ Cardinality(Contributors') \in Nat
    BY <2>1, <2>2, ContributorsGrow, ContributorsFinite DEF Contributors
  <2>4. qsize' <= Cardinality(Contributors)'
    BY <1>0, <1>u, <1>n, <2>3 DEF QueueInv, TypeOK
  <2> QED
    BY <1>0, <1>u, <1>n, <1>f, <2>4 DEF QueueInv, Locals
<1>4. SuccessIsComplete'
  BY <1>0, <1>u, <1>n DEF SuccessIsComplete
<1> QED
  BY <1>1, <1>2, <1>3, <1>4 DEF Inv

-----------------------------------------------------------------------------
(* Steps of the agent.                                                     *)

\* The processes of the previous start have ended before there is a new one.
LEMMA InvStartWorkers ==
  ASSUME Inv, StartWorkers
  PROVE  Inv'
<1>0. TypeOK /\ ProcessInv
  BY DEF Inv
<1>u. /\ start' = start + 1 /\ start' \in Starts /\ start \in Nat
      /\ pc = "stopped" /\ pc' = "monitor" /\ result' = "none" /\ ret_vals' = {}
      /\ qsize' = 0 /\ pipe' = {} /\ sentinels' = Locals /\ failed' = NoIndex
      /\ next' = next
  BY <1>0, LocalAssumption DEF StartWorkers, TypeOK, Starts
<1>f. /\ proc' \in [Starts \X Locals -> States]
      /\ \A t \in Starts, j \in Locals :
           proc'[<<t, j>>] = IF t = start' THEN "running" ELSE proc[<<t, j>>]
  <2>1. proc \in [Starts \X Locals -> States] /\ "running" \in States
    BY <1>0 DEF TypeOK, States, Alive
  <2>2. proc' = [x \in Starts \X Locals |->
                   IF x[1] = start' THEN "running" ELSE proc[x]]
    BY <1>u DEF StartWorkers
  <2> QED
    BY <2>1, <2>2
<1>p. \A j \in Locals : P(j)' = "running"
  BY <1>u, <1>f DEF P
<1>1. TypeOK'
  <2>1. qsize' \in 0 .. N /\ start' \in 0 .. MaxStarts /\ capacity' \in 0 .. N
    BY <1>u, LocalAssumption DEF StartWorkers, Starts
  <2> QED
    BY <1>0, <1>u, <1>f, <2>1 DEF TypeOK, States
<1>2. ProcessInv'
  <2>1. ASSUME NEW t \in Starts, NEW j \in Locals, t # start'
        PROVE  proc'[<<t, j>>] \notin Alive
    <3>1. proc'[<<t, j>>] = proc[<<t, j>>]
      BY <1>f, <2>1
    <3>2. CASE t = start
      <4>1. start > 0
        BY <3>2 DEF Starts
      <4>2. P(j) \in Ended
        BY <1>0, <1>u, <4>1 DEF ProcessInv
      <4> QED
        BY <3>1, <3>2, <4>2 DEF P, Ended, Failure, Alive
    <3>3. CASE t # start
      BY <1>0, <3>1, <3>3 DEF ProcessInv
    <3> QED
      BY <3>2, <3>3
  <2>2. start' > 0
    BY <1>u
  <2> QED
    BY <1>u, <1>p, <2>1, <2>2 DEF ProcessInv
<1>3. QueueInv'
  <2>1. Contributors' \subseteq Locals
    BY DEF Contributors, Locals
  <2>2. 0 <= Cardinality(Contributors')
    BY <2>1, ContributorsFinite, LocalAssumption
  <2> QED
    BY <1>u, <1>p, <2>2 DEF QueueInv, Locals
<1>4. SuccessIsComplete'
  BY <1>u DEF SuccessIsComplete
<1> QED
  BY <1>1, <1>2, <1>3, <1>4 DEF Inv

\* When the processes that are ready are the last, and none failed, all have
\* ended with code 0; if the queue counted N values, all have returned.
LEMMA InvJoinAll ==
  ASSUME Inv, JoinAll
  PROVE  Inv'
<1>0. TypeOK /\ ProcessInv /\ QueueInv /\ SuccessIsComplete
  BY DEF Inv
<1>u. /\ UNCHANGED <<start, proc, failed, next, capacity, qsize>>
      /\ pc = "monitor" /\ start > 0 /\ sentinels' = {}
  BY <1>0, LocalAssumption DEF JoinAll, ProcessInv, TypeOK
<1>e. \A i \in Locals : P(i) \in {"returned", "quit"}
  <2>1. \A i \in sentinels : P(i) \in Ended /\ P(i) \notin Failure
    BY DEF JoinAll, Ready
  <2> QED
    BY <1>0, <1>u, <2>1 DEF ProcessInv, Ended
<1>c. qsize = N => pipe = Locals /\ \A i \in Locals : P(i) = "returned"
  <2>1. Contributors \subseteq Locals
    BY DEF Contributors, Locals
  <2>2. qsize <= Cardinality(Contributors)
    BY <1>0, <1>u DEF QueueInv
  <2>3. Cardinality(Contributors) \in 0 .. N
    BY <2>1, ContributorsFinite
  <2>4. qsize = N => Cardinality(Contributors) = N
    BY <2>2, <2>3, LocalAssumption
  <2>5. qsize = N => Contributors = Locals
    BY <2>1, <2>4, ContributorsFinite
  <2>6. qsize = N => \A i \in Locals : P(i) = "returned"
    BY <1>e, <2>5 DEF Contributors, Locals
  <2>7. pipe = {i \in Locals : P(i) = "returned"}
    BY <1>0, <1>u DEF QueueInv
  <2> QED
    BY <2>6, <2>7
<1>p. \A i \in Locals : P(i)' = P(i)
  BY <1>u DEF P
<1>1. TypeOK'
  BY <1>0, <1>u DEF JoinAll, TypeOK
<1>2. ProcessInv'
  BY <1>0, <1>u, <1>e, <1>p DEF JoinAll, ProcessInv, Ended
<1>3. QueueInv'
  <2>1. Contributors' = Contributors
    BY <1>p DEF Contributors, Locals
  <2> QED
    BY <1>0, <1>u, <1>p, <2>1 DEF JoinAll, QueueInv, Locals
<1>4. SuccessIsComplete'
  BY <1>u, <1>c, <1>p DEF JoinAll, SuccessIsComplete, Locals
<1> QED
  BY <1>1, <1>2, <1>3, <1>4 DEF Inv

\* Steps that leave the processes and their values alone.
LEMMA InvStatic ==
  ASSUME Inv, UNCHANGED <<start, proc, qsize, pipe, ret_vals>>,
         TypeOK', ProcessInv', result' = "SUCCEEDED" => result = "SUCCEEDED",
         pc = "finished" => pc' = "finished"
  PROVE  Inv'
<1>0. TypeOK /\ ProcessInv /\ QueueInv /\ SuccessIsComplete
  BY DEF Inv
<1>p. \A i \in Locals : P(i)' = P(i)
  BY DEF P
<1>1. QueueInv'
  <2>1. Contributors' = Contributors
    BY <1>p DEF Contributors, Locals
  <2> QED
    BY <1>0, <1>p, <2>1 DEF QueueInv, Locals
<1>2. SuccessIsComplete'
  BY <1>0, <1>p DEF SuccessIsComplete, Locals
<1> QED
  BY <1>1, <1>2 DEF Inv

\* A poll that reports a healthy group, or meets a failure.
LEMMA InvPoll ==
  ASSUME Inv, JoinSome \/ JoinFailure
  PROVE  Inv'
<1>0. TypeOK /\ ProcessInv
  BY DEF Inv
<1>u. /\ UNCHANGED <<start, proc, qsize, pipe, ret_vals>>
      /\ pc = "monitor" /\ start > 0
  BY <1>0, LocalAssumption DEF JoinSome, JoinFailure, ProcessInv, TypeOK
<1>p. \A i \in Locals : P(i)' = P(i)
  BY <1>u DEF P
<1>1. CASE JoinSome
  <2>1. \A i \in sentinels \ sentinels' : P(i) \in {"returned", "quit"}
    BY <1>1 DEF JoinSome, Ready, Ended
  <2>2. TypeOK'
    BY <1>0, <1>1 DEF JoinSome, TypeOK
  <2>3. ProcessInv'
    BY <1>0, <1>1, <1>u, <1>p, <2>1 DEF JoinSome, ProcessInv
  <2> QED
    BY <1>1, <1>u, <2>2, <2>3, InvStatic DEF JoinSome
<1>2. CASE JoinFailure
  <2>1. TypeOK'
    <3>1. 0 \in 0 .. N
      BY LocalAssumption
    <3>2. failed' \in Locals /\ sentinels' \subseteq Locals
      BY <1>0, <1>2 DEF JoinFailure, Ready, TypeOK
    <3> QED
      BY <1>0, <1>2, <3>1, <3>2 DEF JoinFailure, TypeOK
  <2>2. ProcessInv'
    <3>1. \A i \in Locals : ~ (i < next') /\ pc' = "killing"
      BY <1>2, LocalAssumption DEF JoinFailure, Locals
    <3> QED
      BY <1>0, <1>2, <1>u, <1>p, <3>1 DEF JoinFailure, ProcessInv
  <2> QED
    BY <1>2, <1>u, <2>1, <2>2, InvStatic DEF JoinFailure
<1> QED
  BY <1>1, <1>2

\* The processes are joined one after the other, and after the last one all
\* have ended.
LEMMA InvStopping ==
  ASSUME Inv, Join \/ RaiseFailure \/ StopWorkers \/ AllStopped
  PROVE  Inv'
<1>0. TypeOK /\ ProcessInv
  BY DEF Inv
<1>u. /\ UNCHANGED <<start, proc, sentinels, qsize, pipe, ret_vals>>
      /\ start > 0
  BY <1>0, LocalAssumption
     DEF Join, RaiseFailure, StopWorkers, AllStopped, ProcessInv, TypeOK
<1>p. \A i \in Locals : P(i)' = P(i)
  BY <1>u DEF P
<1>1. CASE Join
  <2>1. TypeOK'
    BY <1>0, <1>1, LocalAssumption DEF Join, TypeOK
  <2>2. \A i \in Locals : i < next' => i < next \/ i = next
    BY <1>0, <1>1, LocalAssumption DEF Join, TypeOK, Locals
  <2>3. ProcessInv'
    BY <1>0, <1>1, <1>u, <1>p, <2>2 DEF Join, ProcessInv
  <2> QED
    BY <1>1, <1>u, <2>1, <2>3, InvStatic DEF Join
<1>2. CASE RaiseFailure \/ AllStopped
  <2>1. \A i \in Locals : P(i) \in Ended
    <3>1. \A i \in Locals : i < next
      BY <1>2, LocalAssumption DEF RaiseFailure, AllStopped, Locals
    <3> QED
      BY <1>0, <1>2, <1>u, <3>1 DEF RaiseFailure, AllStopped, ProcessInv
  <2>2. TypeOK'
    BY <1>0, <1>2 DEF RaiseFailure, AllStopped, TypeOK
  <2>3. ProcessInv'
    BY <1>0, <1>2, <1>u, <1>p, <2>1 DEF RaiseFailure, AllStopped, ProcessInv
  <2> QED
    BY <1>2, <1>u, <2>2, <2>3, InvStatic DEF RaiseFailure, AllStopped
<1>3. CASE StopWorkers
  <2>1. TypeOK'
    <3>1. 0 \in 0 .. N
      BY LocalAssumption
    <3> QED
      BY <1>0, <1>3, <3>1 DEF StopWorkers, TypeOK
  <2>2. \A i \in Locals : ~ (i < next')
    BY <1>3, LocalAssumption DEF StopWorkers, Locals
  <2>3. ProcessInv'
    BY <1>0, <1>3, <1>u, <1>p, <2>2 DEF StopWorkers, ProcessInv
  <2> QED
    BY <1>3, <1>u, <2>1, <2>3, InvStatic DEF StopWorkers
<1> QED
  BY <1>1, <1>2, <1>3

-----------------------------------------------------------------------------
(* The theorems.                                                           *)

LEMMA InvInit ==
  ASSUME Init
  PROVE  Inv
<1>1. TypeOK
  BY LocalAssumption DEF Init, TypeOK
<1>2. ProcessInv
  <2>1. \A s \in Starts, i \in Locals : proc[<<s, i>>] = "none"
    BY DEF Init
  <2> QED
    BY <2>1, LocalAssumption DEF Init, ProcessInv, Alive
<1>3. QueueInv /\ SuccessIsComplete
  BY DEF Init, QueueInv, SuccessIsComplete
<1> QED
  BY <1>1, <1>2, <1>3 DEF Inv

\* Every step of a process and of the agent keeps the invariant.
LEMMA InvNext ==
  ASSUME Inv, [Next]_vars
  PROVE  Inv'
<1>1. ASSUME NEW i \in Locals, Process(i)
      PROVE  Inv'
  <2>1. CASE PutValue(i)
    BY <2>1, InvPutValue
  <2>2. CASE ReturnValue(i)
    <3>1. "returned" \in Ended /\ P(i) \in Alive
      BY <2>2 DEF ReturnValue, Ended, Alive
    <3> QED
      BY <2>2, <3>1, InvEnds DEF ReturnValue
  <2>3. CASE EndEarly(i)
    <3>1. PICK s \in Ended : /\ s # "returned" /\ Becomes(i, s)
                             /\ s = "quit" => P(i) = "running"
                             /\ P(i) \in Alive
      BY <2>3 DEF EndEarly, Ended, Failure, Alive
    <3> QED
      BY <2>3, <3>1, InvEnds DEF EndEarly
  <2>4. CASE DieOfSigterm(i)
    <3>1. PICK s \in Ended : /\ s # "returned" /\ Becomes(i, s)
                             /\ s = "quit" => P(i) = "terminating"
                             /\ P(i) \in Alive
      BY <2>4 DEF DieOfSigterm, Ended, Failure, Alive
    <3> QED
      BY <2>4, <3>1, InvEnds DEF DieOfSigterm
  <2> QED
    BY <1>1, <2>1, <2>2, <2>3, <2>4 DEF Process
<1>2. CASE Agent \/ StopWorkers
  BY <1>2, InvStartWorkers, InvPoll, InvJoinAll, InvTerminate, InvStopping
     DEF Agent, Monitor
<1>3. CASE UNCHANGED vars
  <2>1. TypeOK /\ ProcessInv
    BY DEF Inv
  <2>2. TypeOK' /\ ProcessInv'
    BY <1>3, <2>1 DEF vars, TypeOK, ProcessInv, P
  <2> QED
    BY <1>3, <2>2, InvStatic DEF vars
<1> QED
  BY <1>1, <1>2, <1>3 DEF Next

\* The invariant holds for any number of workers, starts and return values
\* in the pipe.
THEOREM LocalInvariant == Spec => []Inv
BY InvInit, InvNext, PTL DEF Spec

\* The counter of the queue never passes local_world_size: no value of an
\* earlier start is counted.
THEOREM LocalTypeCorrect == Spec => []TypeOK
<1>1. Inv => TypeOK
  BY DEF Inv
<1> QED
  BY <1>1, LocalInvariant, PTL

\* A group that _monitor_workers() reports as succeeded has a return value of
\* every worker.
THEOREM SuccessComplete == Spec => []SuccessIsComplete
<1>1. Inv => SuccessIsComplete
  BY DEF Inv
<1> QED
  BY <1>1, LocalInvariant, PTL

\* A group that is reported as failed has no process left.
THEOREM FailureComplete == Spec => []FailureIsComplete
<1>1. Inv => FailureIsComplete
  <2> SUFFICES ASSUME Inv, pc = "failed", NEW i \in Locals
               PROVE  P(i) \notin Alive
    BY DEF FailureIsComplete
  <2>1. start > 0
    BY LocalAssumption DEF Inv, ProcessInv, TypeOK
  <2>2. P(i) \in Ended
    BY <2>1 DEF Inv, ProcessInv
  <2> QED
    BY <2>2 DEF Ended, Failure, Alive
<1> QED
  BY <1>1, LocalInvariant, PTL

\* No process outlives a stop of the workers.
THEOREM NoStrayProcess == Spec => []NoStrays
<1>1. Inv => NoStrays
  <2> SUFFICES ASSUME Inv, NEW s \in Starts, NEW i \in Locals,
                      proc[<<s, i>>] \in Alive
               PROVE  s = start /\ pc # "stopped"
    BY DEF NoStrays
  <2>1. s = start
    BY DEF Inv, ProcessInv
  <2>2. start > 0
    BY <2>1 DEF Starts
  <2>3. pc = "stopped" => P(i) \in Ended
    BY <2>2 DEF Inv, ProcessInv
  <2> QED
    BY <2>1, <2>3 DEF P, Ended, Failure, Alive
<1> QED
  BY <1>1, LocalInvariant, PTL

\* A poll that reports a healthy group has overlooked no failure.
THEOREM PollIsTrue == Spec => HealthyIsTrue
<1>1. ASSUME Inv, Monitor, pc' = "monitor"
      PROVE  /\ \A i \in Locals : P(i) \notin Failure
             /\ \E i \in Locals : P(i) \in Alive
  <2>1. JoinSome
    BY <1>1 DEF Monitor, JoinAll, JoinFailure
  <2>2. start > 0 /\ pc = "monitor" /\ sentinels \subseteq Locals
    BY <1>1, <2>1, LocalAssumption DEF JoinSome, Inv, ProcessInv, TypeOK
  <2>3. \A i \in Locals : i \notin sentinels => P(i) \in {"returned", "quit"}
    BY <1>1, <2>2 DEF Inv, ProcessInv
  <2>4. \A i \in sentinels : P(i) \notin Failure
    BY <2>1 DEF JoinSome, Ready, Ended
  <2>5. PICK i \in sentinels : P(i) \notin Ended
    BY <2>1 DEF JoinSome, Ready
  <2>6. P(i) \in Alive
    <3>1. start \in Starts /\ i \in Locals
      BY <1>1, <2>2 DEF Inv, TypeOK, Starts
    <3>2. P(i) \in {"none"} \cup Alive \cup Ended
      BY <1>1, <3>1 DEF Inv, TypeOK, P
    <3>3. P(i) # "none"
      BY <1>1, <2>2, <3>1 DEF Inv, ProcessInv
    <3> QED
      BY <2>5, <3>2, <3>3
  <2> QED
    BY <2>2, <2>3, <2>4, <2>6 DEF Failure
<1>2. Inv /\ [Next]_vars => [Monitor /\ pc' = "monitor" =>
                               /\ \A i \in Locals : P(i) \notin Failure
                               /\ \E i \in Locals : P(i) \in Alive]_vars
  BY <1>1
<1> QED
  BY <1>2, LocalInvariant, PTL DEF Spec, HealthyIsTrue

=============================================================================
