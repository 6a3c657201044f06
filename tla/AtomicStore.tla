---------------------------- MODULE AtomicStore ----------------------------
(***************************************************************************)
(* What the agents of one group may assume of the c10d Store they share:   *)
(* every write takes effect at one instant, add() loses no increment,      *)
(* get(), wait() and check() succeed only when every key they name is      *)
(* there, and fail only when a key was missing at some instant of the call.*)
(* Without faults a write takes effect exactly once.  A fault is a request *)
(* of the call that fails or whose reply is lost: the call raises, after   *)
(* its effect or without, or it takes effect once more.                    *)
(* Module EtcdStore implements it.                                         *)
(***************************************************************************)
EXTENDS Integers, Sequences

CONSTANTS
  Clients,     \* the processes that share the store
  Requests,    \* the calls they may make
  NoCall,      \* a client between two calls
  MaxCalls,    \* bound on the number of calls
  MaxFaults    \* bound on the number of faults

VARIABLES
  kv,          \* the pairs of the store, a function on the keys it has
  call,        \* the call each client is in
  result,      \* the answer to each client's last call
  missed,      \* a key of the call was found missing during the call
  calls,       \* number of calls so far
  faults       \* number of faults so far

storeVars == <<kv, call, result, missed, calls, faults>>

-----------------------------------------------------------------------------
(* Requests and answers.                                                   *)

Writes == {r \in Requests : r.op \in {"set", "add"}}
Reads  == {r \in Requests : r.op \in {"get", "wait", "check"}}

\* The keys a read names.
Wanted(r) == {r.keys[i] : i \in 1 .. Len(r.keys)}

Put(f, k, v) == [x \in DOMAIN f \cup {k} |-> IF x = k THEN v ELSE f[x]]

\* A key that does not exist counts as 0.
Sum(f, r) == r.num + IF r.key \in DOMAIN f THEN f[r.key] ELSE 0

\* The value a write leaves under its key.
NewValue(f, r) == IF r.op = "set" THEN r.num ELSE Sum(f, r)

\* How a call ends: with an answer, or with one of two exceptions; check()
\* returns False for the first of them.
Answer(v) == [end |-> "answer", val |-> v]
LookupError == [end |-> "LookupError", val |-> 0]
EtcdException == [end |-> "EtcdException", val |-> 0]

\* get() gives the value, the other reads none.
Found(f, r) == Answer(IF r.op = "get" THEN f[r.keys[1]] ELSE 0)

-----------------------------------------------------------------------------
Init ==
  /\ kv = [k \in {} |-> 0]
  /\ call = [c \in Clients |-> NoCall]
  /\ result = [c \in Clients |-> Answer(0)]
  /\ missed = [c \in Clients |-> FALSE]
  /\ calls = 0
  /\ faults = 0

Invoke(c, r) ==
  /\ call[c] = NoCall
  /\ calls < MaxCalls
  /\ calls' = calls + 1
  /\ call' = [call EXCEPT ![c] = r]
  /\ missed' = [missed EXCEPT ![c] = FALSE]
  /\ UNCHANGED <<kv, result, faults>>

\* The call of client c ends with answer v.
Return(c, v) ==
  /\ call' = [call EXCEPT ![c] = NoCall]
  /\ result' = [result EXCEPT ![c] = v]
  /\ UNCHANGED <<missed, calls>>

\* The write of client c takes effect.
Effect(c) ==
  /\ call[c] \in Writes
  /\ kv' = Put(kv, call[c].key, NewValue(kv, call[c]))

Set(c) ==
  /\ Effect(c)
  /\ call[c].op = "set"
  /\ Return(c, Answer(0))
  /\ UNCHANGED faults

Add(c) ==
  /\ Effect(c)
  /\ call[c].op = "add"
  /\ Return(c, Answer(NewValue(kv, call[c])))
  /\ UNCHANGED faults

Succeed(c) ==
  /\ call[c] \in Reads
  /\ Wanted(call[c]) \subseteq DOMAIN kv
  /\ Return(c, Found(kv, call[c]))
  /\ UNCHANGED <<kv, faults>>

Miss(c) ==
  /\ call[c] \in Reads
  /\ ~ Wanted(call[c]) \subseteq DOMAIN kv
  /\ missed' = [missed EXCEPT ![c] = TRUE]
  /\ UNCHANGED <<kv, call, result, calls, faults>>

Fail(c) ==
  /\ call[c] \in Reads
  /\ missed[c]
  /\ Return(c, LookupError)
  /\ UNCHANGED <<kv, faults>>

Fault == faults < MaxFaults /\ faults' = faults + 1

\* The write takes effect and is not over: it will take effect once more.
Repeat(c) ==
  /\ Fault
  /\ Effect(c)
  /\ UNCHANGED <<call, result, missed, calls>>

\* The call raises, and nobody knows whether it took effect.
Raise(c) ==
  /\ call[c] \in Requests
  /\ Fault
  /\ Effect(c) \/ UNCHANGED kv
  /\ Return(c, EtcdException)

Next ==
  \E c \in Clients :
    \/ \E r \in Requests : Invoke(c, r)
    \/ Set(c) \/ Add(c) \/ Succeed(c) \/ Miss(c) \/ Fail(c)
    \/ Repeat(c) \/ Raise(c)

Spec == Init /\ [][Next]_storeVars
=============================================================================
