----------------------------- MODULE EtcdStore -----------------------------
(***************************************************************************)
(* EtcdStore of torchelastic/rendezvous/etcd_rendezvous.py: the c10d Store *)
(* that the agents and workers of one rendezvous version share, kept in a  *)
(* directory of etcd.  One action is one request to etcd.  The client is   *)
(* that of the rendezvous: a request may fail, its reply may be lost, and  *)
(* with several etcd servers (allow_reconnect) it is sent again.           *)
(*                                                                         *)
(* Keys and values are not encoded here: base64 is a bijection, and both   *)
(* sides of a comparison are encoded.  Values are integers, as add() needs *)
(* them.  The index counts the writes below the directory, which is all a  *)
(* watch of the directory can tell apart.                                  *)
(***************************************************************************)
EXTENDS Integers, Sequences, FiniteSets

CONSTANTS
  Clients,     \* the processes that share the store
  Keys,        \* the keys they use
  Requests,    \* the calls they may make
  NoCall,      \* a client between two calls
  MaxCalls,    \* bound on the number of calls
  MaxFaults    \* bound on the number of requests that go wrong

VARIABLES
  kv,          \* the nodes of the directory, a function on its keys
  index,       \* the etcd index: the number of writes so far
  call,        \* the call each client is in
  pc,          \* the request each client makes next
  seen,        \* the value add() read
  from,        \* the index a watch starts at
  result,      \* the answer to each client's last call
  missed,      \* history: a key of the call was missing when it looked
  calls,       \* number of calls so far
  faults       \* number of requests that went wrong so far

vars == <<kv, index, call, pc, seen, from, result, missed, calls, faults>>

\* The store the clients may assume.
Store == INSTANCE AtomicStore

\* A read names at least one key, and get() exactly one.
ASSUME RequestsAssumption ==
  /\ NoCall \notin Requests
  /\ MaxCalls \in Nat /\ MaxFaults \in Nat
  /\ \A r \in Requests :
       \/ r \in [op : {"set", "add"}, key : Keys, num : Int]
       \/ /\ r \in [op : {"get", "wait", "check"}, keys : Seq(Keys)]
          /\ Len(r.keys) >= 1
          /\ r.op = "get" => Len(r.keys) = 1

-----------------------------------------------------------------------------
Init ==
  /\ kv = [k \in {} |-> 0]
  /\ index = 0
  /\ call = [c \in Clients |-> NoCall]
  /\ pc = [c \in Clients |-> "idle"]
  /\ seen = [c \in Clients |-> 0]
  /\ from = [c \in Clients |-> 0]
  /\ result = [c \in Clients |-> Store!Answer(0)]
  /\ missed = [c \in Clients |-> FALSE]
  /\ calls = 0
  /\ faults = 0

\* The first request of each method.
Entry(r) == CASE r.op = "set" -> "set"
              [] r.op = "add" -> "create"
              [] OTHER        -> "scan"

Invoke(c, r) ==
  /\ pc[c] = "idle"
  /\ Store!Invoke(c, r)
  /\ pc' = [pc EXCEPT ![c] = Entry(r)]
  /\ UNCHANGED <<index, seen, from>>

\* The method returns or raises: its local variables are gone.
Return(c, v) ==
  /\ call' = [call EXCEPT ![c] = NoCall]
  /\ pc' = [pc EXCEPT ![c] = "idle"]
  /\ seen' = [seen EXCEPT ![c] = 0]
  /\ from' = [from EXCEPT ![c] = 0]
  /\ result' = [result EXCEPT ![c] = v]
  /\ UNCHANGED <<missed, calls>>

\* The method goes on with request l.
GoTo(c, l) ==
  /\ pc' = [pc EXCEPT ![c] = l]
  /\ UNCHANGED <<call, result, calls, faults>>

\* etcd stores v under k.
Write(k, v) ==
  /\ kv' = Store!Put(kv, k, v)
  /\ index' = index + 1

-----------------------------------------------------------------------------
SetWrite(c) ==
  /\ pc[c] = "set"
  /\ Write(call[c].key, call[c].num)
  /\ Return(c, Store!Answer(0))
  /\ UNCHANGED faults

\* add() first tries to create the key with 0 + num.
AddCreate(c) ==
  /\ pc[c] = "create"
  /\ \/ /\ call[c].key \notin DOMAIN kv
        /\ Write(call[c].key, call[c].num)
        /\ Return(c, Store!Answer(call[c].num))
        /\ UNCHANGED faults
     \/ /\ call[c].key \in DOMAIN kv
        /\ GoTo(c, "read")
        /\ UNCHANGED <<kv, index, seen, from, missed>>

AddRead(c) ==
  /\ pc[c] = "read"
  /\ GoTo(c, "swap")
  /\ seen' = [seen EXCEPT ![c] = kv[call[c].key]]
  /\ UNCHANGED <<kv, index, from, missed>>

\* Faulty variant: a plain write of the incremented value.
AddWrite(c) ==
  /\ pc[c] = "swap"
  /\ Write(call[c].key, seen[c] + call[c].num)
  /\ Return(c, Store!Answer(seen[c] + call[c].num))
  /\ UNCHANGED faults

\* test_and_set() compares the value.
AddSwap(c) ==
  /\ pc[c] = "swap"
  /\ \/ /\ kv[call[c].key] = seen[c]
        /\ Write(call[c].key, seen[c] + call[c].num)
        /\ Return(c, Store!Answer(seen[c] + call[c].num))
        /\ UNCHANGED faults
     \/ /\ kv[call[c].key] # seen[c]
        /\ GoTo(c, "read")
        /\ UNCHANGED <<kv, index, seen, from, missed>>

-----------------------------------------------------------------------------
(* _try_wait_get().                                                        *)

\* The nodes of the directory that were asked for are as many as the keys
\* in the list.
AllAvailable(r) ==
  Cardinality(Store!Wanted(r) \cap DOMAIN kv) = Len(r.keys)

\* Faulty variant: the watch starts one event too late.
WatchTooLate == index + 2

\* The watch sees every write after the scan, those before it starts too.
WatchIndex == index + 1

Scan(c) ==
  /\ pc[c] = "scan"
  /\ \/ /\ AllAvailable(call[c])
        /\ Return(c, Store!Found(kv, call[c]))
        /\ UNCHANGED faults
     \/ /\ ~ AllAvailable(call[c])
        /\ GoTo(c, "watch")
        /\ from' = [from EXCEPT ![c] = WatchIndex]
        /\ missed' = [missed EXCEPT
             ![c] = @ \/ ~ Store!Wanted(call[c]) \subseteq DOMAIN kv]
        /\ UNCHANGED seen
  /\ UNCHANGED <<kv, index>>

\* Faulty variant: the watch waits for the event of its own index only.
WakeExactly(c) ==
  /\ pc[c] = "watch"
  /\ index = from[c]
  /\ GoTo(c, "scan")
  /\ UNCHANGED <<kv, index, seen, from, missed>>

\* An event at or after the index the watch starts at.
Wake(c) ==
  /\ pc[c] = "watch"
  /\ index >= from[c]
  /\ GoTo(c, "scan")
  /\ UNCHANGED <<kv, index, seen, from, missed>>

\* EtcdEventIndexCleared, or EtcdWatchTimedOut before the deadline.
WakeForNothing(c) ==
  /\ pc[c] = "watch"
  /\ index < from[c]
  /\ GoTo(c, "scan")
  /\ UNCHANGED <<kv, index, seen, from, missed>>

\* Faulty variant: the deadline may pass before the store was looked at.
ExpireEarly(c) ==
  /\ pc[c] \in {"scan", "watch"}
  /\ Return(c, Store!LookupError)
  /\ UNCHANGED <<kv, index, faults>>

\* The deadline has passed, after a scan or during the watch: get() and
\* wait() raise LookupError, check() returns False.
Expire(c) ==
  /\ pc[c] = "watch"
  /\ Return(c, Store!LookupError)
  /\ UNCHANGED <<kv, index, faults>>

-----------------------------------------------------------------------------
(* Requests that go wrong.                                                 *)

Fault == faults < MaxFaults /\ faults' = faults + 1

\* etcd executes the write that client c requests.
Executed(c) ==
  LET k == call[c].key
      n == call[c].num
  IN  \/ pc[c] = "set" /\ Write(k, n)
      \/ pc[c] = "create" /\ k \notin DOMAIN kv /\ Write(k, n)
      \/ pc[c] = "swap" /\ kv[k] = seen[c] /\ Write(k, seen[c] + n)

\* The request never reaches etcd: no method handles the exception.
RequestFails(c) ==
  /\ pc[c] # "idle"
  /\ Fault
  /\ Return(c, Store!EtcdException)
  /\ UNCHANGED <<kv, index>>

\* etcd executes the write, the caller only sees the exception.
ReplyLost(c) ==
  /\ Executed(c)
  /\ Fault
  /\ Return(c, Store!EtcdException)

\* etcd executes the write, and the client sends it once more to the next
\* server: set() writes again, and add() finds that the key exists or that
\* the comparison fails, takes this for the work of another client and
\* increments again.
RequestResent(c) ==
  /\ Executed(c)
  /\ Fault
  /\ UNCHANGED <<call, pc, seen, from, result, missed, calls>>

-----------------------------------------------------------------------------
Step(c) ==
  \/ SetWrite(c) \/ AddCreate(c) \/ AddRead(c) \/ AddSwap(c)
  \/ Scan(c) \/ Wake(c)

Next ==
  \E c \in Clients :
    \/ \E r \in Requests : Invoke(c, r)
    \/ Step(c) \/ WakeForNothing(c) \/ Expire(c)
    \/ RequestFails(c) \/ ReplyLost(c) \/ RequestResent(c)

Spec == Init /\ [][Next]_vars

\* A client inside a call keeps executing, and etcd delivers the events.
FairSpec == Spec /\ \A c \in Clients : WF_vars(Step(c))

-----------------------------------------------------------------------------
Places == {"idle", "set", "create", "read", "swap", "scan", "watch"}

Ends == {"answer", "LookupError", "EtcdException"}

TypeOK ==
  /\ DOMAIN kv \subseteq Keys
  /\ \A k \in DOMAIN kv : kv[k] \in Int
  /\ index \in Nat
  /\ call \in [Clients -> Requests \cup {NoCall}]
  /\ pc \in [Clients -> Places]
  /\ seen \in [Clients -> Int]
  /\ from \in [Clients -> Nat]
  /\ result \in [Clients -> [end : Ends, val : Int]]
  /\ missed \in [Clients -> BOOLEAN]
  /\ calls \in Nat
  /\ faults \in Nat

\* Each place belongs to one method, and a key that add() found is there for
\* good ("we can be sure it's still there").
CallInv ==
  \A c \in Clients :
    /\ pc[c] = "idle" <=> call[c] = NoCall
    /\ pc[c] = "set" => call[c].op = "set"
    /\ pc[c] \in {"create", "read", "swap"} => call[c].op = "add"
    /\ pc[c] \in {"scan", "watch"} => call[c].op \in {"get", "wait", "check"}
    /\ pc[c] \in {"read", "swap"} => call[c].key \in DOMAIN kv

\* The variables have their types, and add() never reads or swaps a key that
\* is not there: nothing removes the key that its first request found.
WellFormed == TypeOK /\ CallInv

\* No watch starts beyond the next event of etcd.
WatchBound == \A c \in Clients : from[c] <= index + 1

\* The inductive part of what the proofs use.
Inv == WellFormed /\ WatchBound

\* No read lists a key twice.
Distinct ==
  \A r \in Requests : r.op \in {"get", "wait", "check"} =>
    \A i, j \in 1 .. Len(r.keys) : r.keys[i] = r.keys[j] => i = j

\* A call that found a key missing and is about to watch, or watches, can
\* still be woken by the write that completes its keys: the write that comes
\* between the scan and the watch is not lost.
NoLostWakeup ==
  \A c \in Clients :
    pc[c] = "watch" /\ Store!Wanted(call[c]) \subseteq DOMAIN kv
      => index >= from[c]

\* check() says no, and get() and wait() raise LookupError, only when a key
\* was missing at an instant of the call.
FailureIsTrue ==
  \A c \in Clients :
    pc[c] = "idle" /\ result[c].end = "LookupError" => missed[c]

\* The implementation, which takes several requests for add() and a scan and
\* a watch for a read, behaves as the atomic store of AtomicStore: a write
\* takes effect exactly once, and once more only for a request of its own
\* that was executed and sent again.
Linearizable == Store!Spec

\* Once the keys of a read are there, the read ends without its deadline.
ReadsEnd ==
  \A c \in Clients :
    (/\ pc[c] \in {"scan", "watch"}
     /\ Store!Wanted(call[c]) \subseteq DOMAIN kv) ~> (pc[c] = "idle")
=============================================================================
