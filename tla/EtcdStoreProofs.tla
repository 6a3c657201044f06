-------------------------- MODULE EtcdStoreProofs --------------------------
(***************************************************************************)
(* Proofs that EtcdStore implements AtomicStore, and that no reader misses *)
(* the write it waits for, for any number of clients, keys and calls.      *)
(***************************************************************************)
EXTENDS EtcdStore, FiniteSetTheorems, TLAPS

-----------------------------------------------------------------------------
(* Requests.                                                               *)

\* The fields of a request, by method.
LEMMA RequestFields ==
  ASSUME NEW r \in Requests
  PROVE  /\ r # NoCall
         /\ r.op \in {"set", "add", "get", "wait", "check"}
         /\ r.op \in {"set", "add"} => r.key \in Keys /\ r.num \in Int
         /\ r.op \in {"get", "wait", "check"} =>
              /\ r.keys \in Seq(Keys)
              /\ Len(r.keys) \in Nat \ {0}
              /\ Store!Wanted(r) \subseteq Keys
         /\ r.op = "get" => Store!Wanted(r) = {r.keys[1]}
<1>1. CASE r \in [op : {"set", "add"}, key : Keys, num : Int]
  BY <1>1, RequestsAssumption
<1>2. CASE /\ r \in [op : {"get", "wait", "check"}, keys : Seq(Keys)]
           /\ Len(r.keys) >= 1
           /\ r.op = "get" => Len(r.keys) = 1
  <2>1. /\ r.op \in {"get", "wait", "check"}
        /\ r.keys \in Seq(Keys)
        /\ Len(r.keys) \in Nat \ {0}
    BY <1>2
  <2>2. \A i \in 1 .. Len(r.keys) : r.keys[i] \in Keys
    BY <2>1
  <2>3. Store!Wanted(r) \subseteq Keys
    BY <2>2 DEF Store!Wanted
  <2>4. ASSUME r.op = "get" PROVE Store!Wanted(r) = {r.keys[1]}
    <3>0. Len(r.keys) = 1
      BY <1>2, <2>4
    <3>1. 1 .. Len(r.keys) = {1}
      BY <3>0
    <3>2. \A x : x \in Store!Wanted(r) <=>
                   \E i \in 1 .. Len(r.keys) : x = r.keys[i]
      BY DEF Store!Wanted
    <3> QED
      BY <3>1, <3>2
  <2> QED
    BY <2>1, <2>3, <2>4, RequestsAssumption
<1> QED
  BY <1>1, <1>2, RequestsAssumption

\* For a list of distinct keys, counting the nodes that were found is the
\* same as looking for every key: the test of _try_wait_get() is right.
LEMMA AvailableMeansAll ==
  ASSUME Distinct,
         NEW r \in Requests, r.op \in {"get", "wait", "check"}
  PROVE  AllAvailable(r) <=> Store!Wanted(r) \subseteq DOMAIN kv
<1> DEFINE n == Len(r.keys)
           f == [i \in 1 .. n |-> r.keys[i]]
           W == Store!Wanted(r)
<1>1. n \in Nat
  BY RequestFields
<1>2. f \in Bijection(1 .. n, W)
  <2>1. f \in [1 .. n -> W]
    BY DEF Store!Wanted
  <2>2. \A i, j \in 1 .. n : f[i] = f[j] => i = j
    BY DEF Distinct
  <2>3. \A w \in W : \E i \in 1 .. n : f[i] = w
    BY DEF Store!Wanted
  <2> HIDE DEF f, n, W
  <2>4. f \in Injection(1 .. n, W)
    BY <2>1, <2>2 DEF Injection, IsInjective
  <2>5. f \in Surjection(1 .. n, W)
    BY <2>1, <2>3 DEF Surjection
  <2> QED
    BY <2>4, <2>5 DEF Bijection
<1>3. ExistsBijection(1 .. n, W)
  BY <1>2 DEF ExistsBijection
<1>4. IsFiniteSet(W) /\ Cardinality(W) = n
  BY <1>1, <1>3, FS_CountingElements, FS_NatBijection
<1>5. W \cap DOMAIN kv \in SUBSET W
  OBVIOUS
<1>6. Cardinality(W) = Cardinality(W \cap DOMAIN kv) => W = W \cap DOMAIN kv
  BY <1>4, <1>5, FS_Subset
<1>7. AllAvailable(r) <=> Cardinality(W \cap DOMAIN kv) = Cardinality(W)
  BY <1>4 DEF AllAvailable
<1>8. W = W \cap DOMAIN kv <=> W \subseteq DOMAIN kv
  OBVIOUS
<1>9. W = W \cap DOMAIN kv => Cardinality(W \cap DOMAIN kv) = Cardinality(W)
  OBVIOUS
<1> QED
  BY <1>6, <1>7, <1>8, <1>9

\* What a write does to the directory.
LEMMA PutFacts ==
  ASSUME NEW k \in Keys, NEW v \in Int, TypeOK
  PROVE  /\ DOMAIN Store!Put(kv, k, v) = DOMAIN kv \cup {k}
         /\ DOMAIN Store!Put(kv, k, v) \subseteq Keys
         /\ \A x \in DOMAIN Store!Put(kv, k, v) : Store!Put(kv, k, v)[x] \in Int
BY DEF Store!Put, TypeOK

-----------------------------------------------------------------------------
(* The inductive invariant, one lemma per group of actions.                *)

LEMMA InvInit == Init => Inv
BY RequestsAssumption DEF Init, Inv, WellFormed, TypeOK, CallInv, WatchBound,
    Places, Ends, Store!Answer

LEMMA InvInvoke ==
  ASSUME Inv, NEW c \in Clients, NEW r \in Requests, Invoke(c, r)
  PROVE  Inv'
<1>1. r.op \in {"set", "add", "get", "wait", "check"} /\ r # NoCall
  BY RequestFields
<1>2. /\ r.op = "set" => Entry(r) = "set"
      /\ r.op = "add" => Entry(r) = "create"
      /\ r.op \in {"get", "wait", "check"} => Entry(r) = "scan"
  BY <1>1 DEF Entry
<1>3. Entry(r) \in Places \ {"idle", "read", "swap", "watch"}
  BY <1>1, <1>2 DEF Places
<1>4. TypeOK'
  BY <1>3, RequestsAssumption DEF Inv, WellFormed, TypeOK, Invoke, Store!Invoke
<1>5. CallInv' /\ WatchBound'
  BY <1>1, <1>2, <1>3 DEF Inv, WellFormed, TypeOK, CallInv, WatchBound,
      Invoke, Store!Invoke
<1> QED
  BY <1>4, <1>5 DEF Inv, WellFormed

\* What a write leaves alone.
LEMMA WriteFacts ==
  ASSUME TypeOK, NEW k \in Keys, NEW v \in Int, Write(k, v)
  PROVE  /\ DOMAIN kv' = DOMAIN kv \cup {k}
         /\ DOMAIN kv' \subseteq Keys
         /\ \A x \in DOMAIN kv' : kv'[x] \in Int
         /\ index \in Nat /\ index' = index + 1
BY PutFacts DEF Write, TypeOK

\* A write followed by the return of the method.
LEMMA InvWrite ==
  ASSUME Inv, NEW c \in Clients, NEW k \in Keys, NEW v \in Int,
         NEW w \in [end : Ends, val : Int], Write(k, v), Return(c, w),
         faults' \in Nat
  PROVE  Inv'
<1>0. TypeOK
  BY DEF Inv, WellFormed
<1>p. /\ DOMAIN kv' = DOMAIN kv \cup {k}
      /\ DOMAIN kv' \subseteq Keys
      /\ \A x \in DOMAIN kv' : kv'[x] \in Int
      /\ index \in Nat /\ index' = index + 1
  BY <1>0, WriteFacts
<1>1. TypeOK'
  BY <1>0, <1>p DEF TypeOK, Return, Places
<1>2. CallInv' /\ WatchBound'
  BY <1>p, RequestsAssumption DEF Inv, WellFormed, TypeOK, CallInv,
      WatchBound, Return
<1> QED
  BY <1>1, <1>2 DEF Inv, WellFormed

\* A write after which the method still waits for the reply.
LEMMA InvResent ==
  ASSUME Inv, NEW k \in Keys, NEW v \in Int, Write(k, v), faults' \in Nat,
         UNCHANGED <<call, pc, seen, from, result, missed, calls>>
  PROVE  Inv'
<1>0. TypeOK
  BY DEF Inv, WellFormed
<1>p. /\ DOMAIN kv' = DOMAIN kv \cup {k}
      /\ DOMAIN kv' \subseteq Keys
      /\ \A x \in DOMAIN kv' : kv'[x] \in Int
      /\ index \in Nat /\ index' = index + 1
  BY <1>0, WriteFacts
<1>1. TypeOK'
  BY <1>0, <1>p DEF TypeOK
<1>2. CallInv' /\ WatchBound'
  BY <1>p DEF Inv, WellFormed, TypeOK, CallInv, WatchBound
<1> QED
  BY <1>1, <1>2 DEF Inv, WellFormed

\* The write that a request executes.
LEMMA ExecutedWrites ==
  ASSUME Inv, NEW c \in Clients, Executed(c)
  PROVE  /\ pc[c] \in {"set", "create", "swap"}
         /\ call[c] \in Requests
         /\ call[c] \in Store!Writes
         /\ call[c].key \in Keys
         /\ Store!NewValue(kv, call[c]) \in Int
         /\ Write(call[c].key, Store!NewValue(kv, call[c]))
<1> DEFINE r == call[c]
<1>1. pc[c] \in {"set", "create", "swap"}
  BY DEF Executed
<1>2. r \in Requests
  BY <1>1 DEF Inv, WellFormed, TypeOK, CallInv
<1>3. /\ pc[c] = "set" => r.op = "set"
      /\ pc[c] \in {"create", "swap"} => r.op = "add"
      /\ pc[c] = "swap" => r.key \in DOMAIN kv /\ seen[c] \in Int
  BY DEF Inv, WellFormed, TypeOK, CallInv
<1>4. r.key \in Keys /\ r.num \in Int /\ r \in Store!Writes
  BY <1>1, <1>2, <1>3, RequestFields DEF Store!Writes
<1>5. CASE pc[c] = "set"
  <2>1. Store!NewValue(kv, r) = r.num
    BY <1>3, <1>5 DEF Store!NewValue
  <2>2. Write(r.key, r.num)
    BY <1>5 DEF Executed
  <2> QED
    BY <1>1, <1>2, <1>4, <2>1, <2>2
<1>6. CASE pc[c] = "create"
  <2>1. r.key \notin DOMAIN kv /\ Write(r.key, r.num)
    BY <1>6 DEF Executed
  <2>2. Store!NewValue(kv, r) = r.num
    BY <1>3, <1>4, <1>6, <2>1 DEF Store!NewValue, Store!Sum
  <2> QED
    BY <1>1, <1>2, <1>4, <2>1, <2>2
<1>7. CASE pc[c] = "swap"
  <2>1. kv[r.key] = seen[c] /\ Write(r.key, seen[c] + r.num)
    BY <1>7 DEF Executed
  <2>2. Store!NewValue(kv, r) = seen[c] + r.num
    BY <1>3, <1>4, <1>7, <2>1 DEF Store!NewValue, Store!Sum
  <2>3. seen[c] + r.num \in Int
    BY <1>3, <1>4, <1>7
  <2> QED
    BY <1>1, <1>2, <1>4, <2>1, <2>2, <2>3
<1> QED
  BY <1>1, <1>5, <1>6, <1>7

Faulty(c) == RequestFails(c) \/ ReplyLost(c) \/ RequestResent(c)

\* A request that goes wrong keeps the invariant.
LEMMA InvFault ==
  ASSUME Inv, NEW c \in Clients, Faulty(c)
  PROVE  Inv'
<1>0. faults' \in Nat
  BY DEF Inv, WellFormed, TypeOK, Faulty, RequestFails, ReplyLost,
      RequestResent, Fault
<1>e. Store!EtcdException \in [end : Ends, val : Int]
  BY DEF Store!EtcdException, Ends
<1>1. CASE RequestFails(c)
  <2>1. TypeOK'
    BY <1>0, <1>1, <1>e DEF RequestFails, Return, Inv, WellFormed, TypeOK, Places
  <2>2. CallInv' /\ WatchBound'
    BY <1>1, RequestsAssumption
    DEF RequestFails, Return, Inv, WellFormed, TypeOK, CallInv, WatchBound
  <2> QED
    BY <2>1, <2>2 DEF Inv, WellFormed
<1>2. CASE ReplyLost(c)
  BY <1>0, <1>2, <1>e, ExecutedWrites, InvWrite DEF ReplyLost
<1>3. CASE RequestResent(c)
  BY <1>0, <1>3, ExecutedWrites, InvResent DEF RequestResent
<1> QED
  BY <1>1, <1>2, <1>3 DEF Faulty

LEMMA InvStep ==
  ASSUME Inv, NEW c \in Clients, Step(c) \/ WakeForNothing(c) \/ Expire(c)
  PROVE  Inv'
<1> DEFINE r == call[c]
<1>0. pc[c] # "idle" => r \in Requests
  BY DEF Inv, WellFormed, TypeOK, CallInv, WatchBound
<1>1. CASE SetWrite(c)
  <2>1. r.key \in Keys /\ r.num \in Int
    BY <1>0, <1>1, RequestFields DEF SetWrite, Inv, WellFormed, CallInv,
        WatchBound
  <2>2. faults' \in Nat /\ Store!Answer(0) \in [end : Ends, val : Int]
    BY <1>1 DEF SetWrite, Inv, WellFormed, TypeOK, Store!Answer, Ends
  <2> QED
    BY <1>1, <2>1, <2>2, InvWrite DEF SetWrite
<1>2. CASE AddCreate(c)
  <2>1. r.key \in Keys /\ r.num \in Int /\ r.op = "add"
    BY <1>0, <1>2, RequestFields DEF AddCreate, Inv, WellFormed, CallInv,
        WatchBound
  <2>2. CASE Write(r.key, r.num) /\ Return(c, Store!Answer(r.num)) /\ UNCHANGED faults
    <3>1. faults' \in Nat /\ Store!Answer(r.num) \in [end : Ends, val : Int]
      BY <2>1, <2>2 DEF Inv, WellFormed, TypeOK, Store!Answer, Ends
    <3> QED
      BY <2>1, <2>2, <3>1, InvWrite
  <2>3. CASE /\ r.key \in DOMAIN kv
             /\ GoTo(c, "read")
             /\ UNCHANGED <<kv, index, seen, from, missed>>
    BY <1>2, <2>1, <2>3 DEF AddCreate, Inv, WellFormed, TypeOK, CallInv,
        WatchBound, GoTo, Places
  <2> QED
    BY <1>2, <2>2, <2>3 DEF AddCreate
<1>3. CASE AddRead(c)
  <2>1. kv[r.key] \in Int
    BY <1>3 DEF AddRead, Inv, WellFormed, TypeOK, CallInv, WatchBound
  <2> QED
    BY <1>3, <2>1 DEF AddRead, Inv, WellFormed, TypeOK, CallInv, WatchBound,
        GoTo, Places
<1>4. CASE AddSwap(c)
  <2>0. r \in Requests /\ r.op = "add" /\ seen[c] \in Int
    BY <1>0, <1>4 DEF AddSwap, Inv, WellFormed, TypeOK, CallInv, WatchBound
  <2>1. r.key \in Keys /\ r.num \in Int /\ seen[c] + r.num \in Int
    BY <2>0, RequestFields
  <2>2. CASE /\ Write(r.key, seen[c] + r.num)
             /\ Return(c, Store!Answer(seen[c] + r.num))
             /\ UNCHANGED faults
    <3>1. faults' \in Nat /\ Store!Answer(seen[c] + r.num) \in [end : Ends, val : Int]
      BY <2>1, <2>2 DEF Inv, WellFormed, TypeOK, Store!Answer, Ends
    <3> QED
      BY <2>1, <2>2, <3>1, InvWrite
  <2>3. CASE GoTo(c, "read") /\ UNCHANGED <<kv, index, seen, from, missed>>
    BY <1>4, <2>3 DEF AddSwap, Inv, WellFormed, TypeOK, CallInv, WatchBound,
        GoTo, Places
  <2> QED
    BY <1>4, <2>2, <2>3 DEF AddSwap
<1>5. CASE Scan(c)
  <2>0. r \in Requests /\ r.op \in {"get", "wait", "check"}
    BY <1>0, <1>5 DEF Scan, Inv, WellFormed, CallInv, WatchBound
  <2>1. CASE AllAvailable(r) /\ Return(c, Store!Found(kv, r)) /\ UNCHANGED faults
    <3>1. Store!Found(kv, r) \in [end : Ends, val : Int]
      <4>1. CASE r.op = "get"
        <5>1. Store!Wanted(r) = {r.keys[1]} /\ Len(r.keys) = 1
          BY <2>0, <4>1, RequestFields, RequestsAssumption
        <5>2. Cardinality({r.keys[1]} \cap DOMAIN kv) = 1
          BY <2>1, <5>1 DEF AllAvailable
        <5>3. r.keys[1] \in DOMAIN kv
          <6>1. r.keys[1] \notin DOMAIN kv => {r.keys[1]} \cap DOMAIN kv = {}
            OBVIOUS
          <6> QED
            BY <5>2, <6>1, FS_EmptySet
        <5> QED
          BY <4>1, <5>3 DEF Store!Found, Store!Answer, Inv, WellFormed, TypeOK, Ends
      <4>2. CASE r.op # "get"
        BY <4>2 DEF Store!Found, Store!Answer, Ends
      <4> QED
        BY <4>1, <4>2
    <3> QED
      BY <1>5, <2>1, <3>1, RequestsAssumption
      DEF Scan, Inv, WellFormed, TypeOK, CallInv, WatchBound, Return, Places
  <2>2. CASE /\ GoTo(c, "watch")
             /\ from' = [from EXCEPT ![c] = WatchIndex]
             /\ missed' = [missed EXCEPT
                  ![c] = @ \/ ~ Store!Wanted(r) \subseteq DOMAIN kv]
             /\ UNCHANGED seen
    BY <1>5, <2>0, <2>2
    DEF Scan, Inv, WellFormed, TypeOK, CallInv, WatchBound, GoTo, Places,
      WatchIndex
  <2> QED
    BY <1>5, <2>1, <2>2 DEF Scan
<1>6. CASE Wake(c) \/ WakeForNothing(c)
  <2>1. CASE Wake(c)
    BY <2>1 DEF Wake, Inv, WellFormed, TypeOK, CallInv, WatchBound, GoTo, Places
  <2>2. CASE WakeForNothing(c)
    BY <2>2 DEF WakeForNothing, Inv, WellFormed, TypeOK, CallInv, WatchBound, GoTo, Places
  <2> QED
    BY <1>6, <2>1, <2>2
<1>7. CASE Expire(c)
  BY <1>7, RequestsAssumption
  DEF Expire, Inv, WellFormed, TypeOK, CallInv, WatchBound, Return, Places,
    Ends, Store!LookupError
<1> QED
  BY <1>1, <1>2, <1>3, <1>4, <1>5, <1>6, <1>7 DEF Step

\* The variables keep their types, add() never reads a missing key, and no
\* watch of _try_wait_get() starts beyond the next event.
THEOREM StoreInv == Spec => []Inv
<1>1. Inv /\ [Next]_vars => Inv'
  <2> SUFFICES ASSUME Inv, [Next]_vars PROVE Inv'
    OBVIOUS
  <2>1. CASE UNCHANGED vars
    BY <2>1 DEF vars, Inv, WellFormed, TypeOK, CallInv, WatchBound
  <2>2. CASE Next
    BY <2>2, InvInvoke, InvStep, InvFault DEF Next, Faulty
  <2> QED
    BY <2>1, <2>2
<1> QED
  BY <1>1, InvInit, PTL DEF Spec

\* The key that the first request of add() found is there for its read and
\* for each of its test_and_set() requests.
THEOREM StoreWellFormed == Spec => []WellFormed
<1>1. Inv => WellFormed
  BY DEF Inv
<1> QED
  BY <1>1, StoreInv, PTL

-----------------------------------------------------------------------------
(* Waking up and failing.                                                  *)

\* A call that watches has found a key missing.
WatchMissed == \A c \in Clients : pc[c] = "watch" => missed[c]

Watching == Inv /\ WatchMissed /\ NoLostWakeup /\ FailureIsTrue

\* A write wakes every watch that started at the next event or earlier.
LEMMA WatchingWrite ==
  ASSUME Watching, NEW c \in Clients, NEW k, NEW v, NEW w,
         Write(k, v), Return(c, w), w.end # "LookupError"
  PROVE  WatchMissed' /\ NoLostWakeup' /\ FailureIsTrue'
<1>1. index' = index + 1 /\ index \in Nat /\ \A d \in Clients : from[d] <= index + 1
  BY DEF Watching, Inv, WellFormed, TypeOK, CallInv, WatchBound, Write
<1>2. /\ WatchMissed'
      /\ FailureIsTrue'
  BY DEF Watching, Inv, WellFormed, TypeOK, WatchMissed, FailureIsTrue, Return
<1>3. NoLostWakeup'
  BY <1>1 DEF Watching, Inv, WellFormed, TypeOK, NoLostWakeup, Return
<1> QED
  BY <1>2, <1>3

\* A request that goes wrong makes no reader miss a write, and an exception
\* of etcd is no LookupError.
LEMMA WatchingFault ==
  ASSUME Watching, NEW c \in Clients, Faulty(c)
  PROVE  WatchMissed' /\ NoLostWakeup' /\ FailureIsTrue'
<1>0. Inv /\ Store!EtcdException.end # "LookupError"
  BY DEF Watching, Store!EtcdException
<1>1. CASE RequestFails(c)
  BY <1>0, <1>1 DEF Watching, Inv, WellFormed, TypeOK, WatchMissed,
      NoLostWakeup, FailureIsTrue, RequestFails, Return
<1>2. CASE ReplyLost(c)
  BY <1>0, <1>2, ExecutedWrites, WatchingWrite DEF ReplyLost
<1>3. CASE RequestResent(c)
  <2>1. index' = index + 1 /\ index \in Nat /\ \A d \in Clients : from[d] <= index + 1
    BY <1>0, <1>3, ExecutedWrites
    DEF RequestResent, Inv, WellFormed, TypeOK, WatchBound, Write
  <2>2. WatchMissed' /\ FailureIsTrue'
    BY <1>3 DEF RequestResent, Watching, WatchMissed, FailureIsTrue
  <2>3. NoLostWakeup'
    BY <1>3, <2>1 DEF RequestResent, Watching, Inv, WellFormed, TypeOK, NoLostWakeup
  <2> QED
    BY <2>2, <2>3
<1> QED
  BY <1>1, <1>2, <1>3 DEF Faulty

LEMMA WatchingStep ==
  ASSUME Distinct, Watching, NEW c \in Clients,
         Step(c) \/ WakeForNothing(c) \/ Expire(c)
  PROVE  WatchMissed' /\ NoLostWakeup' /\ FailureIsTrue'
<1> DEFINE r == call[c]
<1>0. pc[c] # "idle" => r \in Requests
  BY DEF Watching, Inv, WellFormed, TypeOK, CallInv, WatchBound
<1>1. CASE \E k, v, w : Write(k, v) /\ Return(c, Store!Answer(w))
  <2>1. \A w : Store!Answer(w).end # "LookupError"
    BY DEF Store!Answer
  <2> QED
    BY <1>1, <2>1, WatchingWrite
<1>2. CASE /\ GoTo(c, "read") \/ GoTo(c, "swap") \/ GoTo(c, "scan")
           /\ UNCHANGED <<kv, index, from, missed>>
           /\ pc[c] # "idle"
  BY <1>2
  DEF Watching, Inv, WellFormed, TypeOK, WatchMissed, NoLostWakeup,
    FailureIsTrue, GoTo
<1>3. CASE Scan(c)
  <2>0. r \in Requests /\ r.op \in {"get", "wait", "check"}
    BY <1>0, <1>3 DEF Scan, Watching, Inv, WellFormed, CallInv, WatchBound
  <2>1. CASE Return(c, Store!Found(kv, r))
    BY <1>3, <2>1
    DEF Scan, Watching, Inv, WellFormed, TypeOK, WatchMissed, NoLostWakeup,
      FailureIsTrue,
        Return, Store!Found, Store!Answer
  <2>2. CASE /\ ~ AllAvailable(r)
             /\ GoTo(c, "watch")
             /\ from' = [from EXCEPT ![c] = WatchIndex]
             /\ missed' = [missed EXCEPT
                  ![c] = @ \/ ~ Store!Wanted(r) \subseteq DOMAIN kv]
    <3>1. ~ Store!Wanted(r) \subseteq DOMAIN kv
      BY <2>0, <2>2, AvailableMeansAll
    <3>2. missed' = [missed EXCEPT ![c] = TRUE]
      BY <2>2, <3>1 DEF Watching, Inv, WellFormed, TypeOK
    <3>3. WatchMissed' /\ FailureIsTrue'
      BY <2>2, <3>2
      DEF Watching, Inv, WellFormed, TypeOK, WatchMissed, FailureIsTrue, GoTo
    <3>4. NoLostWakeup'
      BY <1>3, <2>2, <3>1 DEF Scan, Watching, Inv, WellFormed, TypeOK,
          NoLostWakeup, GoTo
    <3> QED
      BY <3>3, <3>4
  <2> QED
    BY <1>3, <2>1, <2>2 DEF Scan
<1>4. CASE Expire(c)
  BY <1>4
  DEF Expire, Watching, Inv, WellFormed, TypeOK, WatchMissed, NoLostWakeup,
    FailureIsTrue,
      Return
<1>5. CASE SetWrite(c) \/ AddCreate(c) \/ AddRead(c) \/ AddSwap(c) \/ Wake(c)
             \/ WakeForNothing(c)
  BY <1>1, <1>2, <1>5
  DEF SetWrite, AddCreate, AddRead, AddSwap, Wake, WakeForNothing
<1> QED
  BY <1>3, <1>4, <1>5 DEF Step

LEMMA WatchingHolds == Distinct => (Spec => []Watching)
<1> SUFFICES ASSUME Distinct PROVE Spec => []Watching
  OBVIOUS
<1>1. Init => Watching
  BY InvInit DEF Init, Watching, WatchMissed, NoLostWakeup, FailureIsTrue,
                 Store!Answer
<1>2. Watching /\ [Next]_vars => Watching'
  <2> SUFFICES ASSUME Watching, [Next]_vars PROVE Watching'
    OBVIOUS
  <2>1. CASE UNCHANGED vars
    BY <2>1 DEF vars, Watching, Inv, WellFormed, TypeOK, CallInv, WatchBound,
        WatchMissed,
                NoLostWakeup, FailureIsTrue
  <2>2. ASSUME NEW c \in Clients, NEW r \in Requests, Invoke(c, r)
        PROVE  Watching'
    <3>1. Inv'
      BY <2>2, InvInvoke DEF Watching
    <3>2. Entry(r) \notin {"idle", "watch"}
      BY RequestFields DEF Entry
    <3>3. WatchMissed' /\ NoLostWakeup' /\ FailureIsTrue'
      BY <2>2, <3>2
      DEF Watching, Inv, WellFormed, TypeOK, WatchMissed, NoLostWakeup,
        FailureIsTrue,
          Invoke, Store!Invoke
    <3> QED
      BY <3>1, <3>3 DEF Watching
  <2>3. ASSUME NEW c \in Clients, Step(c) \/ WakeForNothing(c) \/ Expire(c)
        PROVE  Watching'
    BY <2>3, InvStep, WatchingStep DEF Watching
  <2>4. ASSUME NEW c \in Clients, Faulty(c)
        PROVE  Watching'
    BY <2>4, InvFault, WatchingFault DEF Watching
  <2> QED
    BY <2>1, <2>2, <2>3, <2>4 DEF Next, Faulty
<1> QED
  BY <1>1, <1>2, PTL DEF Spec

\* The write that completes the keys of a read, also when it comes between
\* the scan and the watch, wakes the reader.
THEOREM StoreNoLostWakeup == Distinct => (Spec => []NoLostWakeup)
<1>1. Watching => NoLostWakeup
  BY DEF Watching
<1> QED
  BY <1>1, WatchingHolds, PTL

\* A read fails only if a key was missing at an instant of the call.
THEOREM StoreFailureIsTrue == Distinct => (Spec => []FailureIsTrue)
<1>1. Watching => FailureIsTrue
  BY DEF Watching
<1> QED
  BY <1>1, WatchingHolds, PTL

-----------------------------------------------------------------------------
(* The refinement: what each request of EtcdStore is to AtomicStore.       *)

LEMMA StepRefines ==
  ASSUME Distinct, Watching, NEW c \in Clients,
         Step(c) \/ WakeForNothing(c) \/ Expire(c)
  PROVE  [Store!Next]_(Store!storeVars)
<1> DEFINE r == call[c]
<1>0. pc[c] # "idle" => r \in Requests
  BY DEF Watching, Inv, WellFormed, TypeOK, CallInv, WatchBound
<1>1. CASE SetWrite(c)
  <2>1. r \in Store!Writes /\ r.op = "set"
    BY <1>0, <1>1 DEF SetWrite, Watching, Inv, WellFormed, CallInv,
        WatchBound, Store!Writes
  <2>2. Store!NewValue(kv, r) = r.num
    BY <2>1 DEF Store!NewValue
  <2>3. Store!Set(c)
    BY <1>1, <2>1, <2>2 DEF SetWrite, Write, Return, Store!Set, Store!Effect,
        Store!Return
  <2> QED
    BY <2>3 DEF Store!Next
<1>2. CASE AddCreate(c)
  <2>1. r \in Store!Writes /\ r.op = "add" /\ r.num \in Int
    BY <1>0, <1>2, RequestFields
    DEF AddCreate, Watching, Inv, WellFormed, CallInv, WatchBound, Store!Writes
  <2>2. CASE /\ r.key \notin DOMAIN kv
             /\ Write(r.key, r.num)
             /\ Return(c, Store!Answer(r.num))
             /\ UNCHANGED faults
    <3>1. Store!NewValue(kv, r) = r.num
      BY <2>1, <2>2 DEF Store!NewValue, Store!Sum
    <3>2. Store!Add(c)
      BY <2>1, <2>2, <3>1 DEF Write, Return, Store!Add, Store!Effect, Store!Return
    <3> QED
      BY <3>2 DEF Store!Next
  <2>3. CASE GoTo(c, "read") /\ UNCHANGED <<kv, index, seen, from, missed>>
    BY <2>3 DEF GoTo, Store!storeVars
  <2> QED
    BY <1>2, <2>2, <2>3 DEF AddCreate
<1>3. CASE AddSwap(c)
  <2>1. /\ r \in Store!Writes /\ r.op = "add" /\ r.num \in Int
        /\ r.key \in DOMAIN kv /\ seen[c] \in Int
    BY <1>0, <1>3, RequestFields
    DEF AddSwap, Watching, Inv, WellFormed, TypeOK, CallInv, WatchBound,
      Store!Writes
  <2>2. CASE /\ kv[r.key] = seen[c]
             /\ Write(r.key, seen[c] + r.num)
             /\ Return(c, Store!Answer(seen[c] + r.num))
             /\ UNCHANGED faults
    <3>1. Store!NewValue(kv, r) = seen[c] + r.num
      BY <2>1, <2>2 DEF Store!NewValue, Store!Sum
    <3>2. Store!Add(c)
      BY <2>1, <2>2, <3>1 DEF Write, Return, Store!Add, Store!Effect, Store!Return
    <3> QED
      BY <3>2 DEF Store!Next
  <2>3. CASE GoTo(c, "read") /\ UNCHANGED <<kv, index, seen, from, missed>>
    BY <2>3 DEF GoTo, Store!storeVars
  <2> QED
    BY <1>3, <2>2, <2>3 DEF AddSwap
<1>4. CASE Scan(c)
  <2>0. r \in Requests /\ r.op \in {"get", "wait", "check"} /\ r \in Store!Reads
    BY <1>0, <1>4 DEF Scan, Watching, Inv, WellFormed, CallInv, WatchBound,
        Store!Reads
  <2>1. CASE AllAvailable(r) /\ Return(c, Store!Found(kv, r)) /\ UNCHANGED faults
    <3>1. Store!Succeed(c)
      BY <1>4, <2>0, <2>1, AvailableMeansAll
      DEF Scan, Return, Store!Succeed, Store!Return
    <3> QED
      BY <3>1 DEF Store!Next
  <2>2. CASE /\ ~ AllAvailable(r)
             /\ GoTo(c, "watch")
             /\ missed' = [missed EXCEPT
                  ![c] = @ \/ ~ Store!Wanted(r) \subseteq DOMAIN kv]
    <3>1. ~ Store!Wanted(r) \subseteq DOMAIN kv
      BY <2>0, <2>2, AvailableMeansAll
    <3>2. missed' = [missed EXCEPT ![c] = TRUE]
      BY <2>2, <3>1 DEF Watching, Inv, WellFormed, TypeOK
    <3>3. Store!Miss(c)
      BY <1>4, <2>0, <2>2, <3>1, <3>2 DEF Scan, GoTo, Store!Miss
    <3> QED
      BY <3>3 DEF Store!Next
  <2> QED
    BY <1>4, <2>1, <2>2 DEF Scan
<1>5. CASE Expire(c)
  <2>1. r \in Store!Reads /\ missed[c]
    BY <1>0, <1>5
    DEF Expire, Watching, WatchMissed, Inv, WellFormed, CallInv, WatchBound,
      Store!Reads
  <2>2. Store!Fail(c)
    BY <1>5, <2>1 DEF Expire, Return, Store!Fail, Store!Return
  <2> QED
    BY <2>2 DEF Store!Next
<1>6. CASE AddRead(c) \/ Wake(c) \/ WakeForNothing(c)
  BY <1>6 DEF AddRead, Wake, WakeForNothing, GoTo, Store!storeVars
<1> QED
  BY <1>1, <1>2, <1>3, <1>4, <1>5, <1>6 DEF Step

\* A request that goes wrong is a fault of the atomic store.
LEMMA FaultRefines ==
  ASSUME Inv, NEW c \in Clients, Faulty(c)
  PROVE  Store!Next
<1>f. Store!Fault
  BY DEF Faulty, RequestFails, ReplyLost, RequestResent, Fault, Store!Fault
<1>e. ASSUME Executed(c) PROVE Store!Effect(c)
  BY <1>e, ExecutedWrites DEF Write, Store!Effect
<1>1. CASE RequestFails(c)
  <2>1. call[c] \in Requests
    BY <1>1 DEF RequestFails, Inv, WellFormed, TypeOK, CallInv
  <2>2. Store!Raise(c)
    BY <1>1, <1>f, <2>1 DEF RequestFails, Return, Store!Raise, Store!Return
  <2> QED
    BY <2>2 DEF Store!Next
<1>2. CASE ReplyLost(c)
  <2>1. call[c] \in Requests /\ Store!Effect(c)
    BY <1>2, <1>e, ExecutedWrites DEF ReplyLost
  <2>2. Store!Raise(c)
    BY <1>2, <1>f, <2>1 DEF ReplyLost, Return, Store!Raise, Store!Return
  <2> QED
    BY <2>2 DEF Store!Next
<1>3. CASE RequestResent(c)
  <2>1. Store!Repeat(c)
    BY <1>3, <1>e, <1>f DEF RequestResent, Store!Repeat
  <2> QED
    BY <2>1 DEF Store!Next
<1> QED
  BY <1>1, <1>2, <1>3 DEF Faulty

\* EtcdStore implements the atomic store: every increment of add() counts
\* once whatever the other clients do between its requests, and once more
\* only for each request of its own that was executed and sent again; a read
\* tells the truth about an instant of its call.
THEOREM StoreLinearizable == Distinct => (Spec => Linearizable)
<1> SUFFICES ASSUME Distinct PROVE Spec => Linearizable
  OBVIOUS
<1>1. Init => Store!Init
  BY DEF Init, Store!Init
<1>2. Watching /\ [Next]_vars => [Store!Next]_(Store!storeVars)
  <2> SUFFICES ASSUME Watching, [Next]_vars
               PROVE  [Store!Next]_(Store!storeVars)
    OBVIOUS
  <2>1. CASE UNCHANGED vars
    BY <2>1 DEF vars, Store!storeVars
  <2>2. ASSUME NEW c \in Clients, NEW r \in Requests, Invoke(c, r)
        PROVE  Store!Next
    BY <2>2 DEF Invoke, Store!Next
  <2>3. ASSUME NEW c \in Clients, Step(c) \/ WakeForNothing(c) \/ Expire(c)
        PROVE  [Store!Next]_(Store!storeVars)
    BY <2>3, StepRefines
  <2>4. ASSUME NEW c \in Clients, Faulty(c)
        PROVE  Store!Next
    BY <2>4, FaultRefines DEF Watching
  <2> QED
    BY <2>1, <2>2, <2>3, <2>4 DEF Next, Faulty
<1> QED
  BY <1>1, <1>2, WatchingHolds, PTL DEF Spec, Linearizable, Store!Spec
=============================================================================
