-------------------------- MODULE LocalTimerProofs --------------------------
(***************************************************************************)
(* Proofs about the expiration timers for any processes, scopes and        *)
(* durations, however the requests are buffered and batched and whoever    *)
(* dies meanwhile.                                                         *)
(***************************************************************************)
EXTENDS LocalTimer, FiniteSetTheorems, WellFoundedInduction, TLAPS

-----------------------------------------------------------------------------
(* The latest request about a timer.                                       *)

Key(r) == <<r.worker, r.scope>>

\* A set of positions in a queue has a last one.
LEMMA LastPosition ==
  ASSUME NEW n \in Nat, NEW F \in SUBSET (1 .. n), F # {}
  PROVE  \E j \in F : \A k \in F : k <= j
<1> DEFINE T == {n - j : j \in F}
           R == OpToRel(<, Nat)
<1>1. T \subseteq Nat /\ T # {}
  <2>1. \A k \in F : n - k \in Nat
    OBVIOUS
  <2> QED
    BY <2>1
<1>2. IsWellFoundedOn(R, Nat)
  BY NatLessThanWellFounded
<1>3. \A x, y \in Nat : <<y, x>> \in R <=> y < x
  BY DEF OpToRel
<1> HIDE DEF R, T
<1>4. PICK x \in T : \A y \in T : ~(<<y, x>> \in R)
  BY <1>1, <1>2, WFMin
<1>5. \A y \in T : x <= y
  <2> SUFFICES ASSUME NEW y \in T PROVE x <= y
    OBVIOUS
  <2>1. x \in Nat /\ y \in Nat /\ ~(y < x)
    BY <1>1, <1>3, <1>4
  <2> QED
    BY <2>1
<1>6. PICK j \in F : x = n - j
  BY DEF T
<1>7. \A k \in F : n - j <= n - k
  BY <1>5, <1>6 DEF T
<1> QED
  BY <1>7

\* Latest is decided by the last request about the key, which exists if any
\* does.
LEMMA LatestIs ==
  ASSUME NEW q \in Seq(Request), NEW k, NEW d
  PROVE  \/ /\ \A i \in DOMAIN q : Key(q[i]) # k
            /\ Latest(q, k, d) = d
         \/ \E i \in DOMAIN q :
              /\ Key(q[i]) = k
              /\ \A j \in DOMAIN q : Key(q[j]) = k => j <= i
              /\ Latest(q, k, d) = q[i].exp
<1> DEFINE I == {i \in DOMAIN q : Key(q[i]) = k}
           m == CHOOSE i \in I : \A j \in I : j <= i
<1>1. Latest(q, k, d) = IF I = {} THEN d ELSE q[m].exp
  BY DEF Latest, Key
<1>2. Len(q) \in Nat /\ DOMAIN q = 1 .. Len(q)
  OBVIOUS
<1>3. I # {} => \E i \in I : \A j \in I : j <= i
  BY <1>2, LastPosition
<1>4. I # {} => m \in I /\ \A j \in I : j <= m
  BY <1>3
<1> HIDE DEF m
<1> QED
  BY <1>1, <1>4

\* The last request is the only one to decide.
LEMMA LatestAt ==
  ASSUME NEW q \in Seq(Request), NEW k, NEW d, NEW i \in DOMAIN q, Key(q[i]) = k,
         \A j \in DOMAIN q : Key(q[j]) = k => j <= i
  PROVE  Latest(q, k, d) = q[i].exp
<1>1. DOMAIN q \subseteq Int
  OBVIOUS
<1>2. PICK m \in DOMAIN q : /\ Key(q[m]) = k
                            /\ \A j \in DOMAIN q : Key(q[j]) = k => j <= m
                            /\ Latest(q, k, d) = q[m].exp
  BY LatestIs
<1>3. m <= i /\ i <= m
  BY <1>2
<1> QED
  BY <1>1, <1>2, <1>3

\* A request that is put at the end decides.
LEMMA LatestAppend ==
  ASSUME NEW q \in Seq(Request), NEW r \in Request, NEW k, NEW d
  PROVE  Latest(Append(q, r), k, d) = IF Key(r) = k THEN r.exp ELSE Latest(q, k, d)
<1> DEFINE p == Append(q, r)
           n == Len(q)
<1>1. /\ n \in Nat /\ DOMAIN q = 1 .. n /\ p \in Seq(Request) /\ DOMAIN p = 1 .. n + 1
      /\ p[n + 1] = r /\ \A i \in 1 .. n : p[i] = q[i]
  OBVIOUS
<1> HIDE DEF p, n
<1>2. CASE Key(r) = k
  <2>1. \A j \in DOMAIN p : j <= n + 1
    BY <1>1
  <2>2. n + 1 \in DOMAIN p /\ Key(p[n + 1]) = k
    BY <1>1, <1>2
  <2>3. Latest(p, k, d) = p[n + 1].exp
    BY <1>1, <2>1, <2>2, LatestAt
  <2> QED
    BY <1>1, <1>2, <2>3 DEF p
<1>3. CASE Key(r) # k /\ \A i \in DOMAIN q : Key(q[i]) # k
  <2>1. \A i \in DOMAIN p : Key(p[i]) # k
    BY <1>1, <1>3
  <2>2. Latest(p, k, d) = d /\ Latest(q, k, d) = d
    BY <1>1, <1>3, <2>1, LatestIs
  <2> QED
    BY <1>3, <2>2 DEF p
<1>4. ASSUME Key(r) # k, NEW i \in DOMAIN q, Key(q[i]) = k,
             \A j \in DOMAIN q : Key(q[j]) = k => j <= i
      PROVE  Latest(p, k, d) = Latest(q, k, d)
  <2>1. Latest(q, k, d) = q[i].exp
    BY <1>4, LatestAt
  <2>2. i \in DOMAIN p /\ p[i] = q[i]
    BY <1>1
  <2>3. \A j \in DOMAIN p : Key(p[j]) = k => j <= i
    BY <1>1, <1>4
  <2>4. Latest(p, k, d) = p[i].exp
    BY <1>1, <1>4, <2>2, <2>3, LatestAt
  <2> QED
    BY <2>1, <2>2, <2>4
<1> QED
  BY <1>2, <1>3, <1>4, LatestIs DEF p

\* A request that is taken from the front counts for what comes after.
LEMMA LatestHead ==
  ASSUME NEW q \in Seq(Request), q # <<>>, NEW k, NEW d
  PROVE  Latest(q, k, d) =
           Latest(Tail(q), k, IF Key(Head(q)) = k THEN Head(q).exp ELSE d)
<1> DEFINE t == Tail(q)
           n == Len(q)
           h == q[1]
           e == IF Key(h) = k THEN h.exp ELSE d
<1>1. /\ n \in Nat /\ n > 0 /\ DOMAIN q = 1 .. n /\ t \in Seq(Request) /\ Len(t) = n - 1
      /\ DOMAIN t = 1 .. n - 1 /\ Head(q) = h
  OBVIOUS
<1>2. \A i \in 1 .. n - 1 : t[i] = q[i + 1]
  BY <1>1
<1> SUFFICES Latest(q, k, d) = Latest(t, k, e)
  BY <1>1
<1> HIDE DEF t, n, h, e
<1>3. ASSUME NEW i \in DOMAIN t, Key(t[i]) = k,
             \A j \in DOMAIN t : Key(t[j]) = k => j <= i
      PROVE  Latest(q, k, d) = Latest(t, k, e)
  <2>1. Latest(t, k, e) = t[i].exp
    BY <1>1, <1>3, LatestAt
  <2>2. i + 1 \in DOMAIN q /\ q[i + 1] = t[i]
    BY <1>1, <1>2
  <2>3. ASSUME NEW j \in DOMAIN q, Key(q[j]) = k PROVE j <= i + 1
    <3>1. CASE j = 1
      BY <1>1, <3>1
    <3>2. CASE j # 1
      <4>1. j - 1 \in DOMAIN t /\ t[j - 1] = q[j]
        BY <1>1, <1>2, <3>2
      <4>2. j - 1 <= i
        BY <1>3, <2>3, <4>1
      <4> QED
        BY <1>1, <4>2
    <3> QED
      BY <3>1, <3>2
  <2>4. Latest(q, k, d) = q[i + 1].exp
    BY <1>3, <2>2, <2>3, LatestAt
  <2> QED
    BY <2>1, <2>2, <2>4
<1>4. CASE \A i \in DOMAIN t : Key(t[i]) # k
  <2>1. Latest(t, k, e) = e
    BY <1>1, <1>4, LatestIs
  <2>2. ASSUME NEW j \in DOMAIN q, Key(q[j]) = k PROVE j = 1
    <3>1. CASE j # 1
      <4>1. j - 1 \in DOMAIN t /\ t[j - 1] = q[j]
        BY <1>1, <1>2, <3>1
      <4> QED
        BY <1>4, <2>2, <4>1
    <3> QED
      BY <3>1
  <2>3. CASE Key(h) = k
    <3>1. Latest(q, k, d) = h.exp
      BY <1>1, <2>2, <2>3, LatestAt DEF h
    <3>2. e = h.exp
      BY <2>3 DEF e
    <3> QED
      BY <2>1, <3>1, <3>2
  <2>4. CASE Key(h) # k
    <3>1. Latest(q, k, d) = d
      BY <2>2, <2>4, LatestIs DEF h
    <3>2. e = d
      BY <2>4 DEF e
    <3> QED
      BY <2>1, <3>1, <3>2
  <2> QED
    BY <2>3, <2>4
<1> QED
  BY <1>1, <1>3, <1>4, LatestIs

\* What is left of a queue.
LEMMA TailEntries ==
  ASSUME NEW q \in Seq(Request), q # <<>>, NEW i \in DOMAIN Tail(q)
  PROVE  i + 1 \in DOMAIN q /\ Tail(q)[i] = q[i + 1]
<1>1. Len(q) \in Nat /\ Len(q) > 0 /\ DOMAIN q = 1 .. Len(q)
  OBVIOUS
<1>2. Tail(q) \in Seq(Request) /\ Len(Tail(q)) = Len(q) - 1
  OBVIOUS
<1>3. i \in 1 .. Len(q) - 1
  BY <1>1, <1>2
<1> QED
  BY <1>1, <1>3

-----------------------------------------------------------------------------
(* The parts of the state.                                                 *)

\* The clock, the processes and the blocks they are in.
ProcessOK == now \in Nat /\ alive \subseteq Workers /\ blocks \in [Workers -> Seq(Scopes)]

QueueOK ==
  /\ buffer \in [Workers -> Seq(Request)] /\ pipe \in Seq(Request)
  /\ taken \in Seq(Request) /\ qsize \in Nat

WatchdogOK ==
  /\ pc \in {"loop", "get", "register", "reap", "ended"}
  /\ batch \in Nat /\ (pc = "get" => batch > 0)
  /\ timers \in [Keys -> Nat \cup {NoTimer}]
  /\ doomed \subseteq Workers /\ reaped \subseteq Workers

CountsOK ==
  /\ stopped \in BOOLEAN /\ acquires \in Nat /\ failures \in Nat
  /\ last \in [Keys -> Nat \cup {NoTimer}]
  /\ received \in [Keys -> Nat \cup {NoTimer}]

LEMMA TypeParts == TypeOK <=> ProcessOK /\ QueueOK /\ WatchdogOK /\ CountsOK
  BY DEF TypeOK, ProcessOK, QueueOK, WatchdogOK, CountsOK

LEMMA TypePartsNext == TypeOK' <=> ProcessOK' /\ QueueOK' /\ WatchdogOK' /\ CountsOK'
  BY DEF TypeOK, ProcessOK, QueueOK, WatchdogOK, CountsOK

\* A timer and the request about it.
LEMMA KeyType ==
  /\ \A r \in Request : Key(r) \in Keys /\ Key(r)[1] = r.worker
  /\ \A w \in Workers, s \in Scopes : <<w, s>> \in Keys
  /\ \A k \in Keys : k[1] \in Workers /\ k[2] \in Scopes /\ k = <<k[1], k[2]>>
  BY DEF Key, Keys, Request

\* The table after a request is registered.
LEMMA RegisteredIs ==
  ASSUME NEW t \in [Keys -> Nat \cup {NoTimer}], NEW r \in Request
  PROVE  /\ Registered(t, r) \in [Keys -> Nat \cup {NoTimer}]
         /\ \A k \in Keys : Registered(t, r)[k] = IF Key(r) = k THEN r.exp ELSE t[k]
<1>1. Key(r) \in Keys /\ r.exp \in Nat \cup {NoTimer}
  BY KeyType DEF Request
<1>2. Registered(t, r) = [t EXCEPT ![Key(r)] = r.exp]
  BY DEF Registered, Key
<1> QED
  BY <1>1, <1>2

-----------------------------------------------------------------------------
(* The counter of the queue.                                               *)

\* A request that is put adds a place.
LEMMA UnsentPut ==
  ASSUME QueueOK, NEW w \in Workers, NEW r \in Request, IsFiniteSet(Unsent),
         buffer' = [buffer EXCEPT ![w] = Append(@, r)]
  PROVE  IsFiniteSet(Unsent') /\ Cardinality(Unsent') = Cardinality(Unsent) + 1
<1> DEFINE n == Len(buffer[w])
<1>1. n \in Nat /\ DOMAIN buffer[w] = 1 .. n
  BY DEF QueueOK
<1>2. DOMAIN buffer'[w] = 1 .. n + 1 /\ \A v \in Workers : v # w => buffer'[v] = buffer[v]
  BY DEF QueueOK
<1>3. <<w, n + 1>> \notin Unsent
  BY <1>1 DEF Unsent
<1>4. Unsent' = Unsent \cup {<<w, n + 1>>}
  <2>1. ASSUME NEW v \in Workers, NEW i
        PROVE  i \in DOMAIN buffer'[v] <=> i \in DOMAIN buffer[v] \/ <<v, i>> = <<w, n + 1>>
    <3>1. CASE v = w
      BY <1>1, <1>2, <3>1
    <3>2. CASE v # w
      BY <1>2, <3>2
    <3> QED
      BY <3>1, <3>2
  <2> HIDE DEF n
  <2>2. \A p : p \in Unsent' <=>
          \E v \in Workers : \E i \in DOMAIN buffer'[v] : p = <<v, i>>
    BY DEF Unsent
  <2>3. \A p : p \in Unsent <=>
          \E v \in Workers : \E i \in DOMAIN buffer[v] : p = <<v, i>>
    BY DEF Unsent
  <2> QED
    BY <2>1, <2>2, <2>3
<1> QED
  BY <1>3, <1>4, FS_AddElement

\* A request that is sent takes one away.
LEMMA UnsentSend ==
  ASSUME QueueOK, NEW w \in Workers, buffer[w] # <<>>, IsFiniteSet(Unsent),
         buffer' = [buffer EXCEPT ![w] = Tail(@)]
  PROVE  IsFiniteSet(Unsent') /\ Cardinality(Unsent') = Cardinality(Unsent) - 1
<1> DEFINE n == Len(buffer[w])
<1>1. n \in Nat /\ n > 0 /\ DOMAIN buffer[w] = 1 .. n
  BY DEF QueueOK
<1>2. DOMAIN buffer'[w] = 1 .. n - 1 /\ \A v \in Workers : v # w => buffer'[v] = buffer[v]
  BY DEF QueueOK
<1>3. <<w, n>> \in Unsent
  BY <1>1 DEF Unsent
<1>4. Unsent' = Unsent \ {<<w, n>>}
  <2>1. ASSUME NEW v \in Workers, NEW i
        PROVE  i \in DOMAIN buffer'[v] <=> i \in DOMAIN buffer[v] /\ <<v, i>> # <<w, n>>
    <3>1. CASE v = w
      BY <1>1, <1>2, <3>1
    <3>2. CASE v # w
      BY <1>2, <3>2
    <3> QED
      BY <3>1, <3>2
  <2> HIDE DEF n
  <2>2. \A p : p \in Unsent' <=>
          \E v \in Workers : \E i \in DOMAIN buffer'[v] : p = <<v, i>>
    BY DEF Unsent
  <2>3. \A p : p \in Unsent <=>
          \E v \in Workers : \E i \in DOMAIN buffer[v] : p = <<v, i>>
    BY DEF Unsent
  <2> QED
    BY <2>1, <2>2, <2>3
<1> QED
  BY <1>3, <1>4, FS_RemoveElement

\* The requests that die with their process.
LEMMA UnsentGone ==
  ASSUME QueueOK, NEW w \in Workers, IsFiniteSet(Unsent),
         buffer' = [buffer EXCEPT ![w] = <<>>]
  PROVE  IsFiniteSet(Unsent') /\ Cardinality(Unsent') <= Cardinality(Unsent)
<1>1. \A v \in Workers : DOMAIN buffer'[v] \subseteq DOMAIN buffer[v]
  <2> SUFFICES ASSUME NEW v \in Workers PROVE DOMAIN buffer'[v] \subseteq DOMAIN buffer[v]
    OBVIOUS
  <2>1. CASE v = w
    <3>1. buffer'[v] = <<>>
      BY <2>1 DEF QueueOK
    <3> QED
      BY <3>1
  <2>2. CASE v # w
    BY <2>2 DEF QueueOK
  <2> QED
    BY <2>1, <2>2
<1>2. Unsent' \subseteq Unsent
  BY <1>1 DEF Unsent
<1> QED
  BY <1>2, FS_Subset

-----------------------------------------------------------------------------
(* Requests on their way.                                                  *)

\* What a step of the queue keeps.
FlowOK == QueueOK /\ OwnInv /\ SizeInv /\ InStep

\* Where nothing moves.
LEMMA FlowStays ==
  ASSUME FlowOK, UNCHANGED <<buffer, pipe, qsize, taken, timers, last, alive>>
  PROVE  FlowOK'
<1>1. QueueOK' /\ OwnInv' /\ Unsent' = Unsent
  BY DEF FlowOK, QueueOK, OwnInv, Unsent
<1>2. SizeInv'
  BY <1>1 DEF FlowOK, SizeInv
<1>3. \A k : Outcome(k)' = Outcome(k)
  BY DEF Outcome, Latest
<1>4. InStep'
  BY <1>3 DEF FlowOK, InStep
<1> QED
  BY <1>1, <1>2, <1>4 DEF FlowOK

\* A process puts a request.
LEMMA FlowPut ==
  ASSUME FlowOK, CountsOK, NEW w \in Workers, NEW s \in Scopes,
         NEW exp \in Nat \cup {NoTimer}, Put(w, s, exp),
         UNCHANGED <<taken, timers, alive>>
  PROVE  FlowOK'
<1> DEFINE r == [worker |-> w, scope |-> s, exp |-> exp]
<1>0. QueueOK /\ OwnInv /\ SizeInv /\ InStep
  BY DEF FlowOK
<1>1. r \in Request /\ r.worker = w /\ r.exp = exp /\ Key(r) = <<w, s>>
  BY DEF Request, Key
<1>2. /\ buffer' = [buffer EXCEPT ![w] = Append(@, r)] /\ qsize' = qsize + 1
      /\ last' = [last EXCEPT ![<<w, s>>] = exp] /\ pipe' = pipe
  BY DEF Put
<1> HIDE DEF r
<1>3. /\ buffer[w] \in Seq(Request) /\ buffer'[w] = Append(buffer[w], r)
      /\ \A v \in Workers : v # w => buffer'[v] = buffer[v]
  BY <1>0, <1>2 DEF QueueOK
<1>4. QueueOK'
  BY <1>0, <1>1, <1>2 DEF QueueOK
<1>5. OwnInv'
  <2> SUFFICES ASSUME NEW v \in Workers, NEW i \in DOMAIN buffer'[v]
               PROVE  buffer'[v][i].worker = v
    BY DEF OwnInv
  <2>1. CASE v # w
    BY <1>0, <1>3, <2>1 DEF OwnInv
  <2>2. CASE v = w
    <3>1. \/ i \in DOMAIN buffer[w] /\ buffer'[w][i] = buffer[w][i]
          \/ buffer'[w][i] = r
      BY <1>3, <2>2
    <3> QED
      BY <1>0, <1>1, <2>2, <3>1 DEF OwnInv
  <2> QED
    BY <2>1, <2>2
<1>6. SizeInv'
  <2>1. IsFiniteSet(Unsent') /\ Cardinality(Unsent') = Cardinality(Unsent) + 1
    BY <1>0, <1>1, <1>2, UnsentPut DEF SizeInv
  <2>2. Cardinality(Unsent) \in Nat /\ Len(pipe) \in Nat
    BY <1>0, FS_CardinalityType DEF SizeInv, QueueOK
  <2> QED
    BY <1>0, <1>2, <2>1, <2>2 DEF SizeInv, QueueOK
<1>7. InStep'
  <2> SUFFICES ASSUME NEW k \in Keys, k[1] \in alive
               PROVE  Outcome(k)' = last'[k]
    BY DEF InStep
  <2> DEFINE rest == Latest(pipe, k, Latest(taken, k, timers[k]))
  <2>1. Outcome(k) = Latest(buffer[k[1]], k, rest) /\ Outcome(k) = last[k]
    BY <1>0 DEF Outcome, InStep
  <2>2. Outcome(k)' = Latest(buffer'[k[1]], k, rest)
    BY <1>2 DEF Outcome, Latest
  <2> HIDE DEF rest
  <2>3. last'[k] = IF Key(r) = k THEN r.exp ELSE last[k]
    BY <1>1, <1>2 DEF CountsOK
  <2>4. CASE k[1] = w
    <3>1. Latest(buffer'[w], k, rest) =
            IF Key(r) = k THEN r.exp ELSE Latest(buffer[w], k, rest)
      <4>1. buffer'[w] = Append(buffer[w], r) /\ buffer[w] \in Seq(Request) /\ r \in Request
        BY <1>1, <1>3
      <4>2. Latest(Append(buffer[w], r), k, rest) =
              IF Key(r) = k THEN r.exp ELSE Latest(buffer[w], k, rest)
        BY <4>1, LatestAppend
      <4> QED
        BY <4>1, <4>2
    <3> QED
      BY <2>1, <2>2, <2>3, <2>4, <3>1
  <2>5. CASE k[1] # w
    <3>1. buffer'[k[1]] = buffer[k[1]] /\ Key(r) # k
      BY <1>1, <1>3, <2>5, KeyType
    <3> QED
      BY <2>1, <2>2, <2>3, <3>1
  <2> QED
    BY <2>4, <2>5
<1> QED
  BY <1>4, <1>5, <1>6, <1>7 DEF FlowOK

\* A request goes from the buffer to the pipe.
LEMMA FlowSend ==
  ASSUME FlowOK, NEW w \in Workers, Send(w)
  PROVE  FlowOK'
<1> DEFINE r == Head(buffer[w])
<1>0. QueueOK /\ OwnInv /\ SizeInv /\ InStep
  BY DEF FlowOK
<1>1. buffer[w] \in Seq(Request) /\ buffer[w] # <<>>
  BY <1>0 DEF QueueOK, Send
<1>2. r \in Request /\ r.worker = w
  BY <1>0, <1>1 DEF OwnInv
<1>3. /\ buffer' = [buffer EXCEPT ![w] = Tail(@)] /\ pipe' = Append(pipe, r)
      /\ UNCHANGED <<qsize, taken, timers, last, alive>>
  BY DEF Send, watchdog
<1>4. /\ buffer'[w] = Tail(buffer[w])
      /\ \A v \in Workers : v # w => buffer'[v] = buffer[v]
  BY <1>0, <1>3 DEF QueueOK
<1>5. QueueOK'
  BY <1>0, <1>1, <1>2, <1>3 DEF QueueOK
<1>6. OwnInv'
  <2> SUFFICES ASSUME NEW v \in Workers, NEW i \in DOMAIN buffer'[v]
               PROVE  buffer'[v][i].worker = v
    BY DEF OwnInv
  <2>1. CASE v # w
    BY <1>0, <1>4, <2>1 DEF OwnInv
  <2>2. CASE v = w
    <3>1. i + 1 \in DOMAIN buffer[w] /\ buffer'[w][i] = buffer[w][i + 1]
      <4>1. buffer'[w] = Tail(buffer[w]) /\ i \in DOMAIN Tail(buffer[w])
        BY <1>4, <2>2
      <4> QED
        BY <1>1, <4>1, TailEntries
    <3> QED
      BY <1>0, <2>2, <3>1 DEF OwnInv
  <2> QED
    BY <2>1, <2>2
<1>7. SizeInv'
  <2>1. IsFiniteSet(Unsent') /\ Cardinality(Unsent') = Cardinality(Unsent) - 1
    BY <1>0, <1>1, <1>3, UnsentSend DEF SizeInv
  <2>2. Cardinality(Unsent) \in Nat /\ Len(pipe) \in Nat /\ Len(pipe') = Len(pipe) + 1
    BY <1>0, <1>2, <1>3, FS_CardinalityType DEF SizeInv, QueueOK
  <2> QED
    BY <1>0, <1>3, <2>1, <2>2 DEF SizeInv, QueueOK
<1> HIDE DEF r
<1>8. InStep'
  <2> SUFFICES ASSUME NEW k \in Keys, k[1] \in alive
               PROVE  Outcome(k)' = last[k]
    BY <1>3 DEF InStep
  <2> DEFINE rest == Latest(taken, k, timers[k])
             next == IF Key(r) = k THEN r.exp ELSE Latest(pipe, k, rest)
  <2>1. Latest(buffer[k[1]], k, Latest(pipe, k, rest)) = last[k]
    BY <1>0 DEF Outcome, InStep
  <2>2. Outcome(k)' = Latest(buffer'[k[1]], k, Latest(pipe', k, rest))
    BY <1>3 DEF Outcome, Latest
  <2> HIDE DEF rest
  <2>3. Latest(pipe', k, rest) = next
    BY <1>0, <1>2, <1>3, LatestAppend DEF QueueOK
  <2>4. CASE k[1] = w
    <3>1. Latest(buffer[w], k, Latest(pipe, k, rest)) = Latest(buffer'[w], k, next)
      BY <1>1, <1>4, LatestHead DEF r
    <3> QED
      BY <2>1, <2>2, <2>3, <2>4, <3>1
  <2>5. CASE k[1] # w
    <3>1. buffer'[k[1]] = buffer[k[1]] /\ Key(r) # k
      BY <1>2, <1>4, <2>5, KeyType
    <3>2. next = Latest(pipe, k, rest)
      BY <3>1
    <3> HIDE DEF next
    <3> QED
      BY <2>1, <2>2, <2>3, <3>1, <3>2
  <2> QED
    BY <2>4, <2>5
<1> QED
  BY <1>5, <1>6, <1>7, <1>8 DEF FlowOK

\* A process is gone.
LEMMA FlowGone ==
  ASSUME FlowOK, NEW w \in Workers, Gone(w), UNCHANGED <<pipe, qsize, taken, timers, last>>
  PROVE  FlowOK'
<1>0. QueueOK /\ OwnInv /\ SizeInv /\ InStep
  BY DEF FlowOK
<1>1. buffer' = [buffer EXCEPT ![w] = <<>>] /\ alive' = alive \ {w}
  BY DEF Gone
<1>2. /\ buffer'[w] = <<>>
      /\ \A v \in Workers : v # w => buffer'[v] = buffer[v]
  BY <1>0, <1>1 DEF QueueOK
<1>3. QueueOK'
  BY <1>0, <1>1 DEF QueueOK
<1>4. OwnInv'
  BY <1>0, <1>2 DEF OwnInv
<1>5. SizeInv'
  <2>1. IsFiniteSet(Unsent') /\ Cardinality(Unsent') <= Cardinality(Unsent)
    BY <1>0, <1>1, UnsentGone DEF SizeInv
  <2>2. /\ Cardinality(Unsent) \in Nat /\ Cardinality(Unsent') \in Nat
        /\ Len(pipe) \in Nat
    BY <1>0, <2>1, FS_CardinalityType DEF SizeInv, QueueOK
  <2> QED
    BY <1>0, <2>1, <2>2 DEF SizeInv, QueueOK
<1>6. InStep'
  <2> SUFFICES ASSUME NEW k \in Keys, k[1] \in alive'
               PROVE  Outcome(k)' = last[k]
    BY DEF InStep
  <2>1. k[1] \in alive /\ buffer'[k[1]] = buffer[k[1]]
    BY <1>1, <1>2, KeyType
  <2>2. Outcome(k)' = Outcome(k)
    BY <2>1 DEF Outcome, Latest
  <2> QED
    BY <1>0, <2>1, <2>2 DEF InStep
<1> QED
  BY <1>3, <1>4, <1>5, <1>6 DEF FlowOK

\* The watchdog takes a request.
LEMMA FlowTake ==
  ASSUME FlowOK, Take
  PROVE  FlowOK'
<1> DEFINE r == Head(pipe)
<1>0. QueueOK /\ OwnInv /\ SizeInv /\ InStep
  BY DEF FlowOK
<1>1. pipe \in Seq(Request) /\ pipe # <<>> /\ taken \in Seq(Request)
  BY <1>0 DEF QueueOK, Take
<1>2. r \in Request
  BY <1>1
<1>3. /\ pipe' = Tail(pipe) /\ taken' = Append(taken, r) /\ qsize' = qsize - 1
      /\ UNCHANGED <<buffer, timers, last, alive>>
  BY DEF Take
<1>4. /\ Len(pipe) \in Nat /\ Len(pipe) > 0 /\ Len(pipe') = Len(pipe) - 1
      /\ pipe' \in Seq(Request) /\ taken' \in Seq(Request)
  BY <1>1, <1>2, <1>3
<1>5. Unsent' = Unsent /\ Cardinality(Unsent) \in Nat
  BY <1>0, <1>3, FS_CardinalityType DEF Unsent, SizeInv
<1>6. SizeInv'
  BY <1>0, <1>3, <1>4, <1>5 DEF SizeInv, QueueOK
<1>7. QueueOK'
  BY <1>0, <1>3, <1>4, <1>5 DEF QueueOK, SizeInv
<1>8. OwnInv'
  BY <1>0, <1>3 DEF OwnInv
<1> HIDE DEF r
<1>9. InStep'
  <2> SUFFICES ASSUME NEW k \in Keys, k[1] \in alive
               PROVE  Outcome(k)' = last[k]
    BY <1>3 DEF InStep
  <2> DEFINE next == IF Key(r) = k THEN r.exp ELSE Latest(taken, k, timers[k])
  <2>1. Latest(buffer[k[1]], k, Latest(pipe, k, Latest(taken, k, timers[k]))) = last[k]
    BY <1>0 DEF Outcome, InStep
  <2>2. Outcome(k)' = Latest(buffer[k[1]], k, Latest(pipe', k, Latest(taken', k, timers[k])))
    BY <1>3 DEF Outcome, Latest
  <2>3. Latest(taken', k, timers[k]) = next
    BY <1>1, <1>2, <1>3, LatestAppend
  <2>4. Latest(pipe, k, Latest(taken, k, timers[k])) = Latest(pipe', k, next)
    BY <1>1, <1>3, LatestHead DEF r
  <2> HIDE DEF next
  <2> QED
    BY <2>1, <2>2, <2>3, <2>4
<1> QED
  BY <1>6, <1>7, <1>8, <1>9 DEF FlowOK

\* The watchdog registers a request.
LEMMA FlowRegister ==
  ASSUME FlowOK, WatchdogOK, Register
  PROVE  FlowOK' /\ timers' \in [Keys -> Nat \cup {NoTimer}]
<1> DEFINE r == Head(taken)
<1>0. QueueOK /\ OwnInv /\ SizeInv /\ InStep
  BY DEF FlowOK
<1>1. taken \in Seq(Request) /\ taken # <<>> /\ timers \in [Keys -> Nat \cup {NoTimer}]
  BY <1>0 DEF QueueOK, WatchdogOK, Register
<1>2. r \in Request
  BY <1>1
<1>3. /\ taken' = Tail(taken) /\ timers' = Registered(timers, r)
      /\ UNCHANGED <<buffer, pipe, qsize, last, alive>>
  BY DEF Register, queue
<1>4. QueueOK' /\ OwnInv' /\ Unsent' = Unsent
  BY <1>0, <1>1, <1>3 DEF QueueOK, OwnInv, Unsent
<1>5. SizeInv'
  BY <1>0, <1>3, <1>4 DEF SizeInv
<1> HIDE DEF r
<1>6. /\ timers' \in [Keys -> Nat \cup {NoTimer}]
      /\ \A k \in Keys : timers'[k] = IF Key(r) = k THEN r.exp ELSE timers[k]
  BY <1>1, <1>2, <1>3, RegisteredIs
<1>7. InStep'
  <2> SUFFICES ASSUME NEW k \in Keys, k[1] \in alive
               PROVE  Outcome(k)' = last[k]
    BY <1>3 DEF InStep
  <2>1. Latest(buffer[k[1]], k, Latest(pipe, k, Latest(taken, k, timers[k]))) = last[k]
    BY <1>0 DEF Outcome, InStep
  <2>2. Outcome(k)' = Latest(buffer[k[1]], k, Latest(pipe, k, Latest(taken', k, timers'[k])))
    BY <1>3 DEF Outcome, Latest
  <2> DEFINE next == IF Key(r) = k THEN r.exp ELSE timers[k]
  <2>3. Latest(taken, k, timers[k]) = Latest(taken', k, next)
    BY <1>1, <1>3, LatestHead DEF r
  <2>4. timers'[k] = next
    BY <1>6
  <2> HIDE DEF next
  <2> QED
    BY <2>1, <2>2, <2>3, <2>4
<1> QED
  BY <1>4, <1>5, <1>6, <1>7 DEF FlowOK

\* The watchdog clears the timers of processes that are gone.
LEMMA FlowClear ==
  ASSUME FlowOK, WatchdogOK, reaped \cap alive = {}, ClearTimers
  PROVE  FlowOK' /\ timers' \in [Keys -> Nat \cup {NoTimer}]
<1>0. QueueOK /\ OwnInv /\ SizeInv /\ InStep
  BY DEF FlowOK
<1>1. /\ timers' = [k \in Keys |-> IF k[1] \in reaped THEN NoTimer ELSE timers[k]]
      /\ UNCHANGED <<buffer, pipe, qsize, taken, last, alive>>
  BY DEF ClearTimers, queue
<1>2. timers' \in [Keys -> Nat \cup {NoTimer}]
  BY <1>1 DEF WatchdogOK
<1>3. QueueOK' /\ OwnInv' /\ Unsent' = Unsent
  BY <1>0, <1>1 DEF QueueOK, OwnInv, Unsent
<1>4. SizeInv'
  BY <1>0, <1>1, <1>3 DEF SizeInv
<1>5. InStep'
  <2> SUFFICES ASSUME NEW k \in Keys, k[1] \in alive
               PROVE  Outcome(k)' = last[k]
    BY <1>1 DEF InStep
  <2>1. timers'[k] = timers[k]
    BY <1>1
  <2>2. Outcome(k)' = Outcome(k)
    BY <1>1, <2>1 DEF Outcome, Latest
  <2> QED
    BY <1>0, <2>2 DEF InStep
<1> QED
  BY <1>2, <1>3, <1>4, <1>5 DEF FlowOK

-----------------------------------------------------------------------------
(* The steps.                                                              *)

\* Requests are kept in order whatever happens.
LEMMA FlowStep ==
  ASSUME Inv, [Next]_vars
  PROVE  FlowOK' /\ timers' \in [Keys -> Nat \cup {NoTimer}]
<1>0. /\ FlowOK /\ CountsOK /\ WatchdogOK /\ ProcessOK /\ reaped \cap alive = {}
      /\ timers \in [Keys -> Nat \cup {NoTimer}]
  BY TypeParts DEF Inv, FlowOK, ReapInv, WatchdogOK
<1> USE DEF queue, watchdog
<1>1. CASE \/ Tick \/ Stop \/ WatchdogEnds \/ GetSize \/ GetEnds \/ GetExpired
           \/ \E w \in Workers : KillNobody(w) \/ KillFails(w)
           \/ UNCHANGED vars
  <2>1. UNCHANGED <<buffer, pipe, qsize, taken, timers, last, alive>>
    BY <1>1 DEF Tick, Stop, WatchdogEnds, GetSize, GetEnds, GetExpired, KillNobody,
                KillFails, vars
  <2> QED
    BY <1>0, <2>1, FlowStays
<1>2. CASE Take
  BY <1>0, <1>2, FlowTake DEF Take
<1>3. CASE Register
  BY <1>0, <1>3, FlowRegister
<1>4. CASE ClearTimers
  BY <1>0, <1>4, FlowClear
<1>5. ASSUME NEW w \in Workers, Kill(w) \/ Crash(w)
      PROVE  FlowOK' /\ timers' \in [Keys -> Nat \cup {NoTimer}]
  BY <1>0, <1>5, FlowGone DEF Kill, Crash
<1>6. ASSUME NEW w \in Workers, NEW s \in Scopes, NEW after \in Durations, Enter(w, s, after)
      PROVE  FlowOK' /\ timers' \in [Keys -> Nat \cup {NoTimer}]
  <2>1. now + after \in Nat
    BY <1>0, TimerAssumption DEF ProcessOK
  <2>2. Put(w, s, now + after) /\ UNCHANGED <<taken, timers, alive>>
    BY <1>6 DEF Enter
  <2> QED
    BY <1>0, <2>1, <2>2, FlowPut
<1>7. ASSUME NEW w \in Workers, Leave(w)
      PROVE  FlowOK' /\ timers' \in [Keys -> Nat \cup {NoTimer}]
  <2>1. blocks[w] \in Seq(Scopes) /\ blocks[w] # <<>>
    BY <1>0, <1>7 DEF ProcessOK, Leave
  <2>2. blocks[w][Len(blocks[w])] \in Scopes
    BY <2>1
  <2>3. Put(w, blocks[w][Len(blocks[w])], NoTimer) /\ UNCHANGED <<taken, timers, alive>>
    BY <1>7 DEF Leave
  <2> QED
    BY <1>0, <2>2, <2>3, FlowPut
<1>8. ASSUME NEW w \in Workers, Send(w)
      PROVE  FlowOK' /\ timers' \in [Keys -> Nat \cup {NoTimer}]
  BY <1>0, <1>8, FlowSend DEF Send
<1> QED
  BY <1>1, <1>2, <1>3, <1>4, <1>5, <1>6, <1>7, <1>8 DEF Next, Watchdog, Worker

\* What the server receives.
LEMMA TakeReceives ==
  ASSUME QueueOK, received \in [Keys -> Nat \cup {NoTimer}], Take
  PROVE  /\ pipe \in Seq(Request) /\ pipe # <<>> /\ Head(pipe) \in Request
         /\ received' \in [Keys -> Nat \cup {NoTimer}]
         /\ \A k \in Keys :
              received'[k] = IF Key(Head(pipe)) = k THEN Head(pipe).exp ELSE received[k]
<1> DEFINE r == Head(pipe)
<1>1. pipe \in Seq(Request) /\ pipe # <<>>
  BY DEF QueueOK, Take
<1>2. r \in Request
  BY <1>1
<1>3. received' = Registered(received, r)
  BY DEF Take, Registered
<1> HIDE DEF r
<1>4. /\ Registered(received, r) \in [Keys -> Nat \cup {NoTimer}]
      /\ \A k \in Keys : Registered(received, r)[k] = IF Key(r) = k THEN r.exp ELSE received[k]
  BY <1>2, RegisteredIs
<1> QED
  BY <1>1, <1>2, <1>3, <1>4 DEF r

\* The clock, the processes and the blocks.
LEMMA ProcessStep ==
  ASSUME Inv, [Next]_vars
  PROVE  /\ ProcessOK' /\ CountsOK'
         /\ now <= now' /\ alive' \subseteq alive
<1>0. ProcessOK /\ CountsOK
  BY TypeParts DEF Inv
<1>1. stopped' = stopped \/ stopped' = TRUE
  BY DEF Next, Tick, Stop, Watchdog, WatchdogEnds, GetSize, GetEnds, GetExpired, Take,
         Register, ClearTimers, KillNobody, KillFails, Kill, Worker, Enter, Leave, Send,
         Crash, vars
<1>2. stopped' \in BOOLEAN
  BY <1>0, <1>1, Zenon DEF CountsOK
<1> USE DEF queue, watchdog
<1>3. CASE \/ WatchdogEnds \/ GetSize \/ GetEnds \/ GetExpired \/ Register
           \/ ClearTimers \/ Stop \/ UNCHANGED vars
           \/ \E w \in Workers : KillNobody(w) \/ Send(w)
  <2>1. UNCHANGED <<now, alive, blocks, last, received, acquires, failures>>
    BY <1>3 DEF WatchdogEnds, GetSize, GetEnds, GetExpired, Register, ClearTimers,
                Stop, KillNobody, Send, vars
  <2> QED
    BY <1>0, <1>2, <2>1 DEF ProcessOK, CountsOK
<1>4. CASE Tick \/ \E w \in Workers : KillFails(w)
  BY <1>0, <1>2, <1>4 DEF Tick, KillFails, ProcessOK, CountsOK
<1>5. ASSUME NEW w \in Workers, Kill(w) \/ Crash(w)
      PROVE  /\ ProcessOK' /\ CountsOK'
             /\ now <= now' /\ alive' \subseteq alive
  <2>1. /\ UNCHANGED <<now, last, received, acquires, failures>>
        /\ alive' = alive \ {w} /\ blocks' = [blocks EXCEPT ![w] = <<>>]
    BY <1>5 DEF Kill, Crash, Gone
  <2> QED
    BY <1>0, <1>2, <2>1 DEF ProcessOK, CountsOK
<1>6. ASSUME NEW w \in Workers, NEW s \in Scopes, NEW after \in Durations, Enter(w, s, after)
      PROVE  /\ ProcessOK' /\ CountsOK'
             /\ now <= now' /\ alive' \subseteq alive
  <2>1. /\ UNCHANGED <<now, alive, received, failures>> /\ acquires' = acquires + 1
        /\ last' = [last EXCEPT ![<<w, s>>] = now + after]
        /\ blocks' = [blocks EXCEPT ![w] = Append(@, s)]
    BY <1>6 DEF Enter, Put
  <2>2. now + after \in Nat
    BY <1>0, TimerAssumption DEF ProcessOK
  <2>3. ProcessOK'
    BY <1>0, <2>1 DEF ProcessOK
  <2>4. CountsOK'
    <3>1. last \in [Keys -> Nat \cup {NoTimer}] /\ now + after \in Nat \cup {NoTimer}
      BY <1>0, <2>2 DEF CountsOK
    <3>2. last' \in [Keys -> Nat \cup {NoTimer}]
      BY <2>1, <3>1
    <3> QED
      BY <1>0, <1>2, <2>1, <3>2 DEF CountsOK
  <2> QED
    BY <1>0, <2>1, <2>3, <2>4 DEF ProcessOK
<1>7. ASSUME NEW w \in Workers, Leave(w)
      PROVE  /\ ProcessOK' /\ CountsOK'
             /\ now <= now' /\ alive' \subseteq alive
  <2> DEFINE b == blocks[w]
  <2>1. /\ UNCHANGED <<now, alive, received, acquires, failures>>
        /\ last' = [last EXCEPT ![<<w, b[Len(b)]>>] = NoTimer]
        /\ blocks' = [blocks EXCEPT ![w] = SubSeq(b, 1, Len(b) - 1)]
    BY <1>7 DEF Leave, Put
  <2>2. b \in Seq(Scopes) /\ b # <<>>
    BY <1>0, <1>7 DEF ProcessOK, Leave
  <2>3. SubSeq(b, 1, Len(b) - 1) \in Seq(Scopes)
    BY <2>2
  <2>4. ProcessOK'
    BY <1>0, <2>1, <2>3 DEF ProcessOK
  <2>5. CountsOK'
    BY <1>0, <1>2, <2>1 DEF CountsOK
  <2> QED
    BY <1>0, <2>1, <2>4, <2>5 DEF ProcessOK
<1>8. CASE Take
  <2>1. UNCHANGED <<now, alive, blocks, last, acquires, failures>>
    BY <1>8 DEF Take
  <2>2. received' \in [Keys -> Nat \cup {NoTimer}]
    BY <1>0, <1>8, TakeReceives, TypeParts DEF Inv, CountsOK
  <2> QED
    BY <1>0, <1>2, <2>1, <2>2 DEF ProcessOK, CountsOK
<1> QED
  BY <1>3, <1>4, <1>5, <1>6, <1>7, <1>8 DEF Next, Watchdog, Worker

\* What was received is registered in the order it came.
LEMMA ReceivedStep ==
  ASSUME Inv, [Next]_vars
  PROVE  ReceivedInv'
<1>0. /\ QueueOK /\ WatchdogOK /\ CountsOK /\ ReapInv /\ ReceivedInv
      /\ taken \in Seq(Request) /\ timers \in [Keys -> Nat \cup {NoTimer}]
      /\ received \in [Keys -> Nat \cup {NoTimer}]
  BY TypeParts DEF Inv, QueueOK, WatchdogOK, CountsOK
<1> SUFFICES ASSUME NEW k \in Keys, k[1] \in alive'
             PROVE  Latest(taken', k, timers'[k]) = received'[k]
  BY DEF ReceivedInv, Latest
<1>1. Latest(taken, k, timers[k]) = received[k] /\ k[1] \in alive
  BY <1>0, ProcessStep DEF ReceivedInv
<1> USE DEF queue, watchdog
<1>2. CASE Take
  <2>1. /\ Head(pipe) \in Request
        /\ received'[k] = IF Key(Head(pipe)) = k THEN Head(pipe).exp ELSE received[k]
    BY <1>0, <1>2, TakeReceives
  <2>2. taken' = Append(taken, Head(pipe)) /\ timers' = timers
    BY <1>2 DEF Take
  <2> DEFINE r == Head(pipe)
             t == timers[k]
  <2> HIDE DEF r, t
  <2>3. Latest(Append(taken, r), k, t) = IF Key(r) = k THEN r.exp ELSE Latest(taken, k, t)
    BY <1>0, <2>1, LatestAppend DEF r
  <2> QED
    BY <1>1, <2>1, <2>2, <2>3 DEF r, t
<1>3. CASE Register
  <2> DEFINE r == Head(taken)
  <2>1. taken # <<>> /\ r \in Request
    BY <1>0, <1>3 DEF Register
  <2>2. taken' = Tail(taken) /\ timers' = Registered(timers, r) /\ received' = received
    BY <1>3 DEF Register
  <2> HIDE DEF r
  <2>3. timers'[k] = IF Key(r) = k THEN r.exp ELSE timers[k]
    BY <1>0, <2>1, <2>2, RegisteredIs
  <2> DEFINE next == IF Key(r) = k THEN r.exp ELSE timers[k]
  <2>4. Latest(taken, k, timers[k]) = Latest(Tail(taken), k, next)
    BY <1>0, <2>1, LatestHead DEF r
  <2>5. timers'[k] = next
    BY <2>3
  <2> HIDE DEF next
  <2> QED
    BY <1>1, <2>2, <2>4, <2>5
<1>4. CASE ClearTimers
  <2>1. /\ timers' = [x \in Keys |-> IF x[1] \in reaped THEN NoTimer ELSE timers[x]]
        /\ UNCHANGED <<taken, received>>
    BY <1>4 DEF ClearTimers
  <2>2. timers'[k] = timers[k]
    BY <1>0, <1>1, <2>1 DEF ReapInv
  <2> QED
    BY <1>1, <2>1, <2>2
<1>5. CASE \/ WatchdogEnds \/ GetSize \/ GetEnds \/ GetExpired \/ Tick \/ Stop \/ UNCHANGED vars
           \/ \E w \in Workers : KillNobody(w) \/ KillFails(w) \/ Kill(w)
  <2>1. UNCHANGED <<taken, timers, received>>
    BY <1>5 DEF WatchdogEnds, GetSize, GetEnds, GetExpired, Tick, Stop, KillNobody,
                KillFails, Kill, vars
  <2> QED
    BY <1>1, <2>1
<1>6. CASE \E w \in Workers : Worker(w)
  <2>1. UNCHANGED <<taken, timers, received>>
    BY <1>6 DEF Worker, Enter, Leave, Send, Crash
  <2> QED
    BY <1>1, <2>1
<1> QED
  BY <1>2, <1>3, <1>4, <1>5, <1>6 DEF Next, Watchdog

\* The watchdog kills what is expired in the table, and nobody comes back.
LEMMA WatchdogStep ==
  ASSUME Inv, [Next]_vars
  PROVE  WatchdogOK' /\ ReapInv'
<1>0. ProcessOK /\ WatchdogOK /\ ReapInv /\ QueueOK /\ SizeInv
  BY TypeParts DEF Inv
<1>1. /\ timers' \in [Keys -> Nat \cup {NoTimer}] /\ ProcessOK'
      /\ now <= now' /\ alive' \subseteq alive
  BY FlowStep, ProcessStep
<1>2. \A t : t \in 0 .. now => t \in 0 .. now'
  BY <1>0, <1>1 DEF ProcessOK
<1> USE DEF queue, watchdog
<1>3. CASE \/ Tick \/ Stop \/ UNCHANGED vars
           \/ \E w \in Workers : Worker(w)
  <2>1. UNCHANGED <<pc, batch, taken, timers, doomed, reaped>>
    BY <1>3 DEF Tick, Stop, Worker, Enter, Leave, Send, Crash, vars
  <2>2. WatchdogOK'
    BY <1>0, <2>1 DEF WatchdogOK
  <2>3. ReapInv'
    BY <1>0, <1>1, <1>2, <2>1 DEF ReapInv
  <2> QED
    BY <2>2, <2>3
<1>4. CASE WatchdogEnds \/ GetEnds \/ Register
  <2>1. /\ UNCHANGED <<batch, doomed, reaped>>
        /\ pc' \in {"ended", "register"}
    BY <1>4 DEF WatchdogEnds, GetEnds, Register
  <2> QED
    BY <1>0, <1>1, <2>1 DEF WatchdogOK, ReapInv
<1>5. CASE GetSize
  <2>1. /\ UNCHANGED <<doomed, reaped>> /\ pc' = "get"
        /\ batch' = IF qsize = 0 THEN 1 ELSE qsize
    BY <1>5 DEF GetSize
  <2> QED
    BY <1>0, <1>1, <2>1 DEF WatchdogOK, ReapInv, QueueOK
<1>6. CASE Take
  <2>1. /\ UNCHANGED <<doomed, reaped>> /\ pc = "get"
        /\ batch' = batch - 1 /\ pc' = IF batch = 1 THEN "register" ELSE "get"
    BY <1>6 DEF Take
  <2> QED
    BY <1>0, <1>1, <2>1 DEF WatchdogOK, ReapInv
<1>7. CASE GetExpired
  <2>1. /\ doomed' = {w \in Workers : \E s \in Scopes : Expired(<<w, s>>)}
        /\ pc' = "reap" /\ taken = <<>> /\ UNCHANGED <<now, batch, taken, timers, reaped>>
    BY <1>7 DEF GetExpired
  <2>2. \A k \in Keys : Expired(k) => timers[k] \in 0 .. now
    BY <1>0 DEF Expired, WatchdogOK, ProcessOK, NoTimer
  <2>3. \A w \in doomed' : \E s \in Scopes : timers'[<<w, s>>] \in 0 .. now'
    BY <2>1, <2>2, KeyType
  <2> QED
    BY <1>0, <1>1, <2>1, <2>3 DEF WatchdogOK, ReapInv
<1>8. ASSUME NEW w \in Workers, Kill(w) \/ KillNobody(w) \/ KillFails(w)
      PROVE  WatchdogOK' /\ ReapInv'
  <2>1. /\ doomed' = doomed \ {w} /\ UNCHANGED <<now, pc, batch, taken, timers>> /\ pc = "reap"
        /\ reaped' = reaped \/ (reaped' = reaped \cup {w} /\ w \notin alive')
    BY <1>8 DEF Kill, KillNobody, KillFails, Gone
  <2>2. WatchdogOK'
    BY <1>0, <1>1, <2>1 DEF WatchdogOK
  <2>3. reaped' \cap alive' = {}
    BY <1>0, <1>1, <2>1 DEF ReapInv
  <2> QED
    BY <1>0, <2>1, <2>2, <2>3 DEF ReapInv
<1>9. CASE ClearTimers
  <2>1. reaped' = {} /\ pc' = "loop" /\ UNCHANGED <<batch, doomed>>
    BY <1>9 DEF ClearTimers
  <2> QED
    BY <1>0, <1>1, <2>1 DEF WatchdogOK, ReapInv
<1> QED
  BY <1>3, <1>4, <1>5, <1>6, <1>7, <1>8, <1>9 DEF Next, Watchdog

LEMMA InitInv == Init => Inv
<1> SUFFICES ASSUME Init PROVE Inv
  OBVIOUS
<1>1. TypeOK
  <2>1. ProcessOK /\ QueueOK
    BY DEF Init, ProcessOK, QueueOK
  <2>2. WatchdogOK
    BY DEF Init, WatchdogOK
  <2>3. stopped \in BOOLEAN
    BY DEF Init
  <2>4. CountsOK
    BY <2>3 DEF Init, CountsOK
  <2> QED
    BY <2>1, <2>2, <2>4, TypeParts
<1>2. \A w \in Workers : buffer[w] = <<>> /\ DOMAIN buffer[w] = {}
  BY DEF Init
<1>3. OwnInv
  BY <1>2 DEF OwnInv
<1>4. SizeInv
  <2>1. Unsent = {}
    BY <1>2 DEF Unsent
  <2>2. IsFiniteSet({}) /\ Cardinality({}) = 0
    BY FS_EmptySet
  <2> QED
    BY <2>1, <2>2 DEF SizeInv, Init
<1>5. ReapInv
  BY DEF ReapInv, Init
<1>6. InStep
  <2> SUFFICES ASSUME NEW k \in Keys PROVE Outcome(k) = last[k]
    BY DEF InStep
  <2>1. \A d : Latest(<<>>, k, d) = d
    BY DEF Latest
  <2>2. buffer[k[1]] = <<>> /\ pipe = <<>> /\ taken = <<>> /\ timers[k] = last[k]
    BY KeyType DEF Init
  <2> QED
    BY <2>1, <2>2 DEF Outcome
<1>7. ReceivedInv
  <2> SUFFICES ASSUME NEW k \in Keys PROVE Latest(taken, k, timers[k]) = received[k]
    BY DEF ReceivedInv
  <2>1. Latest(<<>>, k, timers[k]) = timers[k]
    BY DEF Latest
  <2> QED
    BY <2>1 DEF Init
<1> QED
  BY <1>1, <1>3, <1>4, <1>5, <1>6, <1>7 DEF Inv

LEMMA InvStep == Inv /\ [Next]_vars => Inv'
  BY FlowStep, ProcessStep, ReceivedStep, WatchdogStep, TypePartsNext DEF Inv, FlowOK

-----------------------------------------------------------------------------
(* The theorems.                                                           *)

\* What is on its way and what the table says add up to what the processes
\* asked for last, the counter of the queue covers what is left to take, and
\* only processes with an expired timer in the table are reaped.
THEOREM Invariance == Spec => []Inv
  BY InitInv, InvStep, PTL DEF Spec

\* Types; in particular a batch never runs below zero although the size of
\* the queue also counts requests that died with their process.
THEOREM TypeCorrect == Spec => []TypeOK
<1>1. Inv => TypeOK
  BY DEF Inv
<1> QED
  BY <1>1, Invariance, PTL

\* No request of a live process is lost, doubled or overtaken on its way
\* through buffers, pipe and batches: the table follows the processes.
THEOREM TableFollows == Spec => []InStep
<1>1. Inv => InStep
  BY DEF Inv
<1> QED
  BY <1>1, Invariance, PTL

\* What the table says of a process that is reaped is what it last received.
LEMMA KillStep ==
  ASSUME Inv, NEW w \in alive, Kill(w)
  PROVE  \E s \in Scopes : received[<<w, s>>] \in 0 .. now
<1>1. ReapInv /\ ReceivedInv /\ w \in Workers
  BY DEF Inv, TypeOK
<1>2. pc = "reap" /\ w \in doomed
  BY DEF Kill
<1>3. taken = <<>>
  BY <1>1, <1>2 DEF ReapInv
<1>4. PICK s \in Scopes : timers[<<w, s>>] \in 0 .. now
  BY <1>1, <1>2 DEF ReapInv
<1> DEFINE k == <<w, s>>
<1>5. k \in Keys /\ k[1] = w
  BY <1>1 DEF Keys
<1>6. Latest(taken, k, timers[k]) = timers[k]
  BY <1>3 DEF Latest
<1> HIDE DEF k
<1>7. received[k] = timers[k]
  BY <1>1, <1>5, <1>6 DEF ReceivedInv
<1> QED
  BY <1>4, <1>7 DEF k

\* A process is killed only on a timer that it asked for and that expired, and
\* not once the server has received the release of the timer.
THEOREM ReleasesHeeded == Spec => ReleaseHeeded
<1>1. Inv /\ [Next]_vars =>
        [\A w \in alive : Kill(w) =>
           \E s \in Scopes : received[<<w, s>>] \in 0 .. now]_vars
  BY KillStep
<1> QED
  BY <1>1, Invariance, PTL DEF Spec, ReleaseHeeded
=============================================================================
