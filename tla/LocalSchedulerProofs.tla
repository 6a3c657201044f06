------------------------ MODULE LocalSchedulerProofs ------------------------
(***************************************************************************)
(* Proofs that the local scheduler keeps its promises for every set of     *)
(* applications, however many roles and replicas they have, every number   *)
(* of sessions and submissions and every cache_size.                       *)
(***************************************************************************)
EXTENDS LocalScheduler, WellFoundedInduction, SequenceTheorems, TLAPS

-----------------------------------------------------------------------------
(* Types.                                                                  *)

\* The locals of the call under way.
LEMMA CallIs ==
  ASSUME TypeOK
  PROVE  /\ Submitting =>
              call \in [op : {"submit"}, s : Sessions, id : Ids, app : Apps,
                        mode : RunMode, role : Nat, replica : Nat]
         /\ Doing("wait") => call \in [op : {"wait"}, s : Sessions, id : Ids]
         /\ Doing("list") =>
              call \in [op : {"list"}, s : Sessions, todo : SUBSET Ids]
         /\ Doing("schedulerwait") \/ Doing("cancel") \/ Doing("kill") =>
              call \in [op : {"schedulerwait", "timedwait", "cancel", "kill"}, id : Ids]
         /\ Doing("del") => call \in [op : {"del"}, todo : SUBSET Ids]
BY DEF TypeOK, Calls, Doing, Gone, Submitting

\* A new call is none of those of an idle thread.
LEMMA CallsType ==
  ASSUME NEW c \in Calls
  PROVE  c # Nothing
BY NothingAssumption

LEMMA DescribeType ==
  ASSUME TypeOK, NEW i \in Ids, Describe(i)
  PROVE  /\ app' \in [Ids -> [state : AppState, mode : RunMode]]
         /\ \A j \in Ids : j # i => app'[j] = app[j]
         /\ app'[i].mode = app[i].mode
         /\ app'[i].state = IF Known(i) THEN Described(i) ELSE app[i].state
<1>1. app[i] \in [state : AppState, mode : RunMode]
  BY DEF TypeOK
<1>2. Described(i) \in AppState
  BY <1>1 DEF Described, AppState
<1> HIDE DEF Described
<1> QED
  BY <1>1, <1>2 DEF TypeOK, Describe

LEMMA CancelType ==
  ASSUME TypeOK, NEW i \in Ids, CancelExisting(i)
  PROVE  /\ app' \in [Ids -> [state : AppState, mode : RunMode]]
         /\ procs' \in [Ids -> Seq(Process)]
         /\ \A j \in Ids : j # i => app'[j] = app[j] /\ procs'[j] = procs[j]
         /\ app'[i].mode = app[i].mode /\ app'[i].state = "CANCELLED"
         /\ ~Alive(i)'
         /\ procs[i] # <<>> => procs'[i] # <<>>
<1>1. app[i] \in [state : AppState, mode : RunMode] /\ procs[i] \in Seq(Process)
  BY DEF TypeOK
<1>2. PICK end \in [DOMAIN procs[i] -> {"ok", "err"}] :
        procs' = [procs EXCEPT ![i] =
          [k \in DOMAIN procs[i] |->
             IF procs[i][k].run = "alive"
               THEN [procs[i][k] EXCEPT !.run = end[k]] ELSE procs[i][k]]]
  BY DEF CancelExisting
<1>3. procs'[i] = [k \in DOMAIN procs[i] |->
             IF procs[i][k].run = "alive"
               THEN [procs[i][k] EXCEPT !.run = end[k]] ELSE procs[i][k]]
  BY <1>2 DEF TypeOK
<1>4. \A k \in DOMAIN procs[i] : procs[i][k] \in Process
  BY <1>1
<1>5. \A k \in DOMAIN procs[i] :
        procs'[i][k] \in Process /\ procs'[i][k].run # "alive"
  BY <1>3, <1>4 DEF Process
<1>6. procs'[i] \in Seq(Process) /\ DOMAIN procs'[i] = DOMAIN procs[i]
  <2>1. DOMAIN procs'[i] = DOMAIN procs[i] /\ DOMAIN procs[i] = 1 .. Len(procs[i])
    BY <1>1, <1>3
  <2>2. procs'[i] = [k \in 1 .. Len(procs[i]) |-> procs'[i][k]]
    BY <1>3, <2>1
  <2>3. procs'[i] \in [1 .. Len(procs[i]) -> Process]
    BY <1>5, <2>1, <2>2
  <2>4. Len(procs[i]) \in Nat
    BY <1>1
  <2> QED
    BY <2>1, <2>3, <2>4
<1>7. ~Alive(i)'
  BY <1>5, <1>6 DEF Alive, Range
<1>8. procs[i] # <<>> => procs'[i] # <<>>
  BY <1>1, <1>6
<1> QED
  BY <1>1, <1>2, <1>6, <1>7, <1>8 DEF TypeOK, CancelExisting, AppState

-----------------------------------------------------------------------------
(* The eviction.                                                           *)

\* A set of positions in a list has a last one.
LEMMA LastPosition ==
  ASSUME NEW n \in Nat, NEW F \in SUBSET (1 .. n), F # {}
  PROVE  \E j \in F : \A k \in F : k <= j
<1> DEFINE T == {n - j : j \in F}
           R == OpToRel(<, Nat)
<1>1. T \subseteq Nat /\ T # {}
  <2>1. \A k \in F : n - k \in Nat
    OBVIOUS
  <2> QED
    BY <2>1
<1>2. IsWellFoundedOn(R, Nat)
  BY NatLessThanWellFounded
<1>3. \A x, y \in Nat : <<y, x>> \in R <=> y < x
  BY DEF OpToRel
<1> HIDE DEF R, T
<1>4. PICK x \in T : \A y \in T : ~(<<y, x>> \in R)
  BY <1>1, <1>2, WFMin
<1>5. \A y \in T : x <= y
  <2> SUFFICES ASSUME NEW y \in T PROVE x <= y
    OBVIOUS
  <2>1. x \in Nat /\ y \in Nat /\ ~(y < x)
    BY <1>1, <1>3, <1>4
  <2> QED
    BY <2>1
<1>6. PICK j \in F : x = n - j
  BY DEF T
<1>7. \A k \in F : n - j <= n - k
  BY <1>5, <1>6 DEF T
<1> QED
  BY <1>7

\* One finished application leaves the cache and the others stay.
LEMMA Evicts ==
  ASSUME TypeOK, Finished # {}
  PROVE  /\ EvictLru \in Seq(Ids)
         /\ Len(EvictLru) = Len(cache) - 1
         /\ Range(EvictLru) \subseteq Range(cache)
         /\ \E j \in Finished : Range(cache) \subseteq Range(EvictLru) \cup {cache[j]}
<1> DEFINE n == Len(cache)
           j == CHOOSE j \in Finished : \A k \in Finished : k <= j
           front == SubSeq(cache, 1, j - 1)
           back == SubSeq(cache, j + 1, n)
<1>1. cache \in Seq(Ids) /\ n \in Nat /\ DOMAIN cache = 1 .. n
  BY DEF TypeOK
<1>2. Finished \subseteq 1 .. n
  BY <1>1 DEF Finished
<1>3. j \in Finished /\ j \in 1 .. n
  BY <1>1, <1>2, LastPosition
<1>4. EvictLru = front \o back
  BY DEF EvictLru
<1> HIDE DEF j
<1>5. /\ front \in Seq(Ids) /\ Len(front) = j - 1
      /\ \A k \in 1 .. j - 1 : front[k] = cache[k]
  BY <1>1, <1>3
<1>6. /\ back \in Seq(Ids) /\ Len(back) = n - j
      /\ \A k \in 1 .. n - j : back[k] = cache[k + j]
  <2>1. j + 1 \in 1 .. n + 1 /\ n - (j + 1) + 1 = n - j /\ n - j \in Nat
    BY <1>1, <1>3
  <2>2. /\ back \in Seq(Ids)
        /\ Len(back) = IF j + 1 <= n THEN n - (j + 1) + 1 ELSE 0
        /\ \A k \in 1 .. n - (j + 1) + 1 : back[k] = cache[j + 1 + k - 1]
    BY <1>1, <2>1, SubSeqProperties
  <2> HIDE DEF back, n
  <2>3. Len(back) = n - j
    BY <1>1, <1>3, <2>1, <2>2
  <2>4. \A k \in 1 .. n - j : j + 1 + k - 1 = k + j
    BY <1>1, <1>3
  <2> QED
    BY <2>1, <2>2, <2>3, <2>4
<1> HIDE DEF front, back, n
<1>7. /\ EvictLru \in Seq(Ids) /\ Len(EvictLru) = n - 1
      /\ \A k \in 1 .. j - 1 : EvictLru[k] = cache[k]
      /\ \A k \in j .. n - 1 : EvictLru[k] = cache[k + 1]
  <2>1. EvictLru \in Seq(Ids) /\ Len(EvictLru) = (j - 1) + (n - j)
    <3>1. /\ front \o back \in Seq(Ids)
          /\ Len(front \o back) = Len(front) + Len(back)
      BY <1>5, <1>6, ConcatProperties
    <3> QED
      BY <1>4, <1>5, <1>6, <3>1
  <2>2. Len(EvictLru) = n - 1
    BY <1>1, <1>3, <2>1
  <2>3. \A k \in 1 .. j - 1 : EvictLru[k] = cache[k]
    BY <1>1, <1>3, <1>4, <1>5, <1>6
  <2>4. ASSUME NEW k \in j .. n - 1
        PROVE  EvictLru[k] = cache[k + 1]
    <3>1. k - (j - 1) \in 1 .. n - j /\ (k - (j - 1)) + j = k + 1
      BY <1>1, <1>3
    <3>2. EvictLru[k] = back[k - (j - 1)]
      BY <1>1, <1>3, <1>4, <1>5, <1>6
    <3> QED
      BY <1>6, <3>1, <3>2
  <2> QED
    BY <2>1, <2>2, <2>3, <2>4
<1>8. DOMAIN EvictLru = 1 .. n - 1
  BY <1>7
<1>9. ASSUME NEW k \in 1 .. n - 1
      PROVE  EvictLru[k] \in Range(cache)
  <2>1. (k \in 1 .. j - 1 \/ k \in j .. n - 1) /\ k \in 1 .. n /\ k + 1 \in 1 .. n
    BY <1>1, <1>3
  <2> QED
    BY <1>1, <1>7, <2>1 DEF Range
<1>10. \A k \in 1 .. n : k # j => cache[k] \in Range(EvictLru)
  <2> SUFFICES ASSUME NEW k \in 1 .. n, k # j
               PROVE  cache[k] \in Range(EvictLru)
    OBVIOUS
  <2>1. CASE k < j
    BY <1>1, <1>3, <1>7, <1>8, <2>1 DEF Range
  <2>2. CASE k > j
    <3>1. k - 1 \in j .. n - 1 /\ k - 1 \in DOMAIN EvictLru /\ (k - 1) + 1 = k
      BY <1>1, <1>3, <1>8, <2>2
    <3> QED
      BY <1>7, <3>1 DEF Range
  <2> QED
    BY <1>1, <1>3, <2>1, <2>2
<1>11. Range(EvictLru) \subseteq Range(cache)
  BY <1>8, <1>9 DEF Range
<1>12. Range(cache) \subseteq Range(EvictLru) \cup {cache[j]}
  BY <1>1, <1>10 DEF Range
<1> QED
  BY <1>3, <1>7, <1>11, <1>12 DEF n

-----------------------------------------------------------------------------
(* What a step changes.                                                    *)

\* The thread neither submits nor deletes the scheduler.
PlainCall(c) == c = Nothing \/ c.op \notin {"submit", "del", "gone"}

\* A step that describes one application, or none.
Looks ==
  /\ PlainCall(call) /\ PlainCall(call')
  /\ \E i \in Ids : Describe(i)
  /\ sess' \in [Sessions -> SUBSET Ids] /\ call' \in Calls \cup {Nothing}
  /\ UNCHANGED <<ids, cache, procs, rejected>>

\* A step of a call that leaves the scheduler alone.
Talks ==
  /\ PlainCall(call) /\ PlainCall(call')
  /\ sess' \in [Sessions -> SUBSET Ids] /\ call' \in Calls \cup {Nothing}
  /\ UNCHANGED scheduler

LEMMA PlainMeans ==
  ASSUME NEW c, PlainCall(c)
  PROVE  ~(c # Nothing /\ c.op \in {"submit", "del"}) /\ c # Gone
<1>1. Gone # Nothing
  BY NothingAssumption DEF Calls
<1> QED
  BY <1>1 DEF PlainCall, Gone

LEMMA PlainCalls ==
  /\ \A s \in Sessions, i \in Ids :
       LET c == [op |-> "wait", s |-> s, id |-> i] IN c \in Calls /\ PlainCall(c)
  /\ \A s \in Sessions, t \in SUBSET Ids :
       LET c == [op |-> "list", s |-> s, todo |-> t] IN c \in Calls /\ PlainCall(c)
  /\ \A o \in {"schedulerwait", "timedwait", "cancel", "kill"}, i \in Ids :
       LET c == [op |-> o, id |-> i] IN c \in Calls /\ PlainCall(c)
  /\ PlainCall(Nothing)
BY DEF Calls, PlainCall

\* status(), the calls that loop over it, and exists().
LEMMA LookSteps ==
  ASSUME TypeOK,
         \/ \E s \in Sessions, i \in Ids : Status(s, i) \/ Stop(s, i)
         \/ WaitLoop \/ ListLoop \/ SchedulerWaitLoop \/ TimedWaitLoop \/ CancelExists
  PROVE  Looks \/ Talks
<1>1. ASSUME NEW s \in Sessions, NEW i \in Ids, StatusOf(s, i)
      PROVE  /\ \E j \in Ids : Describe(j)
             /\ sess' \in [Sessions -> SUBSET Ids]
             /\ UNCHANGED <<ids, cache, procs, rejected>>
  BY <1>1 DEF StatusOf, TypeOK
<1>2. ASSUME NEW s \in Sessions, NEW i \in Ids, Status(s, i) \/ Stop(s, i)
      PROVE  Looks
  <2>1. StatusOf(s, i) /\ call = Nothing
    BY <1>2 DEF Status, Stop, Idle
  <2>2. call' \in {Nothing, [op |-> "cancel", id |-> i]}
    BY <1>2, <2>1 DEF Status, Stop, EndsOr
  <2>3. PlainCall(call) /\ PlainCall(call') /\ call' \in Calls \cup {Nothing}
    BY <2>1, <2>2, PlainCalls
  <2> QED
    BY <1>1, <2>1, <2>3 DEF Looks
<1>3. CASE WaitLoop
  <2>1. call.s \in Sessions /\ call.id \in Ids /\ call.op = "wait"
    BY <1>3, CallIs DEF WaitLoop
  <2>2. StatusOf(call.s, call.id) /\ call' \in {Nothing, call}
    BY <1>3 DEF WaitLoop, EndsOr
  <2>3. PlainCall(call) /\ PlainCall(call') /\ call' \in Calls \cup {Nothing}
    BY <2>1, <2>2 DEF PlainCall, TypeOK
  <2> QED
    BY <1>1, <2>1, <2>2, <2>3 DEF Looks
<1>4. CASE ListLoop
  <2>1. call \in [op : {"list"}, s : Sessions, todo : SUBSET Ids]
    BY <1>4, CallIs DEF ListLoop
  <2>2. PlainCall(call)
    BY <2>1 DEF PlainCall
  <2>3. ASSUME NEW i \in call.todo, StatusOf(call.s, i),
               call' = [call EXCEPT !.todo = @ \ {i}]
        PROVE  Looks
    <3>1. call' \in [op : {"list"}, s : Sessions, todo : SUBSET Ids]
      BY <2>1, <2>3
    <3>2. PlainCall(call') /\ call' \in Calls
      BY <3>1 DEF PlainCall, Calls
    <3> QED
      BY <1>1, <2>1, <2>2, <2>3, <3>2 DEF Looks
  <2>4. CASE call' = Nothing /\ UNCHANGED <<scheduler, sess>>
    BY <2>2, <2>4, PlainCalls DEF Talks, TypeOK
  <2> QED
    BY <1>4, <2>3, <2>4 DEF ListLoop
<1>5. CASE SchedulerWaitLoop \/ CancelExists
  <2>1. call \in [op : {"schedulerwait", "timedwait", "cancel", "kill"}, id : Ids]
    BY <1>5, CallIs DEF SchedulerWaitLoop, CancelExists
  <2>2. Describe(call.id) /\ UNCHANGED <<ids, cache, procs, sess, rejected>>
    BY <1>5 DEF SchedulerWaitLoop, CancelExists
  <2>3. call' \in {Nothing, call, [op |-> "kill", id |-> call.id]}
    BY <1>5 DEF SchedulerWaitLoop, CancelExists, EndsOr
  <2>4. PlainCall(call) /\ PlainCall(call') /\ call' \in Calls \cup {Nothing}
    BY <2>1, <2>3 DEF PlainCall, Calls
  <2> QED
    BY <2>1, <2>2, <2>4 DEF Looks, TypeOK
<1>6. CASE TimedWaitLoop
  <2>1. call' = Nothing /\ UNCHANGED <<scheduler, sess>> /\ PlainCall(call)
    BY <1>6 DEF TimedWaitLoop, Doing, PlainCall
  <2> QED
    BY <2>1, PlainCalls DEF Talks, TypeOK
<1> QED
  BY <1>2, <1>3, <1>4, <1>5, <1>6

\* The calls that only begin.
LEMMA TalkSteps ==
  ASSUME TypeOK,
         \/ \E s \in Sessions : List(s) \/ \E i \in Ids : Wait(s, i) \/ Attach(s, i)
         \/ \E i \in Ids : Cancel(i) \/ SchedulerWait(i)
  PROVE  Talks
<1>1. call = Nothing /\ UNCHANGED scheduler
  BY DEF List, Wait, Attach, Cancel, SchedulerWait, Idle
<1>2. sess' \in [Sessions -> SUBSET Ids]
  <2>1. \/ sess' = sess
        \/ \E s \in Sessions, i \in Ids : sess' = [sess EXCEPT ![s] = @ \cup {i}]
    BY DEF List, Wait, Attach, Cancel, SchedulerWait
  <2>2. sess \in [Sessions -> SUBSET Ids]
    BY DEF TypeOK
  <2> QED
    BY <2>1, <2>2
<1>3. \/ call' = Nothing
      \/ \E s \in Sessions, i \in Ids : call' = [op |-> "wait", s |-> s, id |-> i]
      \/ \E s \in Sessions : call' = [op |-> "list", s |-> s, todo |-> sess[s]]
      \/ \E o \in {"schedulerwait", "timedwait", "cancel"}, i \in Ids : call' = [op |-> o, id |-> i]
  BY <1>1 DEF List, Wait, Attach, Cancel, SchedulerWait
<1>4. \A s \in Sessions : sess[s] \in SUBSET Ids
  BY DEF TypeOK
<1>5. PlainCall(call') /\ call' \in Calls \cup {Nothing}
  BY <1>3, <1>4, PlainCalls
<1> QED
  BY <1>1, <1>2, <1>5, PlainCalls DEF Talks

\* What is left of the next-state relation.
LEMMA Steps ==
  ASSUME TypeOK, Next
  PROVE  \/ Looks \/ Talks
         \/ \E s \in Sessions, a \in Apps, m \in RunMode : Run(s, a, m)
         \/ StartReplica \/ StartFails \/ Register
         \/ Kill \/ Delete \/ DeleteLoop \/ Ends
BY LookSteps, TalkSteps DEF Next, Call, Continue, Killing

-----------------------------------------------------------------------------
(* Run.                                                                    *)

LEMMA RunChanges ==
  ASSUME Inv, NEW s \in Sessions, NEW a \in Apps, NEW m \in RunMode, Run(s, a, m)
  PROVE  /\ cache' \in Seq(Ids) /\ Len(cache') < CacheSize
         /\ Range(cache') \subseteq Range(cache)
         /\ \E e : \A i \in Range(cache) : i \in Range(cache') \/ i = e
         /\ \A i \in Range(cache) :
              i \notin Range(cache') => is_terminal(app[i].state)
<1>1. cache \in Seq(Ids) /\ Len(cache) \in Nat /\ CacheSize \in Nat \ {0}
  BY AppsAssumption DEF Inv, TypeOK
<1>2. CASE Len(cache) = CacheSize
  <2>1. Finished # {} /\ cache' = EvictLru
    BY <1>2 DEF Run
  <2>2. PICK j \in Finished : Range(cache) \subseteq Range(cache') \cup {cache[j]}
    BY <2>1, Evicts DEF Inv
  <2>3. is_terminal(app[cache[j]].state)
    BY DEF Finished
  <2>4. cache' \in Seq(Ids) /\ Len(cache') = Len(cache) - 1 /\ Range(cache') \subseteq Range(cache)
    BY <2>1, Evicts DEF Inv
  <2>5. Len(cache') < CacheSize
    BY <1>1, <1>2, <2>4
  <2>6. \A i \in Range(cache) : i \in Range(cache') \/ i = cache[j]
    BY <2>2
  <2> QED
    BY <2>3, <2>4, <2>5, <2>6
<1>3. CASE Len(cache) # CacheSize
  <2>1. cache' = cache
    BY <1>3 DEF Run
  <2>2. Len(cache) < CacheSize
    BY <1>1, <1>3 DEF Inv, CacheBound
  <2> QED
    BY <1>1, <2>1, <2>2
<1> QED
  BY <1>2, <1>3

\* An id is a name and a number.
LEMMA IdTypes ==
  ASSUME TypeOK
  PROVE  /\ \A i \in Ids : i[1] \in Names /\ i[2] \in 0 .. MaxId /\ i = <<i[1], i[2]>>
         /\ \A n \in Names : ids[n] \in Int /\ ids[n] <= MaxId
         /\ \A j \in DOMAIN cache : cache[j] \in Ids
         /\ Range(cache) \subseteq Ids
         /\ MaxId \in Nat
<1>1. \A j \in DOMAIN cache : cache[j] \in Ids
  BY DEF TypeOK
<1>2. Range(cache) \subseteq Ids
  BY <1>1 DEF Range
<1> QED
  BY <1>1, <1>2, AppsAssumption DEF TypeOK, Ids

LEMMA RunCall ==
  ASSUME Inv, NEW s \in Sessions, NEW a \in Apps, NEW m \in RunMode, Run(s, a, m)
  PROVE  /\ a.name \in Names
         /\ call' = [op |-> "submit", s |-> s, id |-> <<a.name, ids[a.name] + 1>>,
                     app |-> a, mode |-> m, role |-> 1, replica |-> 0]
         /\ call' \in Calls /\ call' # Nothing /\ call' # Gone
         /\ <<a.name, ids[a.name] + 1>> \in Ids
         /\ ids[a.name] \in Int
         /\ ids' \in [Names -> -1 .. MaxId]
         /\ ids'[a.name] = ids[a.name] + 1
         /\ \A n \in Names : n # a.name => ids'[n] = ids[n]
         /\ PlainCall(call)
<1>1. a.name \in Names
  BY DEF Names
<1>2. ids[a.name] + 1 \in 0 .. MaxId /\ ids[a.name] \in Int
  BY <1>1, AppsAssumption DEF Run, NextId, Inv, TypeOK
<1>3. <<a.name, ids[a.name] + 1>> \in Ids
  BY <1>1, <1>2 DEF Ids
<1>4. call' = [op |-> "submit", s |-> s, id |-> <<a.name, ids[a.name] + 1>>,
               app |-> a, mode |-> m, role |-> 1, replica |-> 0]
  BY DEF Run, NextId
<1>5. call' \in Calls /\ call' # Nothing /\ call' # Gone
  <2>1. call' \in Calls
    BY <1>3, <1>4 DEF Calls
  <2> QED
    BY <1>4, <2>1, NothingAssumption DEF Gone
<1>6. /\ ids' = [ids EXCEPT ![a.name] = ids[a.name] + 1]
      /\ ids \in [Names -> -1 .. MaxId]
  BY DEF Run, NextId, Inv, TypeOK
<1>7. ids[a.name] + 1 \in -1 .. MaxId
  BY <1>2
<1>8. PlainCall(call)
  BY PlainCalls DEF Run, Idle
<1> HIDE DEF Calls
<1> QED
  BY <1>1, <1>2, <1>3, <1>4, <1>5, <1>6, <1>7, <1>8

LEMMA RunInv ==
  ASSUME Inv, NEW s \in Sessions, NEW a \in Apps, NEW m \in RunMode, Run(s, a, m)
  PROVE  Inv'
<1>1. UNCHANGED <<procs, sess, rejected>> /\ ~Invalid(a)
  BY DEF Run
<1>2. /\ Range(cache') \subseteq Ids
      /\ app' = [i \in Ids |-> IF i \in Range(cache') THEN app[i] ELSE New]
  BY RunChanges, IdTypes DEF Run, Inv
<1>3. app' \in [Ids -> [state : AppState, mode : RunMode]]
  BY <1>2 DEF Inv, TypeOK, New, AppState, RunMode
<1>4. TypeOK'
  BY <1>1, <1>3, RunChanges, RunCall DEF Inv, TypeOK
<1>5. \A i \in Range(cache') : app'[i] = app[i] /\ i \in Range(cache)
  BY <1>2, RunChanges
<1>6. (Range(cache))' = Range(cache')
  BY DEF Range
<1>7. ASSUME NEW i \in Range(cache)
      PROVE  i[2] <= ids[i[1]] /\ i[2] <= ids'[i[1]]
  <2>1. i \in Ids /\ i[2] <= ids[i[1]]
    BY IdTypes DEF Inv, CacheInv
  <2>2. i[1] \in Names /\ i[2] \in Int /\ ids[i[1]] \in Int
    BY <2>1, IdTypes DEF Inv
  <2>3. ids'[i[1]] = ids[i[1]] \/ ids'[i[1]] = ids[i[1]] + 1
    BY <2>2, RunCall
  <2> QED
    BY <2>1, <2>2, <2>3
<1>8. CacheInv'
  BY <1>1, <1>5, <1>6, <1>7 DEF Inv, CacheInv
<1>9. SubmitInv'
  <2> DEFINE n == <<a.name, ids[a.name] + 1>>
  <2>1. n \notin Range(cache)
    <3>1. n[1] = a.name /\ n[2] = ids[a.name] + 1 /\ ids[a.name] \in Int
      BY RunCall
    <3>2. ~(n[2] <= ids[n[1]])
      BY <3>1
    <3> QED
      BY <1>7, <3>2
  <2>2. n \notin Range(cache')
    BY <1>5, <2>1
  <2>3. /\ call'.app = a /\ call'.id = n /\ call'.role = 1 /\ call'.replica = 0
        /\ n = <<a.name, ids'[a.name]>>
    <3>1. ids'[a.name] = ids[a.name] + 1
      BY RunCall
    <3> QED
      BY <3>1 DEF Run, NextId
  <2> HIDE DEF n
  <2>4. ~Invalid(call'.app)
    BY <1>1, <2>3
  <2>5. ~Known(call.id)'
    BY <1>6, <2>2, <2>3 DEF Known
  <2> HIDE DEF Invalid
  <2> QED
    BY <2>3, <2>4, <2>5 DEF SubmitInv
<1>10. DeleteInv'
  <2>1. call'.op = "submit"
    BY DEF Run
  <2> QED
    BY <2>1 DEF DeleteInv, Doing
<1>11. CacheBound'
  BY RunChanges, RunCall, AppsAssumption DEF CacheBound, Inv, TypeOK
<1>12. Settled'
  BY <1>1, <1>5, <1>6 DEF Settled, Inv, Range
<1>13. NoStrays'
  <2> SUFFICES ASSUME NEW i \in Ids, Alive(i)', i \notin rejected'
               PROVE  Known(i)' /\ call' # Gone
    BY DEF NoStrays
  <2>1. Alive(i) /\ i \notin rejected
    BY <1>1 DEF Alive, Range
  <2>2. Known(i)
    BY <2>1, RunCall, PlainMeans DEF Inv, NoStrays, Submitting, Doing
  <2>3. ~is_terminal(app[i].state)
    BY <2>1, <2>2 DEF Inv, Settled, Known, Alive
  <2> QED
    BY <1>6, <2>2, <2>3, RunChanges, RunCall DEF Known
<1> QED
  BY <1>4, <1>8, <1>9, <1>10, <1>11, <1>12, <1>13 DEF Inv

-----------------------------------------------------------------------------
(* submit() after run().                                                   *)

\* The processes of the other applications are left alone.
LEMMA StartChanges ==
  ASSUME Inv, StartReplica
  PROVE  /\ call.id \in Ids
         /\ procs' \in [Ids -> Seq(Process)]
         /\ procs'[call.id] # <<>>
         /\ \A i \in Ids : i # call.id => procs'[i] = procs[i]
         /\ call' \in Calls /\ call' # Nothing /\ call'.op = "submit"
         /\ call'.app = call.app /\ call'.id = call.id /\ call'.role # 0
<1>1. call \in [op : {"submit"}, s : Sessions, id : Ids, app : Apps,
                mode : RunMode, role : Nat, replica : Nat]
  BY CallIs DEF Inv, StartReplica
<1> DEFINE p == [role |-> call.role, replica_id |-> call.replica, run |-> "alive"]
<1>2. /\ procs' = [procs EXCEPT ![call.id] = Append(procs[call.id], p)]
      /\ procs \in [Ids -> Seq(Process)]
  BY DEF StartReplica, Inv, TypeOK
<1>3. p \in Process
  BY <1>1 DEF Process
<1>4. call.id \in Ids /\ procs[call.id] \in Seq(Process)
  BY <1>1, <1>2
<1>5. /\ Append(procs[call.id], p) \in Seq(Process)
      /\ Append(procs[call.id], p) # <<>>
  <2> HIDE DEF p
  <2> QED
    BY <1>3, <1>4, AppendProperties
<1>6. \/ call' = [call EXCEPT !.replica = call.replica + 1]
      \/ call' = [call EXCEPT !.replica = 0, !.role = call.role + 1]
  BY DEF StartReplica
<1>7. call.role # 0
  BY DEF Inv, SubmitInv, StartReplica
<1>8. /\ call' \in [op : {"submit"}, s : Sessions, id : Ids, app : Apps,
                    mode : RunMode, role : Nat, replica : Nat]
      /\ call'.app = call.app /\ call'.id = call.id /\ call'.role # 0
  <2>1. CASE call' = [call EXCEPT !.replica = call.replica + 1]
    BY <1>1, <1>7, <2>1
  <2>2. CASE call' = [call EXCEPT !.replica = 0, !.role = call.role + 1]
    <3>1. call.role + 1 \in Nat /\ call.role + 1 # 0
      BY <1>1
    <3> QED
      BY <1>1, <2>2, <3>1
  <2> QED
    BY <1>6, <2>1, <2>2
<1>9. call' \in Calls /\ call' # Nothing /\ call'.op = "submit"
  BY <1>8, NothingAssumption DEF Calls
<1> HIDE DEF p
<1> QED
  BY <1>2, <1>4, <1>5, <1>8, <1>9

LEMMA StartInv ==
  ASSUME Inv, StartReplica
  PROVE  Inv'
<1>1. /\ UNCHANGED <<ids, cache, app, sess, rejected>>
      /\ Submitting /\ call # Nothing /\ call.op = "submit"
  BY DEF StartReplica, Submitting, Doing
<1>2. TypeOK'
  BY <1>1, StartChanges DEF Inv, TypeOK
<1>3. Submitting' /\ call'.op = "submit" /\ call' # Gone
  BY StartChanges DEF Submitting, Doing, Gone
<1>4. call.id \notin Range(cache) /\ (Range(cache))' = Range(cache) /\ Range(cache) \subseteq Ids
  BY <1>1, IdTypes DEF Inv, SubmitInv, Known, Range
<1>5. \A i \in Range(cache) : procs'[i] = procs[i]
  BY <1>4, StartChanges
<1>6. CacheInv' /\ DeleteInv' /\ CacheBound'
  BY <1>1, <1>3, <1>4, <1>5 DEF CacheInv, DeleteInv, CacheBound, Inv, Doing
<1>7. SubmitInv'
  <2>1. /\ ~Invalid(call.app) /\ call.id = <<call.app.name, ids[call.app.name]>>
    BY <1>1 DEF Inv, SubmitInv
  <2> HIDE DEF Invalid
  <2> QED
    BY <1>1, <1>4, <2>1, StartChanges DEF SubmitInv, Known
<1>8. Settled'
  BY <1>1, <1>4, <1>5 DEF Settled, Inv, Range
<1>9. NoStrays'
  <2> SUFFICES ASSUME NEW i \in Ids, Alive(i)', i # call.id
               PROVE  i \in rejected \/ Known(i)'
    BY <1>1, <1>3, StartChanges DEF NoStrays
  <2>1. Alive(i)
    BY StartChanges DEF Alive, Range
  <2> QED
    BY <1>1, <1>4, <2>1 DEF Inv, NoStrays, Known
<1> QED
  BY <1>2, <1>6, <1>7, <1>8, <1>9 DEF Inv

LEMMA NowNothing ==
  ASSUME call' = Nothing
  PROVE  /\ ~Submitting' /\ ~Doing("del")' /\ call' # Gone
         /\ SubmitInv' /\ DeleteInv'
BY PlainCalls, PlainMeans DEF Submitting, Doing, SubmitInv, DeleteInv

LEMMA StartFailsInv ==
  ASSUME Inv, StartFails
  PROVE  Inv'
<1>1. /\ UNCHANGED <<ids, cache, app, procs, sess>>
      /\ call' = Nothing /\ rejected' = rejected \cup {call.id} /\ call.id \in Ids
      /\ call.op = "submit"
  BY CallIs DEF StartFails, Inv, Submitting, Doing
<1>2. TypeOK' /\ CacheInv' /\ CacheBound' /\ Settled'
  <2>1. TypeOK'
    BY <1>1 DEF Inv, TypeOK
  <2>2. Settled'
    BY <1>1 DEF Inv, Settled, Range
  <2>4. CacheInv'
    BY <1>1 DEF Inv, CacheInv, Range
  <2>3. CacheBound'
    BY <1>1, NowNothing DEF Inv, CacheBound
  <2> QED
    BY <2>1, <2>2, <2>3, <2>4
<1>3. NoStrays'
  BY <1>1, NowNothing DEF Inv, NoStrays, Alive, Known, Range, Gone
<1> QED
  BY <1>1, <1>2, <1>3, NowNothing DEF Inv

LEMMA RegisterChanges ==
  ASSUME Inv, Register
  PROVE  /\ call' = Nothing /\ call.id \in Ids /\ call.op = "submit"
         /\ UNCHANGED <<ids, procs, rejected>>
         /\ cache' \in Seq(Ids) /\ Len(cache') = Len(cache) + 1
         /\ Range(cache') = Range(cache) \cup {call.id}
         /\ app' \in [Ids -> [state : AppState, mode : RunMode]]
         /\ sess' \in [Sessions -> SUBSET Ids]
         /\ app'[call.id].state = "PENDING" /\ app'[call.id].mode = call.mode
         /\ \A i \in Ids : i # call.id => app'[i] = app[i]
         /\ procs[call.id] # <<>>
<1>1. call \in [op : {"submit"}, s : Sessions, id : Ids, app : Apps,
                mode : RunMode, role : Nat, replica : Nat]
  BY CallIs DEF Inv, Register
<1>2. cache \in Seq(Ids) /\ cache' = Append(cache, call.id)
  BY DEF Register, Inv, TypeOK
<1>3. cache' \in Seq(Ids) /\ Len(cache') = Len(cache) + 1
  BY <1>1, <1>2
<1>4. Range(cache') = Range(cache) \cup {call.id}
  <2>1. /\ DOMAIN cache = 1 .. Len(cache) /\ Len(cache) \in Nat
        /\ DOMAIN cache' = 1 .. Len(cache) + 1
        /\ cache'[Len(cache) + 1] = call.id
        /\ \A j \in 1 .. Len(cache) : cache'[j] = cache[j]
    BY <1>1, <1>2, <1>3
  <2>2. \A j \in DOMAIN cache' : j \in DOMAIN cache \/ j = Len(cache) + 1
    BY <2>1
  <2>3. DOMAIN cache \subseteq DOMAIN cache' /\ Len(cache) + 1 \in DOMAIN cache'
    BY <2>1
  <2> QED
    BY <2>1, <2>2, <2>3 DEF Range
<1>5. call.role # 1
  <2>1. call.app.roles \in Seq(Role) /\ call.app.roles # <<>>
    BY <1>1, AppsAssumption DEF Register, Inv, SubmitInv, Invalid, Application
  <2>2. Len(call.app.roles) >= 1
    BY <2>1
  <2> QED
    BY <1>1, <2>1, <2>2 DEF Register
<1>6. procs[call.id] # <<>>
  BY <1>5 DEF Inv, SubmitInv, Register
<1>7. [New EXCEPT !.mode = call.mode] = [state |-> "PENDING", mode |-> call.mode]
  BY DEF New
<1>8. [state |-> "PENDING", mode |-> call.mode] \in [state : AppState, mode : RunMode]
  BY <1>1 DEF AppState
<1>9. /\ app \in [Ids -> [state : AppState, mode : RunMode]]
      /\ app' = [app EXCEPT ![call.id] = [state |-> "PENDING", mode |-> call.mode]]
  BY <1>7 DEF Register, Inv, TypeOK
<1>10. sess' \in [Sessions -> SUBSET Ids]
  BY <1>1 DEF Register, Inv, TypeOK
<1> QED
  BY <1>1, <1>3, <1>4, <1>6, <1>8, <1>9, <1>10 DEF Register

LEMMA RegisterInv ==
  ASSUME Inv, Register
  PROVE  Inv'
<1>1. TypeOK'
  BY RegisterChanges DEF Inv, TypeOK
<1>2. /\ (Range(cache))' = Range(cache) \cup {call.id}
      /\ Submitting /\ call.id \notin Range(cache)
      /\ call.id = <<call.app.name, ids[call.app.name]>>
  BY RegisterChanges DEF Register, Inv, SubmitInv, Known, Range
<1>3. call.id[2] <= ids[call.id[1]]
  BY <1>2, RegisterChanges, IdTypes DEF Inv
<1>4. CacheInv'
  BY <1>2, <1>3, RegisterChanges DEF CacheInv, Inv
<1>5. CacheBound'
  <2>1. Len(cache) \in Nat /\ CacheSize \in Nat /\ Len(cache) < CacheSize
    BY <1>2, AppsAssumption DEF Inv, TypeOK, CacheBound
  <2> QED
    BY <2>1, NowNothing, RegisterChanges DEF CacheBound
<1>6. Settled'
  <2>1. \A i \in Range(cache) : app'[i] = app[i] /\ procs' = procs
    BY <1>2, RegisterChanges, IdTypes DEF Inv
  <2> QED
    <3> SUFFICES ASSUME NEW i \in Range(cache) \cup {call.id}
                 PROVE  (LET ends == {p.run : p \in Range(procs[i])}
                         IN  /\ is_terminal(app[i].state) => "alive" \notin ends
                             /\ app[i].state = "SUCCEEDED" => ends = {"ok"}
                             /\ app[i].state = "FAILED" => "err" \in ends)'
      BY <1>2 DEF Settled
    <3>1. CASE i = call.id
      BY <3>1, RegisterChanges DEF is_terminal
    <3>2. CASE i \in Range(cache)
      <4>1. app'[i] = app[i] /\ procs'[i] = procs[i]
        BY <2>1, <3>2
      <4>2. LET ends == {p.run : p \in Range(procs[i])}
            IN  /\ is_terminal(app[i].state) => "alive" \notin ends
                /\ app[i].state = "SUCCEEDED" => ends = {"ok"}
                /\ app[i].state = "FAILED" => "err" \in ends
        BY <3>2 DEF Settled, Inv
      <4> QED
        BY <4>1, <4>2 DEF Range, is_terminal
    <3> QED
      BY <3>1, <3>2
<1>7. NoStrays'
  <2> SUFFICES ASSUME NEW i \in Ids, Alive(i)', i \notin rejected'
               PROVE  Known(i)' /\ call' # Gone
    BY DEF NoStrays
  <2>1. Alive(i) /\ i \notin rejected
    BY RegisterChanges DEF Alive, Range
  <2>2. i \in Range(cache) \/ i = call.id
    BY <1>2, <2>1 DEF Inv, NoStrays, Known
  <2> QED
    BY <1>2, <2>2, NowNothing, RegisterChanges DEF Known
<1> QED
  BY <1>1, <1>4, <1>5, <1>6, <1>7, NowNothing, RegisterChanges DEF Inv

-----------------------------------------------------------------------------
(* describe() and the calls that leave the scheduler alone.                *)

\* A terminal state that describe() comes to is true.
LEMMA DescribedTrue ==
  ASSUME Inv, NEW i \in Range(cache)
  PROVE  LET ends == {p.run : p \in Range(procs[i])}
         IN  /\ is_terminal(Described(i)) => "alive" \notin ends
             /\ Described(i) = "SUCCEEDED" => ends = {"ok"}
             /\ Described(i) = "FAILED" => "err" \in ends
<1> DEFINE ends == {p.run : p \in Range(procs[i])}
<1>1. procs[i] \in Seq(Process) /\ procs[i] # <<>>
  BY IdTypes DEF Inv, TypeOK, CacheInv
<1>2. ends \subseteq {"alive", "ok", "err"} /\ ends # {}
  <2>1. Len(procs[i]) >= 1
    BY <1>1
  <2>2. 1 \in DOMAIN procs[i] /\ \A k \in DOMAIN procs[i] : procs[i][k] \in Process
    BY <1>1, <2>1
  <2> QED
    BY <2>2 DEF Range, Process
<1>3. CASE is_terminal(app[i].state)
  BY <1>3 DEF Described, Inv, Settled
<1>4. CASE ~is_terminal(app[i].state)
  <2> HIDE DEF ends
  <2>1. Described(i) = IF "alive" \in ends THEN "RUNNING"
                       ELSE IF "err" \in ends THEN "FAILED" ELSE "SUCCEEDED"
    BY <1>4 DEF Described, ends
  <2>2. /\ is_terminal(Described(i)) => "alive" \notin ends
        /\ Described(i) = "SUCCEEDED" => ends = {"ok"}
        /\ Described(i) = "FAILED" => "err" \in ends
    BY <1>2, <2>1 DEF is_terminal
  <2> QED
    BY <2>2 DEF ends
<1> QED
  BY <1>3, <1>4

LEMMA LooksInv ==
  ASSUME Inv, Looks
  PROVE  Inv'
<1>1. PICK i \in Ids : Describe(i)
  BY DEF Looks
<1>2. /\ UNCHANGED <<ids, cache, procs, rejected>>
      /\ PlainCall(call) /\ PlainCall(call')
  BY DEF Looks
<1>3. /\ app' \in [Ids -> [state : AppState, mode : RunMode]]
      /\ \A j \in Ids : j # i => app'[j] = app[j]
      /\ \A j \in Ids : app'[j].mode = app[j].mode
      /\ app'[i].state = IF Known(i) THEN Described(i) ELSE app[i].state
  BY <1>1, DescribeType DEF Inv
<1>4. TypeOK'
  BY <1>2, <1>3 DEF Inv, TypeOK, Looks
<1>5. /\ ~Submitting /\ ~Submitting' /\ ~Doing("del")' /\ call' # Gone
  BY <1>2, PlainMeans DEF Submitting, Doing
<1>6. CacheInv' /\ SubmitInv' /\ DeleteInv' /\ CacheBound'
  BY <1>2, <1>5 DEF Inv, CacheInv, SubmitInv, DeleteInv, CacheBound, Range
<1>7. Settled'
  <2> SUFFICES ASSUME NEW j \in Range(cache)
               PROVE  (LET ends == {p.run : p \in Range(procs[j])}
                       IN  /\ is_terminal(app[j].state) => "alive" \notin ends
                           /\ app[j].state = "SUCCEEDED" => ends = {"ok"}
                           /\ app[j].state = "FAILED" => "err" \in ends)'
    BY <1>2 DEF Settled, Range
  <2>1. j \in Ids
    BY IdTypes DEF Inv
  <2>2. CASE j = i
    <3>1. app'[j].state = Described(j)
      BY <1>3, <2>2 DEF Known
    <3> HIDE DEF Described
    <3> QED
      BY <1>2, <3>1, DescribedTrue DEF Range
  <2>3. CASE j # i
    BY <1>2, <1>3, <2>1, <2>3 DEF Settled, Inv, Range
  <2> QED
    BY <2>2, <2>3
<1>8. NoStrays'
  BY <1>2, <1>5 DEF Inv, NoStrays, Alive, Known, Range
<1> QED
  BY <1>4, <1>6, <1>7, <1>8 DEF Inv

LEMMA TalksInv ==
  ASSUME Inv, Talks
  PROVE  Inv'
<1>1. /\ UNCHANGED <<ids, cache, app, procs, rejected>>
      /\ PlainCall(call) /\ PlainCall(call')
  BY DEF Talks, scheduler
<1>2. TypeOK'
  BY <1>1 DEF Inv, TypeOK, Talks
<1>3. /\ ~Submitting /\ ~Submitting' /\ ~Doing("del")' /\ call' # Gone
  BY <1>1, PlainMeans DEF Submitting, Doing
<1>4. CacheInv' /\ SubmitInv' /\ DeleteInv' /\ CacheBound'
  BY <1>1, <1>3 DEF Inv, CacheInv, SubmitInv, DeleteInv, CacheBound, Range
<1>5. Settled'
  BY <1>1 DEF Inv, Settled, Range
<1>6. NoStrays'
  BY <1>1, <1>3 DEF Inv, NoStrays, Alive, Known, Range
<1> QED
  BY <1>2, <1>4, <1>5, <1>6 DEF Inv

-----------------------------------------------------------------------------
(* Cancelling, deleting, and the ends of processes.                        *)

\* What a cancelled application leaves of the invariant to show.
LEMMA CancelInv ==
  ASSUME Inv, NEW i \in Ids, CancelExisting(i), ~Submitting, ~Submitting',
         call' \in Calls \cup {Nothing}
  PROVE  /\ TypeOK' /\ CacheInv' /\ SubmitInv' /\ CacheBound' /\ Settled'
         /\ \A j \in Ids : Alive(j)' => j # i /\ Alive(j)
         /\ \A j \in Ids : app'[j].mode = app[j].mode
         /\ UNCHANGED <<ids, cache, sess, rejected>>
<1>1. UNCHANGED <<ids, cache, sess, rejected>>
  BY DEF CancelExisting
<1>2. TypeOK'
  BY <1>1, CancelType DEF Inv, TypeOK
<1>3. CacheInv'
  <2>1. \A j \in Ids : procs[j] # <<>> => procs'[j] # <<>>
    BY CancelType DEF Inv
  <2>2. \A j \in Range(cache) : j \in Ids /\ j[2] <= ids[j[1]] /\ procs[j] # <<>>
    BY IdTypes DEF Inv, CacheInv
  <2>3. (Range(cache))' = Range(cache) /\ ids' = ids
    BY <1>1 DEF Range
  <2> QED
    BY <2>1, <2>2, <2>3 DEF CacheInv
<1>4. SubmitInv' /\ CacheBound'
  BY <1>1 DEF Inv, SubmitInv, CacheBound
<1>5. Settled'
  <2> SUFFICES ASSUME NEW j \in Range(cache)
               PROVE  (LET ends == {p.run : p \in Range(procs[j])}
                       IN  /\ is_terminal(app[j].state) => "alive" \notin ends
                           /\ app[j].state = "SUCCEEDED" => ends = {"ok"}
                           /\ app[j].state = "FAILED" => "err" \in ends)'
    BY <1>1 DEF Settled, Range
  <2>1. j \in Ids
    BY IdTypes DEF Inv
  <2>2. CASE j = i
    BY <2>2, CancelType DEF Inv, Alive
  <2>3. CASE j # i
    <3>1. app'[j] = app[j] /\ procs'[j] = procs[j]
      BY <2>1, <2>3, CancelType DEF Inv
    <3> QED
      BY <3>1 DEF Settled, Inv, Range
  <2> QED
    BY <2>2, <2>3
<1>6. \A j \in Ids : Alive(j)' => j # i /\ Alive(j)
  BY CancelType DEF Inv, Alive, Range
<1>7. \A j \in Ids : app'[j].mode = app[j].mode
  BY CancelType DEF Inv
<1> QED
  BY <1>1, <1>2, <1>3, <1>4, <1>5, <1>6, <1>7

LEMMA KillInv ==
  ASSUME Inv, Kill
  PROVE  Inv'
<1>1. call.id \in Ids /\ ~Submitting /\ call # Gone /\ call' = Nothing
  BY CallIs DEF Kill, Inv, Submitting, Doing, Gone
<1>2. ~Submitting' /\ call' \in Calls \cup {Nothing} /\ call' # Gone /\ DeleteInv'
  BY <1>1, NowNothing
<1>3. CancelExisting(call.id)
  BY DEF Kill
<1>4. NoStrays'
  BY <1>1, <1>2, <1>3, CancelInv DEF Inv, NoStrays, Known, Range
<1> QED
  BY <1>1, <1>2, <1>3, <1>4, CancelInv DEF Inv

LEMMA DeleteCallInv ==
  ASSUME Inv, Delete
  PROVE  Inv'
<1> DEFINE todo == {i \in Range(cache) : app[i].mode = MANAGED}
<1>1. call = Nothing /\ call' = [op |-> "del", todo |-> todo]
  BY DEF Delete, Idle
<1>2. UNCHANGED <<ids, cache, app, procs, rejected, sess>>
  BY DEF Delete, scheduler
<1>3. call' \in Calls /\ call'.todo = todo /\ call'.op = "del"
  BY <1>1, IdTypes DEF Calls, Inv
<1>4. TypeOK'
  BY <1>2, <1>3 DEF Inv, TypeOK
<1>5. ~Submitting /\ ~Submitting' /\ call' # Gone
  <2>1. PlainCall(call)
    BY <1>1, PlainCalls
  <2> QED
    BY <1>3, <2>1, PlainMeans DEF Submitting, Doing, Gone
<1>6. CacheInv' /\ SubmitInv' /\ CacheBound'
  BY <1>2, <1>5 DEF Inv, CacheInv, SubmitInv, CacheBound, Range
<1>7. DeleteInv'
  BY <1>2, <1>3 DEF DeleteInv, Range
<1>8. Settled'
  BY <1>2 DEF Inv, Settled, Range
<1>9. NoStrays'
  BY <1>2, <1>5 DEF Inv, NoStrays, Alive, Known, Range
<1> QED
  BY <1>4, <1>6, <1>7, <1>8, <1>9 DEF Inv

LEMMA DeleteLoopInv ==
  ASSUME Inv, DeleteLoop
  PROVE  Inv'
<1>1. /\ call \in [op : {"del"}, todo : SUBSET Ids] /\ Doing("del")
      /\ ~Submitting /\ call # Gone
  BY CallIs DEF DeleteLoop, Inv, Submitting, Doing, Gone
<1>2. ASSUME NEW i \in call.todo, CancelExisting(i),
             call' = [call EXCEPT !.todo = @ \ {i}]
      PROVE  Inv'
  <2>1. /\ call' \in [op : {"del"}, todo : SUBSET Ids]
        /\ call'.todo = call.todo \ {i} /\ i \in Ids
    BY <1>1, <1>2
  <2>2. call' \in Calls /\ ~Submitting' /\ call' # Gone
    BY <2>1 DEF Calls, Submitting, Doing, Gone
  <2>3. DeleteInv'
    <3> SUFFICES ASSUME NEW j \in Range(cache), app'[j].mode = MANAGED, Alive(j)'
                 PROVE  j \in call'.todo
      <4>1. cache' = cache
        BY <1>2 DEF CancelExisting
      <4> QED
        BY <4>1 DEF DeleteInv, Range
    <3>1. j \in Ids
      BY IdTypes DEF Inv
    <3> QED
      BY <1>1, <1>2, <2>1, <2>2, <3>1, CancelInv DEF Inv, DeleteInv
  <2>4. NoStrays'
    <3>1. /\ \A j \in Ids : Alive(j)' => j # i /\ Alive(j)
          /\ UNCHANGED <<cache, rejected>>
      BY <1>1, <1>2, <2>1, <2>2, CancelInv
    <3> QED
      BY <1>1, <2>2, <3>1 DEF Inv, NoStrays, Known, Range
  <2> QED
    BY <1>1, <1>2, <2>1, <2>2, <2>3, <2>4, CancelInv DEF Inv
<1>3. CASE call.todo = {} /\ call' = Gone /\ UNCHANGED <<scheduler, sess>>
  <2>1. UNCHANGED <<ids, cache, app, procs, rejected, sess>>
    BY <1>3 DEF scheduler
  <2>2. call' \in Calls /\ call'.op = "gone"
    BY <1>3 DEF Calls, Gone
  <2>3. TypeOK'
    BY <2>1, <2>2 DEF Inv, TypeOK
  <2>4. CacheInv' /\ SubmitInv' /\ DeleteInv' /\ CacheBound'
    BY <2>1, <2>2
    DEF Inv, CacheInv, SubmitInv, DeleteInv, CacheBound, Range, Submitting, Doing
  <2>5. Settled'
    BY <2>1 DEF Inv, Settled, Range
  <2>6. NoStrays'
    <3> SUFFICES ASSUME NEW i \in Ids, Alive(i), i \notin rejected
                 PROVE  i \in Range(cache) /\ app[i].mode = HEADLESS
      BY <2>1 DEF NoStrays, Alive, Known, Range
    <3>1. i \in Range(cache)
      BY <1>1 DEF Inv, NoStrays, Known
    <3>2. app[i].mode # MANAGED
      BY <1>1, <1>3, <3>1 DEF Inv, DeleteInv
    <3> QED
      BY <3>1, <3>2 DEF Inv, TypeOK, RunMode
  <2> QED
    BY <2>3, <2>4, <2>5, <2>6 DEF Inv
<1> QED
  BY <1>2, <1>3 DEF DeleteLoop

LEMMA EndsInv ==
  ASSUME Inv, Ends
  PROVE  Inv'
<1>0. PICK i \in Ids : \E k \in DOMAIN procs[i] :
        \E how \in {"ok", "err"} : ProcessEnds(i, k, how)
  BY DEF Ends
<1>1. PICK k \in DOMAIN procs[i], how \in {"ok", "err"} : ProcessEnds(i, k, how)
  BY <1>0
<1>2. UNCHANGED <<ids, cache, app, sess, call, rejected>>
  BY <1>1 DEF ProcessEnds
<1>3. procs[i] \in Seq(Process) /\ procs[i][k] \in Process /\ procs[i][k].run = "alive"
  BY <1>1 DEF ProcessEnds, Inv, TypeOK
<1> DEFINE q == [procs[i][k] EXCEPT !.run = how]
<1>4. q \in Process
  BY <1>3 DEF Process
<1>5. procs' = [procs EXCEPT ![i] = [procs[i] EXCEPT ![k] = q]]
  BY <1>1 DEF ProcessEnds
<1>6. q.run = how
  BY <1>3 DEF Process
<1> HIDE DEF q
<1>7. /\ [procs[i] EXCEPT ![k] = q] \in Seq(Process)
      /\ DOMAIN [procs[i] EXCEPT ![k] = q] = DOMAIN procs[i]
  BY <1>3, <1>4
<1>8. /\ procs' \in [Ids -> Seq(Process)]
      /\ \A j \in Ids : j # i => procs'[j] = procs[j]
      /\ procs'[i] = [procs[i] EXCEPT ![k] = q]
  BY <1>5, <1>7 DEF Inv, TypeOK
<1>9. TypeOK'
  BY <1>2, <1>8 DEF Inv, TypeOK
<1>10. CacheInv'
  <2>1. \A j \in Ids : procs[j] # <<>> => procs'[j] # <<>>
    BY <1>3, <1>7, <1>8
  <2> QED
    BY <1>2, <2>1, IdTypes DEF Inv, CacheInv, Range
<1>11. \A j \in Ids : Alive(j)' => Alive(j)
  BY <1>3, <1>7, <1>8 DEF Alive, Range
<1>12. DeleteInv' /\ NoStrays'
  BY <1>2, <1>11, IdTypes DEF Inv, DeleteInv, NoStrays, Known, Range, Doing, Submitting
<1>13. SubmitInv' /\ CacheBound'
  <2>1. \A j \in Ids : procs[j] # <<>> => procs'[j] # <<>>
    BY <1>3, <1>7, <1>8
  <2>2. Submitting => call.id \in Ids
    BY CallIs DEF Inv
  <2>3. CacheBound' /\ (Submitting' <=> Submitting) /\ (Range(cache))' = Range(cache)
    BY <1>2 DEF Inv, CacheBound, Submitting, Doing, Range
  <2> HIDE DEF Invalid
  <2>4. Submitting => SubmitInv'
    BY <1>2, <2>1, <2>2, <2>3 DEF Inv, SubmitInv, Known, Invalid
  <2> QED
    BY <2>3, <2>4 DEF SubmitInv
<1>14. Settled'
  <2> SUFFICES ASSUME NEW j \in Range(cache)
               PROVE  (LET ends == {p.run : p \in Range(procs[j])}
                       IN  /\ is_terminal(app[j].state) => "alive" \notin ends
                           /\ app[j].state = "SUCCEEDED" => ends = {"ok"}
                           /\ app[j].state = "FAILED" => "err" \in ends)'
    BY <1>2 DEF Settled, Range
  <2>1. j \in Ids
    BY IdTypes DEF Inv
  <2>2. CASE j = i
    <3>1. "alive" \in {p.run : p \in Range(procs[j])}
      BY <1>3, <2>2 DEF Range
    <3>2. ~is_terminal(app[j].state)
      BY <3>1 DEF Inv, Settled
    <3> QED
      BY <1>2, <3>2 DEF is_terminal
  <2>3. CASE j # i
    <3>1. procs'[j] = procs[j]
      BY <1>8, <2>1, <2>3
    <3> QED
      BY <1>2, <3>1 DEF Settled, Inv, Range
  <2> QED
    BY <2>2, <2>3
<1> QED
  BY <1>9, <1>10, <1>12, <1>13, <1>14 DEF Inv

-----------------------------------------------------------------------------
(* The theorems about states.                                              *)

\* The invariant holds in every reachable state of the scheduler.
THEOREM Invariance == Spec => []Inv
<1>1. Init => Inv
  <2> SUFFICES ASSUME Init PROVE Inv
    OBVIOUS
  <2>1. /\ Range(cache) = {} /\ Len(cache) = 0 /\ call = Nothing /\ cache = <<>>
        /\ procs = [i \in Ids |-> <<>>]
    BY DEF Init, Range
  <2>2. ~Submitting /\ ~Doing("del")
    BY <2>1 DEF Submitting, Doing
  <2>3. \A i \in Ids : ~Alive(i)
    BY <2>1 DEF Alive, Range
  <2>4. TypeOK
    BY AppsAssumption DEF Init, TypeOK, New, AppState, RunMode
  <2>5. CacheInv /\ SubmitInv /\ DeleteInv /\ CacheBound /\ Settled /\ NoStrays
    BY <2>1, <2>2, <2>3, AppsAssumption
    DEF CacheInv, SubmitInv, DeleteInv, CacheBound, Settled, NoStrays
  <2> QED
    BY <2>4, <2>5 DEF Inv
<1>2. Inv /\ [Next]_vars => Inv'
  <2> SUFFICES ASSUME Inv, [Next]_vars PROVE Inv'
    OBVIOUS
  <2>1. CASE UNCHANGED vars
    <3>1. UNCHANGED <<ids, cache, app, procs, sess, call, rejected>>
      BY <2>1 DEF vars
    <3>2. /\ TypeOK' = TypeOK /\ CacheInv' = CacheInv /\ CacheBound' = CacheBound
          /\ DeleteInv' = DeleteInv
      BY <3>1 DEF TypeOK, CacheInv, CacheBound, DeleteInv, Range, Alive, Submitting, Doing
    <3>3. SubmitInv' = SubmitInv /\ NoStrays' = NoStrays
      BY <3>1 DEF SubmitInv, NoStrays, Range, Alive, Submitting, Doing, Known, Invalid
    <3>4. Settled' = Settled
      BY <3>1 DEF Settled, Range
    <3> QED
      BY <3>2, <3>3, <3>4 DEF Inv
  <2>2. CASE Next
    BY <2>2, Steps, LooksInv, TalksInv, RunInv, StartInv, StartFailsInv, RegisterInv,
       KillInv, DeleteCallInv, DeleteLoopInv, EndsInv DEF Inv
  <2> QED
    BY <2>1, <2>2
<1> QED
  BY <1>1, <1>2, PTL DEF Spec

\* Every variable keeps its type; in particular a call has the locals that
\* its next step reads.
THEOREM TypeCorrect == Spec => []TypeOK
<1>1. Inv => TypeOK
  BY DEF Inv
<1> QED
  BY <1>1, Invariance, PTL

\* What describe() remembers is true and stays true.
THEOREM DescribeIsTrue == Spec => []Settled
<1>1. Inv => Settled
  BY DEF Inv
<1> QED
  BY <1>1, Invariance, PTL

\* No process is lost, and __del__() leaves HEADLESS applications only.
THEOREM NoProcessLost == Spec => []NoStrays
<1>1. Inv => NoStrays
  BY DEF Inv
<1> QED
  BY <1>1, Invariance, PTL

\* The cache is never over its size, so that the comparison of submit(),
\* which is an equality, does not miss a full cache.
THEOREM CacheBounded == Spec => []CacheBound
<1>1. Inv => CacheBound
  BY DEF Inv
<1> QED
  BY <1>1, Invariance, PTL

-----------------------------------------------------------------------------
(* The scheduler implements the life of an application.                    *)

\* The abstract statuses are a function that a step changes at one place.
LEMMA OneChange ==
  ASSUME NEW i \in Ids, \A j \in Ids : j # i => KnownAs(j)' = KnownAs(j)
  PROVE  [j \in Ids |-> KnownAs(j)]' =
           [[j \in Ids |-> KnownAs(j)] EXCEPT ![i] = KnownAs(i)']
OBVIOUS

LEMMA NoChange ==
  ASSUME \A j \in Ids : KnownAs(j)' = KnownAs(j)
  PROVE  [j \in Ids |-> KnownAs(j)]' = [j \in Ids |-> KnownAs(j)]
OBVIOUS

LEMMA Moved ==
  ASSUME NEW i \in Ids, \A j \in Ids : j # i => KnownAs(j)' = KnownAs(j),
         NEW from, KnownAs(i) = from
  PROVE  Lifecycle!Moves(i, from, KnownAs(i)')
<1>1. [j \in Ids |-> KnownAs(j)][i] = KnownAs(i)
  OBVIOUS
<1> QED
  BY <1>1, OneChange DEF Lifecycle!Moves

\* A stuttering step of the abstract specification.
Stutter == \A j \in Ids : KnownAs(j)' = KnownAs(j)

LEMMA QuietStutters ==
  ASSUME ~Submitting, ~Submitting', UNCHANGED <<ids, cache, app>>
  PROVE  Stutter
BY DEF Stutter, KnownAs, Known, Range, is_terminal

LEMMA LooksRefines ==
  ASSUME Inv, Looks
  PROVE  Stutter \/ Lifecycle!Next
<1>1. PICK i \in Ids : Describe(i)
  BY DEF Looks
<1>2. UNCHANGED <<ids, cache, procs>> /\ ~Submitting /\ ~Submitting'
  BY PlainMeans DEF Looks, Submitting, Doing
<1>3. (Range(cache))' = Range(cache)
  BY <1>2 DEF Range
<1>4. /\ \A j \in Ids : j # i => app'[j] = app[j]
      /\ app'[i].state = IF Known(i) THEN Described(i) ELSE app[i].state
  BY <1>1, DescribeType DEF Inv
<1>5. \A j \in Ids : j # i => KnownAs(j)' = KnownAs(j)
  BY <1>2, <1>3, <1>4 DEF KnownAs, Known, is_terminal
<1>6. CASE ~Known(i) \/ is_terminal(app[i].state)
  <2>1. app'[i].state = app[i].state
    BY <1>4, <1>6 DEF Described
  <2>2. KnownAs(i)' = KnownAs(i)
    BY <1>2, <1>3, <2>1 DEF KnownAs, Known, is_terminal
  <2> QED
    BY <1>5, <2>2 DEF Stutter
<1>7. CASE Known(i) /\ ~is_terminal(app[i].state)
  <2>1. KnownAs(i) = "live"
    BY <1>7 DEF KnownAs, Known, is_terminal
  <2>2. Described(i) \in {"RUNNING", "FAILED", "SUCCEEDED"}
    BY <1>7 DEF Described
  <2>3. KnownAs(i)' \in {"live", "ended"}
    BY <1>3, <1>4, <1>7, <2>2 DEF KnownAs, Known, is_terminal
  <2>4. CASE KnownAs(i)' = "live"
    BY <1>5, <2>1, <2>4 DEF Stutter
  <2>5. CASE KnownAs(i)' # "live"
    <3>1. Lifecycle!Moves(i, "live", KnownAs(i)')
      BY <1>5, <2>1, Moved
    <3>2. Lifecycle!Finish(i)
      BY <2>3, <2>5, <3>1 DEF Lifecycle!Finish
    <3> QED
      BY <3>2 DEF Lifecycle!Next
  <2> QED
    BY <2>4, <2>5
<1> QED
  BY <1>6, <1>7

\* Of the ids, only the one that is evicted changes: the new one was not
\* submitted and is not yet.
LEMMA RunRefines ==
  ASSUME Inv, NEW s \in Sessions, NEW a \in Apps, NEW m \in RunMode, Run(s, a, m)
  PROVE  Stutter \/ Lifecycle!Next
<1> DEFINE new == <<a.name, ids[a.name] + 1>>
<1>1. (Range(cache))' = Range(cache')
  BY DEF Range
<1>2. /\ ~Submitting /\ Submitting' /\ call'.id = new
      /\ new \in Ids /\ new[1] = a.name /\ new[2] = ids[a.name] + 1
  <2>1. call' # Nothing /\ call'.op = "submit" /\ call'.id = new
    BY RunCall DEF Run, NextId
  <2>2. ~Submitting
    BY RunCall, PlainMeans DEF Submitting, Doing
  <2> QED
    BY <2>1, <2>2, RunCall DEF Submitting, Doing
<1>3. \A i \in Range(cache') : app'[i] = app[i]
  BY RunChanges, IdTypes DEF Run, Inv
<1>4. ASSUME NEW i \in Ids, i \notin Range(cache)
      PROVE  KnownAs(i)' = KnownAs(i)
  <2>1. i \notin Range(cache')
    BY <1>4, RunChanges
  <2>2. /\ KnownAs(i) = IF i[2] > ids[i[1]] THEN "unsubmitted" ELSE "gone"
        /\ KnownAs(i)' = IF i[2] > ids'[i[1]] \/ i = new THEN "unsubmitted" ELSE "gone"
    BY <1>1, <1>2, <1>4, <2>1 DEF KnownAs, Known, is_terminal
  <2>3. /\ i[1] \in Names /\ i[2] \in Int /\ i = <<i[1], i[2]>>
        /\ ids[i[1]] \in Int
    BY IdTypes DEF Inv
  <2>4. CASE i[1] # a.name
    <3>1. ids'[i[1]] = ids[i[1]] /\ i # new
      BY <1>2, <2>3, <2>4, RunCall
    <3> QED
      BY <2>2, <3>1
  <2>5. CASE i[1] = a.name
    <3>1. ids'[i[1]] = ids[i[1]] + 1
      BY <2>5, RunCall
    <3>2. i = new <=> i[2] = ids[i[1]] + 1
      BY <1>2, <2>3, <2>5
    <3> QED
      BY <2>2, <2>3, <3>1, <3>2
  <2> QED
    BY <2>4, <2>5
<1>5. ASSUME NEW i \in Range(cache')
      PROVE  KnownAs(i)' = KnownAs(i)
  BY <1>1, <1>3, RunChanges DEF KnownAs, Known, is_terminal
<1>6. PICK e : \A i \in Range(cache) : i \in Range(cache') \/ i = e
  BY RunChanges
<1>7. CASE \A i \in Range(cache) : i \in Range(cache')
  BY <1>4, <1>5, <1>7 DEF Stutter
<1>8. CASE e \in Range(cache) /\ e \notin Range(cache')
  <2>1. e \in Ids /\ is_terminal(app[e].state) /\ e[2] <= ids[e[1]]
    BY <1>8, RunChanges, IdTypes DEF Inv, CacheInv
  <2>2. KnownAs(e) = "ended"
    BY <1>8, <2>1 DEF KnownAs, Known, is_terminal
  <2>3. /\ e[1] \in Names /\ e[2] \in Int /\ ids[e[1]] \in Int
        /\ ids'[e[1]] = ids[e[1]] \/ ids'[e[1]] = ids[e[1]] + 1
    <3>1. e[1] \in Names /\ e[2] \in Int /\ ids[e[1]] \in Int
      BY <2>1, IdTypes DEF Inv
    <3> QED
      BY <3>1, RunCall
  <2>4. e # new /\ ~(e[2] > ids'[e[1]])
    BY <1>2, <2>1, <2>3
  <2>5. KnownAs(e)' = "gone"
    BY <1>1, <1>2, <1>8, <2>4 DEF KnownAs, Known, is_terminal
  <2>6. \A j \in Ids : j # e => KnownAs(j)' = KnownAs(j)
    BY <1>4, <1>5, <1>6
  <2>7. Lifecycle!Forget(e)
    BY <2>1, <2>2, <2>5, <2>6, Moved DEF Lifecycle!Forget
  <2> QED
    BY <2>1, <2>7 DEF Lifecycle!Next
<1> QED
  BY <1>6, <1>7, <1>8

LEMMA SubmitRefines ==
  ASSUME Inv, StartReplica \/ StartFails \/ Register
  PROVE  Stutter \/ Lifecycle!Next
<1>1. Submitting /\ call.id \in Ids
  BY CallIs DEF StartReplica, StartFails, Register, Inv
<1>2. PICK i \in Ids : i = call.id
  BY <1>1
<1>3. i \notin Range(cache) /\ ~(i[2] > ids[i[1]])
  <2>1. i \notin Range(cache) /\ i = <<call.app.name, ids[call.app.name]>>
    BY <1>1, <1>2 DEF Inv, SubmitInv, Known
  <2>2. i[2] = ids[i[1]] /\ i[2] \in Int
    BY <2>1, IdTypes DEF Inv
  <2> QED
    BY <2>1, <2>2
<1>4. KnownAs(i) = "unsubmitted"
  BY <1>1, <1>2, <1>3 DEF KnownAs, Known, is_terminal
<1>5. CASE StartReplica
  <2>1. UNCHANGED <<ids, cache, app>> /\ Submitting' /\ call'.id = call.id
    BY <1>5, StartChanges DEF StartReplica, Submitting, Doing
  <2> QED
    BY <1>1, <2>1 DEF Stutter, KnownAs, Known, Range, is_terminal
<1>6. CASE StartFails
  <2>1. UNCHANGED <<ids, cache, app>> /\ ~Submitting'
    BY <1>6, NowNothing DEF StartFails
  <2>2. (Range(cache))' = Range(cache)
    BY <2>1 DEF Range
  <2>3. \A j \in Ids : j # i => KnownAs(j)' = KnownAs(j)
    BY <1>2, <2>1, <2>2 DEF KnownAs, Known, is_terminal
  <2>4. KnownAs(i)' = "gone"
    BY <1>3, <2>1, <2>2 DEF KnownAs, Known, is_terminal
  <2>5. Lifecycle!Reject(i)
    BY <1>4, <2>3, <2>4, Moved DEF Lifecycle!Reject
  <2> QED
    BY <2>5 DEF Lifecycle!Next
<1>7. CASE Register
  <2>1. /\ UNCHANGED ids /\ ~Submitting'
        /\ (Range(cache))' = Range(cache) \cup {i}
        /\ app'[i].state = "PENDING"
        /\ \A j \in Ids : j # i => app'[j] = app[j]
    BY <1>2, <1>7, RegisterChanges, NowNothing DEF Range
  <2>2. \A j \in Ids : j # i => KnownAs(j)' = KnownAs(j)
    BY <1>2, <2>1 DEF KnownAs, Known, is_terminal
  <2>3. KnownAs(i)' = "live"
    BY <2>1 DEF KnownAs, Known, is_terminal
  <2>4. Lifecycle!Submit(i)
    BY <1>4, <2>2, <2>3, Moved DEF Lifecycle!Submit
  <2> QED
    BY <2>4 DEF Lifecycle!Next
<1> QED
  BY <1>5, <1>6, <1>7

LEMMA CancelRefines ==
  ASSUME Inv, NEW i \in Ids, CancelExisting(i), ~Submitting, ~Submitting'
  PROVE  Stutter \/ Lifecycle!Next
<1>1. /\ UNCHANGED <<ids, cache>> /\ (Range(cache))' = Range(cache)
      /\ app'[i].state = "CANCELLED"
      /\ \A j \in Ids : j # i => app'[j] = app[j]
  <2>1. UNCHANGED <<ids, cache>>
    BY DEF CancelExisting
  <2>2. (Range(cache))' = Range(cache)
    BY <2>1 DEF Range
  <2> QED
    BY <2>1, <2>2, CancelType DEF Inv
<1>2. \A j \in Ids : j # i => KnownAs(j)' = KnownAs(j)
  BY <1>1 DEF KnownAs, Known, is_terminal
<1>3. CASE ~Known(i)
  BY <1>1, <1>2, <1>3 DEF Stutter, KnownAs, Known, is_terminal
<1>4. CASE Known(i)
  <2>1. KnownAs(i)' = "ended"
    BY <1>1, <1>4 DEF KnownAs, Known, is_terminal
  <2>2. KnownAs(i) \in {"live", "ended"}
    BY <1>4 DEF KnownAs, Known, is_terminal
  <2>3. CASE KnownAs(i) = "ended"
    BY <1>2, <2>1, <2>3 DEF Stutter
  <2>4. CASE KnownAs(i) = "live"
    <3>1. Lifecycle!Finish(i)
      BY <1>2, <2>1, <2>4, Moved DEF Lifecycle!Finish
    <3> QED
      BY <3>1 DEF Lifecycle!Next
  <2> QED
    BY <2>2, <2>3, <2>4
<1> QED
  BY <1>3, <1>4

LEMMA NextRefines ==
  ASSUME Inv, Next
  PROVE  Stutter \/ Lifecycle!Next
<1>1. CASE Talks
  BY <1>1, PlainMeans, QuietStutters DEF Talks, scheduler, Submitting, Doing
<1>2. CASE Kill
  <2>1. call.id \in Ids /\ CancelExisting(call.id) /\ ~Submitting /\ ~Submitting'
    BY <1>2, CallIs, NowNothing DEF Kill, Inv, Submitting, Doing
  <2> QED
    BY <2>1, CancelRefines
<1>3. CASE Delete
  <2>1. call = Nothing /\ call'.op = "del" /\ UNCHANGED <<ids, cache, app>>
    BY <1>3 DEF Delete, Idle, scheduler
  <2> QED
    BY <2>1, QuietStutters DEF Submitting, Doing
<1>4. CASE DeleteLoop
  <2>1. call \in [op : {"del"}, todo : SUBSET Ids] /\ ~Submitting
    BY <1>4, CallIs DEF DeleteLoop, Inv, Submitting, Doing
  <2>2. ASSUME NEW i \in call.todo, CancelExisting(i),
               call' = [call EXCEPT !.todo = @ \ {i}]
        PROVE  Stutter \/ Lifecycle!Next
    <3>1. call'.op = "del" /\ i \in Ids
      BY <2>1, <2>2
    <3> QED
      BY <2>1, <2>2, <3>1, CancelRefines DEF Submitting, Doing
  <2>3. CASE call' = Gone /\ UNCHANGED <<scheduler, sess>>
    BY <2>1, <2>3, QuietStutters DEF scheduler, Submitting, Doing, Gone
  <2> QED
    BY <1>4, <2>2, <2>3 DEF DeleteLoop
<1>5. CASE Ends
  <2>1. UNCHANGED <<ids, cache, app, call>>
    BY <1>5 DEF Ends, ProcessEnds
  <2> QED
    BY <2>1 DEF Stutter, KnownAs, Known, Range, is_terminal, Submitting, Doing
<1> QED
  BY <1>1, <1>2, <1>3, <1>4, <1>5, Steps, LooksRefines, RunRefines, SubmitRefines DEF Inv

\* The scheduler implements AppLifecycle: no id comes back, a submission that
\* fails uses its id up, an application that lives is not forgotten, and one
\* that has ended does not live again.
THEOREM SchedulerRefines == Spec => AppPromise
<1>1. Init => Lifecycle!Init
  <2> SUFFICES ASSUME Init PROVE \A i \in Ids : KnownAs(i) = "unsubmitted"
    BY DEF Lifecycle!Init
  <2>1. Range(cache) = {} /\ \A i \in Ids : i[1] \in Names /\ i[2] \in Nat
    BY DEF Init, Range, Ids
  <2> QED
    BY <2>1 DEF Init, KnownAs, Known, is_terminal
<1>2. Inv /\ [Next]_vars => [Lifecycle!Next]_([i \in Ids |-> KnownAs(i)])
  <2> SUFFICES ASSUME Inv, [Next]_vars
               PROVE  Lifecycle!Next \/ UNCHANGED [i \in Ids |-> KnownAs(i)]
    OBVIOUS
  <2>1. CASE Next
    BY <2>1, NextRefines, NoChange DEF Stutter
  <2>2. CASE UNCHANGED vars
    <3>1. Stutter
      BY <2>2 DEF vars, Stutter, KnownAs, Known, Range, is_terminal, Submitting, Doing
    <3> QED
      BY <3>1, NoChange DEF Stutter
  <2> QED
    BY <2>1, <2>2
<1> QED
  BY <1>1, <1>2, Invariance, PTL DEF Spec, AppPromise, Lifecycle!Spec
=============================================================================
