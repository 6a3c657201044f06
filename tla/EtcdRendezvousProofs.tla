----------------------- MODULE EtcdRendezvousProofs -----------------------
(***************************************************************************)
(* Proofs that the barrier of EtcdRendezvous keeps its promises for every  *)
(* number of agents, every num_min_workers <= num_max_workers and every    *)
(* number of crashes, expiries and faults.                                 *)
(***************************************************************************)
EXTENDS EtcdRendezvous, FiniteSetTheorems, TLAPS

-----------------------------------------------------------------------------
(* The values of active_version and the requests that replace them.        *)

\* Every value the program stores in active_version is well formed.
LEMMA ValueTypes ==
  /\ Absent \in Values
  /\ Setup \in Values
  /\ \A v \in Nat : Joinable(v) \in Values
  /\ \A s \in Values :
       /\ Frozen(s) \in Values
       /\ Joined(s) \in Values
       /\ Announced(s) \in Values
       /\ Closed(s) \in Values
       /\ \A r \in Nat : Confirmed(s, r) \in Values
<1>1. /\ Absent \in Values
      /\ Setup \in Values
      /\ \A v \in Nat : Joinable(v) \in Values
  BY DEF Values, Statuses, Absent, Setup, Joinable
<1>2. ASSUME NEW s \in Values
      PROVE  /\ Frozen(s) \in Values
             /\ Announced(s) \in Values
             /\ Closed(s) \in Values
  <2>1. Frozen(s) \in Values
    BY DEF Values, Statuses, Frozen
  <2>2. Announced(s) \in Values
    BY DEF Values, Announced
  <2>3. Closed(s) \in Values
    BY DEF Values, Statuses, Closed
  <2> QED
    BY <2>1, <2>2, <2>3
<1>3. ASSUME NEW s \in Values
      PROVE  Joined(s) \in Values
  <2> DEFINE t == [s EXCEPT !.participants = @ + 1]
  <2>1. t \in Values
    BY DEF Values
  <2> QED
    BY <1>2, <2>1 DEF Joined
<1>4. ASSUME NEW s \in Values, NEW r \in Nat
      PROVE  Confirmed(s, r) \in Values
  <2> DEFINE t == [s EXCEPT !.keep_alives = @ \cup {r}, !.confirms = @ + 1]
  <2>1. t \in Values
    <3>1. s.keep_alives \cup {r} \in SUBSET Nat /\ s.confirms + 1 \in Nat
      BY DEF Values
    <3>2. ASSUME NEW k \in SUBSET Nat, NEW c \in Nat
          PROVE  [s EXCEPT !.keep_alives = k, !.confirms = c] \in Values
      BY <3>2 DEF Values
    <3> QED
      BY <3>1, <3>2
  <2>2. [t EXCEPT !.status = "final", !.waiting = 0] \in Values
    BY <2>1 DEF Values, Statuses
  <2> QED
    BY <2>1, <2>2 DEF Confirmed
<1> QED
  BY <1>1, <1>2, <1>3, <1>4

\* What each request proposes.
LEMMA ProposedIs ==
  ASSUME NEW a \in Agents
  PROVE  /\ pc[a] = "publish" => Proposed(a) = Joinable(ver[a])
         /\ pc[a] = "joincas" => Proposed(a) = Joined(snap[a])
         /\ pc[a] = "freeze" => Proposed(a) = Frozen(snap[a])
         /\ pc[a] = "refresh" => Proposed(a) = snap[a]
         /\ pc[a] = "confirmcas" => Proposed(a) = Confirmed(snap[a], rank[a])
         /\ pc[a] = "announcecas" => Proposed(a) = Announced(snap[a])
         /\ pc[a] = "closecas" => Proposed(a) = Closed(snap[a])
  BY DEF Proposed

\* A request proposes a well-formed value and says whether it expires.
LEMMA ProposedType ==
  ASSUME TypeOK, NEW a \in Agents, pc[a] \in Swapping
  PROVE  Proposed(a) \in Values /\ ProposedTTL(a) \in BOOLEAN
<1> USE DEF TypeOK
<1>1. snap[a] \in Values /\ rank[a] \in Nat /\ ver[a] \in Nat
  OBVIOUS
<1>2. Proposed(a) \in Values
  BY <1>1, ValueTypes, ProposedIs DEF Swapping
<1>3. ProposedTTL(a) \in BOOLEAN
  BY DEF ProposedTTL
<1> QED
  BY <1>2, <1>3

-----------------------------------------------------------------------------
(* Type correctness.                                                       *)

SharedOK ==
  /\ active \in Values
  /\ ephemeral \in BOOLEAN
  /\ counter \in Nat
  /\ leases \subseteq Keys
  /\ published \subseteq Nat
  /\ granted \subseteq Grants

LocalOK ==
  /\ pc \in [Agents -> Places]
  /\ snap \in [Agents -> Values]
  /\ ver \in [Agents -> Nat]
  /\ rank \in [Agents -> Nat]
  /\ renewing \in [Agents -> Keys \cup {NoKey}]

UsedOK == calls \in Nat /\ crashes \in Nat /\ lapses \in Nat /\ faults \in Nat

\* The type invariant has a shared, a local and a bookkeeping part.
LEMMA TypeParts == SharedOK' /\ LocalOK' /\ UsedOK' => TypeOK'
  BY DEF TypeOK, SharedOK, LocalOK, UsedOK

\* A successful compare-and-swap stores a well-formed value.
LEMMA SwapType ==
  ASSUME TypeOK, NEW a \in Agents, pc[a] \in Swapping, Swap(a)
  PROVE  SharedOK'
<1>1. active' \in Values /\ ephemeral' \in BOOLEAN
  BY ProposedType DEF Swap
<1>2. ver[a] \in Nat
  BY DEF TypeOK
<1>3. counter' \in Nat /\ leases' \subseteq Keys /\ granted' \subseteq Grants
  BY DEF TypeOK, Swap
<1>4. published' \subseteq Nat
  BY <1>2 DEF TypeOK, Swap
<1> QED
  BY <1>1, <1>3, <1>4 DEF SharedOK

\* Moving on, forgetting or starting over keeps the local types.
LEMMA LocalTypes ==
  ASSUME TypeOK, NEW a \in Agents, NEW l \in Places
  PROVE  /\ Drop(a, l) /\ renewing' \in [Agents -> Keys \cup {NoKey}] => LocalOK'
         /\ Keep(a, l) => LocalOK'
         /\ Forget(a, l) => LocalOK'
         /\ Retry(a) => LocalOK'
         /\ Raise(a, l) => LocalOK'
         /\ Exit(a) => LocalOK'
<1> USE DEF TypeOK, LocalOK
<1>0. Absent \in Values
  BY ValueTypes
<1>1. ASSUME Drop(a, l), renewing' \in [Agents -> Keys \cup {NoKey}]
      PROVE  LocalOK'
  BY <1>0, <1>1 DEF Drop, GoTo
<1>2. Keep(a, l) => LocalOK'
  BY DEF Keep, GoTo
<1>3. Forget(a, l) => LocalOK'
  BY <1>0 DEF Forget, GoTo
<1>4. Raise(a, l) => LocalOK'
  BY <1>1 DEF Raise
<1>5. Retry(a) => LocalOK'
  BY <1>0 DEF Retry, Drop, GoTo, Places, Barrier
<1>6. Exit(a) => LocalOK'
  <2>1. Exit(a) => renewing' \in [Agents -> Keys \cup {NoKey}]
    BY DEF Exit
  <2> QED
    BY <1>0, <2>1 DEF Exit, Drop, GoTo, Places
<1> QED
  BY <1>1, <1>2, <1>3, <1>4, <1>5, <1>6

\* The places are places.
LEMMA AllPlaces ==
  /\ {"down", "member", "init", "observe", "join", "joincas", "announce",
      "announcecas", "counter", "bump", "publish", "lastcall", "lcwatch",
      "freeze", "refresh", "peers", "peerswatch", "confirm", "keepalive",
      "confirmcas", "final", "finalwatch", "free", "freecheck", "delete",
      "freewatch", "closed", "timeout", "fatal", "close", "closecas"} = Places
  BY DEF Places, Barrier, Creating, HasRank, Unconfirmed, LastCall, Freeing,
         Raised, Closing

\* What a step leaves alone keeps its type.
LEMMA SameTypes ==
  ASSUME TypeOK
  PROVE  /\ UNCHANGED <<etcd, history>> => SharedOK'
         /\ UNCHANGED local => LocalOK'
         /\ UNCHANGED used => UsedOK'
  BY DEF TypeOK, SharedOK, LocalOK, UsedOK, etcd, history, local, used

\* A failed compare-and-swap only changes the agent.
LEMMA SwapFailsType ==
  ASSUME TypeOK, NEW a \in Agents, NEW l \in Places, SwapFails(a, l)
  PROVE  TypeOK'
  BY SameTypes, LocalTypes, TypeParts DEF SwapFails

\* The steps of init_phase() and try_create_rendezvous() keep the types.
LEMMA CreateTypes ==
  ASSUME TypeOK, NEW a \in Agents,
         \/ NextRendezvous(a) \/ TryCreate(a) \/ ObserveExisting(a) \/ Timeout(a)
         \/ ReadVersionCounter(a) \/ UpdateVersionCounter(a) \/ PublishJoinable(a)
  PROVE  TypeOK'
<1> USE TypeParts, SameTypes, LocalTypes, AllPlaces
<1>1. CASE NextRendezvous(a)
  <2>1. UsedOK'
    BY <1>1 DEF NextRendezvous, TypeOK, UsedOK
  <2>2. renewing' \in [Agents -> Keys \cup {NoKey}]
    BY <1>1 DEF NextRendezvous, TypeOK
  <2> QED
    BY <1>1, <2>1, <2>2 DEF NextRendezvous
<1>2. CASE TryCreate(a)
  <2>1. SharedOK'
    BY <1>2, ValueTypes DEF TryCreate, TypeOK, SharedOK, history
  <2>2. renewing' \in [Agents -> Keys \cup {NoKey}]
    BY <1>2 DEF TryCreate, TypeOK
  <2>3. LocalOK'
    BY <1>2, <2>2 DEF TryCreate, GoTo, TypeOK, LocalOK
  <2> QED
    BY <1>2, <2>1, <2>3 DEF TryCreate
<1>3. CASE ObserveExisting(a)
  <2>1. LocalOK'
    <3>1. active.version \in Nat
      BY DEF TypeOK, Values
    <3>2. CASE Raise(a, "closed") \/ Retry(a)
      BY <3>2
    <3>3. CASE /\ GoTo(a, "join") \/ GoTo(a, "announce")
               /\ ver' = [ver EXCEPT ![a] = active.version]
               /\ UNCHANGED <<snap, rank, renewing>>
      BY <3>1, <3>3 DEF GoTo, TypeOK, LocalOK
    <3> QED
      BY <1>3, <3>2, <3>3 DEF ObserveExisting
  <2> QED
    BY <1>3, <2>1 DEF ObserveExisting
<1>4. CASE Timeout(a)
  BY <1>4 DEF Timeout
<1>5. CASE ReadVersionCounter(a)
  <2>1. LocalOK'
    BY <1>5 DEF ReadVersionCounter, GoTo, TypeOK, LocalOK
  <2> QED
    BY <1>5, <2>1 DEF ReadVersionCounter
<1>6. CASE UpdateVersionCounter(a)
  <2>1. CASE Raise(a, "fatal") /\ UNCHANGED etcd
    BY <1>6, <2>1 DEF UpdateVersionCounter
  <2>2. CASE counter + 1 = ver[a] /\ counter' = ver[a] /\ UNCHANGED active
    <3>1. SharedOK'
      BY <1>6, <2>2 DEF UpdateVersionCounter, TypeOK, SharedOK, history, etcd
    <3>2. LocalOK'
      BY <1>6, <2>2, ValueTypes
      DEF UpdateVersionCounter, GoTo, Raise, TypeOK, LocalOK
    <3> QED
      BY <1>6, <3>1, <3>2 DEF UpdateVersionCounter
  <2> QED
    BY <1>6, <2>1, <2>2 DEF UpdateVersionCounter
<1>7. CASE PublishJoinable(a)
  <2>1. UsedOK'
    BY <1>7 DEF PublishJoinable
  <2>2. CASE Swap(a) /\ Forget(a, "join")
    <3>1. SharedOK'
      BY <1>7, <2>2, SwapType DEF PublishJoinable, Swapping
    <3>2. LocalOK'
      BY <2>2
    <3> QED
      BY <2>1, <3>1, <3>2
  <2>3. CASE Retry(a) /\ UNCHANGED <<etcd, history>>
    BY <2>1, <2>3
  <2> QED
    BY <1>7, <2>2, <2>3 DEF PublishJoinable
<1> QED
  BY <1>1, <1>2, <1>3, <1>4, <1>5, <1>6, <1>7

\* A step that changes nothing but where an agent is and what it remembers.
LEMMA ReadType ==
  ASSUME TypeOK, NEW a \in Agents, NEW l \in Places,
         Keep(a, l) \/ Forget(a, l) \/ Retry(a) \/ Raise(a, l) \/ Exit(a),
         UNCHANGED <<etcd, used, history>>
  PROVE  TypeOK'
<1>1. LocalOK'
  BY LocalTypes
<1>2. SharedOK' /\ UsedOK'
  BY SameTypes
<1> QED
  BY <1>1, <1>2, TypeParts

\* A compare-and-swap that succeeds, whatever the agent makes of it.
LEMMA SwapStepType ==
  ASSUME TypeOK, NEW a \in Agents, NEW l \in Places, pc[a] \in Swapping,
         Swap(a), Forget(a, l) \/ Retry(a) \/ Exit(a), UsedOK'
  PROVE  TypeOK'
<1>1. LocalOK'
  BY LocalTypes
<1>2. SharedOK'
  BY SwapType
<1> QED
  BY <1>1, <1>2, TypeParts

\* The steps that join, freeze, confirm and return keep the types.
LEMMA JoinTypes ==
  ASSUME TypeOK, NEW a \in Agents,
         \/ JoinRead(a) \/ JoinSwap(a)
         \/ LastCallRead(a) \/ LastCallFreeze(a) \/ LastCallRefresh(a)
         \/ WaitForPeers(a) \/ ConfirmRead(a) \/ SetKeepAlive(a)
         \/ ConfirmSwap(a) \/ WaitForFinal(a)
  PROVE  TypeOK'
<1> USE AllPlaces
<1>1. CASE JoinRead(a)
  BY <1>1, ReadType DEF JoinRead
<1>2. CASE JoinSwap(a)
  <2>1. CASE SwapFails(a, "join")
    BY <2>1, SwapFailsType
  <2>2. CASE Swap(a) /\ UNCHANGED <<ver, renewing, used>>
    <3>1. SharedOK' /\ UsedOK'
      BY <1>2, <2>2, SwapType, SameTypes DEF JoinSwap, Swapping
    <3>2. snap[a].participants \in Nat /\ Absent \in Values
      BY ValueTypes DEF TypeOK, Values
    <3>3. CASE SwapFails(a, "join")
      BY <3>3, SwapFailsType
    <3>4. CASE /\ rank' = [rank EXCEPT ![a] = snap[a].participants]
               /\ snap' = [snap EXCEPT ![a] = Absent]
               /\ GoTo(a, "lastcall") \/ GoTo(a, "peers")
      <4>1. LocalOK'
        BY <2>2, <3>2, <3>4 DEF GoTo, TypeOK, LocalOK
      <4> QED
        BY <3>1, <4>1, TypeParts
    <3> QED
      BY <1>2, <3>3, <3>4 DEF JoinSwap
  <2> QED
    BY <1>2, <2>1, <2>2 DEF JoinSwap
<1>3. CASE LastCallRead(a)
  BY <1>3, ReadType DEF LastCallRead
<1>4. CASE LastCallFreeze(a)
  BY <1>4, SwapStepType, SwapFailsType, SameTypes DEF LastCallFreeze, Swapping
<1>5. CASE LastCallRefresh(a)
  BY <1>5, SwapStepType, SwapFailsType, SameTypes DEF LastCallRefresh, Swapping
<1>6. CASE WaitForPeers(a)
  BY <1>6, ReadType DEF WaitForPeers
<1>7. CASE ConfirmRead(a)
  BY <1>7, ReadType DEF ConfirmRead
<1>8. CASE SetKeepAlive(a)
  <2>1. <<ver[a], rank[a]>> \in Keys
    BY DEF TypeOK, Keys
  <2>2. SharedOK'
    BY <1>8, <2>1 DEF SetKeepAlive, TypeOK, SharedOK, history
  <2>3. LocalOK'
    BY <1>8 DEF SetKeepAlive, GoTo, TypeOK, LocalOK
  <2> QED
    BY <1>8, <2>2, <2>3, SameTypes, TypeParts DEF SetKeepAlive
<1>9. CASE ConfirmSwap(a)
  <2>1. CASE SwapFails(a, "confirm")
    BY <2>1, SwapFailsType
  <2>2. CASE /\ Swap(a)
             /\ \E k \in Keys \cup {NoKey} :
                  renewing' = [renewing EXCEPT ![a] = k]
             /\ snap' = [snap EXCEPT ![a] = Absent]
             /\ GoTo(a, "final")
             /\ UNCHANGED <<ver, rank, used>>
    <3>1. SharedOK' /\ UsedOK'
      BY <1>9, <2>2, SwapType, SameTypes DEF ConfirmSwap, Swapping
    <3>2. LocalOK'
      BY <2>2, ValueTypes DEF GoTo, TypeOK, LocalOK
    <3> QED
      BY <3>1, <3>2, TypeParts
  <2>3. <<ver[a], rank[a]>> \in Keys
    BY DEF TypeOK, Keys
  <2> QED
    BY <1>9, <2>1, <2>2, <2>3 DEF ConfirmSwap
<1>10. CASE WaitForFinal(a)
  <2>1. CASE granted' = granted /\ (Forget(a, "finalwatch") \/ Retry(a))
    BY <1>10, <2>1, ReadType DEF WaitForFinal, history
  <2>2. CASE /\ GoTo(a, "member")
             /\ granted' = granted \cup
                  {[agent |-> a, version |-> ver[a], rank |-> rank[a],
                    size |-> active.participants]}
             /\ UNCHANGED <<snap, ver, rank, renewing>>
    <3>1. [agent |-> a, version |-> ver[a], rank |-> rank[a],
           size |-> active.participants] \in Grants
      BY DEF TypeOK, Values, Grants
    <3>2. SharedOK'
      BY <1>10, <2>2, <3>1 DEF WaitForFinal, TypeOK, SharedOK, etcd
    <3>3. LocalOK'
      BY <2>2 DEF GoTo, TypeOK, LocalOK
    <3> QED
      BY <1>10, <3>2, <3>3, SameTypes, TypeParts DEF WaitForFinal
  <2> QED
    BY <1>10, <2>1, <2>2 DEF WaitForFinal
<1> QED
  BY <1>1, <1>2, <1>3, <1>4, <1>5, <1>6, <1>7, <1>8, <1>9, <1>10

\* The steps that wait for a group to end, end it or close the rendezvous
\* keep the types.
LEMMA FreeTypes ==
  ASSUME TypeOK, NEW a \in Agents,
         \/ AnnounceRead(a) \/ AnnounceSwap(a)
         \/ FreeRead(a) \/ FreeCheck(a) \/ FreeDelete(a)
         \/ Shutdown(a) \/ SetClosedRead(a) \/ SetClosedSwap(a)
  PROVE  TypeOK'
<1> USE AllPlaces
<1>1. CASE AnnounceRead(a)
  BY <1>1, ReadType DEF AnnounceRead
<1>2. CASE AnnounceSwap(a)
  BY <1>2, SwapStepType, SwapFailsType, ReadType, SameTypes
  DEF AnnounceSwap, Swapping
<1>3. CASE FreeRead(a)
  BY <1>3, ReadType DEF FreeRead
<1>4. CASE FreeCheck(a)
  <2>1. CASE Forget(a, "freewatch")
    BY <1>4, <2>1, ReadType DEF FreeCheck
  <2>2. CASE GoTo(a, "delete") /\ UNCHANGED <<snap, ver, rank, renewing>>
    <3>1. LocalOK'
      BY <2>2 DEF GoTo, TypeOK, LocalOK
    <3> QED
      BY <1>4, <3>1, SameTypes, TypeParts DEF FreeCheck
  <2> QED
    BY <1>4, <2>1, <2>2 DEF FreeCheck
<1>5. CASE FreeDelete(a)
  <2>1. SharedOK'
    BY <1>5, ValueTypes DEF FreeDelete, TypeOK, SharedOK, history
  <2>2. LocalOK' /\ UsedOK'
    BY <1>5, LocalTypes, SameTypes DEF FreeDelete
  <2> QED
    BY <2>1, <2>2, TypeParts
<1>6. CASE Shutdown(a)
  <2>1. renewing' \in [Agents -> Keys \cup {NoKey}]
    BY <1>6 DEF Shutdown, TypeOK
  <2> QED
    BY <1>6, <2>1, LocalTypes, SameTypes, TypeParts DEF Shutdown
<1>7. CASE SetClosedRead(a)
  BY <1>7, ReadType DEF SetClosedRead
<1>8. CASE SetClosedSwap(a)
  BY <1>8, SwapStepType, ReadType, SameTypes DEF SetClosedSwap, Swapping
<1> QED
  BY <1>1, <1>2, <1>3, <1>4, <1>5, <1>6, <1>7, <1>8

\* Expiries, crashes and faulty requests keep the types.
LEMMA EnvironmentTypes == TypeOK /\ Environment => TypeOK'
<1> SUFFICES ASSUME TypeOK, Environment PROVE TypeOK'
  OBVIOUS
<1> USE AllPlaces
<1>1. ASSUME ExpireKey, UsedOK' PROVE TypeOK'
  <2>1. SharedOK'
    BY <1>1, ValueTypes DEF ExpireKey, TypeOK, SharedOK, history
  <2>2. LocalOK'
    BY <1>1, SameTypes DEF ExpireKey
  <2> QED
    BY <1>1, <2>1, <2>2, TypeParts
<1>2. CASE ExpireAbandoned
  <2>1. UsedOK'
    BY <1>2 DEF ExpireAbandoned, ExpireKey, TypeOK, UsedOK
  <2> QED
    BY <1>1, <1>2, <2>1 DEF ExpireAbandoned
<1>3. CASE ActiveLapses
  <2>1. UsedOK'
    BY <1>3 DEF ActiveLapses, ExpireKey, TypeOK, UsedOK
  <2> QED
    BY <1>1, <1>3, <2>1 DEF ActiveLapses
<1>4. ASSUME NEW key \in leases, LeaseExpires(key) \/ LeaseLapses(key)
      PROVE  TypeOK'
  <2>1. SharedOK'
    BY <1>4 DEF LeaseExpires, LeaseLapses, ExpireLease, TypeOK, SharedOK, history
  <2>2. LocalOK'
    BY <1>4 DEF LeaseExpires, LeaseLapses, ExpireLease, TypeOK, LocalOK
  <2>3. UsedOK'
    BY <1>4 DEF LeaseExpires, LeaseLapses, ExpireLease, TypeOK, UsedOK
  <2> QED
    BY <2>1, <2>2, <2>3, TypeParts
<1>5. ASSUME NEW a \in Agents, Crash(a) PROVE TypeOK'
  <2>1. UsedOK'
    BY <1>5 DEF Crash, TypeOK, UsedOK
  <2>2. UNCHANGED <<etcd, history>> /\ Exit(a)
    BY <1>5 DEF Crash
  <2> QED
    BY <2>1, <2>2, LocalTypes, SameTypes, TypeParts
<1>6. Fault => UsedOK'
  BY DEF Fault, TypeOK, UsedOK
<1>7. ASSUME NEW a \in Agents, RequestFails(a) PROVE TypeOK'
  <2>1. LocalOK'
    BY <1>7, LocalTypes DEF RequestFails, Fails
  <2> QED
    BY <1>6, <1>7, <2>1, SameTypes, TypeParts DEF RequestFails
<1>8. ASSUME NEW a \in Agents, ReplyLost(a) PROVE TypeOK'
  BY <1>6, <1>8, SwapStepType DEF ReplyLost, Fails
<1>9. ASSUME NEW a \in Agents, RequestResent(a) PROVE TypeOK'
  <2>1. \E l \in Places : Forget(a, l)
    BY <1>9 DEF RequestResent
  <2>2. Swap(a) /\ pc[a] \in Swapping /\ UsedOK'
    BY <1>6, <1>9 DEF RequestResent
  <2> QED
    BY <2>1, <2>2, SwapStepType
<1>10. ASSUME NEW a \in Agents, LeaseThreadDies(a) PROVE TypeOK'
  <2>1. LocalOK'
    BY <1>10 DEF LeaseThreadDies, TypeOK, LocalOK
  <2> QED
    BY <1>6, <1>10, <2>1, SameTypes, TypeParts DEF LeaseThreadDies
<1> QED
  BY <1>2, <1>3, <1>4, <1>5, <1>7, <1>8, <1>9, <1>10 DEF Environment

\* Every step keeps the types.
LEMMA TypeStep == TypeOK /\ [Next]_vars => TypeOK'
<1> SUFFICES ASSUME TypeOK, [Next]_vars PROVE TypeOK'
  OBVIOUS
<1>1. CASE UNCHANGED vars
  BY <1>1, SameTypes, TypeParts DEF vars
<1>2. CASE Environment
  BY <1>2, EnvironmentTypes
<1>3. ASSUME NEW a \in Agents,
             \/ NextRendezvous(a) \/ Attempt(a) \/ Timeout(a) \/ Shutdown(a) \/ Close(a)
      PROVE  TypeOK'
  BY <1>3, CreateTypes, JoinTypes, FreeTypes DEF Attempt, Close
<1> QED
  BY <1>1, <1>2, <1>3 DEF Next

\* Type correctness of the barrier: every reachable state of etcd and of the
\* agents is well formed.
THEOREM TypeCorrect == Spec => []TypeOK
<1>1. Init => TypeOK
  <2> SUFFICES ASSUME Init PROVE TypeOK
    OBVIOUS
  <2>1. Absent \in Values /\ "down" \in Places
    BY ValueTypes, AllPlaces
  <2> QED
    BY <2>1 DEF Init, TypeOK
<1> QED
  BY <1>1, TypeStep, PTL DEF Spec

-----------------------------------------------------------------------------
(* The effect of a compare-and-swap.                                       *)

\* The fields of the values that are stored.
LEMMA NewFields ==
  /\ Absent.status = "none"
  /\ Setup.status = "setup"
  /\ \A v \in Nat : /\ Joinable(v).status = "joinable"
                    /\ Joinable(v).version = v
                    /\ Joinable(v).participants = 0
  BY DEF Absent, Setup, Joinable

\* Freezing keeps the participants and empties the list of keys.
LEMMA FrozenFields ==
  ASSUME NEW s \in Values
  PROVE  /\ Frozen(s).status = "frozen"
         /\ Frozen(s).version = s.version
         /\ Frozen(s).participants = s.participants
         /\ Frozen(s).keep_alives = {}
         /\ Frozen(s).confirms = 0
  BY DEF Frozen, Values

\* Joining adds a participant and freezes the state when it is full.
LEMMA JoinedFields ==
  ASSUME NEW s \in Values
  PROVE  /\ Joined(s).version = s.version
         /\ Joined(s).participants = s.participants + 1
         /\ s.participants + 1 = MaxWorkers =>
              /\ Joined(s).status = "frozen"
              /\ Joined(s).keep_alives = {}
              /\ Joined(s).confirms = 0
         /\ s.participants + 1 # MaxWorkers => Joined(s).status = s.status
  BY DEF Joined, Frozen, Values

\* Confirming adds a key and makes the state final when it is the last.
LEMMA ConfirmedFields ==
  ASSUME NEW s \in Values, NEW r \in Nat
  PROVE  /\ Confirmed(s, r).version = s.version
         /\ Confirmed(s, r).participants = s.participants
         /\ Confirmed(s, r).keep_alives = s.keep_alives \cup {r}
         /\ Confirmed(s, r).confirms = s.confirms + 1
         /\ Confirmed(s, r).status =
              IF s.confirms + 1 = s.participants THEN "final" ELSE s.status
         /\ s.confirms + 1 = s.participants => Confirmed(s, r).waiting = 0
  BY DEF Confirmed, Values

\* Announcing and closing keep the group.
LEMMA OtherFields ==
  ASSUME NEW s \in Values
  PROVE  /\ Announced(s).status = s.status
         /\ Announced(s).version = s.version
         /\ Announced(s).participants = s.participants
         /\ Announced(s).keep_alives = s.keep_alives
         /\ Announced(s).confirms = s.confirms
         /\ Announced(s).waiting = s.waiting + 1
         /\ Closed(s).status = "closed"
         /\ Closed(s).version = s.version
  BY DEF Announced, Closed, Values

\* A compare-and-swap publishes a new version, adds a participant to the
\* joinable one, or moves the open version on without changing its members.
LEMMA SwapEffect ==
  ASSUME Inv, NEW a \in Agents, pc[a] \in Swapping, Swap(a)
  PROVE  /\ active.status # "closed"
         /\ ephemeral' => active'.status \in {"setup", "joinable", "frozen"}
         /\ active'.status = "joinable" => active'.participants < MaxWorkers
         /\ pc[a] = "publish" =>
              /\ active'.version = ver[a]
              /\ active'.status = "joinable"
              /\ active'.participants = 0
         /\ pc[a] # "publish" /\ active'.status \in Open =>
              /\ active.status \in Open
              /\ active'.version = active.version
              /\ active'.status = "joinable" => active.status = "joinable"
         /\ pc[a] = "joincas" =>
              /\ active.status = "joinable"
              /\ active.version = ver[a]
              /\ active'.version = active.version
              /\ active'.participants = active.participants + 1
         /\ pc[a] \notin {"publish", "joincas"} /\ active'.status \in Open =>
              /\ active'.participants = active.participants
              /\ active.status = "final" => active'.status = "final"
<1> USE DEF Inv
<1>1. /\ active = snap[a] /\ active \in Values
      /\ active' = Proposed(a) /\ ephemeral' = ProposedTTL(a)
      /\ ver[a] \in Nat /\ rank[a] \in Nat /\ SnapshotOK(a)
  BY DEF Swap, TypeOK, SnapshotInv
<1>2. active.participants \in Nat /\ active.confirms \in Nat
  BY <1>1 DEF Values
<1> USE WorkersAssumption
<1>3. CASE pc[a] = "publish"
  BY <1>1, <1>3, ProposedIs, NewFields DEF SnapshotOK, ProposedTTL
<1>4. CASE pc[a] = "joincas"
  BY <1>1, <1>2, <1>4, ProposedIs, JoinedFields DEF SnapshotOK, ProposedTTL, Is, Open
<1>5. CASE pc[a] = "freeze"
  BY <1>1, <1>5, ProposedIs, FrozenFields DEF SnapshotOK, ProposedTTL, Is, Open
<1>6. CASE pc[a] = "refresh"
  BY <1>1, <1>6, ProposedIs DEF SnapshotOK, ProposedTTL, Is, Open, ActiveInv
<1>7. CASE pc[a] = "confirmcas"
  BY <1>1, <1>2, <1>7, ProposedIs, ConfirmedFields
  DEF SnapshotOK, ProposedTTL, Is, Open
<1>8. CASE pc[a] = "announcecas"
  BY <1>1, <1>8, ProposedIs, OtherFields DEF SnapshotOK, ProposedTTL, Is, Open
<1>9. CASE pc[a] = "closecas"
  BY <1>1, <1>9, ProposedIs, OtherFields DEF SnapshotOK, ProposedTTL, Open
<1> QED
  BY <1>3, <1>4, <1>5, <1>6, <1>7, <1>8, <1>9 DEF Swapping

-----------------------------------------------------------------------------
(* The inductive invariant, by the kinds of steps.                         *)

\* Only agent a moves.
OthersStay(a) ==
  \A b \in Agents \ {a} : /\ pc'[b] = pc[b]
                          /\ snap'[b] = snap[b]
                          /\ ver'[b] = ver[b]
                          /\ rank'[b] = rank[b]

\* Agent a takes no rank.
NoNewRank(a) ==
  pc'[a] \in HasRank =>
    pc[a] \in HasRank /\ ver'[a] = ver[a] /\ rank'[a] = rank[a]

\* active_version stays, or what was there is gone.
StaysOrGoes ==
  \/ active' = active /\ ephemeral' = ephemeral
  \/ /\ active'.status \in {"none", "setup"}
     /\ ephemeral' => active'.status = "setup"

\* A step that stores no version, takes no rank and returns no group.
LEMMA QuietStep ==
  ASSUME Inv, TypeOK', NEW a \in Agents, OthersStay(a), NoNewRank(a),
         StaysOrGoes, UNCHANGED <<counter, published, granted>>,
         SnapshotOK(a)', pc'[a] # "publish"
  PROVE  Inv'
<1> USE DEF Inv
<1>1. SnapshotInv'
  BY DEF SnapshotInv, SnapshotOK, OthersStay
<1>2. ActiveInv'
  BY DEF ActiveInv, StaysOrGoes, Open
<1>3. VersionInv'
  BY DEF VersionInv, OthersStay, NoNewRank
<1>4. RankInv'
  BY DEF RankInv, OthersStay, NoNewRank, StaysOrGoes, Open
<1>5. GrantInv'
  BY DEF GrantInv, OthersStay, NoNewRank, StaysOrGoes, Open
<1>6. Consistency'
  BY DEF Consistency
<1> QED
  BY <1>1, <1>2, <1>3, <1>4, <1>5, <1>6

\* A compare-and-swap that succeeds; the agent keeps its seat, gives it up or
\* takes the next rank.
LEMMA SwapStep ==
  ASSUME Inv, TypeOK', NEW a \in Agents, OthersStay(a),
         pc[a] \in Swapping, Swap(a), SnapshotOK(a)', pc'[a] # "publish",
         \/ NoNewRank(a)
         \/ /\ pc[a] = "joincas"
            /\ ver'[a] = ver[a]
            /\ rank'[a] = snap[a].participants
  PROVE  Inv'
<1> USE DEF Inv
<1>0. /\ active = snap[a] /\ UNCHANGED <<counter, granted>>
      /\ published' = IF pc[a] = "publish" THEN published \cup {ver[a]}
                                           ELSE published
      /\ active.participants \in Nat
  BY DEF Swap, TypeOK, Values
<1>1. SnapshotInv'
  BY DEF SnapshotInv, SnapshotOK, OthersStay
<1>2. ActiveInv'
  BY <1>0, SwapEffect DEF ActiveInv
<1>3. VersionInv'
  <2>1. \A v \in published' : v <= counter'
    BY <1>0 DEF VersionInv
  <2>2. pc[a] = "joincas" => ver[a] \in published
    BY SwapEffect DEF ActiveInv, Open
  <2>3. ASSUME NEW b \in Agents, pc'[b] = "publish"
        PROVE  ver'[b] <= counter' /\ ver'[b] \notin published'
    BY <1>0, <2>3 DEF VersionInv, OthersStay
  <2>4. ASSUME NEW b \in Agents, pc'[b] \in HasRank
        PROVE  ver'[b] \in published'
    BY <1>0, <2>2, <2>4 DEF VersionInv, OthersStay, NoNewRank
  <2>5. ASSUME NEW b \in Agents, NEW c \in Agents, pc'[b] = "publish",
               pc'[c] = "publish", ver'[b] = ver'[c]
        PROVE  b = c
    BY <2>5 DEF VersionInv, OthersStay
  <2> QED
    BY <2>1, <2>3, <2>4, <2>5 DEF VersionInv
<1>4. RankInv'
  <2>1. ASSUME NEW b \in Agents, pc'[b] \in HasRank, active'.status \in Open,
               active'.version = ver'[b]
        PROVE  rank'[b] < active'.participants
    <3>1. rank[b] \in Nat /\ rank'[b] \in Nat
      BY DEF TypeOK
    <3>2. CASE pc[a] = "publish"
      <4>1. ver'[b] = ver[b] /\ pc[b] \in HasRank
        BY <2>1, <3>2 DEF OthersStay, NoNewRank
      <4> QED
        BY <2>1, <3>2, <4>1, SwapEffect DEF VersionInv
    <3>3. CASE pc[a] # "publish" /\ pc[b] \in HasRank
               /\ ver'[b] = ver[b] /\ rank'[b] = rank[b]
      BY <1>0, <2>1, <3>1, <3>3, SwapEffect DEF RankInv
    <3>4. CASE a = b /\ pc[a] = "joincas" /\ rank'[a] = snap[a].participants
      BY <1>0, <3>4, SwapEffect
    <3> QED
      BY <2>1, <3>2, <3>3, <3>4 DEF OthersStay, NoNewRank
  <2>2. ASSUME NEW b \in Agents, pc[b] \in HasRank, pc[a] = "joincas",
               ver[b] = ver[a]
        PROVE  rank[b] # snap[a].participants
    <3>1. rank[b] < active.participants /\ rank[b] \in Nat
      BY <2>2, SwapEffect DEF RankInv, Open, TypeOK
    <3> QED
      BY <1>0, <3>1
  <2>3. ASSUME NEW b \in Agents, NEW c \in Agents, pc'[b] \in HasRank,
               pc'[c] \in HasRank, ver'[b] = ver'[c], rank'[b] = rank'[c]
        PROVE  b = c
    BY <2>2, <2>3 DEF RankInv, OthersStay, NoNewRank
  <2> QED
    BY <2>1, <2>3 DEF RankInv
<1>5. GrantInv'
  <2> SUFFICES ASSUME NEW g \in granted
               PROVE  /\ g.version \in published'
                      /\ active'.status \in Open /\ active'.version = g.version =>
                           /\ active'.status = "final"
                           /\ active'.participants = g.size
                      /\ \A b \in Agents :
                           pc'[b] \in HasRank /\ ver'[b] = g.version =>
                             rank'[b] # g.rank
    BY <1>0 DEF GrantInv
  <2>1. g.version \in published'
    BY <1>0 DEF GrantInv
  <2>2. pc[a] = "publish" => ver[a] # g.version
    BY DEF GrantInv, VersionInv
  <2>3. pc[a] = "joincas" => ver[a] # g.version
    BY SwapEffect DEF GrantInv, Open
  <2>4. active'.status \in Open /\ active'.version = g.version =>
          active'.status = "final" /\ active'.participants = g.size
    BY <2>2, <2>3, SwapEffect DEF GrantInv
  <2>5. ASSUME NEW b \in Agents, pc'[b] \in HasRank, ver'[b] = g.version
        PROVE  rank'[b] # g.rank
    BY <2>3, <2>5 DEF GrantInv, OthersStay, NoNewRank
  <2> QED
    BY <2>1, <2>4, <2>5
<1>6. Consistency'
  BY <1>0 DEF Consistency
<1> QED
  BY <1>1, <1>2, <1>3, <1>4, <1>5, <1>6

\* The places where an agent has a rank, one by one.
LEMMA HasRankPlaces ==
  HasRank = {"lastcall", "lcwatch", "freeze", "refresh", "peers", "peerswatch",
             "confirm", "keepalive", "confirmcas", "final", "finalwatch"}
  BY DEF HasRank, Unconfirmed, LastCall

\* What the control flow helpers do to the agent that uses them.
LEMMA Moves ==
  ASSUME TypeOK, NEW a \in Agents, NEW l \in Places
  PROVE  /\ GoTo(a, l) => pc'[a] = l /\ \A b \in Agents \ {a} : pc'[b] = pc[b]
         /\ Drop(a, l) => OthersStay(a) /\ pc'[a] = l
         /\ Raise(a, l) => OthersStay(a) /\ pc'[a] = l
         /\ Retry(a) => OthersStay(a) /\ pc'[a] = "init"
         /\ Exit(a) => OthersStay(a) /\ pc'[a] = "down"
         /\ Keep(a, l) => /\ OthersStay(a) /\ pc'[a] = l /\ snap'[a] = active
                          /\ ver'[a] = ver[a] /\ rank'[a] = rank[a]
         /\ Forget(a, l) => /\ OthersStay(a) /\ pc'[a] = l
                            /\ ver'[a] = ver[a] /\ rank'[a] = rank[a]
  BY DEF TypeOK, OthersStay, GoTo, Drop, Raise, Retry, Exit, Keep, Forget

\* An agent that remembers no state has nothing to get wrong.
LEMMA NoSnapshot ==
  ASSUME NEW a \in Agents,
         pc'[a] \notin {"publish", "joincas", "freeze", "refresh", "keepalive",
                       "confirmcas", "announcecas", "freecheck", "delete",
                       "closecas"}
  PROVE  SnapshotOK(a)'
  BY DEF SnapshotOK

\* An attempt that ends, in whatever way, while active_version stays or goes.
LEMMA EndStep ==
  ASSUME Inv, TypeOK', NEW a \in Agents, NEW l \in Places, StaysOrGoes,
         UNCHANGED <<counter, published, granted>>,
         \/ Retry(a) \/ Exit(a)
         \/ (Raise(a, l) \/ Drop(a, l)) /\ l \in {"init", "close"} \cup Raised
  PROVE  Inv'
<1>1. OthersStay(a) /\ pc'[a] \in {"init", "close", "down"} \cup Raised
  BY Moves DEF Inv
<1>2. SnapshotOK(a)' /\ NoNewRank(a) /\ pc'[a] # "publish"
  BY <1>1, NoSnapshot, HasRankPlaces DEF NoNewRank, Raised
<1> QED
  BY <1>1, <1>2, QuietStep

\* A compare-and-swap that fails.
LEMMA SwapFailsStep ==
  ASSUME Inv, TypeOK', NEW a \in Agents, NEW l \in Places, SwapFails(a, l),
         l \in {"join", "lastcall", "confirm", "announce"},
         l \in HasRank => pc[a] \in HasRank
  PROVE  Inv'
<1>1. StaysOrGoes /\ UNCHANGED <<counter, published, granted>>
  BY DEF SwapFails, StaysOrGoes, etcd, history
<1>2. CASE Retry(a)
  BY <1>1, <1>2, EndStep
<1>3. CASE Forget(a, l)
  <2>1. OthersStay(a) /\ pc'[a] = l /\ ver'[a] = ver[a] /\ rank'[a] = rank[a]
    BY <1>3, Moves DEF Inv
  <2>2. SnapshotOK(a)' /\ NoNewRank(a) /\ pc'[a] # "publish"
    BY <2>1, NoSnapshot DEF NoNewRank
  <2> QED
    BY <1>1, <2>1, <2>2, QuietStep
<1> QED
  BY <1>2, <1>3 DEF SwapFails

\* The steps of init_phase() and try_create_rendezvous() keep the invariant.
LEMMA CreateInv ==
  ASSUME Inv, TypeOK', NEW a \in Agents,
         \/ NextRendezvous(a) \/ TryCreate(a) \/ ObserveExisting(a) \/ Timeout(a)
         \/ ReadVersionCounter(a) \/ UpdateVersionCounter(a) \/ PublishJoinable(a)
  PROVE  Inv'
<1> USE AllPlaces
<1>0. TypeOK
  BY DEF Inv
<1>1. CASE NextRendezvous(a)
  BY <1>1, EndStep DEF NextRendezvous, StaysOrGoes, etcd, history
<1>2. CASE TryCreate(a)
  <2>1. StaysOrGoes /\ UNCHANGED <<counter, published, granted>>
    BY <1>2, NewFields DEF TryCreate, StaysOrGoes, history
  <2>2. OthersStay(a) /\ pc'[a] \in {"counter", "observe"}
    BY <1>0, <1>2, Moves DEF TryCreate, OthersStay
  <2>3. SnapshotOK(a)' /\ NoNewRank(a) /\ pc'[a] # "publish"
    BY <2>2, NoSnapshot, HasRankPlaces DEF NoNewRank
  <2> QED
    BY <2>1, <2>2, <2>3, QuietStep
<1>3. CASE ObserveExisting(a)
  <2>1. StaysOrGoes /\ UNCHANGED <<counter, published, granted>>
    BY <1>3 DEF ObserveExisting, StaysOrGoes, etcd, history
  <2>2. CASE Raise(a, "closed") \/ Retry(a)
    BY <2>1, <2>2, EndStep DEF Raised
  <2>3. CASE /\ GoTo(a, "join") \/ GoTo(a, "announce")
             /\ ver' = [ver EXCEPT ![a] = active.version]
             /\ UNCHANGED <<snap, rank, renewing>>
    <3>1. OthersStay(a) /\ pc'[a] \in {"join", "announce"}
      BY <1>0, <2>3, Moves DEF OthersStay, TypeOK
    <3>2. SnapshotOK(a)' /\ NoNewRank(a) /\ pc'[a] # "publish"
      BY <3>1, NoSnapshot, HasRankPlaces DEF NoNewRank
    <3> QED
      BY <2>1, <3>1, <3>2, QuietStep
  <2> QED
    BY <1>3, <2>2, <2>3 DEF ObserveExisting
<1>4. CASE Timeout(a)
  BY <1>4, EndStep DEF Timeout, StaysOrGoes, etcd, history, Raised
<1>5. CASE ReadVersionCounter(a)
  <2>1. StaysOrGoes /\ UNCHANGED <<counter, published, granted>>
    BY <1>5 DEF ReadVersionCounter, StaysOrGoes, etcd, history
  <2>2. OthersStay(a) /\ pc'[a] = "bump"
    BY <1>0, <1>5, Moves DEF ReadVersionCounter, OthersStay, TypeOK
  <2>3. SnapshotOK(a)' /\ NoNewRank(a) /\ pc'[a] # "publish"
    BY <2>2, NoSnapshot, HasRankPlaces DEF NoNewRank
  <2> QED
    BY <2>1, <2>2, <2>3, QuietStep
<1>6. CASE UpdateVersionCounter(a)
  <2>1. CASE Raise(a, "fatal") /\ UNCHANGED etcd
    BY <1>6, <2>1, EndStep
    DEF UpdateVersionCounter, StaysOrGoes, etcd, history, Raised
  <2>2. CASE /\ counter + 1 = ver[a]
             /\ counter' = ver[a]
             /\ GoTo(a, "publish")
             /\ snap' = [snap EXCEPT ![a] = Setup]
             /\ UNCHANGED <<active, ephemeral, ver, rank>>
    <3>1. /\ OthersStay(a) /\ pc'[a] = "publish" /\ snap'[a] = Setup
          /\ UNCHANGED <<published, granted>> /\ counter \in Nat
      BY <1>0, <1>6, <2>2, Moves
      DEF UpdateVersionCounter, OthersStay, TypeOK, history
    <3>2. SnapshotInv'
      BY <3>1 DEF Inv, SnapshotInv, SnapshotOK, OthersStay
    <3>3. VersionInv'
      <4>1. \A v \in published : v \in Nat /\ v <= counter
        BY <1>0 DEF Inv, VersionInv, TypeOK
      <4>2. ASSUME NEW b \in Agents \ {a}, pc'[b] = "publish"
            PROVE  ver[b] \in Nat /\ ver[b] <= counter /\ ver[b] \notin published
        BY <1>0, <3>1, <4>2 DEF Inv, VersionInv, OthersStay, TypeOK
      <4>3. \A v \in published' : v <= counter'
        BY <2>2, <3>1, <4>1
      <4>4. ASSUME NEW b \in Agents, pc'[b] = "publish"
            PROVE  ver'[b] <= counter' /\ ver'[b] \notin published'
        BY <2>2, <3>1, <4>1, <4>2, <4>4
      <4>5. ASSUME NEW b \in Agents, pc'[b] \in HasRank
            PROVE  ver'[b] \in published'
        BY <2>2, <3>1, <4>5, HasRankPlaces DEF Inv, VersionInv, OthersStay
      <4>6. ASSUME NEW b \in Agents, NEW c \in Agents, pc'[b] = "publish",
                   pc'[c] = "publish", ver'[b] = ver'[c]
            PROVE  b = c
        BY <2>2, <3>1, <4>2, <4>6 DEF Inv, VersionInv, OthersStay
      <4> QED
        BY <4>3, <4>4, <4>5, <4>6 DEF VersionInv
    <3>4. RankInv'
      BY <2>2, <3>1, HasRankPlaces DEF Inv, RankInv, OthersStay
    <3>5. GrantInv' /\ ActiveInv' /\ Consistency'
      BY <2>2, <3>1, HasRankPlaces
      DEF Inv, GrantInv, ActiveInv, Consistency, OthersStay
    <3> QED
      BY <3>2, <3>3, <3>4, <3>5 DEF Inv
  <2> QED
    BY <1>6, <2>1, <2>2 DEF UpdateVersionCounter
<1>7. CASE PublishJoinable(a)
  <2>1. CASE Swap(a) /\ Forget(a, "join")
    <3>1. OthersStay(a) /\ pc'[a] = "join"
      BY <1>0, <2>1, Moves
    <3>2. SnapshotOK(a)' /\ NoNewRank(a) /\ pc'[a] # "publish"
      BY <3>1, NoSnapshot, HasRankPlaces DEF NoNewRank
    <3> QED
      BY <1>7, <2>1, <3>1, <3>2, SwapStep DEF PublishJoinable, Swapping
  <2>2. CASE Retry(a) /\ UNCHANGED <<etcd, history>>
    BY <2>2, EndStep DEF StaysOrGoes, etcd, history
  <2> QED
    BY <1>7, <2>1, <2>2 DEF PublishJoinable
<1> QED
  BY <1>1, <1>2, <1>3, <1>4, <1>5, <1>6, <1>7

\* A read of active_version after which the agent starts over.
LEMMA RetryStep ==
  ASSUME Inv, TypeOK', NEW a \in Agents, Retry(a) \/ Exit(a),
         UNCHANGED <<etcd, history>>
  PROVE  Inv'
  BY EndStep, AllPlaces DEF StaysOrGoes, etcd, history

\* A read of active_version after which the agent goes on in its seat.
LEMMA ForgetStep ==
  ASSUME Inv, TypeOK', NEW a \in Agents, NEW l \in Places, Forget(a, l),
         UNCHANGED <<etcd, history>>,
         \/ l \in {"join", "announce", "free", "freewatch", "close"}
         \/ /\ l \in {"peers", "peerswatch", "confirm", "finalwatch"}
            /\ pc[a] \in HasRank
  PROVE  Inv'
<1>1. StaysOrGoes /\ UNCHANGED <<counter, published, granted>>
  BY DEF StaysOrGoes, etcd, history
<1>2. OthersStay(a) /\ pc'[a] = l /\ ver'[a] = ver[a] /\ rank'[a] = rank[a]
  BY Moves DEF Inv
<1>3. SnapshotOK(a)' /\ NoNewRank(a) /\ pc'[a] # "publish"
  BY <1>2, NoSnapshot, HasRankPlaces DEF NoNewRank
<1> QED
  BY <1>1, <1>2, <1>3, QuietStep

\* A read of active_version whose value the next request is going to use.
LEMMA KeepStep ==
  ASSUME Inv, TypeOK', NEW a \in Agents, NEW l \in Places, Keep(a, l),
         UNCHANGED <<etcd, history>>,
         \/ /\ l = "joincas"
            /\ Is(active, "joinable", ver[a]) /\ active.participants < MaxWorkers
         \/ /\ l \in {"freeze", "refresh"}
            /\ Is(active, "joinable", ver[a]) /\ pc[a] \in HasRank
         \/ l = "keepalive" /\ Is(active, "frozen", ver[a]) /\ pc[a] \in HasRank
         \/ l \in {"announcecas", "freecheck"} /\ Is(active, "final", ver[a])
         \/ l = "closecas" /\ active.status \notin {"none", "closed"}
  PROVE  Inv'
<1>1. StaysOrGoes /\ UNCHANGED <<counter, published, granted>>
  BY DEF StaysOrGoes, etcd, history
<1>2. /\ OthersStay(a) /\ pc'[a] = l /\ snap'[a] = active /\ active' = active
      /\ ver'[a] = ver[a] /\ rank'[a] = rank[a]
  BY Moves DEF Inv, etcd
<1>3. SnapshotOK(a)' /\ NoNewRank(a) /\ pc'[a] # "publish"
  BY <1>2, HasRankPlaces DEF SnapshotOK, NoNewRank, Is
<1> QED
  BY <1>1, <1>2, <1>3, QuietStep

\* A compare-and-swap after which the agent is somewhere else.
LEMMA SwapGoesOn ==
  ASSUME Inv, TypeOK', NEW a \in Agents, NEW l \in Places,
         pc[a] \in Swapping, Swap(a),
         \/ Retry(a) \/ Exit(a)
         \/ Forget(a, l) /\ l \in {"join", "announce", "free", "close"}
         \/ Forget(a, l) /\ l \in {"peers", "lcwatch", "lastcall", "confirm"}
              /\ pc[a] \in HasRank
  PROVE  Inv'
<1>1. TypeOK
  BY DEF Inv
<1>2. CASE Retry(a) \/ Exit(a)
  <2>1. OthersStay(a) /\ pc'[a] \in {"init", "down"}
    BY <1>1, <1>2, Moves
  <2>2. SnapshotOK(a)' /\ NoNewRank(a) /\ pc'[a] # "publish"
    BY <2>1, NoSnapshot, HasRankPlaces DEF NoNewRank
  <2> QED
    BY <2>1, <2>2, SwapStep
<1>3. CASE Forget(a, l) /\ ~ Retry(a) /\ ~ Exit(a)
  <2>1. OthersStay(a) /\ pc'[a] = l /\ ver'[a] = ver[a] /\ rank'[a] = rank[a]
    BY <1>1, <1>3, Moves
  <2>2. SnapshotOK(a)' /\ NoNewRank(a) /\ pc'[a] # "publish"
    BY <1>3, <2>1, NoSnapshot, HasRankPlaces DEF NoNewRank
  <2> QED
    BY <2>1, <2>2, SwapStep
<1> QED
  BY <1>2, <1>3

\* The steps that join, freeze, confirm and return keep the invariant.
LEMMA JoinInv ==
  ASSUME Inv, TypeOK', NEW a \in Agents,
         \/ JoinRead(a) \/ JoinSwap(a)
         \/ LastCallRead(a) \/ LastCallFreeze(a) \/ LastCallRefresh(a)
         \/ WaitForPeers(a) \/ ConfirmRead(a) \/ SetKeepAlive(a)
         \/ ConfirmSwap(a) \/ WaitForFinal(a)
  PROVE  Inv'
<1> USE AllPlaces, HasRankPlaces
<1>0. TypeOK
  BY DEF Inv
<1>1. CASE JoinRead(a)
  BY <1>1, KeepStep, RetryStep DEF JoinRead
<1>2. CASE JoinSwap(a)
  <2>1. CASE SwapFails(a, "join")
    BY <2>1, SwapFailsStep
  <2>2. CASE /\ Swap(a)
             /\ rank' = [rank EXCEPT ![a] = snap[a].participants]
             /\ snap' = [snap EXCEPT ![a] = Absent]
             /\ GoTo(a, "lastcall") \/ GoTo(a, "peers")
             /\ UNCHANGED ver
    <3>1. /\ OthersStay(a) /\ pc'[a] \in {"lastcall", "peers"}
          /\ rank'[a] = snap[a].participants /\ ver'[a] = ver[a]
      BY <1>0, <2>2, Moves DEF OthersStay, TypeOK
    <3>2. SnapshotOK(a)' /\ pc'[a] # "publish"
      BY <3>1, NoSnapshot
    <3> QED
      BY <1>2, <2>2, <3>1, <3>2, SwapStep DEF JoinSwap, Swapping
  <2> QED
    BY <1>2, <2>1, <2>2 DEF JoinSwap
<1>3. CASE LastCallRead(a)
  BY <1>3, KeepStep, ForgetStep, RetryStep DEF LastCallRead
<1>4. CASE LastCallFreeze(a)
  BY <1>4, SwapGoesOn, SwapFailsStep DEF LastCallFreeze, Swapping
<1>5. CASE LastCallRefresh(a)
  BY <1>5, SwapGoesOn, SwapFailsStep DEF LastCallRefresh, Swapping
<1>6. CASE WaitForPeers(a)
  BY <1>6, ForgetStep, RetryStep DEF WaitForPeers
<1>7. CASE ConfirmRead(a)
  BY <1>7, KeepStep, RetryStep DEF ConfirmRead
<1>8. CASE SetKeepAlive(a)
  <2>1. StaysOrGoes /\ UNCHANGED <<counter, published, granted>>
    BY <1>8 DEF SetKeepAlive, StaysOrGoes, history
  <2>2. /\ OthersStay(a) /\ pc'[a] = "confirmcas" /\ pc[a] = "keepalive"
        /\ UNCHANGED <<snap, ver, rank>>
    BY <1>0, <1>8, Moves DEF SetKeepAlive, OthersStay
  <2>3. SnapshotOK(a)' /\ NoNewRank(a) /\ pc'[a] # "publish"
    BY <2>2 DEF Inv, SnapshotInv, SnapshotOK, NoNewRank
  <2> QED
    BY <2>1, <2>2, <2>3, QuietStep
<1>9. CASE ConfirmSwap(a)
  <2>1. CASE SwapFails(a, "confirm")
    BY <1>9, <2>1, SwapFailsStep DEF ConfirmSwap
  <2>2. CASE /\ Swap(a)
             /\ snap' = [snap EXCEPT ![a] = Absent]
             /\ GoTo(a, "final")
             /\ UNCHANGED <<ver, rank>>
    <3>1. /\ OthersStay(a) /\ pc'[a] = "final" /\ pc[a] = "confirmcas"
          /\ rank'[a] = rank[a] /\ ver'[a] = ver[a]
      BY <1>0, <1>9, <2>2, Moves DEF ConfirmSwap, OthersStay, TypeOK
    <3>2. SnapshotOK(a)' /\ NoNewRank(a) /\ pc'[a] # "publish"
      BY <3>1, NoSnapshot DEF NoNewRank
    <3> QED
      BY <2>2, <3>1, <3>2, SwapStep DEF Swapping
  <2> QED
    BY <1>9, <2>1, <2>2 DEF ConfirmSwap
<1>10. CASE WaitForFinal(a)
  <2>1. CASE UNCHANGED granted /\ (Forget(a, "finalwatch") \/ Retry(a))
    BY <1>10, <2>1, ForgetStep, RetryStep DEF WaitForFinal, history
  <2>2. CASE /\ Is(active, "final", ver[a])
             /\ GoTo(a, "member")
             /\ granted' = granted \cup
                  {[agent |-> a, version |-> ver[a], rank |-> rank[a],
                    size |-> active.participants]}
             /\ UNCHANGED <<snap, ver, rank, renewing>>
    <3> DEFINE h == [agent |-> a, version |-> ver[a], rank |-> rank[a],
                     size |-> active.participants]
    <3>1. /\ OthersStay(a) /\ pc'[a] = "member" /\ pc[a] \in HasRank
          /\ UNCHANGED <<active, ephemeral, counter, published>>
      BY <1>0, <1>10, <2>2, Moves DEF WaitForFinal, OthersStay, etcd
    <3>2. SnapshotInv'
      BY <2>2, <3>1 DEF Inv, SnapshotInv, SnapshotOK, OthersStay
    <3>3. ActiveInv' /\ VersionInv' /\ RankInv'
      BY <2>2, <3>1 DEF Inv, ActiveInv, VersionInv, RankInv, OthersStay
    <3>4. /\ h.version \in published
          /\ h.rank < h.size
          /\ active.version = h.version /\ active.participants = h.size
      BY <2>2, <3>1 DEF Inv, VersionInv, RankInv, Is, Open
    <3>5. GrantInv'
      <4>1. ASSUME NEW b \in Agents, pc'[b] \in HasRank, ver'[b] = h.version
            PROVE  rank'[b] # h.rank
        BY <2>2, <3>1, <4>1 DEF Inv, RankInv, OthersStay
      <4>2. ASSUME NEW g \in granted, NEW b \in Agents, pc'[b] \in HasRank,
                   ver'[b] = g.version
            PROVE  rank'[b] # g.rank
        BY <2>2, <3>1, <4>2 DEF Inv, GrantInv, OthersStay
      <4>3. ASSUME NEW g \in granted
            PROVE  /\ g.version \in published'
                   /\ active'.status \in Open /\ active'.version = g.version =>
                        active'.status = "final" /\ active'.participants = g.size
        BY <3>1, <4>3 DEF Inv, GrantInv
      <4> QED
        BY <2>2, <3>1, <3>4, <4>1, <4>2, <4>3 DEF GrantInv, Is
    <3>6. Consistency'
      <4>1. ASSUME NEW g \in granted, g.version = h.version
            PROVE  g.size = h.size /\ g.rank # h.rank
        BY <2>2, <3>1, <4>1 DEF Inv, GrantInv, Is, Open
      <4> QED
        BY <2>2, <3>4, <4>1 DEF Inv, Consistency
    <3> QED
      BY <3>2, <3>3, <3>5, <3>6 DEF Inv
  <2> QED
    BY <1>10, <2>1, <2>2 DEF WaitForFinal
<1> QED
  BY <1>1, <1>2, <1>3, <1>4, <1>5, <1>6, <1>7, <1>8, <1>9, <1>10

\* The steps that wait for a group to end, end it or close the rendezvous
\* keep the invariant.
LEMMA FreeInv ==
  ASSUME Inv, TypeOK', NEW a \in Agents,
         \/ AnnounceRead(a) \/ AnnounceSwap(a)
         \/ FreeRead(a) \/ FreeCheck(a) \/ FreeDelete(a)
         \/ Shutdown(a) \/ SetClosedRead(a) \/ SetClosedSwap(a)
  PROVE  Inv'
<1> USE AllPlaces
<1>0. TypeOK
  BY DEF Inv
<1>1. CASE AnnounceRead(a)
  BY <1>1, KeepStep, RetryStep DEF AnnounceRead
<1>2. CASE AnnounceSwap(a)
  BY <1>2, SwapGoesOn, SwapFailsStep, RetryStep, HasRankPlaces
  DEF AnnounceSwap, Swapping
<1>3. CASE FreeRead(a)
  BY <1>3, KeepStep, RetryStep DEF FreeRead
<1>4. CASE FreeCheck(a)
  <2>1. CASE Forget(a, "freewatch")
    BY <1>4, <2>1, ForgetStep DEF FreeCheck
  <2>2. CASE GoTo(a, "delete") /\ UNCHANGED <<snap, ver, rank>>
    <3>1. StaysOrGoes /\ UNCHANGED <<counter, published, granted>>
      BY <1>4 DEF FreeCheck, StaysOrGoes, etcd, history
    <3>2. OthersStay(a) /\ pc'[a] = "delete" /\ pc[a] = "freecheck"
      BY <1>0, <1>4, <2>2, Moves DEF FreeCheck, OthersStay
    <3>3. SnapshotOK(a)' /\ NoNewRank(a) /\ pc'[a] # "publish"
      BY <2>2, <3>2, HasRankPlaces
      DEF Inv, SnapshotInv, SnapshotOK, NoNewRank
    <3> QED
      BY <3>1, <3>2, <3>3, QuietStep
  <2> QED
    BY <1>4, <2>1, <2>2 DEF FreeCheck
<1>5. CASE FreeDelete(a)
  BY <1>5, NewFields, EndStep DEF FreeDelete, StaysOrGoes, history
<1>6. CASE Shutdown(a)
  BY <1>6, EndStep DEF Shutdown, StaysOrGoes, etcd, history
<1>7. CASE SetClosedRead(a)
  BY <1>7, KeepStep, RetryStep DEF SetClosedRead
<1>8. CASE SetClosedSwap(a)
  BY <1>8, SwapGoesOn, ForgetStep, RetryStep DEF SetClosedSwap, Swapping
<1> QED
  BY <1>1, <1>2, <1>3, <1>4, <1>5, <1>6, <1>7, <1>8

\* A step of the environment that moves no agent.
LEMMA StillStep ==
  ASSUME Inv, TypeOK', UNCHANGED <<pc, snap, ver, rank>>, StaysOrGoes,
         UNCHANGED <<counter, published, granted>>
  PROVE  Inv'
<1> USE DEF Inv
<1>1. SnapshotInv' /\ VersionInv' /\ Consistency'
  BY DEF SnapshotInv, SnapshotOK, VersionInv, Consistency
<1>2. ActiveInv' /\ RankInv' /\ GrantInv'
  BY DEF ActiveInv, RankInv, GrantInv, StaysOrGoes, Open
<1> QED
  BY <1>1, <1>2

\* Expiries, crashes and faulty requests keep the invariant.
LEMMA EnvironmentInv ==
  ASSUME Inv, TypeOK', Environment
  PROVE  Inv'
<1> USE AllPlaces
<1>1. CASE ExpireAbandoned \/ ActiveLapses
  BY <1>1, NewFields, StillStep
  DEF ExpireAbandoned, ActiveLapses, ExpireKey, StaysOrGoes, local, history
<1>2. ASSUME NEW key \in leases, LeaseExpires(key) \/ LeaseLapses(key)
      PROVE  Inv'
  BY <1>2, StillStep
  DEF LeaseExpires, LeaseLapses, ExpireLease, StaysOrGoes, history
<1>3. ASSUME NEW a \in Agents, Crash(a) PROVE Inv'
  BY <1>3, RetryStep DEF Crash
<1>4. ASSUME NEW a \in Agents, RequestFails(a) PROVE Inv'
  BY <1>4, RetryStep DEF RequestFails, Fails
<1>5. ASSUME NEW a \in Agents, ReplyLost(a) PROVE Inv'
  BY <1>5, SwapGoesOn DEF ReplyLost, Fails
<1>6. ASSUME NEW a \in Agents, RequestResent(a) PROVE Inv'
  <2>1. Swap(a) /\ pc[a] \in Swapping \ {"publish", "refresh"}
    BY <1>6 DEF RequestResent
  <2>2. \/ Forget(a, "join") \/ Forget(a, "announce") \/ Forget(a, "close")
        \/ /\ Forget(a, "lastcall") \/ Forget(a, "confirm")
           /\ pc[a] \in {"freeze", "confirmcas"}
    BY <1>6 DEF RequestResent, Swapping
  <2> QED
    BY <2>1, <2>2, SwapGoesOn, HasRankPlaces
<1>7. ASSUME NEW a \in Agents, LeaseThreadDies(a) PROVE Inv'
  BY <1>7, StillStep DEF LeaseThreadDies, StaysOrGoes, etcd, history
<1> QED
  BY <1>1, <1>2, <1>3, <1>4, <1>5, <1>6, <1>7 DEF Environment

\* Every step keeps the invariant.
LEMMA InvStep == Inv /\ [Next]_vars => Inv'
<1> SUFFICES ASSUME Inv, [Next]_vars PROVE Inv'
  OBVIOUS
<1>0. TypeOK'
  BY TypeStep DEF Inv
<1>1. CASE UNCHANGED vars
  BY <1>0, <1>1, StillStep DEF vars, local, etcd, history, StaysOrGoes
<1>2. CASE Environment
  BY <1>0, <1>2, EnvironmentInv
<1>3. ASSUME NEW a \in Agents,
             \/ NextRendezvous(a) \/ Attempt(a) \/ Timeout(a) \/ Shutdown(a) \/ Close(a)
      PROVE  Inv'
  BY <1>0, <1>3, CreateInv, JoinInv, FreeInv DEF Attempt, Close
<1> QED
  BY <1>1, <1>2, <1>3 DEF Next

\* The initial state satisfies the invariant.
LEMMA InvInit == Init => Inv
<1> SUFFICES ASSUME Init PROVE Inv
  OBVIOUS
<1>1. TypeOK
  BY ValueTypes, AllPlaces DEF Init, TypeOK
<1>2. SnapshotInv
  BY DEF Init, SnapshotInv, SnapshotOK
<1>3. ActiveInv
  BY NewFields DEF Init, ActiveInv, Open
<1>4. VersionInv /\ RankInv
  BY HasRankPlaces DEF Init, VersionInv, RankInv
<1>5. GrantInv /\ Consistency
  BY DEF Init, GrantInv, Consistency
<1> QED
  BY <1>1, <1>2, <1>3, <1>4, <1>5 DEF Inv

\* The inductive invariant holds in every reachable state.
THEOREM InvHolds == Spec => []Inv
  BY InvInit, InvStep, PTL DEF Spec

\* Consistency of the barrier: whatever crashes, expires, gets lost or is
\* sent twice, the calls of rendezvous_barrier() that return one version
\* agree on the world size and hold distinct ranks below it.
THEOREM GroupsConsistent == Spec => []Consistency
<1>1. Inv => Consistency
  BY DEF Inv
<1> QED
  BY <1>1, InvHolds, PTL

\* The assertion in join_rendezvous() never fails.
THEOREM JoinableNeverFull == Spec => []JoinableHasSpace
<1>1. Inv => JoinableHasSpace
  BY DEF Inv, ActiveInv, JoinableHasSpace
<1> QED
  BY <1>1, InvHolds, PTL

-----------------------------------------------------------------------------
(* What no step does.                                                      *)

\* A step other than a successful compare-and-swap stores no version.
LEMMA OtherSteps ==
  ASSUME Inv, [Next]_vars
  PROVE  \/ \E a \in Agents : pc[a] \in Swapping /\ Swap(a)
         \/ /\ StaysOrGoes
            /\ active.status = "closed" => active' = active /\ granted' = granted
<1> DEFINE Done == /\ StaysOrGoes
                   /\ active.status = "closed" =>
                        active' = active /\ granted' = granted
<1> USE DEF Inv
<1>1. CASE UNCHANGED vars
  BY <1>1 DEF vars, etcd, history, StaysOrGoes
<1>2. ASSUME ExpireKey PROVE Done
  BY <1>2, NewFields DEF ExpireKey, ActiveInv, StaysOrGoes
<1>3. ASSUME NEW a \in Agents, UNCHANGED <<etcd, history>> PROVE Done
  BY <1>3 DEF etcd, history, StaysOrGoes
<1>4. CASE Environment
  <2>1. CASE ExpireAbandoned \/ ActiveLapses
    BY <1>2, <2>1 DEF ExpireAbandoned, ActiveLapses
  <2>2. ASSUME NEW key \in leases, LeaseExpires(key) \/ LeaseLapses(key)
        PROVE  Done
    BY <2>2 DEF LeaseExpires, LeaseLapses, ExpireLease, StaysOrGoes, history
  <2>3. ASSUME NEW a \in Agents,
               Crash(a) \/ RequestFails(a) \/ LeaseThreadDies(a)
        PROVE  Done
    BY <1>3, <2>3 DEF Crash, RequestFails, LeaseThreadDies
  <2>4. ASSUME NEW a \in Agents, ReplyLost(a) \/ RequestResent(a)
        PROVE  pc[a] \in Swapping /\ Swap(a)
    BY <2>4 DEF ReplyLost, RequestResent
  <2> QED
    BY <1>4, <2>1, <2>2, <2>3, <2>4 DEF Environment
<1>5. ASSUME NEW a \in Agents,
             \/ NextRendezvous(a) \/ Attempt(a) \/ Timeout(a) \/ Shutdown(a) \/ Close(a)
      PROVE  Done \/ (pc[a] \in Swapping /\ Swap(a))
  <2> USE DEF Swapping
  <2>1. CASE TryCreate(a)
    BY <2>1, NewFields DEF TryCreate, StaysOrGoes, history
  <2>2. CASE FreeDelete(a)
    BY <2>2, NewFields
    DEF FreeDelete, StaysOrGoes, history, SnapshotInv, SnapshotOK, Is
  <2>3. CASE WaitForFinal(a)
    BY <2>3 DEF WaitForFinal, StaysOrGoes, etcd, Is
  <2>4. CASE UpdateVersionCounter(a)
    BY <2>4 DEF UpdateVersionCounter, StaysOrGoes, etcd, history
  <2>5. CASE SetKeepAlive(a)
    BY <2>5 DEF SetKeepAlive, StaysOrGoes, history
  <2>6. CASE \/ NextRendezvous(a) \/ ObserveExisting(a) \/ Timeout(a)
             \/ ReadVersionCounter(a) \/ JoinRead(a) \/ LastCallRead(a)
             \/ WaitForPeers(a) \/ ConfirmRead(a) \/ AnnounceRead(a)
             \/ FreeRead(a) \/ FreeCheck(a) \/ Shutdown(a) \/ SetClosedRead(a)
    BY <1>3, <2>6
    DEF NextRendezvous, ObserveExisting, Timeout, ReadVersionCounter, JoinRead,
        LastCallRead, WaitForPeers, ConfirmRead, AnnounceRead, FreeRead,
        FreeCheck, Shutdown, SetClosedRead
  <2>7. CASE \/ PublishJoinable(a) \/ JoinSwap(a) \/ LastCallFreeze(a)
             \/ LastCallRefresh(a) \/ ConfirmSwap(a) \/ AnnounceSwap(a)
             \/ SetClosedSwap(a)
    BY <1>3, <2>7
    DEF PublishJoinable, JoinSwap, LastCallFreeze, LastCallRefresh, ConfirmSwap,
        AnnounceSwap, SetClosedSwap, SwapFails
  <2> QED
    BY <1>5, <2>1, <2>2, <2>3, <2>4, <2>5, <2>6, <2>7 DEF Attempt, Close
<1> QED
  BY <1>1, <1>4, <1>5 DEF Next

\* Once closed the state never changes again and no call returns a group,
\* although every writer of active_version read it before it was closed.
THEOREM NeverReopened == Spec => ClosedForever
<1>1. Inv /\ [Next]_vars =>
        [active.status = "closed" => active' = active /\ granted' = granted]_vars
  BY OtherSteps, SwapEffect
<1> QED
  BY <1>1, InvHolds, PTL DEF Spec, ClosedForever

\* No version number is published twice, although a creator whose setup key
\* expired can publish over the setup key of another creator.
THEOREM VersionsNeverReused == Spec => VersionsUnique
<1>1. Inv /\ [Next]_vars =>
        [active'.status = "joinable" /\ active.status # "joinable"
           => active'.version \notin published]_vars
  <2> SUFFICES ASSUME Inv, [Next]_vars, active'.status = "joinable",
                      active.status # "joinable"
               PROVE  active'.version \notin published
    OBVIOUS
  <2>1. PICK a \in Agents : pc[a] \in Swapping /\ Swap(a)
    BY OtherSteps DEF StaysOrGoes
  <2>2. pc[a] = "publish"
    BY <2>1, SwapEffect DEF Open
  <2> QED
    BY <2>1, <2>2, SwapEffect DEF Inv, VersionInv
<1> QED
  BY <1>1, InvHolds, PTL DEF Spec, VersionsUnique

-----------------------------------------------------------------------------
(* Everyone confirmed: a final state lists each participant once, as long  *)
(* as no request is executed twice.                                        *)

\* Agent a takes on neither the last call nor a confirmation.
NoNewDuty(a) ==
  /\ pc'[a] \in LastCall => pc[a] \in LastCall /\ rank'[a] = rank[a]
  /\ pc'[a] \in Unconfirmed =>
       pc[a] \in Unconfirmed /\ ver'[a] = ver[a] /\ rank'[a] = rank[a]

NobodyMoves == UNCHANGED <<pc, ver, rank>> /\ StaysOrGoes

MovesOn(a) == OthersStay(a) /\ NoNewDuty(a) /\ StaysOrGoes

Stores(a) ==
  /\ pc[a] \in Swapping /\ Swap(a) /\ OthersStay(a)
  /\ \/ NoNewDuty(a) /\ (pc[a] = "confirmcas" => pc'[a] \notin Unconfirmed)
     \/ /\ pc[a] = "joincas"
        /\ ver'[a] = ver[a]
        /\ rank'[a] = snap[a].participants
        /\ pc'[a] \in LastCall => LeadsLastCall(Joined(snap[a]))

\* The places with a duty, one by one.
LEMMA DutyPlaces ==
  /\ LastCall = {"lastcall", "lcwatch", "freeze", "refresh"}
  /\ Unconfirmed = {"lastcall", "lcwatch", "freeze", "refresh", "peers",
                    "peerswatch", "confirm", "keepalive", "confirmcas"}
  BY DEF LastCall, Unconfirmed

\* The steps that only look, with the places they lead to.
LEMMA LookKinds ==
  ASSUME TypeOK, NEW a \in Agents, NEW l \in Places, UNCHANGED <<etcd, history>>,
         \/ Retry(a) \/ Exit(a)
         \/ Raise(a, l) /\ l \in Raised
         \/ Drop(a, l) /\ l \in {"init", "close"}
         \/ /\ Keep(a, l) \/ Forget(a, l)
            /\ l \in LastCall => pc[a] \in LastCall
            /\ l \in Unconfirmed => pc[a] \in Unconfirmed
  PROVE  MovesOn(a)
<1>1. StaysOrGoes
  BY DEF StaysOrGoes, etcd
<1>2. OthersStay(a) /\ NoNewDuty(a)
  BY Moves, DutyPlaces DEF NoNewDuty, Raised
<1> QED
  BY <1>1, <1>2 DEF MovesOn

\* A compare-and-swap that succeeds and leaves the agent without a new duty.
LEMMA StoreKinds ==
  ASSUME TypeOK, NEW a \in Agents, NEW l \in Places, Swap(a), pc[a] \in Swapping,
         \/ Retry(a) \/ Exit(a)
         \/ /\ Forget(a, l)
            /\ l \in LastCall => pc[a] \in LastCall
            /\ l \in Unconfirmed => pc[a] \in Unconfirmed \ {"confirmcas"}
  PROVE  Stores(a)
<1>1. /\ OthersStay(a) /\ NoNewDuty(a)
      /\ pc[a] = "confirmcas" => pc'[a] \notin Unconfirmed
  BY Moves, DutyPlaces DEF NoNewDuty
<1> QED
  BY <1>1 DEF Stores

\* The kinds of steps of an agent.
LEMMA AgentKinds ==
  ASSUME TypeOK, NEW a \in Agents,
         \/ NextRendezvous(a) \/ Attempt(a) \/ Timeout(a) \/ Shutdown(a) \/ Close(a)
  PROVE  MovesOn(a) \/ Stores(a)
<1> USE AllPlaces, DutyPlaces
<1> USE DEF Swapping
<1>1. ASSUME NEW l \in Places, SwapFails(a, l),
             l \in LastCall => pc[a] \in LastCall,
             l \in Unconfirmed => pc[a] \in Unconfirmed
      PROVE  MovesOn(a)
  BY <1>1, LookKinds DEF SwapFails
<1>2. CASE NextRendezvous(a) \/ Timeout(a) \/ Shutdown(a) \/ SetClosedRead(a)
  BY <1>2, LookKinds
  DEF NextRendezvous, Timeout, Shutdown, SetClosedRead, Raised
<1>3. CASE JoinRead(a) \/ LastCallRead(a) \/ WaitForPeers(a) \/ ConfirmRead(a)
  BY <1>3, LookKinds DEF JoinRead, LastCallRead, WaitForPeers, ConfirmRead
<1>4. CASE AnnounceRead(a) \/ FreeRead(a)
  BY <1>4, LookKinds DEF AnnounceRead, FreeRead
<1>5. CASE TryCreate(a)
  <2>1. OthersStay(a) /\ pc'[a] \in {"counter", "observe"}
    BY <1>5, Moves DEF TryCreate, OthersStay
  <2> QED
    BY <1>5, <2>1, NewFields DEF TryCreate, MovesOn, NoNewDuty, StaysOrGoes
<1>6. CASE ObserveExisting(a)
  <2>1. CASE Raise(a, "closed") \/ Retry(a)
    BY <1>6, <2>1, LookKinds DEF ObserveExisting, Raised
  <2>2. CASE /\ GoTo(a, "join") \/ GoTo(a, "announce")
             /\ ver' = [ver EXCEPT ![a] = active.version]
             /\ UNCHANGED <<snap, rank, renewing>>
    <3>1. OthersStay(a) /\ pc'[a] \in {"join", "announce"}
      BY <2>2, Moves DEF OthersStay, TypeOK
    <3> QED
      BY <1>6, <3>1 DEF ObserveExisting, MovesOn, NoNewDuty, StaysOrGoes, etcd
  <2> QED
    BY <1>6, <2>1, <2>2 DEF ObserveExisting
<1>7. CASE ReadVersionCounter(a)
  <2>1. OthersStay(a) /\ pc'[a] = "bump"
    BY <1>7, Moves DEF ReadVersionCounter, OthersStay, TypeOK
  <2> QED
    BY <1>7, <2>1 DEF ReadVersionCounter, MovesOn, NoNewDuty, StaysOrGoes, etcd
<1>8. CASE UpdateVersionCounter(a)
  <2>1. CASE Raise(a, "fatal") /\ UNCHANGED etcd
    BY <1>8, <2>1, LookKinds DEF UpdateVersionCounter, Raised
  <2>2. CASE /\ GoTo(a, "publish")
             /\ snap' = [snap EXCEPT ![a] = Setup]
             /\ UNCHANGED <<active, ephemeral, ver, rank>>
    <3>1. OthersStay(a) /\ pc'[a] = "publish"
      BY <2>2, Moves DEF OthersStay, TypeOK
    <3> QED
      BY <2>2, <3>1 DEF MovesOn, NoNewDuty, StaysOrGoes
  <2> QED
    BY <1>8, <2>1, <2>2 DEF UpdateVersionCounter
<1>9. CASE PublishJoinable(a)
  BY <1>9, LookKinds, StoreKinds DEF PublishJoinable
<1>10. CASE JoinSwap(a)
  <2>1. CASE SwapFails(a, "join")
    BY <1>1, <2>1
  <2>2. CASE /\ Swap(a)
             /\ rank' = [rank EXCEPT ![a] = snap[a].participants]
             /\ snap' = [snap EXCEPT ![a] = Absent]
             /\ \/ GoTo(a, "lastcall") /\ LeadsLastCall(Joined(snap[a]))
                \/ GoTo(a, "peers")
             /\ UNCHANGED ver
    <3>1. /\ OthersStay(a) /\ ver'[a] = ver[a]
          /\ rank'[a] = snap[a].participants
      BY <2>2, Moves DEF OthersStay, TypeOK
    <3>2. pc'[a] \in LastCall => LeadsLastCall(Joined(snap[a]))
      BY <2>2, Moves
    <3> QED
      BY <1>10, <2>2, <3>1, <3>2 DEF JoinSwap, Stores
  <2> QED
    BY <1>10, <2>1, <2>2 DEF JoinSwap
<1>11. CASE LastCallFreeze(a) \/ LastCallRefresh(a)
  BY <1>1, <1>11, StoreKinds DEF LastCallFreeze, LastCallRefresh
<1>12. CASE SetKeepAlive(a)
  <2>1. /\ OthersStay(a) /\ pc'[a] = "confirmcas" /\ pc[a] = "keepalive"
        /\ UNCHANGED <<ver, rank>>
    BY <1>12, Moves DEF SetKeepAlive, OthersStay
  <2> QED
    BY <1>12, <2>1 DEF SetKeepAlive, MovesOn, NoNewDuty, StaysOrGoes
<1>13. CASE ConfirmSwap(a)
  <2>1. CASE SwapFails(a, "confirm")
    BY <1>1, <1>13, <2>1 DEF ConfirmSwap
  <2>2. CASE /\ Swap(a)
             /\ snap' = [snap EXCEPT ![a] = Absent]
             /\ GoTo(a, "final")
             /\ UNCHANGED <<ver, rank>>
    <3>1. OthersStay(a) /\ pc'[a] = "final"
      BY <2>2, Moves DEF OthersStay, TypeOK
    <3> QED
      BY <1>13, <2>2, <3>1 DEF ConfirmSwap, Stores, NoNewDuty
  <2> QED
    BY <1>13, <2>1, <2>2 DEF ConfirmSwap
<1>14. CASE WaitForFinal(a)
  <2>1. OthersStay(a) /\ pc'[a] \in {"member", "finalwatch", "init"}
    BY <1>14, Moves DEF WaitForFinal, OthersStay
  <2> QED
    BY <1>14, <2>1 DEF WaitForFinal, MovesOn, NoNewDuty, StaysOrGoes, etcd
<1>15. CASE AnnounceSwap(a)
  BY <1>1, <1>15, LookKinds, StoreKinds DEF AnnounceSwap
<1>16. CASE FreeCheck(a)
  <2>1. OthersStay(a) /\ pc'[a] \in {"delete", "freewatch"}
    BY <1>16, Moves DEF FreeCheck, OthersStay
  <2> QED
    BY <1>16, <2>1 DEF FreeCheck, MovesOn, NoNewDuty, StaysOrGoes, etcd
<1>17. CASE FreeDelete(a)
  <2>1. OthersStay(a) /\ pc'[a] = "init"
    BY <1>17, Moves DEF FreeDelete
  <2> QED
    BY <1>17, <2>1, NewFields DEF FreeDelete, MovesOn, NoNewDuty, StaysOrGoes
<1>18. CASE SetClosedSwap(a)
  BY <1>18, LookKinds, StoreKinds DEF SetClosedSwap
<1> QED
  BY <1>2, <1>3, <1>4, <1>5, <1>6, <1>7, <1>8, <1>9, <1>10, <1>11, <1>12,
     <1>13, <1>14, <1>15, <1>16, <1>17, <1>18 DEF Attempt, Close

\* The kinds of steps of the environment when no request is sent twice.
LEMMA EnvironmentKinds ==
  ASSUME TypeOK, ~Resend, Environment
  PROVE  NobodyMoves \/ \E a \in Agents : MovesOn(a) \/ Stores(a)
<1> USE AllPlaces
<1>1. CASE ExpireAbandoned \/ ActiveLapses
  BY <1>1, NewFields
  DEF ExpireAbandoned, ActiveLapses, ExpireKey, NobodyMoves, StaysOrGoes, local
<1>2. ASSUME NEW key \in leases, LeaseExpires(key) \/ LeaseLapses(key)
      PROVE  NobodyMoves
  BY <1>2 DEF LeaseExpires, LeaseLapses, ExpireLease, NobodyMoves, StaysOrGoes
<1>3. ASSUME NEW a \in Agents, Crash(a) \/ RequestFails(a)
      PROVE  MovesOn(a)
  BY <1>3, LookKinds DEF Crash, RequestFails, Fails
<1>4. ASSUME NEW a \in Agents, ReplyLost(a) PROVE Stores(a)
  BY <1>4, StoreKinds DEF ReplyLost, Fails
<1>5. ASSUME NEW a \in Agents, RequestResent(a) PROVE FALSE
  BY <1>5 DEF RequestResent
<1>6. ASSUME NEW a \in Agents, LeaseThreadDies(a) PROVE NobodyMoves
  BY <1>6 DEF LeaseThreadDies, NobodyMoves, StaysOrGoes, etcd
<1> QED
  BY <1>1, <1>2, <1>3, <1>4, <1>5, <1>6 DEF Environment

\* There are n ranks below n.
LEMMA Ranks ==
  ASSUME NEW n \in Nat
  PROVE  IsFiniteSet(0 .. n - 1) /\ Cardinality(0 .. n - 1) = n
<1>1. ASSUME NEW m \in Int, m = n - 1
      PROVE  IsFiniteSet(0 .. m) /\ Cardinality(0 .. m) = n
  <2>1. IsFiniteSet(0 .. m) /\ Cardinality(0 .. m) = IF 0 > m THEN 0 ELSE m - 0 + 1
    BY FS_Interval
  <2> QED
    BY <1>1, <2>1
<1> QED
  BY <1>1

\* A step that stores nothing leaves the confirmations alone.
LEMMA ConfirmStays ==
  ASSUME ConfirmInv, NobodyMoves \/ \E a \in Agents : MovesOn(a)
  PROVE  ConfirmInv'
  BY DEF ConfirmInv, NobodyMoves, MovesOn, OthersStay, NoNewDuty, StaysOrGoes

\* A compare-and-swap counts confirmations right.
LEMMA ConfirmStores ==
  ASSUME Inv, TypeOK', ConfirmInv, NEW a \in Agents, Stores(a)
  PROVE  ConfirmInv'
<1>1. /\ active = snap[a] /\ active \in Values /\ active' = Proposed(a)
      /\ ver[a] \in Nat /\ rank[a] \in Nat /\ SnapshotOK(a)
      /\ pc[a] \in Swapping /\ OthersStay(a)
  BY DEF Stores, Swap, Inv, TypeOK, SnapshotInv
<1>2. active.participants \in Nat /\ active.confirms \in Nat
  BY <1>1 DEF Values
<1>3. ASSUME NEW b \in Agents, pc'[b] \in LastCall
      PROVE  rank'[b] + 1 = MinWorkers
  <2>1. CASE pc[b] \in LastCall /\ rank'[b] = rank[b]
    BY <2>1 DEF ConfirmInv
  <2>2. CASE b = a /\ rank'[a] = snap[a].participants
             /\ LeadsLastCall(Joined(snap[a]))
    BY <1>1, <2>2, JoinedFields DEF LeadsLastCall
  <2> QED
    BY <1>1, <1>3, <2>1, <2>2 DEF Stores, OthersStay, NoNewDuty
<1>4. CASE active'.status \notin {"frozen", "final"}
  BY <1>3, <1>4 DEF ConfirmInv
<1>5. CASE /\ active'.status = "frozen" /\ active'.keep_alives = {}
           /\ active'.confirms = 0
           /\ active'.participants \in MinWorkers .. MaxWorkers
  BY <1>3, <1>5, FS_EmptySet DEF ConfirmInv
<1>6. CASE pc[a] = "publish"
  BY <1>1, <1>4, <1>6, ProposedIs, NewFields
<1>7. CASE pc[a] = "joincas"
  BY <1>1, <1>2, <1>4, <1>5, <1>7, ProposedIs, JoinedFields, WorkersAssumption
  DEF SnapshotOK, Is
<1>8. CASE pc[a] = "freeze"
  <2>1. rank[a] + 1 = MinWorkers /\ rank[a] < active.participants
    BY <1>1, <1>8, HasRankPlaces, DutyPlaces
    DEF Inv, RankInv, ConfirmInv, SnapshotOK, Is, Open
  <2>2. active.participants < MaxWorkers
    BY <1>1, <1>8 DEF Inv, ActiveInv, SnapshotOK, Is
  <2>3. active.participants \in MinWorkers .. MaxWorkers
    BY <1>1, <1>2, <2>1, <2>2, WorkersAssumption
  <2> QED
    BY <1>1, <1>5, <1>8, <2>3, ProposedIs, FrozenFields
<1>9. CASE pc[a] = "refresh"
  BY <1>1, <1>4, <1>9, ProposedIs DEF SnapshotOK, Is
<1>10. CASE pc[a] = "confirmcas"
  <2>1. /\ active.status = "frozen" /\ active.version = ver[a]
        /\ active'.version = active.version
        /\ active'.participants = active.participants
        /\ active'.keep_alives = active.keep_alives \cup {rank[a]}
        /\ active'.confirms = active.confirms + 1
        /\ active'.status = IF active.confirms + 1 = active.participants
                              THEN "final" ELSE "frozen"
    BY <1>1, <1>10, ProposedIs, ConfirmedFields DEF SnapshotOK, Is
  <2>2. rank[a] < active.participants /\ rank[a] \notin active.keep_alives
    BY <1>10, <2>1, HasRankPlaces, DutyPlaces
    DEF Inv, RankInv, ConfirmInv, Open
  <2>3. /\ active.participants \in MinWorkers .. MaxWorkers
        /\ active.keep_alives \subseteq 0 .. active.participants - 1
        /\ active.confirms = Cardinality(active.keep_alives)
    BY <2>1 DEF ConfirmInv
  <2>4. IsFiniteSet(active.keep_alives)
    BY <1>2, <2>3, Ranks, FS_Subset
  <2>5. active'.confirms = Cardinality(active'.keep_alives)
    BY <2>1, <2>2, <2>3, <2>4, FS_AddElement
  <2>6. active'.keep_alives \subseteq 0 .. active'.participants - 1
    BY <1>1, <1>2, <2>1, <2>2, <2>3
  <2>7. pc'[a] \notin Unconfirmed
    BY <1>10 DEF Stores
  <2>8. ASSUME NEW b \in Agents, pc'[b] \in Unconfirmed, active'.version = ver'[b]
        PROVE  rank'[b] \notin active'.keep_alives
    <3>1. /\ b # a /\ pc[b] \in Unconfirmed /\ ver[b] = ver[a]
          /\ rank'[b] = rank[b]
      BY <1>1, <2>1, <2>7, <2>8 DEF OthersStay
    <3>2. rank[b] # rank[a]
      BY <1>10, <3>1, HasRankPlaces DEF Inv, RankInv, HasRank
    <3>3. rank[b] \notin active.keep_alives
      BY <2>1, <3>1 DEF ConfirmInv
    <3> QED
      BY <2>1, <3>1, <3>2, <3>3
  <2> QED
    BY <1>3, <2>1, <2>3, <2>5, <2>6, <2>8 DEF ConfirmInv
<1>11. CASE pc[a] = "announcecas"
  <2>1. /\ active'.status = "final" /\ active.status = "final"
        /\ active'.version = active.version
        /\ active'.participants = active.participants
        /\ active'.keep_alives = active.keep_alives
        /\ active'.confirms = active.confirms
    BY <1>1, <1>11, ProposedIs, OtherFields DEF SnapshotOK, Is
  <2>2. ASSUME NEW b \in Agents, pc'[b] \in Unconfirmed
        PROVE  pc[b] \in Unconfirmed /\ ver'[b] = ver[b] /\ rank'[b] = rank[b]
    BY <1>1, <1>11, <2>2 DEF Stores, OthersStay, NoNewDuty
  <2> QED
    BY <1>3, <2>1, <2>2 DEF ConfirmInv
<1>12. CASE pc[a] = "closecas"
  BY <1>1, <1>4, <1>12, ProposedIs, OtherFields
<1> QED
  BY <1>1, <1>6, <1>7, <1>8, <1>9, <1>10, <1>11, <1>12 DEF Swapping

\* A complete count means that everyone is listed.
LEMMA CountedAll ==
  ASSUME TypeOK, ConfirmInv
  PROVE  FinalQuorum
<1> SUFFICES ASSUME active.status = "final"
             PROVE  /\ active.participants \in MinWorkers .. MaxWorkers
                    /\ active.keep_alives = 0 .. active.participants - 1
  BY DEF FinalQuorum
<1>1. /\ active.participants \in MinWorkers .. MaxWorkers
      /\ active.keep_alives \subseteq 0 .. active.participants - 1
      /\ Cardinality(active.keep_alives) = active.participants
  BY DEF ConfirmInv
<1>2. active.participants \in Nat
  BY DEF TypeOK, Values
<1>3. /\ IsFiniteSet(0 .. active.participants - 1)
      /\ Cardinality(0 .. active.participants - 1) = active.participants
  BY <1>2, Ranks
<1> QED
  BY <1>1, <1>3, FS_Subset

\* As long as no request is executed twice, every step counts right.
LEMMA ConfirmStep ==
  ASSUME ~Resend, Inv, ConfirmInv, [Next]_vars
  PROVE  ConfirmInv'
<1>1. TypeOK /\ TypeOK'
  BY TypeStep DEF Inv
<1>2. NobodyMoves \/ \E a \in Agents : MovesOn(a) \/ Stores(a)
  BY <1>1, AgentKinds, EnvironmentKinds
  DEF Next, vars, etcd, local, NobodyMoves, StaysOrGoes
<1> QED
  BY <1>1, <1>2, ConfirmStays, ConfirmStores

\* Nothing is counted initially.
LEMMA ConfirmInit == Init => ConfirmInv
  BY NewFields, DutyPlaces DEF Init, ConfirmInv

\* Everyone confirmed: unless a request is executed twice, a final state has
\* between num_min_workers and num_max_workers members and lists the
\* keep-alive key of each.
THEOREM FinalMeansConfirmed == ~Resend => (Spec => []FinalQuorum)
<1> SUFFICES ASSUME ~Resend PROVE Spec => []FinalQuorum
  OBVIOUS
<1>1. Inv /\ ConfirmInv /\ [Next]_vars => ConfirmInv'
  BY ConfirmStep
<1>2. Inv /\ ConfirmInv => FinalQuorum
  BY CountedAll DEF Inv
<1> QED
  BY <1>1, <1>2, ConfirmInit, InvHolds, PTL DEF Spec

-----------------------------------------------------------------------------
(* What a step does to etcd and to the groups that were returned.          *)

\* Agent a stores a value, writes its keep-alive key, returns or deletes the
\* state of a group.
AgentStores(a) == pc[a] \in Swapping /\ Swap(a)

AgentWrites(a) ==
  /\ pc[a] = "keepalive"
  /\ leases' = leases \cup {<<ver[a], rank[a]>>}
  /\ UNCHANGED <<active, published, granted>>

AgentReturns(a) ==
  /\ pc[a] \in {"final", "finalwatch"} /\ Is(active, "final", ver[a])
  /\ granted' = granted \cup
       {[agent |-> a, version |-> ver[a], rank |-> rank[a],
         size |-> active.participants]}
  /\ UNCHANGED <<active, leases, published>>

AgentDeletes(a) ==
  /\ pc[a] = "delete" /\ active = snap[a] /\ active' = Absent
  /\ UNCHANGED <<leases, published, granted>>

\* A keep-alive key runs out.
KeyGone ==
  /\ leases' \subseteq leases
  /\ UNCHANGED <<active, published, granted>>

\* A state that no group has reached yet is gone, or comes to be.
NoGroupYet ==
  /\ active.status \notin {"final", "closed"}
  /\ active'.status \in {"none", "setup"}
  /\ UNCHANGED <<leases, published, granted>>

\* Every step, by what it does to etcd and to the history.
LEMMA StepKinds ==
  ASSUME Inv, [Next]_vars
  PROVE  \/ KeyGone \/ NoGroupYet
         \/ \E a \in Agents : \/ AgentStores(a) \/ AgentWrites(a)
                              \/ AgentReturns(a) \/ AgentDeletes(a)
<1> USE DEF Inv
<1>1. ASSUME UNCHANGED <<etcd, history>> PROVE KeyGone
  BY <1>1 DEF etcd, history, KeyGone
<1>2. ASSUME ExpireKey PROVE NoGroupYet
  BY <1>2, NewFields DEF ExpireKey, ActiveInv, NoGroupYet, history
<1>3. CASE UNCHANGED vars
  BY <1>1, <1>3 DEF vars
<1>4. CASE Environment
  <2>1. CASE ExpireAbandoned \/ ActiveLapses
    BY <1>2, <2>1 DEF ExpireAbandoned, ActiveLapses
  <2>2. ASSUME NEW key \in leases, LeaseExpires(key) \/ LeaseLapses(key)
        PROVE  KeyGone
    BY <2>2 DEF LeaseExpires, LeaseLapses, ExpireLease, KeyGone, history
  <2>3. ASSUME NEW a \in Agents,
               Crash(a) \/ RequestFails(a) \/ LeaseThreadDies(a)
        PROVE  KeyGone
    BY <1>1, <2>3 DEF Crash, RequestFails, LeaseThreadDies
  <2>4. ASSUME NEW a \in Agents, ReplyLost(a) \/ RequestResent(a)
        PROVE  AgentStores(a)
    BY <2>4 DEF ReplyLost, RequestResent, AgentStores
  <2> QED
    BY <1>4, <2>1, <2>2, <2>3, <2>4 DEF Environment
<1>5. ASSUME NEW a \in Agents,
             \/ NextRendezvous(a) \/ Attempt(a) \/ Timeout(a) \/ Shutdown(a) \/ Close(a)
      PROVE  \/ KeyGone \/ NoGroupYet
             \/ AgentStores(a) \/ AgentWrites(a) \/ AgentReturns(a) \/ AgentDeletes(a)
  <2>1. CASE TryCreate(a)
    BY <1>1, <2>1, NewFields DEF TryCreate, NoGroupYet, KeyGone, history
  <2>2. CASE FreeDelete(a)
    BY <2>2 DEF FreeDelete, AgentDeletes, KeyGone, history
  <2>3. CASE WaitForFinal(a)
    BY <2>3 DEF WaitForFinal, AgentReturns, KeyGone, etcd
  <2>4. CASE UpdateVersionCounter(a)
    BY <2>4 DEF UpdateVersionCounter, KeyGone, etcd, history
  <2>5. CASE SetKeepAlive(a)
    BY <2>5 DEF SetKeepAlive, AgentWrites, history
  <2>6. CASE \/ NextRendezvous(a) \/ ObserveExisting(a) \/ Timeout(a)
             \/ ReadVersionCounter(a) \/ JoinRead(a) \/ LastCallRead(a)
             \/ WaitForPeers(a) \/ ConfirmRead(a) \/ AnnounceRead(a)
             \/ FreeRead(a) \/ FreeCheck(a) \/ Shutdown(a) \/ SetClosedRead(a)
    BY <1>1, <2>6
    DEF NextRendezvous, ObserveExisting, Timeout, ReadVersionCounter, JoinRead,
        LastCallRead, WaitForPeers, ConfirmRead, AnnounceRead, FreeRead,
        FreeCheck, Shutdown, SetClosedRead
  <2>7. CASE \/ PublishJoinable(a) \/ JoinSwap(a) \/ LastCallFreeze(a)
             \/ LastCallRefresh(a) \/ ConfirmSwap(a) \/ AnnounceSwap(a)
             \/ SetClosedSwap(a)
    BY <1>1, <2>7
    DEF PublishJoinable, JoinSwap, LastCallFreeze, LastCallRefresh, ConfirmSwap,
        AnnounceSwap, SetClosedSwap, SwapFails, AgentStores, Swapping
  <2> QED
    BY <1>5, <2>1, <2>2, <2>3, <2>4, <2>5, <2>6, <2>7 DEF Attempt, Close
<1> QED
  BY <1>3, <1>4, <1>5 DEF Next

\* A compare-and-swap leads to a final state from a final one, by announcing,
\* or from a frozen one, by the last confirmation.
LEMMA SwapToFinal ==
  ASSUME Inv, NEW a \in Agents, AgentStores(a), active'.status = "final"
  PROVE  /\ active'.version = active.version
         /\ active'.participants = active.participants
         /\ \/ /\ active.status = "final"
               /\ active'.keep_alives = active.keep_alives
               /\ active'.waiting = active.waiting + 1
            \/ active.status = "frozen" /\ active'.waiting = 0
<1>1. /\ active = snap[a] /\ active \in Values /\ active' = Proposed(a)
      /\ ver[a] \in Nat /\ rank[a] \in Nat /\ SnapshotOK(a)
  BY DEF AgentStores, Swap, Inv, TypeOK, SnapshotInv
<1>2. CASE pc[a] = "publish"
  BY <1>1, <1>2, ProposedIs, NewFields
<1>3. CASE pc[a] = "joincas"
  BY <1>1, <1>3, ProposedIs, JoinedFields DEF SnapshotOK, Is
<1>4. CASE pc[a] = "freeze"
  BY <1>1, <1>4, ProposedIs, FrozenFields
<1>5. CASE pc[a] = "refresh"
  BY <1>1, <1>5, ProposedIs DEF SnapshotOK, Is
<1>6. CASE pc[a] = "confirmcas"
  BY <1>1, <1>6, ProposedIs, ConfirmedFields DEF SnapshotOK, Is
<1>7. CASE pc[a] = "announcecas"
  BY <1>1, <1>7, ProposedIs, OtherFields DEF SnapshotOK, Is
<1>8. CASE pc[a] = "closecas"
  BY <1>1, <1>8, ProposedIs, OtherFields
<1> QED
  BY <1>2, <1>3, <1>4, <1>5, <1>6, <1>7, <1>8 DEF AgentStores, Swapping

-----------------------------------------------------------------------------
(* Those who come too late.                                                *)

\* Agent a neither finds a final state nor starts to wait for its end; only
\* the steps of wait_for_rendezvous_to_free() look at the keep-alive keys.
NoNewWait(a) ==
  /\ pc'[a] \in Late => pc[a] \in Late /\ ver'[a] = ver[a]
  /\ pc'[a] \in Freeing => pc[a] \in Freeing
  /\ pc'[a] \in {"freecheck", "delete"} => FreeRead(a) \/ FreeCheck(a)

FindsFinal(a) ==
  /\ pc'[a] = "announce" /\ active.status = "final"
  /\ ver'[a] = active.version /\ UNCHANGED active

Announces(a) ==
  /\ pc[a] = "announcecas" /\ pc'[a] = "free" /\ ver'[a] = ver[a]
  /\ AgentStores(a)

LateStep(a) ==
  OthersStay(a) /\ (NoNewWait(a) \/ FindsFinal(a) \/ Announces(a))

\* The places of those who come late, one by one.
LEMMA LatePlaces ==
  /\ Freeing = {"free", "freecheck", "delete", "freewatch"}
  /\ Late = {"announce", "announcecas", "free", "freecheck", "delete", "freewatch"}
  BY DEF Late, Freeing

\* The steps that end an attempt or read the state.
LEMMA LateLooks ==
  ASSUME TypeOK, NEW a \in Agents, NEW l \in Places,
         \/ Retry(a) \/ Exit(a)
         \/ (Raise(a, l) \/ Drop(a, l)) /\ l \notin Late
         \/ /\ Keep(a, l) \/ Forget(a, l)
            /\ l \in Late => pc[a] \in Late
            /\ l \in Freeing => pc[a] \in Freeing
            /\ l \in {"freecheck", "delete"} => FreeRead(a)
  PROVE  LateStep(a)
  BY Moves, LatePlaces DEF LateStep, NoNewWait

\* Every step moves one agent at most, in one of the three ways.
LEMMA LateKinds ==
  ASSUME TypeOK, [Next]_vars
  PROVE  UNCHANGED <<pc, snap, ver>> \/ \E a \in Agents : LateStep(a)
<1> USE AllPlaces, LatePlaces
<1>1. ASSUME NEW a \in Agents, NEW l \in Places, SwapFails(a, l),
             l \in Late => pc[a] \in Late, l \notin Freeing
      PROVE  LateStep(a)
  BY <1>1, LateLooks DEF SwapFails
<1>2. CASE UNCHANGED vars
  BY <1>2 DEF vars, local
<1>3. CASE Environment
  <2>1. CASE ExpireAbandoned \/ ActiveLapses
    BY <2>1 DEF ExpireAbandoned, ActiveLapses, ExpireKey, local
  <2>2. ASSUME NEW key \in leases, LeaseExpires(key) \/ LeaseLapses(key)
        PROVE  UNCHANGED <<pc, snap, ver>>
    BY <2>2 DEF LeaseExpires, LeaseLapses, ExpireLease
  <2>3. ASSUME NEW a \in Agents, Crash(a) \/ RequestFails(a) \/ ReplyLost(a)
        PROVE  LateStep(a)
    BY <2>3, LateLooks DEF Crash, RequestFails, ReplyLost, Fails
  <2>4. ASSUME NEW a \in Agents, RequestResent(a)
        PROVE  LateStep(a)
    <3>1. \/ Forget(a, "join") \/ Forget(a, "lastcall") \/ Forget(a, "confirm")
          \/ Forget(a, "announce") /\ pc[a] = "announcecas"
          \/ Forget(a, "close")
      BY <2>4 DEF RequestResent
    <3> QED
      BY <3>1, LateLooks
  <2>5. ASSUME NEW a \in Agents, LeaseThreadDies(a)
        PROVE  UNCHANGED <<pc, snap, ver>>
    BY <2>5 DEF LeaseThreadDies
  <2> QED
    BY <1>3, <2>1, <2>2, <2>3, <2>4, <2>5 DEF Environment
<1>4. ASSUME NEW a \in Agents,
             \/ NextRendezvous(a) \/ Attempt(a) \/ Timeout(a) \/ Shutdown(a) \/ Close(a)
      PROVE  LateStep(a)
  <2>1. CASE NextRendezvous(a) \/ Timeout(a) \/ Shutdown(a) \/ SetClosedRead(a)
    BY <2>1, LateLooks DEF NextRendezvous, Timeout, Shutdown, SetClosedRead
  <2>2. CASE JoinRead(a) \/ LastCallRead(a) \/ WaitForPeers(a) \/ ConfirmRead(a)
    BY <2>2, LateLooks DEF JoinRead, LastCallRead, WaitForPeers, ConfirmRead
  <2>3. CASE AnnounceRead(a) \/ FreeRead(a)
    BY <2>3, LateLooks DEF AnnounceRead, FreeRead
  <2>4. CASE TryCreate(a)
    BY <2>4, Moves DEF TryCreate, OthersStay, LateStep, NoNewWait
  <2>5. CASE ObserveExisting(a)
    <3>1. CASE Raise(a, "closed") \/ Retry(a)
      BY <3>1, LateLooks
    <3>2. CASE /\ \/ GoTo(a, "join")
                  \/ GoTo(a, "announce") /\ active.status = "final"
               /\ ver' = [ver EXCEPT ![a] = active.version]
               /\ UNCHANGED <<snap, rank, renewing>>
      <4>1. /\ OthersStay(a) /\ ver'[a] = active.version
            /\ pc'[a] = "join" \/ (pc'[a] = "announce" /\ active.status = "final")
        BY <3>2, Moves DEF OthersStay, TypeOK
      <4> QED
        BY <2>5, <4>1
        DEF ObserveExisting, LateStep, NoNewWait, FindsFinal, etcd
    <3> QED
      BY <2>5, <3>1, <3>2 DEF ObserveExisting
  <2>6. CASE ReadVersionCounter(a)
    <3>1. OthersStay(a) /\ pc'[a] = "bump"
      BY <2>6, Moves DEF ReadVersionCounter, OthersStay, TypeOK
    <3> QED
      BY <3>1 DEF LateStep, NoNewWait
  <2>7. CASE UpdateVersionCounter(a)
    <3>1. CASE Raise(a, "fatal")
      BY <3>1, LateLooks
    <3>2. CASE GoTo(a, "publish") /\ snap' = [snap EXCEPT ![a] = Setup]
               /\ UNCHANGED <<ver, rank>>
      <4>1. OthersStay(a) /\ pc'[a] = "publish"
        BY <3>2, Moves DEF OthersStay, TypeOK
      <4> QED
        BY <4>1 DEF LateStep, NoNewWait
    <3> QED
      BY <2>7, <3>1, <3>2 DEF UpdateVersionCounter
  <2>8. CASE PublishJoinable(a) \/ SetClosedSwap(a)
    BY <2>8, LateLooks DEF PublishJoinable, SetClosedSwap
  <2>9. CASE JoinSwap(a)
    <3>1. CASE SwapFails(a, "join")
      BY <1>1, <3>1
    <3>2. CASE /\ rank' = [rank EXCEPT ![a] = snap[a].participants]
               /\ snap' = [snap EXCEPT ![a] = Absent]
               /\ GoTo(a, "lastcall") \/ GoTo(a, "peers")
               /\ UNCHANGED ver
      <4>1. OthersStay(a) /\ pc'[a] \in {"lastcall", "peers"}
        BY <3>2, Moves DEF OthersStay, TypeOK
      <4> QED
        BY <4>1 DEF LateStep, NoNewWait
    <3> QED
      BY <2>9, <3>1, <3>2 DEF JoinSwap
  <2>10. CASE LastCallFreeze(a) \/ LastCallRefresh(a)
    BY <1>1, <2>10, LateLooks DEF LastCallFreeze, LastCallRefresh
  <2>11. CASE SetKeepAlive(a)
    BY <2>11, Moves DEF SetKeepAlive, OthersStay, LateStep, NoNewWait
  <2>12. CASE ConfirmSwap(a)
    <3>1. CASE SwapFails(a, "confirm")
      BY <1>1, <3>1
    <3>2. CASE /\ snap' = [snap EXCEPT ![a] = Absent]
               /\ GoTo(a, "final")
               /\ UNCHANGED <<ver, rank>>
      <4>1. OthersStay(a) /\ pc'[a] = "final"
        BY <3>2, Moves DEF OthersStay, TypeOK
      <4> QED
        BY <4>1 DEF LateStep, NoNewWait
    <3> QED
      BY <2>12, <3>1, <3>2 DEF ConfirmSwap
  <2>13. CASE WaitForFinal(a)
    <3>1. OthersStay(a) /\ pc'[a] \in {"member", "finalwatch", "init"}
      BY <2>13, Moves DEF WaitForFinal, OthersStay
    <3> QED
      BY <3>1 DEF LateStep, NoNewWait
  <2>14. CASE AnnounceSwap(a)
    <3>1. CASE SwapFails(a, "announce")
      BY <1>1, <2>14, <3>1 DEF AnnounceSwap
    <3>2. CASE Retry(a)
      BY <3>2, LateLooks
    <3>3. CASE Swap(a) /\ Forget(a, "free")
      BY <2>14, <3>3, Moves
      DEF AnnounceSwap, LateStep, Announces, AgentStores, Swapping
    <3> QED
      BY <2>14, <3>1, <3>2, <3>3 DEF AnnounceSwap
  <2>15. CASE FreeCheck(a)
    <3>1. /\ OthersStay(a) /\ pc'[a] \in {"delete", "freewatch"}
          /\ pc[a] = "freecheck" /\ ver'[a] = ver[a]
      BY <2>15, Moves DEF FreeCheck, OthersStay
    <3> QED
      BY <2>15, <3>1 DEF LateStep, NoNewWait
  <2>16. CASE FreeDelete(a)
    BY <2>16, LateLooks DEF FreeDelete
  <2> QED
    BY <1>4, <2>1, <2>2, <2>3, <2>4, <2>5, <2>6, <2>7, <2>8, <2>9, <2>10,
       <2>11, <2>12, <2>13, <2>14, <2>15, <2>16 DEF Attempt, Close
<1> QED
  BY <1>2, <1>3, <1>4 DEF Next

\* Where an agent that came late was before the step.
LEMMA LateBefore ==
  ASSUME TypeOK, [Next]_vars, NEW b \in Agents, pc'[b] \in Late
  PROVE  \/ pc[b] \in Late /\ ver'[b] = ver[b]
         \/ active.status = "final" /\ ver'[b] = active.version /\ UNCHANGED active
<1>1. CASE UNCHANGED <<pc, snap, ver>>
  BY <1>1
<1>2. ASSUME NEW a \in Agents, LateStep(a)
      PROVE  \/ pc[b] \in Late /\ ver'[b] = ver[b]
             \/ active.status = "final" /\ ver'[b] = active.version /\ UNCHANGED active
  BY <1>2, LatePlaces DEF LateStep, OthersStay, NoNewWait, FindsFinal, Announces
<1> QED
  BY <1>1, <1>2, LateKinds

\* Whoever came late came too late for a version that is joinable or frozen.
LEMMA LateVersions ==
  ASSUME Inv, LateInv, [Next]_vars, NEW b \in Agents, pc'[b] \in Late
  PROVE  /\ ver'[b] \in published'
         /\ active'.status \in {"joinable", "frozen"} => active'.version # ver'[b]
<1>1. published \subseteq published'
  BY StepKinds
  DEF KeyGone, NoGroupYet, AgentStores, AgentWrites, AgentReturns, AgentDeletes, Swap
<1>2. CASE active.status = "final" /\ ver'[b] = active.version /\ UNCHANGED active
  BY <1>1, <1>2 DEF Inv, ActiveInv, Open
<1>3. CASE pc[b] \in Late /\ ver'[b] = ver[b]
  <2>1. /\ ver[b] \in published
        /\ active.status \in {"joinable", "frozen"} => active.version # ver[b]
    BY <1>3 DEF LateInv
  <2>2. ASSUME NEW a \in Agents, AgentStores(a),
               active'.status \in {"joinable", "frozen"}
        PROVE  active'.version # ver[b]
    <3>1. CASE pc[a] = "publish"
      BY <2>1, <2>2, <3>1, SwapEffect DEF AgentStores, Inv, VersionInv
    <3>2. CASE pc[a] # "publish"
      <4>1. active.status \in Open /\ active'.version = active.version
        BY <2>2, <3>2, SwapEffect DEF AgentStores, Open
      <4>2. active.status # "final"
        BY <2>2, <3>2, SwapEffect DEF AgentStores, Open
      <4> QED
        BY <2>1, <4>1, <4>2 DEF Open
    <3> QED
      BY <3>1, <3>2
  <2>3. CASE active' = active
    BY <1>1, <1>3, <2>1, <2>3
  <2>4. CASE active'.status \in {"none", "setup"}
    BY <1>1, <1>3, <2>1, <2>4
  <2> QED
    BY <1>1, <1>3, <2>1, <2>2, <2>3, <2>4, StepKinds, NewFields
    DEF KeyGone, NoGroupYet, AgentWrites, AgentReturns, AgentDeletes
<1> QED
  BY <1>2, <1>3, LateBefore DEF Inv

\* Those who wait for the end of the version v.
Waiters(v) == {a \in Agents : pc[a] \in Freeing /\ ver[a] = v}

\* Nobody starts to wait, except by announcing.
LEMMA WaitersBefore ==
  ASSUME Inv, [Next]_vars, NEW v \in Nat
  PROVE  \/ Waiters(v)' \subseteq Waiters(v)
         \/ \E a \in Agents : /\ AgentStores(a) /\ pc[a] = "announcecas"
                              /\ Waiters(v)' \subseteq Waiters(v) \cup {a}
<1>1. CASE UNCHANGED <<pc, snap, ver>>
  BY <1>1 DEF Waiters
<1>2. ASSUME NEW a \in Agents, OthersStay(a), NoNewWait(a)
      PROVE  Waiters(v)' \subseteq Waiters(v)
  BY <1>2, LatePlaces DEF Waiters, OthersStay, NoNewWait
<1>3. ASSUME NEW a \in Agents, OthersStay(a), FindsFinal(a)
      PROVE  Waiters(v)' \subseteq Waiters(v)
  BY <1>3, LatePlaces DEF Waiters, OthersStay, FindsFinal
<1>4. ASSUME NEW a \in Agents, OthersStay(a), Announces(a)
      PROVE  /\ AgentStores(a) /\ pc[a] = "announcecas"
             /\ Waiters(v)' \subseteq Waiters(v) \cup {a}
  BY <1>4 DEF Waiters, OthersStay, Announces
<1>5. UNCHANGED <<pc, snap, ver>> \/ \E a \in Agents : LateStep(a)
  BY LateKinds DEF Inv
<1> QED
  BY <1>1, <1>2, <1>3, <1>4, <1>5 DEF LateStep

\* The waiting agents stay counted.
LEMMA WaitersCounted ==
  ASSUME Inv, TypeOK', LateInv, [Next]_vars
  PROVE  LateWorkersCounted'
<1>1. /\ active.version \in Nat /\ active'.version \in Nat
      /\ active.waiting \in Nat /\ active'.waiting \in Nat
  BY DEF Inv, TypeOK, Values
<1> SUFFICES ASSUME NEW v \in Nat, active'.version = v, active'.status = "final"
             PROVE  Cardinality(Waiters(v)') <= active'.waiting
  BY <1>1 DEF LateWorkersCounted, Waiters
<1>2. /\ IsFiniteSet(Waiters(v)) /\ Cardinality(Waiters(v)) \in Nat
      /\ IsFiniteSet(Waiters(v)') /\ Cardinality(Waiters(v)') \in Nat
  <2>1. Waiters(v) \subseteq Agents /\ Waiters(v)' \subseteq Agents
    BY DEF Waiters
  <2> QED
    BY <2>1, BoundsAssumption, FS_Subset, FS_CardinalityType
<1>3. active.status = "final" /\ active.version = v =>
        Cardinality(Waiters(v)) <= active.waiting
  BY DEF LateInv, LateWorkersCounted, Waiters
<1>4. ASSUME Waiters(v)' \subseteq Waiters(v)
      PROVE  Cardinality(Waiters(v)') <= Cardinality(Waiters(v))
  BY <1>2, <1>4, FS_Subset
<1>5. ASSUME NEW a \in Agents, Waiters(v)' \subseteq Waiters(v) \cup {a}
      PROVE  Cardinality(Waiters(v)') <= Cardinality(Waiters(v)) + 1
  <2>1. /\ IsFiniteSet(Waiters(v) \cup {a})
        /\ \/ Cardinality(Waiters(v) \cup {a}) = Cardinality(Waiters(v))
           \/ Cardinality(Waiters(v) \cup {a}) = Cardinality(Waiters(v)) + 1
    BY <1>2, FS_AddElement
  <2>2. Cardinality(Waiters(v)') <= Cardinality(Waiters(v) \cup {a})
    BY <1>5, <2>1, FS_Subset
  <2> QED
    BY <1>2, <2>1, <2>2
<1>6. ASSUME NEW a \in Agents, AgentStores(a)
      PROVE  Cardinality(Waiters(v)') <= active'.waiting
  <2>1. CASE /\ active.status = "final" /\ active.version = v
             /\ active'.waiting = active.waiting + 1
    <3>1. Cardinality(Waiters(v)') <= Cardinality(Waiters(v)) + 1
      BY <1>2, <1>4, <1>5, WaitersBefore
    <3> QED
      BY <1>1, <1>2, <1>3, <2>1, <3>1
  <2>2. CASE active.status = "frozen" /\ active.version = v /\ active'.waiting = 0
    <3>1. ASSUME NEW b \in Agents, pc'[b] \in Freeing PROVE ver'[b] # v
      <4>1. pc'[b] \in Late
        BY <3>1 DEF Late
      <4>2. pc[b] \in Late /\ ver'[b] = ver[b]
        BY <2>2, <4>1, LateBefore DEF Inv
      <4> QED
        BY <2>2, <4>2 DEF LateInv
    <3>2. Waiters(v)' = {}
      BY <3>1 DEF Waiters
    <3> QED
      BY <2>2, <3>2, FS_EmptySet
  <2> QED
    BY <1>6, <2>1, <2>2, SwapToFinal
<1>7. CASE active' = active
  <2>1. CASE Waiters(v)' \subseteq Waiters(v)
    BY <1>1, <1>2, <1>3, <1>4, <1>7, <2>1
  <2> QED
    BY <1>6, <2>1, WaitersBefore
<1>8. active'.status \notin {"none", "setup"}
  OBVIOUS
<1> QED
  BY <1>6, <1>7, <1>8, StepKinds, NewFields
  DEF KeyGone, NoGroupYet, AgentWrites, AgentReturns, AgentDeletes

\* Nobody is late initially, and no step breaks the invariant.
LEMMA LateInit == Init => LateInv
  BY LatePlaces, NewFields DEF Init, LateInv, LateWorkersCounted

LEMMA LateInvStep == Inv /\ LateInv /\ [Next]_vars => LateInv'
<1> SUFFICES ASSUME Inv, LateInv, [Next]_vars PROVE LateInv'
  OBVIOUS
<1>1. TypeOK'
  BY TypeStep DEF Inv
<1> QED
  BY <1>1, LateVersions, WaitersCounted DEF LateInv

\* Late workers are counted: whatever crashes, expires, gets lost or is sent
\* twice, num_workers_waiting of a final state is at least the number of
\* agents in wait_for_rendezvous_to_free(), so the members learn of them.
THEOREM LateWorkersSeen == Spec => []LateWorkersCounted
<1>1. LateInv => LateWorkersCounted
  BY DEF LateInv
<1> QED
  BY <1>1, LateInit, LateInvStep, InvHolds, PTL DEF Spec

-----------------------------------------------------------------------------
(* One complete group, as long as no request is executed twice.            *)

\* Where an agent that looks at the keep-alive keys was before the step.
LEMMA FreeBefore ==
  ASSUME TypeOK, [Next]_vars, NEW b \in Agents, pc'[b] \in {"freecheck", "delete"}
  PROVE  \/ pc'[b] = pc[b] /\ ver'[b] = ver[b] /\ snap'[b] = snap[b]
         \/ pc'[b] = "freecheck" /\ snap'[b] = active /\ UNCHANGED active
         \/ /\ pc'[b] = "delete" /\ pc[b] = "freecheck"
            /\ ver'[b] = ver[b] /\ snap'[b] = snap[b]
            /\ Incomplete(snap[b], ver[b]) /\ UNCHANGED <<active, leases>>
<1>1. CASE UNCHANGED <<pc, snap, ver>>
  BY <1>1
<1>2. ASSUME NEW a \in Agents, LateStep(a), a # b
      PROVE  pc'[b] = pc[b] /\ ver'[b] = ver[b] /\ snap'[b] = snap[b]
  BY <1>2 DEF LateStep, OthersStay
<1>3. CASE LateStep(b)
  <2>1. FreeRead(b) \/ FreeCheck(b)
    BY <1>3 DEF LateStep, NoNewWait, FindsFinal, Announces
  <2>2. CASE FreeRead(b)
    BY <2>2, Moves, AllPlaces DEF FreeRead, etcd
  <2>3. CASE FreeCheck(b)
    <3>1. CASE GoTo(b, "delete")
      BY <2>3, <3>1, Moves, AllPlaces DEF FreeCheck, etcd
    <3>2. CASE Forget(b, "freewatch")
      BY <3>2, Moves, AllPlaces
    <3> QED
      BY <2>3, <3>1, <3>2 DEF FreeCheck
  <2> QED
    BY <2>1, <2>2, <2>3
<1> QED
  BY <1>1, <1>2, <1>3, LateKinds

\* Everyone has confirmed a final version.
LEMMA NobodyConfirms ==
  ASSUME Inv, ConfirmInv, active.status = "final",
         NEW b \in Agents, pc[b] \in Unconfirmed
  PROVE  ver[b] # active.version
<1> SUFFICES ASSUME ver[b] = active.version PROVE FALSE
  OBVIOUS
<1>1. rank[b] \in Nat /\ rank[b] < active.participants
  BY DEF Inv, RankInv, HasRank, Open, TypeOK
<1>2. rank[b] \notin active.keep_alives
  BY DEF ConfirmInv
<1>3. active.keep_alives = 0 .. active.participants - 1 /\ active.participants \in Nat
  BY CountedAll DEF Inv, FinalQuorum, TypeOK, Values
<1> QED
  BY <1>1, <1>2, <1>3

\* While a version is final no keep-alive key of it comes back.
LEMMA NoKeyBack ==
  ASSUME Inv, ConfirmInv, [Next]_vars, active.status = "final"
  PROVE  \A r \in Nat : <<active.version, r>> \in leases' => <<active.version, r>> \in leases
<1>1. ASSUME NEW a \in Agents, AgentWrites(a), NEW r \in Nat,
             <<active.version, r>> \in leases'
      PROVE  <<active.version, r>> \in leases
  <2>1. ver[a] # active.version
    BY <1>1, NobodyConfirms, DutyPlaces DEF AgentWrites
  <2> QED
    BY <1>1, <2>1 DEF AgentWrites
<1>2. ASSUME leases' \subseteq leases
      PROVE  \A r \in Nat : <<active.version, r>> \in leases' => <<active.version, r>> \in leases
  BY <1>2
<1> QED
  BY <1>1, <1>2, StepKinds
  DEF KeyGone, NoGroupYet, AgentStores, Swap, AgentReturns, AgentDeletes

\* What is about to be deleted stays known, and incomplete.
LEMMA DissolveStep ==
  ASSUME Inv, ConfirmInv, LateInv, DissolveInv, [Next]_vars
  PROVE  DissolveInv'
<1> SUFFICES ASSUME NEW b \in Agents, active'.status = "final",
                    active'.version = ver'[b], pc'[b] \in {"freecheck", "delete"}
             PROVE  /\ snap'[b].keep_alives = active'.keep_alives
                    /\ pc'[b] = "delete" =>
                         \E r \in active'.keep_alives :
                           <<active'.version, r>> \notin leases'
  BY DEF DissolveInv, Incomplete
<1>1. CASE pc'[b] = "freecheck" /\ snap'[b] = active /\ UNCHANGED active
  BY <1>1
<1>2. CASE /\ pc'[b] = "delete" /\ pc[b] = "freecheck"
           /\ ver'[b] = ver[b] /\ snap'[b] = snap[b]
           /\ Incomplete(snap[b], ver[b]) /\ UNCHANGED <<active, leases>>
  BY <1>2 DEF DissolveInv, Incomplete
<1>3. CASE pc'[b] = pc[b] /\ ver'[b] = ver[b] /\ snap'[b] = snap[b]
  <2>1. active.status # "frozen" \/ active.version # ver[b]
    BY <1>3, LatePlaces DEF LateInv
  <2>2. /\ active.status = "final" /\ active.version = ver[b]
        /\ active'.keep_alives = active.keep_alives
    <3>1. ASSUME NEW a \in Agents, AgentStores(a)
          PROVE  /\ active.status = "final" /\ active.version = ver[b]
                 /\ active'.keep_alives = active.keep_alives
      BY <1>3, <2>1, <3>1, SwapToFinal
    <3>2. CASE active' = active
      BY <1>3, <3>2
    <3> QED
      BY <3>1, <3>2, StepKinds, NewFields
      DEF KeyGone, NoGroupYet, AgentWrites, AgentReturns, AgentDeletes
  <2>3. snap'[b].keep_alives = active'.keep_alives
    BY <1>3, <2>2 DEF DissolveInv
  <2>4. ASSUME pc'[b] = "delete"
        PROVE  \E r \in active'.keep_alives : <<active'.version, r>> \notin leases'
    <3>1. PICK r \in active.keep_alives : <<active.version, r>> \notin leases
      BY <1>3, <2>2, <2>4 DEF DissolveInv, Incomplete
    <3>2. r \in Nat
      BY DEF Inv, TypeOK, Values
    <3> QED
      BY <1>3, <2>2, <3>1, <3>2, NoKeyBack
  <2> QED
    BY <2>3, <2>4
<1> QED
  BY <1>1, <1>2, <1>3, FreeBefore DEF Inv

\* An agent that has yet to confirm had to before, or has just joined.
LEMMA UnconfirmedBefore ==
  ASSUME ~Resend, Inv, [Next]_vars, NEW b \in Agents, pc'[b] \in Unconfirmed
  PROVE  /\ ver'[b] = ver[b]
         /\ pc[b] \in Unconfirmed \/ Is(active, "joinable", ver[b])
<1>1. NobodyMoves \/ \E a \in Agents : MovesOn(a) \/ Stores(a)
  BY AgentKinds, EnvironmentKinds
  DEF Inv, Next, vars, etcd, local, NobodyMoves, StaysOrGoes
<1>2. CASE NobodyMoves
  BY <1>2 DEF NobodyMoves
<1>3. ASSUME NEW a \in Agents, MovesOn(a)
      PROVE  ver'[b] = ver[b] /\ pc[b] \in Unconfirmed
  BY <1>3 DEF MovesOn, OthersStay, NoNewDuty
<1>4. ASSUME NEW a \in Agents, Stores(a)
      PROVE  /\ ver'[b] = ver[b]
             /\ pc[b] \in Unconfirmed \/ Is(active, "joinable", ver[b])
  <2>1. pc[a] = "joincas" => Is(active, "joinable", ver[a])
    BY <1>4, SwapEffect DEF Stores, Is
  <2> QED
    BY <1>4, <2>1 DEF Stores, OthersStay, NoNewDuty
<1> QED
  BY <1>1, <1>2, <1>3, <1>4

\* A group that was returned is confirmed by nobody any more.
LEMMA GroupConfirmed ==
  ASSUME ~Resend, Inv, ConfirmInv, GroupInv, [Next]_vars,
         NEW g \in granted', NEW b \in Agents, pc'[b] \in Unconfirmed
  PROVE  ver'[b] # g.version
<1>1. /\ ver'[b] = ver[b]
      /\ pc[b] \in Unconfirmed \/ Is(active, "joinable", ver[b])
  BY UnconfirmedBefore
<1>2. CASE g \in granted
  BY <1>1, <1>2 DEF GroupInv, Inv, GrantInv, Is, Open
<1>3. ASSUME NEW a \in Agents, AgentReturns(a), g \notin granted
      PROVE  ver'[b] # g.version
  <2>1. active.status = "final" /\ g.version = active.version
    BY <1>3 DEF AgentReturns, Is
  <2> QED
    BY <1>1, <2>1, NobodyConfirms DEF Is
<1> QED
  BY <1>2, <1>3, StepKinds
  DEF KeyGone, NoGroupYet, AgentStores, Swap, AgentWrites, AgentDeletes

\* No keep-alive key of a group that was returned comes back.
LEMMA StaysIncomplete ==
  ASSUME Inv, GroupInv, [Next]_vars, NEW g \in granted, Complete(g)'
  PROVE  Complete(g)
<1>1. CASE leases' \subseteq leases
  BY <1>1 DEF Complete
<1>2. ASSUME NEW a \in Agents, AgentWrites(a) PROVE Complete(g)
  <2>1. ver[a] # g.version
    BY <1>2, DutyPlaces DEF AgentWrites, GroupInv
  <2> QED
    BY <1>2, <2>1 DEF AgentWrites, Complete
<1> QED
  BY <1>1, <1>2, StepKinds
  DEF KeyGone, NoGroupYet, AgentStores, Swap, AgentReturns, AgentDeletes

\* A group whose keep-alive keys all exist stays the current one.
LEMMA GroupCurrent ==
  ASSUME Inv, ConfirmInv, DissolveInv, GroupInv, [Next]_vars,
         NEW g \in granted', Complete(g)'
  PROVE  active'.status \in {"final", "closed"} /\ active'.version = g.version
<1>1. ASSUME NEW a \in Agents, AgentReturns(a), g \notin granted
      PROVE  active'.status = "final" /\ active'.version = g.version
  BY <1>1 DEF AgentReturns, Is
<1>2. CASE g \in granted
  <2>1. /\ Complete(g)
        /\ active.status \in {"final", "closed"} /\ active.version = g.version
    BY <1>2, StaysIncomplete DEF GroupInv
  <2>2. CASE active' = active
    BY <2>1, <2>2
  <2>3. ASSUME NEW a \in Agents, AgentStores(a)
        PROVE  active'.status \in {"final", "closed"} /\ active'.version = active.version
    <3>1. /\ active = snap[a] /\ active \in Values /\ active' = Proposed(a)
          /\ pc[a] \in Swapping /\ SnapshotOK(a) /\ active.status = "final"
      BY <2>1, <2>3, SwapEffect DEF AgentStores, Swap, Inv, TypeOK, SnapshotInv
    <3>2. pc[a] \in {"announcecas", "closecas"}
      BY <3>1, NewFields DEF SnapshotOK, Swapping, Is
    <3> QED
      BY <3>1, <3>2, ProposedIs, OtherFields
  <2>4. ASSUME NEW a \in Agents, AgentDeletes(a) PROVE FALSE
    <3>1. active.status = "final" /\ active.version = ver[a] /\ pc[a] = "delete"
      BY <2>4 DEF AgentDeletes, Inv, SnapshotInv, SnapshotOK, Is
    <3>2. PICK r \in active.keep_alives : <<active.version, r>> \notin leases
      BY <3>1 DEF DissolveInv, Incomplete
    <3>3. active.keep_alives = 0 .. active.participants - 1
      BY <3>1, CountedAll DEF Inv, FinalQuorum
    <3>4. active.participants = g.size
      BY <1>2, <2>1, <3>1 DEF Inv, GrantInv, Open
    <3> QED
      BY <2>1, <3>2, <3>3, <3>4 DEF Complete
  <2> QED
    BY <2>1, <2>2, <2>3, <2>4, StepKinds
    DEF KeyGone, NoGroupYet, AgentWrites, AgentReturns
<1> QED
  BY <1>1, <1>2, StepKinds
  DEF KeyGone, NoGroupYet, AgentStores, Swap, AgentWrites, AgentDeletes

\* What holds of the groups as long as no request is executed twice.
WholeInv == Inv /\ ConfirmInv /\ LateInv /\ DissolveInv /\ GroupInv

\* The initial state has no group.
LEMMA WholeInit == Init => WholeInv
<1>1. Init => DissolveInv /\ GroupInv
  BY NewFields DEF Init, DissolveInv, GroupInv
<1> QED
  BY <1>1, InvInit, ConfirmInit, LateInit DEF WholeInv

\* Every step keeps the groups as they should be.
LEMMA WholeStep ==
  ASSUME ~Resend, WholeInv, [Next]_vars
  PROVE  WholeInv'
<1> USE DEF WholeInv
<1>1. Inv' /\ ConfirmInv' /\ LateInv' /\ DissolveInv'
  BY InvStep, ConfirmStep, LateInvStep, DissolveStep
<1>2. GroupInv'
  BY GroupConfirmed, GroupCurrent DEF GroupInv
<1> QED
  BY <1>1, <1>2

\* As long as no request is executed twice the groups are as they should be.
LEMMA WholeHolds == ~Resend => (Spec => []WholeInv)
<1> SUFFICES ASSUME ~Resend PROVE Spec => []WholeInv
  OBVIOUS
<1>1. WholeInv /\ [Next]_vars => WholeInv'
  BY WholeStep
<1> QED
  BY <1>1, WholeInit, PTL DEF Spec

\* Exclusivity: unless a request is executed twice, of the groups that
\* rendezvous_barrier() ever returned at most one has all its keep-alive keys,
\* so a group is replaced only after one of its members stopped renewing.
THEOREM GroupsExclusive == ~Resend => (Spec => []OneCompleteGroup)
<1> SUFFICES ASSUME ~Resend PROVE Spec => []OneCompleteGroup
  OBVIOUS
<1>1. WholeInv => OneCompleteGroup
  BY DEF WholeInv, GroupInv, OneCompleteGroup
<1> QED
  BY <1>1, WholeHolds, PTL

-----------------------------------------------------------------------------
(* The barrier implements RendezvousPromise, as long as no request is      *)
(* executed twice.                                                         *)

\* What the agents see of a state with and without a group.
LEMMA GroupIs ==
  /\ active.status = "final" =>
       /\ GroupStatus = "final" /\ GroupVersion = active.version
       /\ GroupSize = active.participants /\ GroupWaiting = active.waiting
       /\ GroupWhole = \A r \in 0 .. active.participants - 1 :
                          <<active.version, r>> \in leases
  /\ active.status # "final" =>
       /\ GroupStatus = IF active.status = "closed" THEN "closed" ELSE "free"
       /\ GroupVersion = 0 /\ GroupSize = 0 /\ GroupWaiting = 0
       /\ GroupWhole = FALSE
  BY DEF GroupFormed, GroupStatus, GroupVersion, GroupSize, GroupWaiting, GroupWhole

LEMMA GroupIsNext ==
  /\ active'.status = "final" =>
       /\ GroupStatus' = "final" /\ GroupVersion' = active'.version
       /\ GroupSize' = active'.participants /\ GroupWaiting' = active'.waiting
       /\ GroupWhole' = \A r \in 0 .. active'.participants - 1 :
                           <<active'.version, r>> \in leases'
  /\ active'.status # "final" =>
       /\ GroupStatus' = IF active'.status = "closed" THEN "closed" ELSE "free"
       /\ GroupVersion' = 0 /\ GroupSize' = 0 /\ GroupWaiting' = 0
       /\ GroupWhole' = FALSE
  BY DEF GroupFormed, GroupStatus, GroupVersion, GroupSize, GroupWaiting, GroupWhole

\* The agents see nothing of a step.
Unseen == UNCHANGED <<GroupStatus, GroupVersion, GroupSize, GroupWaiting,
                      GroupWhole, granted>>

\* A step before there is a group.
LEMMA UnseenBefore ==
  ASSUME active.status \notin {"final", "closed"},
         active'.status \notin {"final", "closed"}, UNCHANGED granted
  PROVE  Unseen
  BY GroupIs, GroupIsNext DEF Unseen

\* A key that runs out is one that nobody misses, or a member that is lost.
LEMMA KeyGoneRefines ==
  ASSUME KeyGone
  PROVE  Unseen \/ Promise!Lose
<1>1. CASE active.status # "final"
  BY <1>1, GroupIs, GroupIsNext DEF Unseen, KeyGone
<1>2. CASE active.status = "final"
  <2>1. UNCHANGED <<GroupStatus, GroupVersion, GroupSize, GroupWaiting, granted>>
    BY <1>2, GroupIs, GroupIsNext DEF KeyGone
  <2>2. GroupWhole \in BOOLEAN /\ GroupWhole' \in BOOLEAN /\ (GroupWhole' => GroupWhole)
    BY <1>2, GroupIs, GroupIsNext DEF KeyGone
  <2> QED
    BY <2>1, <2>2 DEF Unseen, Promise!Lose
<1> QED
  BY <1>1, <1>2

\* A keep-alive key is written for a group that is not formed yet.
LEMMA WriteRefines ==
  ASSUME WholeInv, [Next]_vars, NEW a \in Agents, AgentWrites(a)
  PROVE  Unseen
<1>1. CASE active.status # "final"
  BY <1>1, GroupIs, GroupIsNext DEF Unseen, AgentWrites
<1>2. CASE active.status = "final"
  <2>1. active.participants \in Nat
    BY DEF WholeInv, Inv, TypeOK, Values
  <2>2. \A r \in 0 .. active.participants - 1 :
          <<active.version, r>> \in leases' <=> <<active.version, r>> \in leases
    BY <1>2, <2>1, NoKeyBack DEF WholeInv, AgentWrites
  <2>3. GroupWhole' = GroupWhole
    BY <1>2, <2>2, GroupIs, GroupIsNext DEF AgentWrites
  <2> QED
    BY <1>2, <2>3, GroupIs, GroupIsNext DEF Unseen, AgentWrites
<1> QED
  BY <1>1, <1>2

\* A call returns the group with a rank nobody has.
LEMMA ReturnRefines ==
  ASSUME WholeInv, NEW a \in Agents, AgentReturns(a)
  PROVE  Promise!Return
<1> USE DEF WholeInv, Inv
<1>1. active.status = "final" /\ active.version = ver[a] /\ pc[a] \in HasRank
  BY HasRankPlaces DEF AgentReturns, Is
<1>2. rank[a] \in 0 .. active.participants - 1
  <2>1. rank[a] \in Nat /\ active.participants \in Nat
    BY DEF TypeOK, Values
  <2>2. rank[a] < active.participants
    BY <1>1 DEF RankInv, Open
  <2> QED
    BY <2>1, <2>2
<1>3. ~ \E g \in granted : g.version = active.version /\ g.rank = rank[a]
  BY <1>1 DEF GrantInv
<1>4. UNCHANGED <<GroupStatus, GroupVersion, GroupSize, GroupWaiting, GroupWhole>>
  BY GroupIs, GroupIsNext DEF AgentReturns
<1>5. granted' = granted \cup {[agent |-> a, version |-> GroupVersion,
                                rank |-> rank[a], size |-> GroupSize]}
  BY <1>1, GroupIs DEF AgentReturns
<1> QED
  BY <1>1, <1>2, <1>3, <1>4, <1>5, GroupIs DEF Promise!Return

\* A group is dissolved after it lost a member.
LEMMA DeleteRefines ==
  ASSUME WholeInv, NEW a \in Agents, AgentDeletes(a)
  PROVE  Promise!Dissolve
<1> USE DEF WholeInv
<1>1. active.status = "final" /\ active.version = ver[a] /\ pc[a] = "delete"
  BY DEF AgentDeletes, Inv, SnapshotInv, SnapshotOK, Is
<1>2. PICK r \in active.keep_alives : <<active.version, r>> \notin leases
  BY <1>1 DEF DissolveInv, Incomplete
<1>3. active.keep_alives = 0 .. active.participants - 1
  BY <1>1, CountedAll DEF Inv, FinalQuorum
<1>4. GroupStatus = "final" /\ ~GroupWhole
  BY <1>1, <1>2, <1>3, GroupIs
<1>5. /\ GroupStatus' = "free" /\ GroupVersion' = 0 /\ GroupSize' = 0
      /\ GroupWaiting' = 0 /\ ~GroupWhole'
  BY GroupIsNext, NewFields DEF AgentDeletes
<1> QED
  BY <1>4, <1>5 DEF Promise!Dissolve, Promise!NoGroup, AgentDeletes

\* A compare-and-swap forms a group, announces somebody, closes the rendezvous
\* or does nothing the agents see.
LEMMA StoreRefines ==
  ASSUME WholeInv, WholeInv', NEW a \in Agents, AgentStores(a)
  PROVE  Unseen \/ Promise!Form \/ Promise!Announce \/ Promise!Close
<1>1. /\ active = snap[a] /\ active \in Values /\ active' = Proposed(a)
      /\ ver[a] \in Nat /\ rank[a] \in Nat /\ SnapshotOK(a)
      /\ pc[a] \in Swapping /\ UNCHANGED <<leases, granted>>
  BY DEF AgentStores, Swap, WholeInv, Inv, TypeOK, SnapshotInv
<1>2. CASE pc[a] = "publish"
  BY <1>1, <1>2, ProposedIs, NewFields, UnseenBefore DEF SnapshotOK
<1>3. CASE pc[a] = "joincas"
  BY <1>1, <1>3, ProposedIs, JoinedFields, UnseenBefore DEF SnapshotOK, Is
<1>4. CASE pc[a] = "freeze"
  BY <1>1, <1>4, ProposedIs, FrozenFields, UnseenBefore DEF SnapshotOK, Is
<1>5. CASE pc[a] = "refresh"
  BY <1>1, <1>5, ProposedIs, UnseenBefore DEF SnapshotOK, Is
<1>6. CASE pc[a] = "confirmcas"
  <2>1. /\ active.status = "frozen" /\ active.version \in Nat
        /\ active'.status \in {"frozen", "final"}
        /\ active'.version = active.version
    BY <1>1, <1>6, ProposedIs, ConfirmedFields DEF SnapshotOK, Is, Values
  <2>2. CASE active'.status = "frozen"
    BY <1>1, <2>1, <2>2, UnseenBefore
  <2>3. CASE active'.status = "final"
    <3>1. active'.waiting = 0
      BY <2>1, <2>3, SwapToFinal DEF WholeInv
    <3>2. active'.participants \in MinWorkers .. MaxWorkers
      BY <2>3 DEF WholeInv, ConfirmInv
    <3>3. active'.version \in Nat \ {g.version : g \in granted}
      BY <2>1 DEF WholeInv, Inv, GrantInv, Open
    <3>4. /\ GroupStatus = "free" /\ GroupStatus' = "final"
          /\ GroupVersion' = active'.version /\ GroupSize' = active'.participants
          /\ GroupWaiting' = 0 /\ GroupWhole' \in BOOLEAN
      BY <2>1, <2>3, <3>1, GroupIs, GroupIsNext
    <3> QED
      BY <1>1, <3>2, <3>3, <3>4 DEF Promise!Form
  <2> QED
    BY <2>1, <2>2, <2>3
<1>7. CASE pc[a] = "announcecas"
  <2>1. /\ active.status = "final" /\ active'.status = "final"
        /\ active'.version = active.version
        /\ active'.participants = active.participants
        /\ active'.waiting = active.waiting + 1
    BY <1>1, <1>7, ProposedIs, OtherFields DEF SnapshotOK, Is
  <2>2. GroupWhole' = GroupWhole
    BY <1>1, <2>1, GroupIs, GroupIsNext
  <2> QED
    BY <1>1, <2>1, <2>2, GroupIs, GroupIsNext DEF Promise!Announce
<1>8. CASE pc[a] = "closecas"
  <2>1. active.status # "closed" /\ active'.status = "closed"
    BY <1>1, <1>8, ProposedIs, OtherFields DEF SnapshotOK
  <2>2. /\ GroupStatus # "closed" /\ GroupStatus' = "closed" /\ GroupVersion' = 0
        /\ GroupSize' = 0 /\ GroupWaiting' = 0 /\ ~GroupWhole'
    BY <2>1, GroupIs, GroupIsNext
  <2> QED
    BY <1>1, <2>2 DEF Promise!Close, Promise!NoGroup
<1> QED
  BY <1>1, <1>2, <1>3, <1>4, <1>5, <1>6, <1>7, <1>8 DEF Swapping

\* The barrier implements RendezvousPromise: unless a request is executed
\* twice, every step of every agent, crash, expiry and lost reply forms a group
\* of an allowed size, returns it once per rank, counts a late worker, loses a
\* member, dissolves a group that lost one, closes, or changes nothing.
THEOREM BarrierRefines == ~Resend => (Spec => BarrierPromise)
<1> SUFFICES ASSUME ~Resend PROVE Spec => BarrierPromise
  OBVIOUS
<1>1. Init => Promise!Init
  BY NewFields, GroupIs DEF Init, Promise!Init, Promise!NoGroup
<1>2. WholeInv /\ [Next]_vars => [Promise!Next]_Promise!vars
  <2> SUFFICES ASSUME WholeInv, [Next]_vars
               PROVE  Promise!Next \/ Unseen
    BY DEF Unseen, Promise!vars
  <2>1. WholeInv'
    BY WholeStep
  <2>2. CASE KeyGone
    BY <2>2, KeyGoneRefines DEF Promise!Next
  <2>3. CASE NoGroupYet
    BY <2>3, UnseenBefore DEF NoGroupYet
  <2>4. ASSUME NEW a \in Agents, AgentStores(a) PROVE Promise!Next \/ Unseen
    BY <2>1, <2>4, StoreRefines DEF Promise!Next
  <2>5. ASSUME NEW a \in Agents, AgentWrites(a) PROVE Unseen
    BY <2>5, WriteRefines
  <2>6. ASSUME NEW a \in Agents, AgentReturns(a) PROVE Promise!Next
    BY <2>6, ReturnRefines DEF Promise!Next
  <2>7. ASSUME NEW a \in Agents, AgentDeletes(a) PROVE Promise!Next
    BY <2>7, DeleteRefines DEF Promise!Next
  <2> QED
    BY <2>2, <2>3, <2>4, <2>5, <2>6, <2>7, StepKinds DEF WholeInv
<1> QED
  BY <1>1, <1>2, WholeHolds, PTL DEF Spec, BarrierPromise, Promise!Spec
=============================================================================
