--------------------------- MODULE EtcdRendezvous ---------------------------
(***************************************************************************)
(* The rendezvous barrier of torchelastic/rendezvous/etcd_rendezvous.py.   *)
(*                                                                         *)
(* Every agent runs rendezvous_barrier() against one etcd server.  A step  *)
(* of an agent is one etcd request together with the local computation up  *)
(* to the next request, so the steps of the agents interleave exactly      *)
(* where the program can be interrupted: between the read of               *)
(* /rdzv/active_version and the compare-and-swap that uses it, between     *)
(* writing a keep-alive key and starting the thread that renews it, ...    *)
(*                                                                         *)
(* The environment contributes TTL expiry, the overall deadline of the     *)
(* barrier, process crashes and relaunches, and etcd requests that fail,   *)
(* lose their reply or are sent twice by the client.                       *)
(***************************************************************************)
EXTENDS Integers, FiniteSets

CONSTANTS
  Agents,       \* the processes that call next_rendezvous()
  MinWorkers,   \* num_min_workers
  MaxWorkers,   \* num_max_workers
  MaxCalls,     \* bound: calls of next_rendezvous(), all agents together
  MaxCrashes,   \* bound: processes that die
  MaxWaiting,   \* bound: num_workers_waiting
  MaxLapses,    \* bound: TTLs that run out although a live agent would renew
  MaxFaults,    \* bound: requests that fail, lose their reply or are resent
  Resend        \* TRUE: the client resends a request whose reply was lost

ASSUME WorkersAssumption ==
  /\ MinWorkers \in Nat \ {0}
  /\ MaxWorkers \in Nat
  /\ MinWorkers <= MaxWorkers

ASSUME BoundsAssumption ==
  /\ IsFiniteSet(Agents)
  /\ MaxCalls \in Nat
  /\ MaxCrashes \in Nat
  /\ MaxWaiting \in Nat
  /\ MaxLapses \in Nat
  /\ MaxFaults \in Nat
  /\ Resend \in BOOLEAN

VARIABLES
  active,       \* value of /rdzv/active_version
  ephemeral,    \* TRUE: that key has a TTL
  counter,      \* value of /rdzv/version_counter
  leases,       \* keep-alive keys /rdzv/v_<version>/rank_<rank> that exist
  pc,           \* the next request of each agent, or why it makes none
  snap,         \* the value of active_version an agent last read
  ver,          \* expected_version (version_counter.value while creating)
  rank,         \* this_rank
  renewing,     \* the keep-alive key renewed by an agent's lease thread
  calls, crashes, lapses, faults,   \* what has been used of the bounds
  published,    \* history: versions ever made joinable
  granted       \* history: results returned by rendezvous_barrier()

etcd == <<active, ephemeral, counter, leases>>
local == <<pc, snap, ver, rank, renewing>>
used == <<calls, crashes, lapses, faults>>
history == <<published, granted>>
vars == <<etcd, local, used, history>>

-----------------------------------------------------------------------------
(* The values of active_version.  Participants are always the list         *)
(* 0, 1, ..., n-1 and are kept as n; of the list of keep-alive keys the    *)
(* program uses the length (confirms) and the members (keep_alives).       *)

Statuses == {"none", "setup", "joinable", "frozen", "final", "closed"}

Values == [status: Statuses, version: Nat, participants: Nat,
           keep_alives: SUBSET Nat, confirms: Nat, waiting: Nat]

\* No such key.
Absent == [status |-> "none", version |-> 0, participants |-> 0,
           keep_alives |-> {}, confirms |-> 0, waiting |-> 0]

Setup == [Absent EXCEPT !.status = "setup"]

Joinable(v) == [Absent EXCEPT !.status = "joinable", !.version = v]

Frozen(s) == [s EXCEPT !.status = "frozen", !.keep_alives = {}, !.confirms = 0]

Joined(s) ==
  LET t == [s EXCEPT !.participants = @ + 1]
  IN  IF t.participants = MaxWorkers THEN Frozen(t) ELSE t

Confirmed(s, r) ==
  LET t == [s EXCEPT !.keep_alives = @ \cup {r}, !.confirms = @ + 1]
  IN  IF t.confirms = t.participants
        THEN [t EXCEPT !.status = "final", !.waiting = 0]
        ELSE t

Announced(s) == [s EXCEPT !.waiting = @ + 1]

Closed(s) == [s EXCEPT !.status = "closed"]

\* The state an agent expects: <<status, version>>.
Is(s, status, v) == s.status = status /\ s.version = v

-----------------------------------------------------------------------------
(* The places an agent can be at, named after the method it is in.         *)

Creating   == {"counter", "bump", "publish"}
LastCall   == {"lastcall", "lcwatch", "freeze", "refresh"}
Unconfirmed == LastCall
                 \cup {"peers", "peerswatch", "confirm", "keepalive", "confirmcas"}
HasRank    == Unconfirmed \cup {"final", "finalwatch"}
Freeing    == {"free", "freecheck", "delete", "freewatch"}
Barrier    == {"init", "observe", "join", "joincas", "announce", "announcecas"}
                \cup Creating \cup HasRank \cup Freeing
Raised     == {"closed", "timeout", "fatal"}
Closing    == {"close", "closecas"}
Places     == {"down", "member"} \cup Barrier \cup Raised \cup Closing

\* Faulty variant: the deadline is forgotten inside the watches.
WatchingNothing == {"init"}

\* A watch that gives up when the overall deadline has passed, and the top
\* of the loop of rendezvous_barrier().
Watching   == {"init", "lcwatch", "peerswatch", "finalwatch", "freewatch"}

\* A compare-and-swap of active_version is the next request.
Swapping   == {"publish", "joincas", "freeze", "refresh", "confirmcas",
               "announcecas", "closecas"}

Keys == Nat \X Nat
NoKey == <<>>
Live(a) == pc[a] # "down"

-----------------------------------------------------------------------------
Init ==
  /\ active = Absent
  /\ ephemeral = FALSE
  /\ counter = 0
  /\ leases = {}
  /\ pc = [a \in Agents |-> "down"]
  /\ snap = [a \in Agents |-> Absent]
  /\ ver = [a \in Agents |-> 0]
  /\ rank = [a \in Agents |-> 0]
  /\ renewing = [a \in Agents |-> NoKey]
  /\ calls = 0
  /\ crashes = 0
  /\ lapses = 0
  /\ faults = 0
  /\ published = {}
  /\ granted = {}

-----------------------------------------------------------------------------
(* Control flow helpers.                                                   *)

\* Agent a goes on at place l within the same attempt.
GoTo(a, l) == pc' = [pc EXCEPT ![a] = l]

\* The attempt of agent a ends: its local variables are gone.
Drop(a, l) ==
  /\ GoTo(a, l)
  /\ snap' = [snap EXCEPT ![a] = Absent]
  /\ ver' = [ver EXCEPT ![a] = 0]
  /\ rank' = [rank EXCEPT ![a] = 0]

\* EtcdRendezvousRetryableFailure, EtcdRendezvousRetryImmediately and every
\* exception that is not listed: back to the top of rendezvous_barrier().
Retry(a) == Drop(a, "init") /\ UNCHANGED renewing

\* rendezvous_barrier() raises.
Raise(a, l) == Drop(a, l) /\ UNCHANGED renewing

\* The process is gone, and its lease thread with it.
Exit(a) ==
  /\ Drop(a, "down")
  /\ renewing' = [renewing EXCEPT ![a] = NoKey]

\* get_rdzv_state() gave s; agent a goes on at place l, which uses s.
Keep(a, l) ==
  /\ GoTo(a, l)
  /\ snap' = [snap EXCEPT ![a] = active]
  /\ UNCHANGED <<ver, rank, renewing>>

\* As Keep, for a place that reads the state again.
Forget(a, l) ==
  /\ GoTo(a, l)
  /\ snap' = [snap EXCEPT ![a] = Absent]
  /\ UNCHANGED <<ver, rank, renewing>>

-----------------------------------------------------------------------------
(* The compare-and-swaps of active_version.                                *)

\* The value the agent asks etcd to store.
Proposed(a) ==
  CASE pc[a] = "publish"     -> Joinable(ver[a])
    [] pc[a] = "joincas"     -> Joined(snap[a])
    [] pc[a] = "freeze"      -> Frozen(snap[a])
    [] pc[a] = "refresh"     -> snap[a]
    [] pc[a] = "confirmcas"  -> Confirmed(snap[a], rank[a])
    [] pc[a] = "announcecas" -> Announced(snap[a])
    [] pc[a] = "closecas"    -> Closed(snap[a])
    [] OTHER                 -> active

\* Faulty variant: a frozen state is permanent.
FrozenForever(a) ==
  \/ /\ pc[a] = "joincas"
     /\ snap[a].participants + 1 \in MinWorkers .. MaxWorkers - 1
  \/ pc[a] = "refresh"

\* Faulty variant: the state made final keeps the TTL of the frozen one.
FinalExpires(a) ==
  \/ pc[a] = "joincas" /\ snap[a].participants + 1 >= MinWorkers
  \/ pc[a] \in {"freeze", "refresh", "confirmcas"}

\* Whether the request carries a TTL; without one etcd makes the key permanent.
ProposedTTL(a) ==
  \/ pc[a] = "joincas" /\ snap[a].participants + 1 >= MinWorkers
  \/ pc[a] \in {"freeze", "refresh"}
  \/ pc[a] = "confirmcas" /\ Proposed(a).status = "frozen"

\* Faulty variant: a plain write instead of the compare-and-swap.
SwapBlindly(a) ==
  /\ active' = Proposed(a)
  /\ ephemeral' = ProposedTTL(a)
  /\ published' = IF pc[a] = "publish" THEN published \cup {ver[a]}
                                       ELSE published
  /\ UNCHANGED <<counter, leases, granted>>

\* etcd finds the expected value and stores the new one.
Swap(a) ==
  /\ active = snap[a]
  /\ active' = Proposed(a)
  /\ ephemeral' = ProposedTTL(a)
  /\ published' = IF pc[a] = "publish" THEN published \cup {ver[a]}
                                       ELSE published
  /\ UNCHANGED <<counter, leases, granted>>

\* EtcdCompareFailed: the agent reads the state again at place l.
\* EtcdKeyNotFound leaves the loop.
SwapFails(a, l) ==
  /\ active # snap[a]
  /\ IF active = Absent THEN Retry(a) ELSE Forget(a, l)
  /\ UNCHANGED <<etcd, used, history>>

-----------------------------------------------------------------------------
(* rendezvous_barrier() and init_phase().                                  *)

\* A fresh process, or a member whose agent restarts its workers, enters the
\* barrier and computes the deadline.
NextRendezvous(a) ==
  /\ pc[a] \in {"down", "member"}
  /\ calls < MaxCalls
  /\ calls' = calls + 1
  /\ Drop(a, "init")
  /\ UNCHANGED <<etcd, renewing, crashes, lapses, faults, history>>

\* The top of the loop: stop the lease thread of the previous attempt, then
\* try to create active_version in state setup.
TryCreate(a) ==
  /\ pc[a] = "init"
  /\ renewing' = [renewing EXCEPT ![a] = NoKey]
  /\ \/ /\ active = Absent
        /\ active' = Setup
        /\ ephemeral' = TRUE
        /\ GoTo(a, "counter")
     \/ /\ active # Absent
        /\ GoTo(a, "observe")
        /\ UNCHANGED <<active, ephemeral>>
  /\ UNCHANGED <<counter, leases, snap, ver, rank, used, history>>

\* Faulty variant: closed is taken for one more transitional state.
ObserveIgnoringClosed(a) ==
  /\ pc[a] = "observe"
  /\ \/ /\ active.status \in {"joinable", "final"}
        /\ GoTo(a, IF active.status = "final" THEN "announce" ELSE "join")
        /\ ver' = [ver EXCEPT ![a] = active.version]
        /\ UNCHANGED <<snap, rank, renewing>>
     \/ /\ active.status \notin {"joinable", "final"}
        /\ Retry(a)
  /\ UNCHANGED <<etcd, used, history>>

\* EtcdAlreadyExist: look at what is there.
ObserveExisting(a) ==
  /\ pc[a] = "observe"
  /\ \/ /\ active.status = "closed"
        /\ Raise(a, "closed")
     \/ /\ active.status = "joinable"
        /\ GoTo(a, "join")
        /\ ver' = [ver EXCEPT ![a] = active.version]
        /\ UNCHANGED <<snap, rank, renewing>>
     \/ /\ active.status = "final"
        /\ GoTo(a, "announce")
        /\ ver' = [ver EXCEPT ![a] = active.version]
        /\ UNCHANGED <<snap, rank, renewing>>
     \/ /\ active.status \in {"none", "setup", "frozen"}
        /\ Retry(a)
  /\ UNCHANGED <<etcd, used, history>>

\* The overall deadline is checked at the top of the loop and after every
\* watch.  Whether it has passed is the clock's choice.
Timeout(a) ==
  /\ pc[a] \in Watching
  /\ Raise(a, "timeout")
  /\ UNCHANGED <<etcd, used, history>>

-----------------------------------------------------------------------------
(* try_create_rendezvous().                                                *)

ReadVersionCounter(a) ==
  /\ pc[a] = "counter"
  /\ GoTo(a, "bump")
  /\ ver' = [ver EXCEPT ![a] = counter + 1]
  /\ UNCHANGED <<etcd, snap, rank, renewing, used, history>>

\* Faulty variant: the new counter is written whatever it is by now.
WriteVersionCounter(a) ==
  /\ pc[a] = "bump"
  /\ counter' = ver[a]
  /\ GoTo(a, "publish")
  /\ snap' = [snap EXCEPT ![a] = Setup]
  /\ UNCHANGED <<active, ephemeral, leases, ver, rank, renewing, used, history>>

\* client.update() compares the index of the node that was read; a loser
\* gets EtcdCompareFailed, hence RendezvousNonRetryableError.
UpdateVersionCounter(a) ==
  /\ pc[a] = "bump"
  /\ \/ /\ counter + 1 = ver[a]
        /\ counter' = ver[a]
        /\ GoTo(a, "publish")
        /\ snap' = [snap EXCEPT ![a] = Setup]
        /\ UNCHANGED <<active, ephemeral, leases, ver, rank, renewing>>
     \/ /\ counter + 1 # ver[a]
        /\ Raise(a, "fatal")
        /\ UNCHANGED etcd
  /\ UNCHANGED <<used, history>>

\* Create the directory v_<version>, which cannot exist yet, and publish the
\* version.  Both EtcdCompareFailed and EtcdKeyNotFound lead to a retry.
PublishJoinable(a) ==
  /\ pc[a] = "publish"
  /\ \/ /\ Swap(a)
        /\ Forget(a, "join")
     \/ /\ active # snap[a]
        /\ Retry(a)
        /\ UNCHANGED <<etcd, history>>
  /\ UNCHANGED used

-----------------------------------------------------------------------------
(* join_phase() and join_rendezvous().                                     *)

JoinRead(a) ==
  /\ pc[a] = "join"
  /\ \/ /\ Is(active, "joinable", ver[a])
        /\ active.participants < MaxWorkers
        /\ Keep(a, "joincas")
     \/ /\ ~ Is(active, "joinable", ver[a]) \/ active.participants >= MaxWorkers
        /\ Retry(a)
  /\ UNCHANGED <<etcd, used, history>>

\* Faulty variant: every agent that joins leads a last call.
EveryoneLeads(s) == s.status = "joinable"

\* The agent whose arrival made the state s leads the last call.
LeadsLastCall(s) ==
  s.participants = MinWorkers /\ s.status = "joinable"

JoinSwap(a) ==
  /\ pc[a] = "joincas"
  /\ \/ /\ Swap(a)
        /\ rank' = [rank EXCEPT ![a] = snap[a].participants]
        /\ snap' = [snap EXCEPT ![a] = Absent]
        /\ GoTo(a, IF LeadsLastCall(Joined(snap[a])) THEN "lastcall" ELSE "peers")
        /\ UNCHANGED <<ver, renewing, used>>
     \/ SwapFails(a, "join")

-----------------------------------------------------------------------------
(* handle_join_last_call().                                                *)

\* Whether the last-call deadline has been reached is the clock's choice.
LastCallRead(a) ==
  /\ pc[a] \in {"lastcall", "lcwatch"}
  /\ \/ /\ Is(active, "frozen", ver[a])
        /\ Forget(a, "peers")
     \/ /\ Is(active, "joinable", ver[a])
        /\ \E l \in {"freeze", "refresh"} : Keep(a, l)
     \/ /\ ~ Is(active, "frozen", ver[a])
        /\ ~ Is(active, "joinable", ver[a])
        /\ Retry(a)
  /\ UNCHANGED <<etcd, used, history>>

LastCallFreeze(a) ==
  /\ pc[a] = "freeze"
  /\ \/ /\ Swap(a)
        /\ Forget(a, "peers")
        /\ UNCHANGED used
     \/ SwapFails(a, "lastcall")

\* Write the same value again to renew the TTL, then watch.
LastCallRefresh(a) ==
  /\ pc[a] = "refresh"
  /\ \/ /\ Swap(a)
        /\ Forget(a, "lcwatch")
        /\ UNCHANGED used
     \/ SwapFails(a, "lastcall")

-----------------------------------------------------------------------------
(* wait_for_peers(), confirm_phase(), confirm_membership() and             *)
(* wait_for_final().                                                       *)

WaitForPeers(a) ==
  /\ pc[a] \in {"peers", "peerswatch"}
  /\ \/ /\ Is(active, "frozen", ver[a])
        /\ Forget(a, "confirm")
     \/ /\ Is(active, "joinable", ver[a])
        /\ Forget(a, "peerswatch")
     \/ /\ ~ Is(active, "frozen", ver[a])
        /\ ~ Is(active, "joinable", ver[a])
        /\ Retry(a)
  /\ UNCHANGED <<etcd, used, history>>

ConfirmRead(a) ==
  /\ pc[a] = "confirm"
  /\ \/ /\ Is(active, "frozen", ver[a])
        /\ Keep(a, "keepalive")
     \/ /\ ~ Is(active, "frozen", ver[a])
        /\ Retry(a)
  /\ UNCHANGED <<etcd, used, history>>

\* The keep-alive key is written before the compare-and-swap that lists it.
SetKeepAlive(a) ==
  /\ pc[a] = "keepalive"
  /\ leases' = leases \cup {<<ver[a], rank[a]>>}
  /\ GoTo(a, "confirmcas")
  /\ UNCHANGED <<active, ephemeral, counter, snap, ver, rank, renewing, used,
                 history>>

\* The last agent to confirm makes the state final and permanent.  The lease
\* thread ends at once if the key has run out in the meantime.
ConfirmSwap(a) ==
  /\ pc[a] = "confirmcas"
  /\ \/ /\ Swap(a)
        /\ LET key == <<ver[a], rank[a]>>
           IN renewing' = [renewing EXCEPT ![a] = IF key \in leases THEN key
                                                                    ELSE NoKey]
        /\ snap' = [snap EXCEPT ![a] = Absent]
        /\ GoTo(a, "final")
        /\ UNCHANGED <<ver, rank, used>>
     \/ SwapFails(a, "confirm")

\* On success rendezvous_barrier() returns (version, rank, world size).
WaitForFinal(a) ==
  /\ pc[a] \in {"final", "finalwatch"}
  /\ \/ /\ Is(active, "final", ver[a])
        /\ GoTo(a, "member")
        /\ granted' = granted \cup
             {[agent |-> a, version |-> ver[a], rank |-> rank[a],
               size |-> active.participants]}
        /\ UNCHANGED <<snap, ver, rank, renewing>>
     \/ /\ Is(active, "frozen", ver[a])
        /\ Forget(a, "finalwatch")
        /\ UNCHANGED granted
     \/ /\ ~ Is(active, "frozen", ver[a])
        /\ ~ Is(active, "final", ver[a])
        /\ Retry(a)
        /\ UNCHANGED granted
  /\ UNCHANGED <<etcd, used, published>>

-----------------------------------------------------------------------------
(* handle_existing_rendezvous(): announce_self_waiting() and               *)
(* wait_for_rendezvous_to_free().                                          *)

AnnounceRead(a) ==
  /\ pc[a] = "announce"
  /\ \/ /\ Is(active, "final", ver[a])
        /\ Keep(a, "announcecas")
     \/ /\ ~ Is(active, "final", ver[a])
        /\ Retry(a)
  /\ UNCHANGED <<etcd, used, history>>

\* At the bound MaxWaiting the request fails, as in RequestFails below.
AnnounceSwap(a) ==
  /\ pc[a] = "announcecas"
  /\ \/ /\ snap[a].waiting < MaxWaiting
        /\ Swap(a)
        /\ Forget(a, "free")
        /\ UNCHANGED used
     \/ /\ snap[a].waiting >= MaxWaiting
        /\ Retry(a)
        /\ UNCHANGED <<etcd, used, history>>
     \/ SwapFails(a, "announce")

FreeRead(a) ==
  /\ pc[a] \in {"free", "freewatch"}
  /\ \/ /\ Is(active, "final", ver[a])
        /\ Keep(a, "freecheck")
     \/ /\ ~ Is(active, "final", ver[a])
        /\ Retry(a)
  /\ UNCHANGED <<etcd, used, history>>

\* A keep-alive key listed in state s of version v does not exist.
Incomplete(s, v) == \E r \in s.keep_alives : <<v, r>> \notin leases

FreeCheck(a) ==
  /\ pc[a] = "freecheck"
  /\ \/ /\ Incomplete(snap[a], ver[a])
        /\ GoTo(a, "delete")
        /\ UNCHANGED <<snap, ver, rank, renewing>>
     \/ /\ ~ Incomplete(snap[a], ver[a])
        /\ Forget(a, "freewatch")
  /\ UNCHANGED <<etcd, used, history>>

\* Faulty variant: the state is deleted whatever it is by now.
DeleteBlindly(a) ==
  /\ pc[a] = "delete"
  /\ active' = Absent
  /\ ephemeral' = FALSE
  /\ Retry(a)
  /\ UNCHANGED <<counter, leases, used, history>>

\* Compare-and-delete; a failed comparison is an exception, hence a retry.
FreeDelete(a) ==
  /\ pc[a] = "delete"
  /\ \/ /\ active = snap[a]
        /\ active' = Absent
        /\ ephemeral' = FALSE
     \/ /\ active # snap[a]
        /\ UNCHANGED <<active, ephemeral>>
  /\ Retry(a)
  /\ UNCHANGED <<counter, leases, used, history>>

-----------------------------------------------------------------------------
(* shutdown(): set_closed(), after which the process exits.  The launcher  *)
(* calls it whether the agent returned or raised.                          *)

Shutdown(a) ==
  /\ pc[a] \in {"member"} \cup Raised
  /\ Drop(a, "close")
  /\ UNCHANGED <<etcd, renewing, used, history>>

SetClosedRead(a) ==
  /\ pc[a] = "close"
  /\ \/ /\ active.status \in {"none", "closed"}
        /\ Exit(a)
     \/ /\ active.status \notin {"none", "closed"}
        /\ Keep(a, "closecas")
  /\ UNCHANGED <<etcd, used, history>>

SetClosedSwap(a) ==
  /\ pc[a] = "closecas"
  /\ \/ /\ Swap(a)
        /\ Exit(a)
     \/ /\ active # snap[a]
        /\ IF active = Absent THEN Exit(a) ELSE Forget(a, "close")
        /\ UNCHANGED <<etcd, history>>
  /\ UNCHANGED used

-----------------------------------------------------------------------------
(* The environment.                                                        *)

\* No live agent would write the key again before its TTL runs out: nobody
\* is completing the setup, leading the last call, or still to confirm.
Abandoned ==
  CASE active.status = "setup" -> \A a \in Agents : pc[a] \notin Creating
    [] active.status = "joinable" ->
         \A a \in Agents : pc[a] \in LastCall => ver[a] # active.version
    [] active.status = "frozen" ->
         \E r \in 0 .. active.participants - 1 \ active.keep_alives :
           \A a \in Agents :
             pc[a] \in Unconfirmed => <<ver[a], rank[a]>> # <<active.version, r>>
    [] OTHER -> FALSE

ExpireKey ==
  /\ ephemeral
  /\ active' = Absent
  /\ ephemeral' = FALSE
  /\ UNCHANGED <<counter, leases, local, calls, crashes, faults, history>>

ExpireAbandoned == Abandoned /\ ExpireKey /\ UNCHANGED lapses

\* The key runs out under an agent that is too slow to renew it.
ActiveLapses ==
  /\ ~Abandoned
  /\ lapses < MaxLapses
  /\ lapses' = lapses + 1
  /\ ExpireKey

\* A live agent renews the keep-alive key, or is about to.
Renewed(key) ==
  \E a \in Agents :
    \/ renewing[a] = key
    \/ /\ pc[a] \in {"confirm", "keepalive", "confirmcas"}
       /\ key = <<ver[a], rank[a]>>

\* The key is gone; a lease thread that refreshes it gets EtcdKeyNotFound
\* and ends.
ExpireLease(key) ==
  /\ key \in leases
  /\ leases' = leases \ {key}
  /\ renewing' = [a \in Agents |-> IF renewing[a] = key THEN NoKey
                                                        ELSE renewing[a]]
  /\ UNCHANGED <<active, ephemeral, counter, pc, snap, ver, rank,
                 calls, crashes, faults, history>>

LeaseExpires(key) == ~Renewed(key) /\ ExpireLease(key) /\ UNCHANGED lapses

LeaseLapses(key) ==
  /\ Renewed(key)
  /\ lapses < MaxLapses
  /\ lapses' = lapses + 1
  /\ ExpireLease(key)

\* The process dies; NextRendezvous models its relaunch.
Crash(a) ==
  /\ Live(a)
  /\ crashes < MaxCrashes
  /\ crashes' = crashes + 1
  /\ Exit(a)
  /\ UNCHANGED <<etcd, calls, lapses, faults, history>>

\* One request of the barrier or of set_closed() goes wrong.
Fault == faults < MaxFaults /\ faults' = faults + 1 /\ UNCHANGED <<calls, crashes, lapses>>

\* An etcd exception nobody expects: the barrier starts over, shutdown()
\* gives up.
Fails(a) == IF pc[a] \in Closing THEN Exit(a) ELSE Retry(a)

\* The request never reaches etcd.
RequestFails(a) ==
  /\ pc[a] \in Barrier \cup Closing
  /\ Fault
  /\ Fails(a)
  /\ UNCHANGED <<etcd, history>>

\* etcd executes the compare-and-swap, the agent only sees an exception.
ReplyLost(a) ==
  /\ pc[a] \in Swapping
  /\ Fault
  /\ Swap(a)
  /\ Fails(a)

\* With several etcd servers the client (allow_reconnect=True) sends the
\* request again to the next one, which finds that the comparison fails.  For
\* publish that is ReplyLost, and a refresh succeeds twice.
RequestResent(a) ==
  /\ Resend
  /\ pc[a] \in Swapping \ {"publish", "refresh"}
  /\ Fault
  /\ Swap(a)
  /\ Forget(a, CASE pc[a] = "joincas"     -> "join"
                 [] pc[a] = "freeze"      -> "lastcall"
                 [] pc[a] = "confirmcas"  -> "confirm"
                 [] pc[a] = "announcecas" -> "announce"
                 [] OTHER                 -> "close")

\* The lease thread catches EtcdKeyNotFound only: it dies of anything else.
LeaseThreadDies(a) ==
  /\ renewing[a] # NoKey
  /\ Fault
  /\ renewing' = [renewing EXCEPT ![a] = NoKey]
  /\ UNCHANGED <<etcd, pc, snap, ver, rank, history>>

-----------------------------------------------------------------------------
Attempt(a) ==
  \/ TryCreate(a) \/ ObserveExisting(a)
  \/ ReadVersionCounter(a) \/ UpdateVersionCounter(a) \/ PublishJoinable(a)
  \/ JoinRead(a) \/ JoinSwap(a)
  \/ LastCallRead(a) \/ LastCallFreeze(a) \/ LastCallRefresh(a)
  \/ WaitForPeers(a) \/ ConfirmRead(a) \/ SetKeepAlive(a)
  \/ ConfirmSwap(a) \/ WaitForFinal(a)
  \/ AnnounceRead(a) \/ AnnounceSwap(a)
  \/ FreeRead(a) \/ FreeCheck(a) \/ FreeDelete(a)

Close(a) == SetClosedRead(a) \/ SetClosedSwap(a)

Environment ==
  \/ ExpireAbandoned \/ ActiveLapses
  \/ \E key \in leases : LeaseExpires(key) \/ LeaseLapses(key)
  \/ \E a \in Agents :
       \/ Crash(a) \/ RequestFails(a) \/ ReplyLost(a) \/ RequestResent(a)
       \/ LeaseThreadDies(a)

Next ==
  \/ \E a \in Agents : \/ NextRendezvous(a) \/ Attempt(a) \/ Timeout(a)
                    \/ Shutdown(a) \/ Close(a)
  \/ Environment

Spec == Init /\ [][Next]_vars

-----------------------------------------------------------------------------
(* Fairness.  A live agent keeps executing; a TTL nobody renews runs out;  *)
(* the clock of the agent that leads the last call reaches its deadline.   *)

Progress ==
  /\ \A a \in Agents : /\ WF_vars(Attempt(a))
                       /\ WF_vars(Close(a))
                       /\ SF_vars(LastCallRead(a) /\ pc'[a] = "freeze")
  /\ WF_vars(ExpireAbandoned)
  /\ WF_vars(\E key \in leases : LeaseExpires(key))

FairSpec == Spec /\ Progress

\* Time passes as well: an agent that keeps looking at the clock sees the
\* deadline pass.
TimePasses == \A a \in Agents : SF_vars(Timeout(a))

-----------------------------------------------------------------------------
(* What the barrier promises.                                              *)

Grants == [agent: Agents, version: Nat, rank: Nat, size: Nat]

TypeOK ==
  /\ active \in Values
  /\ ephemeral \in BOOLEAN
  /\ counter \in Nat
  /\ leases \subseteq Keys
  /\ pc \in [Agents -> Places]
  /\ snap \in [Agents -> Values]
  /\ ver \in [Agents -> Nat]
  /\ rank \in [Agents -> Nat]
  /\ renewing \in [Agents -> Keys \cup {NoKey}]
  /\ calls \in Nat /\ crashes \in Nat /\ lapses \in Nat /\ faults \in Nat
  /\ published \subseteq Nat
  /\ granted \subseteq Grants

\* Consistency: the calls that return the same version agree on the world
\* size, every rank is below it, and no rank is handed out twice, whatever
\* crashed, expired or was retried while the members joined.
Consistency ==
  \A g, h \in granted :
    /\ g.rank < g.size
    /\ g.version = h.version =>
         /\ g.size = h.size
         /\ g.rank = h.rank => g = h

\* A final state has between num_min_workers and num_max_workers members and
\* lists the keep-alive key of each of them: confirm_membership() counts the
\* keys, it never compares them with the participants.
FinalQuorum ==
  active.status = "final" =>
    /\ active.participants \in MinWorkers .. MaxWorkers
    /\ active.keep_alives = 0 .. active.participants - 1

\* The assertion in join_rendezvous(): a joinable state has space left.
JoinableHasSpace ==
  active.status = "joinable" => active.participants < MaxWorkers

\* Every agent that waits in wait_for_rendezvous_to_free() is counted in
\* num_workers_waiting, which is what makes the members start over.
LateWorkersCounted ==
  active.status = "final" =>
    Cardinality({a \in Agents : pc[a] \in Freeing /\ ver[a] = active.version})
      <= active.waiting

\* All keep-alive keys of the group that g belongs to exist.
Complete(g) == \A r \in 0 .. g.size - 1 : <<g.version, r>> \in leases

\* Exclusivity as far as the code can give it: of two groups that were
\* formed, at most one still has all its keep-alive keys, so a group is
\* replaced only after one of its members stopped renewing.
OneCompleteGroup ==
  \A g, h \in granted : Complete(g) /\ Complete(h) => g.version = h.version

\* Once closed the state never changes again and no call returns a group.
ClosedForever ==
  [][active.status = "closed" => active' = active /\ granted' = granted]_vars

\* What the agents see of active_version.
GroupFormed == active.status = "final"
GroupStatus == IF active.status \in {"final", "closed"} THEN active.status ELSE "free"
GroupVersion == IF GroupFormed THEN active.version ELSE 0
GroupSize == IF GroupFormed THEN active.participants ELSE 0
GroupWaiting == IF GroupFormed THEN active.waiting ELSE 0
GroupWhole ==
  GroupFormed /\ \A r \in 0 .. active.participants - 1 : <<active.version, r>> \in leases

\* What the agents build on, as RendezvousPromise has it: the requests of the
\* barrier are steps between forming groups, announcing, losing a member,
\* dissolving and closing, or none at all.
Promise ==
  INSTANCE RendezvousPromise WITH
    status  <- GroupStatus,
    version <- GroupVersion,
    size    <- GroupSize,
    waiting <- GroupWaiting,
    whole   <- GroupWhole,
    granted <- granted

BarrierPromise == Promise!Spec

\* No version number is published twice, although a creator whose setup key
\* expired can publish over the setup key of another creator.
VersionsUnique ==
  [][active'.status = "joinable" /\ active.status # "joinable"
       => active'.version \notin published]_vars

\* With time passing, no call of next_rendezvous() lasts forever: the loops
\* around a compare-and-swap never look at the deadline.
BarrierTerminates ==
  TimePasses => \A a \in Agents : []<>(pc[a] \notin Barrier)

\* An agent in the barrier learns that the rendezvous was closed without
\* waiting for its deadline, wherever it waits.
ClosedPropagates ==
  \A a \in Agents : []<>~(active.status = "closed" /\ pc[a] \in Barrier)

\* Enough agents wait in the barrier and nothing is formed or closed.
Stalled ==
  /\ Cardinality({a \in Agents : pc[a] \in Barrier}) >= MinWorkers
  /\ \A a \in Agents : pc[a] # "member"
  /\ active.status # "closed"

\* Fault tolerance: however an agent crashed, the healthy ones that remain in
\* the barrier, if they are enough, form a group without anyone timing out.
RecoversFromCrash == []<>~Stalled

-----------------------------------------------------------------------------
(* The inductive invariant behind the safety properties.                   *)

Open == {"joinable", "frozen", "final"}

\* What an agent holds of the state it read is what it checked.
SnapshotOK(a) ==
  /\ pc[a] = "publish" => snap[a] = Setup
  /\ pc[a] = "joincas" => /\ Is(snap[a], "joinable", ver[a])
                          /\ snap[a].participants < MaxWorkers
  /\ pc[a] \in {"freeze", "refresh"} => Is(snap[a], "joinable", ver[a])
  /\ pc[a] \in {"keepalive", "confirmcas"} => Is(snap[a], "frozen", ver[a])
  /\ pc[a] \in {"announcecas", "freecheck", "delete"} =>
       Is(snap[a], "final", ver[a])
  /\ pc[a] = "closecas" => snap[a].status \notin {"none", "closed"}

SnapshotInv == \A a \in Agents : SnapshotOK(a)

\* Only a state that is being worked on can expire.
ActiveInv ==
  /\ ephemeral => active.status \in {"setup", "joinable", "frozen"}
  /\ active.status = "joinable" => active.participants < MaxWorkers
  /\ active.status \in Open => active.version \in published

\* A version about to be published is new and nobody else's.
VersionInv ==
  /\ \A v \in published : v <= counter
  /\ \A a \in Agents :
       /\ pc[a] = "publish" => ver[a] <= counter /\ ver[a] \notin published
       /\ pc[a] \in HasRank => ver[a] \in published
       /\ \A b \in Agents :
            pc[a] = "publish" /\ pc[b] = "publish" /\ ver[a] = ver[b] => a = b

\* A rank taken in a version is taken by one agent, below the number of
\* participants while the version is open.
RankInv ==
  \A a \in Agents : pc[a] \in HasRank =>
    /\ active.status \in Open /\ active.version = ver[a] =>
         rank[a] < active.participants
    /\ \A b \in Agents :
         /\ pc[b] \in HasRank
         /\ ver[a] = ver[b]
         /\ rank[a] = rank[b]
         => a = b

\* A group that was returned is closed to everyone else.
GrantInv ==
  \A g \in granted :
    /\ g.version \in published
    /\ active.status \in Open /\ active.version = g.version =>
         active.status = "final" /\ active.participants = g.size
    /\ \A a \in Agents :
         pc[a] \in HasRank /\ ver[a] = g.version => rank[a] # g.rank

Inv ==
  /\ TypeOK /\ SnapshotInv /\ ActiveInv /\ VersionInv /\ RankInv /\ GrantInv
  /\ Consistency

\* While requests are not resent, the keep-alive keys listed are counted
\* right, an agent that has not confirmed is not listed, and the agent that
\* leads the last call arrived as number num_min_workers.
ConfirmInv ==
  /\ active.status \in {"frozen", "final"} =>
       /\ active.participants \in MinWorkers .. MaxWorkers
       /\ active.keep_alives \subseteq 0 .. active.participants - 1
       /\ active.confirms = Cardinality(active.keep_alives)
  /\ active.status = "final" => active.confirms = active.participants
  /\ \A a \in Agents :
       /\ pc[a] \in LastCall => rank[a] + 1 = MinWorkers
       /\ /\ pc[a] \in Unconfirmed
          /\ active.status \in {"frozen", "final"}
          /\ active.version = ver[a]
          => rank[a] \notin active.keep_alives

\* An agent came too late for the version it waits for.
Late == {"announce", "announcecas"} \cup Freeing

\* A version somebody came too late for is final, closed or gone, and the
\* agents that announced themselves while it is final are counted.
LateInv ==
  /\ \A a \in Agents : pc[a] \in Late =>
       /\ ver[a] \in published
       /\ active.status \in {"joinable", "frozen"} => active.version # ver[a]
  /\ LateWorkersCounted

\* The agent that is about to delete a final state still knows which keys it
\* lists and saw one missing that cannot come back.
DissolveInv ==
  \A a \in Agents :
    active.status = "final" /\ active.version = ver[a] =>
      /\ pc[a] \in {"freecheck", "delete"} =>
           snap[a].keep_alives = active.keep_alives
      /\ pc[a] = "delete" => Incomplete(active, active.version)

\* A group that was returned is never confirmed again, and is the current one
\* for as long as all its keep-alive keys exist.
GroupInv ==
  \A g \in granted :
    /\ \A a \in Agents : pc[a] \in Unconfirmed => ver[a] # g.version
    /\ Complete(g) =>
         active.status \in {"final", "closed"} /\ active.version = g.version
=============================================================================
