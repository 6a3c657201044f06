---------------------------- MODULE WorkerRanks ----------------------------
(***************************************************************************)
(* How the agents of a group number their workers: _assign_worker_ranks()  *)
(* of torchelastic/agent/server/api.py.  Every agent has read the roles of *)
(* all the agents from the store and computes the ranks of its own workers *)
(* alone.  A role is a number here: only its order matters.                *)
(***************************************************************************)
EXTENDS Integers, Sequences, FiniteSets

CONSTANTS
  MaxAgents,   \* bound on the number of agents
  Roles,       \* the roles, numbers
  Sizes        \* the values of local_world_size

\* The assertion of WorkerSpec, and roles that can be compared.
ASSUME RanksAssumption ==
  /\ MaxAgents \in Nat
  /\ Roles \subseteq Int
  /\ Sizes \subseteq Nat \ {0}

VARIABLES
  specs,       \* what each agent runs, by group rank, as all of them read it
  created      \* the workers each agent created, or none

ranksVars == <<specs, created>>

\* WorkerSpec: what the ranks depend on.
Info == [role : Roles, size : Sizes]
None == <<>>

\* _RoleInstanceInfo carries the group rank of its agent, from 0.
RoleInfos == [i \in DOMAIN specs |->
                [role |-> specs[i].role, rank |-> i - 1, size |-> specs[i].size]]

-----------------------------------------------------------------------------
\* Faulty variant: the infos are sorted by rank alone.
BeforeByRank(x, y) == x.rank < y.rank

\* _RoleInstanceInfo.compare(): by role, then by rank.
Before(x, y) == x.role < y.role \/ (x.role = y.role /\ x.rank < y.rank)

\* sorted() with that order, which is strict: the order in which the infos
\* are taken is a permutation.
Sorted(rs) ==
  LET order == CHOOSE p \in [DOMAIN rs -> DOMAIN rs] :
                 \A i, j \in DOMAIN rs : i < j => Before(rs[p[i]], rs[p[j]])
  IN  [i \in DOMAIN rs |-> rs[order[i]]]

\* find_role_boundaries(): the first and the last index with that role,
\* counted from 0.
RoleStart(rs, role) ==
  CHOOSE i \in 0 .. Len(rs) - 1 :
    /\ rs[i + 1].role = role
    /\ \A j \in 0 .. i - 1 : rs[j + 1].role # role
RoleEnd(rs, role) ==
  CHOOSE i \in 0 .. Len(rs) - 1 :
    /\ rs[i + 1].role = role
    /\ \A j \in i + 1 .. Len(rs) - 1 : rs[j + 1].role # role

\* The sum of local_world_size over the indices from start up to end - 1.
SizeUpTo(rs, start, end) ==
  LET sum[n \in 0 .. Len(rs)] == IF n <= start THEN 0 ELSE sum[n - 1] + rs[n].size
  IN  sum[end]

\* Faulty variant: the agent's own workers count as predecessors.
RanksAfterOwn(rs, idx, start, end) ==
  LET prefix == SizeUpTo(rs, start, idx + 1)
  IN  [total |-> SizeUpTo(rs, start, end),
       ranks |-> [k \in 1 .. rs[idx + 1].size |-> prefix + k - 1]]

\* _get_ranks(): the total, and the ranks of the workers of the agent at
\* index idx, which come after those of its predecessors.
GetRanks(rs, idx, start, end) ==
  LET prefix == SizeUpTo(rs, start, idx)
  IN  [total |-> SizeUpTo(rs, start, end),
       ranks |-> [k \in 1 .. rs[idx + 1].size |-> prefix + k - 1]]

\* Worker: the k-th of an agent, from 1.
NewWorker(k, global, inRole) ==
  [local_rank |-> k - 1,
   global_rank |-> global.ranks[k],
   role_rank |-> inRole.ranks[k],
   world_size |-> global.total,
   role_world_size |-> inRole.total]

\* _assign_worker_ranks() of the agent with group rank r.
AssignWorkerRanks(r) ==
  LET mine   == RoleInfos[r + 1]
      global == GetRanks(RoleInfos, r, 0, Len(specs))
      sorted == Sorted(RoleInfos)
      pos    == CHOOSE i \in 0 .. Len(sorted) - 1 : sorted[i + 1] = mine
      inRole == GetRanks(sorted, pos, RoleStart(sorted, mine.role),
                         RoleEnd(sorted, mine.role) + 1)
  IN  [k \in 1 .. mine.size |-> NewWorker(k, global, inRole)]

-----------------------------------------------------------------------------
RanksInit ==
  /\ specs \in UNION {[1 .. n -> Info] : n \in 1 .. MaxAgents}
  /\ created = [i \in DOMAIN specs |-> None]

Assign(i) ==
  /\ created[i] = None
  /\ created' = [created EXCEPT ![i] = AssignWorkerRanks(i - 1)]
  /\ UNCHANGED specs

RanksNext == \E i \in DOMAIN specs : Assign(i)

RanksSpec == RanksInit /\ [][RanksNext]_ranksVars

-----------------------------------------------------------------------------
(* All the workers of the group, each known by its agent and local rank.   *)

AllAssigned == \A i \in DOMAIN specs : created[i] # None

Workers == UNION {{<<i, k>> : k \in DOMAIN created[i]} : i \in DOMAIN specs}
Worker(w) == created[w[1]][w[2]]
OfRole(role) == {w \in Workers : specs[w[1]].role = role}

\* The ranks of a set of workers are 0, 1, ... without gaps or repetition,
\* follow the order of agents and local ranks, and agree with the total that
\* each of the workers was told.
Numbered(S, rank(_), total(_)) ==
  /\ {rank(w) : w \in S} = 0 .. Cardinality(S) - 1
  /\ \A w \in S : total(w) = Cardinality(S)
  /\ \A v, w \in S :
       v[1] < w[1] \/ (v[1] = w[1] /\ v[2] < w[2]) => rank(v) < rank(w)

\* Although every agent computes on its own, the global ranks of the group
\* are a numbering of all its workers.
GlobalRanks ==
  AllAssigned =>
    LET rank(w) == Worker(w).global_rank
        total(w) == Worker(w).world_size
    IN  Numbered(Workers, rank, total)

\* The role ranks are a numbering of the workers of each role.
RoleRanks ==
  AllAssigned =>
    \A role \in Roles :
      LET rank(w) == Worker(w).role_rank
          total(w) == Worker(w).role_world_size
      IN  Numbered(OfRole(role), rank, total)
=============================================================================
