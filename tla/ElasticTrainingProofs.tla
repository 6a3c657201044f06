----------------------- MODULE ElasticTrainingProofs -----------------------
(***************************************************************************)
(* Proofs about the training script for any numbers of nodes, workers and  *)
(* epochs, any groups and any failures.                                    *)
(***************************************************************************)
EXTENDS ElasticTraining, FiniteSetTheorems, WellFoundedInduction, TLAPS

-----------------------------------------------------------------------------
(* The most advanced worker.                                               *)

\* A set of numbers has a smallest one.
LEMMA Smallest ==
  ASSUME NEW T \in SUBSET Nat, T # {}
  PROVE  \E x \in T : \A y \in T : x <= y
<1> DEFINE R == OpToRel(<, Nat)
<1>1. IsWellFoundedOn(R, Nat)
  BY NatLessThanWellFounded
<1>2. \A x, y \in Nat : <<y, x>> \in R <=> y < x
  BY DEF OpToRel
<1> HIDE DEF R
<1>3. PICK x \in T : \A y \in T : ~(<<y, x>> \in R)
  BY <1>1, WFMin
<1>4. \A y \in T : x \in Nat /\ y \in Nat /\ ~(y < x)
  BY <1>2, <1>3
<1> QED
  BY <1>3, <1>4

\* A bounded set of numbers has a largest one.
LEMMA Largest ==
  ASSUME NEW n \in Nat, NEW F \in SUBSET (0 .. n), F # {}
  PROVE  \E x \in F : \A y \in F : y <= x
<1> DEFINE T == {n - y : y \in F}
<1>1. T \in SUBSET Nat /\ T # {}
  BY \A y \in F : n - y \in Nat
<1>2. PICK t \in T : \A u \in T : t <= u
  BY <1>1, Smallest
<1>3. PICK x \in F : t = n - x
  BY <1>2
<1>4. \A y \in F : n - x <= n - y
  BY <1>2, <1>3
<1> QED
  BY <1>4

\* The workers and their coordinates.
LEMMA WorkersAre ==
  /\ IsFiniteSet(Workers)
  /\ \A w \in Workers : w[1] \in Nodes /\ w[1] \in Int /\ w[2] \in Int /\ w = <<w[1], w[2]>>
<1>1. NumNodes - 1 \in Int /\ LocalWorldSize - 1 \in Int
  BY TrainingAssumption
<1>2. \A m \in Int : IsFiniteSet(0 .. m)
  BY FS_Interval
<1>3. IsFiniteSet(Nodes) /\ IsFiniteSet(0 .. LocalWorldSize - 1)
  BY <1>1, <1>2 DEF Nodes
<1>4. IsFiniteSet(Workers)
  BY <1>3, FS_Product DEF Workers
<1> QED
  BY <1>4, TrainingAssumption DEF Workers, Nodes

Precedes(v, w) == v[1] < w[1] \/ (v[1] = w[1] /\ v[2] < w[2])

\* Ranks follow the order of the workers of a group.
LEMMA RankLess ==
  ASSUME NEW v \in Workers, NEW w \in Workers, Incarnation(v) = Incarnation(w),
         Precedes(v, w)
  PROVE  Rank(v) \in Nat /\ Rank(w) \in Nat /\ Rank(v) < Rank(w)
<1> DEFINE P(u) == {x \in Peers(u) : Precedes(x, u)}
<1>1. /\ P(v) \subseteq Workers /\ P(w) \subseteq Workers
      /\ Rank(v) = Cardinality(P(v)) /\ Rank(w) = Cardinality(P(w))
  BY DEF Rank, Peers, Precedes
<1>2. IsFiniteSet(P(v)) /\ IsFiniteSet(P(w))
  BY <1>1, WorkersAre, FS_Subset
<1>3. P(v) \subseteq P(w)
  BY WorkersAre DEF Peers, Precedes
<1>4. v \in P(w) /\ v \notin P(v)
  BY WorkersAre DEF Peers, Precedes
<1> HIDE DEF P
<1>5. Cardinality(P(v)) <= Cardinality(P(w)) /\ Cardinality(P(v)) # Cardinality(P(w))
  BY <1>2, <1>3, <1>4, FS_Subset
<1>6. Cardinality(P(v)) \in Nat /\ Cardinality(P(w)) \in Nat
  BY <1>2, FS_CardinalityType
<1> QED
  BY <1>1, <1>5, <1>6

\* A rank is a number, and no two workers of a group have the same.
LEMMA RankUnique ==
  ASSUME NEW v \in Workers, NEW w \in Workers, Incarnation(v) = Incarnation(w)
  PROVE  Rank(v) \in Nat /\ (Rank(v) = Rank(w) => v = w)
<1>1. Rank(v) \in Nat
  <2> DEFINE P == {x \in Peers(v) : Precedes(x, v)}
  <2>1. P \subseteq Workers /\ Rank(v) = Cardinality(P)
    BY DEF Rank, Peers, Precedes
  <2> HIDE DEF P
  <2> QED
    BY <2>1, WorkersAre, FS_Subset, FS_CardinalityType
<1>2. v # w => Precedes(v, w) \/ Precedes(w, v)
  BY WorkersAre DEF Precedes
<1>3. Precedes(v, w) => Rank(v) # Rank(w)
  BY RankLess
<1>4. Precedes(w, v) => Rank(v) # Rank(w)
  BY RankLess
<1> QED
  BY <1>1, <1>2, <1>3, <1>4

\* v is the first of the most advanced workers of the group of w.
IsMax(v, w) ==
  /\ v \in Peers(w)
  /\ \A u \in Peers(w) :
       Epoch(u) < Epoch(v) \/ (Epoch(u) = Epoch(v) /\ Rank(v) <= Rank(u))

\* There is one, and only one.
LEMMA MaxRankIs ==
  ASSUME TypeOK, LengthInv, NEW w \in Workers
  PROVE  /\ IsMax(MaxRank(w), w)
         /\ \A x, y : IsMax(x, w) /\ IsMax(y, w) => x = y
<1> DEFINE L == {Len(model[u]) : u \in Peers(w)}
<1>0. \A u \in Peers(w) : u \in Workers /\ Incarnation(u) = Incarnation(w)
  BY DEF Peers
<1>1. \A u \in Workers : Len(model[u]) \in Nat /\ Len(model[u]) <= Epochs
  BY DEF TypeOK, LengthInv
<1>2. w \in Peers(w) /\ L \in SUBSET (0 .. Epochs) /\ L # {}
  <2>1. w \in Peers(w) /\ Epochs \in Nat
    BY TrainingAssumption DEF Peers
  <2>2. \A u \in Peers(w) : Len(model[u]) \in 0 .. Epochs
    BY <1>0, <1>1, <2>1
  <2> QED
    BY <2>1, <2>2
<1>3. PICK l \in L : \A y \in L : y <= l
  BY <1>2, Largest, TrainingAssumption
<1> DEFINE T == {Rank(u) : u \in {u \in Peers(w) : Len(model[u]) = l}}
<1>4. T \in SUBSET Nat /\ T # {}
  BY <1>0, <1>3, RankUnique
<1>5. PICK t \in T : \A y \in T : t <= y
  BY <1>4, Smallest
<1>6. PICK m \in Peers(w) : Len(model[m]) = l /\ t = Rank(m)
  BY <1>5
<1>7. IsMax(m, w)
  <2> SUFFICES ASSUME NEW u \in Peers(w)
               PROVE  Epoch(u) < Epoch(m) \/ (Epoch(u) = Epoch(m) /\ Rank(m) <= Rank(u))
    BY <1>6 DEF IsMax
  <2>1. Len(model[u]) <= l /\ Len(model[u]) \in Nat /\ l \in Nat
    BY <1>0, <1>1, <1>3, <1>6
  <2>2. Len(model[u]) = l => Rank(m) <= Rank(u)
    BY <1>5, <1>6
  <2> HIDE DEF L, T
  <2> QED
    BY <1>6, <2>1, <2>2 DEF Epoch
<1>8. IsMax(MaxRank(w), w)
  BY <1>7 DEF IsMax, MaxRank
<1>9. ASSUME NEW x, NEW y, IsMax(x, w), IsMax(y, w) PROVE x = y
  <2>1. /\ x \in Workers /\ y \in Workers
        /\ Incarnation(x) = Incarnation(w) /\ Incarnation(y) = Incarnation(w)
        /\ x \in Peers(w) /\ y \in Peers(w)
    BY <1>0, <1>9 DEF IsMax
  <2>2. /\ Len(model[x]) \in Nat /\ Len(model[y]) \in Nat
        /\ Rank(x) \in Nat /\ Rank(y) \in Nat
    BY <1>1, <2>1, RankUnique
  <2>3. Rank(x) = Rank(y)
    <3>1. Epoch(x) \in Int /\ Epoch(y) \in Int
      BY <2>2 DEF Epoch
    <3>2. Epoch(y) < Epoch(x) \/ (Epoch(y) = Epoch(x) /\ Rank(x) <= Rank(y))
      BY <1>9, <2>1 DEF IsMax
    <3>3. Epoch(x) < Epoch(y) \/ (Epoch(x) = Epoch(y) /\ Rank(y) <= Rank(x))
      BY <1>9, <2>1 DEF IsMax
    <3> QED
      BY <2>2, <3>1, <3>2, <3>3
  <2> QED
    BY <2>1, <2>3, RankUnique
<1> QED
  BY <1>8, <1>9

-----------------------------------------------------------------------------
(* What a step leaves of a group.                                          *)

\* The part of the invariant that is about the weights.
WeightsOK == GroupInv /\ LengthInv /\ AgreeInv /\ AheadInv /\ SameWeights

\* A step of worker w, which goes on at a label.
Local(w, label) == UNCHANGED <<members, group>> /\ Goto(w, label)

\* Groups and ranks do not depend on where the workers are.
LEMMA SameGroups ==
  ASSUME UNCHANGED <<members, group>>
  PROVE  \A v \in Workers :
           /\ Incarnation(v)' = Incarnation(v) /\ Peers(v)' = Peers(v)
           /\ Rank(v)' = Rank(v)
<1>1. \A v : Incarnation(v)' = Incarnation(v)
  BY DEF Incarnation
<1>2. \A v : Peers(v)' = Peers(v)
  BY <1>1 DEF Peers
<1>3. \A v : Rank(v)' = Rank(v)
  BY <1>2 DEF Rank
<1> QED
  BY <1>1, <1>2, <1>3

\* A group that is complete was complete before.
LEMMA LocalEffect ==
  ASSUME TypeOK, NEW w \in Workers, NEW label \in Labels, Local(w, label),
         pc[w] # "none"
  PROVE  /\ pc'[w] = label /\ \A v \in Workers : v # w => pc'[v] = pc[v]
         /\ pc' \in [Workers -> Labels]
         /\ \A v \in Workers : Complete(v)' => Complete(v)
         /\ \A v \in Workers : v # w => (Training(v)' <=> Training(v))
<1>1. /\ pc'[w] = label /\ \A v \in Workers : v # w => pc'[v] = pc[v]
      /\ pc' \in [Workers -> Labels]
  BY DEF TypeOK, Local, Goto
<1>2. \A v \in Workers : v # w => (Training(v)' <=> Training(v))
  BY <1>1 DEF Training
<1>3. ASSUME NEW v \in Workers, Complete(v)' PROVE Complete(v)
  <2>1. \A u \in Workers : pc'[u] # "none" => pc[u] # "none"
    BY <1>1
  <2>2. /\ Incarnation(v)' = Incarnation(v) /\ Peers(v)' = Peers(v)
        /\ Peers(v) \subseteq Workers /\ UNCHANGED <<members, group>>
    BY SameGroups DEF Local, Peers
  <2>3. /\ \A n \in members'[Incarnation(v)'] : group'[n] = Incarnation(v)'
        /\ \A u \in Peers(v)' : pc'[u] # "none"
    BY <1>3 DEF Complete
  <2> QED
    BY <2>1, <2>2, <2>3 DEF Complete
<1> QED
  BY <1>1, <1>2, <1>3

\* A node that has workers in a group is a member of it.
LEMMA LocalGroup ==
  ASSUME TypeOK, GroupInv, NEW w \in Workers, NEW label \in Labels, Local(w, label),
         pc[w] # "none"
  PROVE  GroupInv'
<1>1. UNCHANGED <<members, group>> /\ \A v \in Workers : pc[v] = "none" => pc'[v] = "none"
  BY LocalEffect DEF Local
<1>2. \A v \in Workers : Incarnation(v)' = Incarnation(v)
  BY <1>1, SameGroups
<1> QED
  BY <1>1, <1>2 DEF GroupInv

\* A step of a worker in training that leaves its weights alone.
LEMMA QuietStep ==
  ASSUME TypeOK, WeightsOK, NEW w \in Workers, Training(w),
         NEW label \in Labels \ {"none", "load", "reduce"},
         label = "train" => Len(model[w]) < Epochs,
         Local(w, label), UNCHANGED model
  PROVE  WeightsOK'
<1>0. GroupInv /\ LengthInv /\ AgreeInv /\ AheadInv /\ SameWeights
  BY DEF WeightsOK
<1>1. /\ pc'[w] = label /\ \A v \in Workers : v # w => pc'[v] = pc[v]
      /\ \A v \in Workers : Complete(v)' => Complete(v)
      /\ \A v \in Workers : Training(v)' <=> Training(v)
  BY LocalEffect DEF Training
<1>2. UNCHANGED <<members, group>>
  BY DEF Local
<1>3. \A v \in Workers : /\ Incarnation(v)' = Incarnation(v) /\ Peers(v)' = Peers(v)
                         /\ Rank(v)' = Rank(v) /\ Epoch(v)' = Epoch(v)
  BY <1>2, SameGroups DEF Epoch
<1>4. \A v \in Workers : MaxRank(v)' = MaxRank(v)
  <2> SUFFICES ASSUME NEW v \in Workers PROVE MaxRank(v)' = MaxRank(v)
    OBVIOUS
  <2>1. \A u : Epoch(u)' = Epoch(u) /\ Rank(u)' = Rank(u) /\ Peers(u)' = Peers(u)
    BY <1>2 DEF Epoch, Rank, Peers, Incarnation
  <2> QED
    BY <2>1 DEF MaxRank
<1>5. \A v \in Workers : pc'[v] \in {"load", "reduce"} => pc'[v] = pc[v]
  BY <1>1
<1>6. GroupInv'
  BY <1>0, LocalGroup DEF Training
<1>7. LengthInv'
  BY <1>0, <1>1 DEF LengthInv
<1>8. AgreeInv'
  <2> SUFFICES ASSUME NEW u \in Workers, NEW v \in Workers,
                      Incarnation(u)' = Incarnation(v)', Training(u)', Complete(u)'
               PROVE  /\ pc'[v] # "load"
                      /\ pc'[v] = "reduce" => model'[u] = (model[MaxRank(u)])'
    BY DEF AgreeInv
  <2>1. Incarnation(u) = Incarnation(v) /\ Training(u) /\ Complete(u)
    BY <1>1, <1>3
  <2>2. pc[v] # "load" /\ (pc[v] = "reduce" => model[u] = model[MaxRank(u)])
    BY <1>0, <2>1 DEF AgreeInv
  <2> QED
    BY <1>4, <1>5, <2>2
<1>9. AheadInv'
  BY <1>0, <1>1, <1>3 DEF AheadInv
<1>10. SameWeights'
  BY <1>0, <1>1, <1>3 DEF SameWeights
<1> QED
  BY <1>6, <1>7, <1>8, <1>9, <1>10 DEF WeightsOK

\* A worker that loads, or fails, is not in training.
LEMMA OutsideStep ==
  ASSUME TypeOK, WeightsOK, NEW w \in Workers, NEW label \in Labels,
         \/ label = "none" /\ pc[w] # "none"
         \/ label = "reduce" /\ pc[w] = "load",
         NEW weights \in Seq(Nat), Len(weights) <= Epochs,
         Local(w, label), model' = [model EXCEPT ![w] = weights]
  PROVE  WeightsOK'
<1>0. GroupInv /\ LengthInv /\ AgreeInv /\ AheadInv /\ SameWeights
  BY DEF WeightsOK
<1>1. /\ pc'[w] = label /\ \A v \in Workers : v # w => pc'[v] = pc[v]
      /\ \A v \in Workers : Complete(v)' => Complete(v)
      /\ \A v \in Workers : v # w => (Training(v)' <=> Training(v))
      /\ ~Training(w)'
  BY LocalEffect DEF Training
<1>2. UNCHANGED <<members, group>>
  BY DEF Local
<1>3. \A v \in Workers : Incarnation(v)' = Incarnation(v) /\ Peers(v)' = Peers(v)
  BY <1>2, SameGroups
<1>4. model'[w] = weights /\ \A v \in Workers : v # w => model'[v] = model[v]
  BY DEF TypeOK
<1>5. GroupInv'
  BY <1>0, LocalGroup
<1>6. LengthInv'
  BY <1>0, <1>1, <1>4 DEF LengthInv
<1>7. AgreeInv'
  <2> SUFFICES ASSUME NEW u \in Workers, NEW v \in Workers,
                      Incarnation(u)' = Incarnation(v)', Training(u)', Complete(u)'
               PROVE  /\ pc'[v] # "load"
                      /\ pc'[v] = "reduce" => model'[u] = (model[MaxRank(u)])'
    BY DEF AgreeInv
  <2>1. Incarnation(u) = Incarnation(v) /\ Training(u) /\ Complete(u) /\ u # w
    BY <1>1, <1>3
  <2>2. \A x \in Peers(u) : pc[x] # "load" /\ pc'[x] # "none"
    BY <1>0, <1>3, <2>1 DEF AgreeInv, Complete, Peers
  <2>3. w \notin Peers(u)
    BY <1>1, <2>2
  <2>4. v # w /\ pc[v] # "load" /\ (pc[v] = "reduce" => model[u] = model[MaxRank(u)])
    BY <1>0, <2>1, <2>3 DEF AgreeInv, Peers
  <2>5. MaxRank(u)' = MaxRank(u) /\ (MaxRank(u))' # w
    <3>1. /\ Peers(u)' = Peers(u) /\ Peers(u) \subseteq Workers
          /\ \A x \in Peers(u) : Epoch(x)' = Epoch(x) /\ Rank(x)' = Rank(x)
      BY <1>2, <1>4, <2>3, SameGroups DEF Epoch, Peers
    <3>2. MaxRank(u)' = MaxRank(u)
      BY <3>1 DEF MaxRank
    <3>3. MaxRank(u) \in Peers(u)
      BY <1>0, MaxRankIs DEF IsMax
    <3> QED
      BY <2>3, <3>2, <3>3
  <2>6. MaxRank(u) \in Workers
    BY <1>0, MaxRankIs DEF IsMax, Peers
  <2> QED
    BY <1>1, <1>4, <2>1, <2>4, <2>5, <2>6
<1>8. AheadInv'
  BY <1>0, <1>1, <1>3, <1>4 DEF AheadInv
<1>9. SameWeights'
  BY <1>0, <1>1, <1>3, <1>4 DEF SameWeights, Epoch
<1> QED
  BY <1>5, <1>6, <1>7, <1>8, <1>9 DEF WeightsOK

\* What the invariant says of two workers of one group.
Pair(u, v) ==
  /\ Training(u) /\ Complete(u) =>
       pc[v] # "load" /\ (pc[v] = "reduce" => model[u] = model[MaxRank(u)])
  /\ Training(u) /\ Training(v) /\ Complete(u) =>
       /\ Len(model[u]) <= Len(model[v]) + 1
       /\ Len(model[u]) = Len(model[v]) + 1 => model[u] = Append(model[v], Incarnation(v))
  /\ Training(u) /\ Training(v) /\ Epoch(u) = Epoch(v) => model[u] = model[v]

LEMMA Pairs ==
  (AgreeInv /\ AheadInv /\ SameWeights) <=>
     \A u, v \in Workers : Incarnation(u) = Incarnation(v) => Pair(u, v)
  BY DEF AgreeInv, AheadInv, SameWeights, Pair

LEMMA PairsNext ==
  (AgreeInv' /\ AheadInv' /\ SameWeights') <=>
     \A u, v \in Workers : Incarnation(u)' = Incarnation(v)' => Pair(u, v)'
  BY DEF AgreeInv, AheadInv, SameWeights, Pair

\* Workers of other groups do not notice a step.
LEMMA OtherGroups ==
  ASSUME TypeOK, WeightsOK, NEW w \in Workers, NEW label \in Labels, pc[w] # "none",
         NEW weights, Local(w, label), model' = [model EXCEPT ![w] = weights],
         NEW u \in Workers, NEW v \in Workers, Incarnation(u) = Incarnation(v),
         Incarnation(u) # Incarnation(w)
  PROVE  Pair(u, v)'
<1>0. Pair(u, v) /\ LengthInv
  BY Pairs DEF WeightsOK
<1>1. /\ pc'[v] = pc[v] /\ (Training(u)' <=> Training(u)) /\ (Training(v)' <=> Training(v))
      /\ Complete(u)' => Complete(u)
  BY LocalEffect
<1>2. UNCHANGED <<members, group>>
  BY DEF Local
<1>3. model'[u] = model[u] /\ model'[v] = model[v]
  BY DEF TypeOK
<1>4. /\ Peers(u)' = Peers(u) /\ Peers(u) \subseteq Workers /\ w \notin Peers(u)
      /\ Incarnation(v)' = Incarnation(v) /\ \A x \in Peers(u) : Rank(x)' = Rank(x)
  BY <1>2, SameGroups DEF Peers
<1>5. \A x \in Peers(u) : model'[x] = model[x]
  BY <1>4 DEF TypeOK
<1>6. \A x \in Peers(u) : Epoch(x)' = Epoch(x)
  BY <1>5 DEF Epoch
<1>7. MaxRank(u)' = MaxRank(u) /\ MaxRank(u) \in Peers(u)
  <2>1. MaxRank(u)' = MaxRank(u)
    BY <1>4, <1>6 DEF MaxRank
  <2> QED
    BY <1>0, <2>1, MaxRankIs DEF IsMax
<1>8. (model[MaxRank(u)])' = model[MaxRank(u)]
  BY <1>5, <1>7
<1> QED
  BY <1>0, <1>1, <1>3, <1>4, <1>8 DEF Pair, Epoch

\* The workers of a group agree about it.
LEMMA OneGroup ==
  ASSUME NEW u \in Workers, NEW w \in Workers, Incarnation(u) = Incarnation(w)
  PROVE  /\ Peers(u) = Peers(w) /\ (Complete(u) <=> Complete(w)) /\ MaxRank(u) = MaxRank(w)
<1>1. Peers(u) = Peers(w)
  BY DEF Peers
<1> QED
  BY <1>1 DEF Complete, MaxRank

\* load_checkpoint() gives a worker the state that the others get.
LEMMA RestoreStep ==
  ASSUME TypeOK, WeightsOK, NEW w \in Workers, Restore(w)
  PROVE  WeightsOK' /\ model[MaxRank(w)] \in Seq(Nat) /\ pc' \in [Workers -> Labels]
         /\ Len(model[w]) <= Len(model[MaxRank(w)])
<1> SUFFICES ASSUME NEW m, m = MaxRank(w)
             PROVE  /\ WeightsOK' /\ model[m] \in Seq(Nat) /\ pc' \in [Workers -> Labels]
                    /\ Len(model[w]) <= Len(model[m])
  OBVIOUS
<1> DEFINE label == IF NoCheckpoint(w) THEN NextEpoch(w) ELSE "restored"
           weights == model[m]
<1>0. GroupInv /\ LengthInv /\ AgreeInv /\ AheadInv /\ SameWeights
  BY DEF WeightsOK
<1>1. /\ label \in Labels \ {"none", "load", "reduce"} /\ Local(w, label)
      /\ pc[w] = "reduce" /\ Complete(w) /\ \A x \in Peers(w) : pc[x] # "load"
      /\ model' = [model EXCEPT ![w] = weights]
  BY DEF Restore, Broadcast, Local, NextEpoch, Labels
<1>2. IsMax(m, w)
  BY <1>0, MaxRankIs
<1>3. /\ m \in Peers(w) /\ m \in Workers /\ weights \in Seq(Nat)
      /\ \A x \in Peers(w) : x \in Workers /\ Len(model[x]) \in Nat
  BY <1>2 DEF IsMax, Peers, TypeOK
<1>4. w \in Peers(w) /\ Len(model[w]) <= Len(weights) /\ Len(weights) <= Epochs
  BY <1>0, <1>2, <1>3 DEF IsMax, Epoch, Peers, LengthInv
<1>5. label = "train" => Len(weights) < Epochs
  BY <1>3, <1>4 DEF NoCheckpoint, NextEpoch, Epoch
<1> HIDE DEF label, weights
<1>6. /\ pc'[w] = label /\ \A v \in Workers : v # w => pc'[v] = pc[v]
      /\ pc' \in [Workers -> Labels]
      /\ \A v \in Workers : v # w => (Training(v)' <=> Training(v))
      /\ \A v \in Workers : Complete(v)' => Complete(v)
  BY <1>1, LocalEffect
<1>7. model'[w] = weights /\ \A v \in Workers : v # w => model'[v] = model[v]
  BY <1>1 DEF TypeOK
<1>8. UNCHANGED <<members, group>>
  BY <1>1 DEF Local
<1>9. GroupInv'
  BY <1>0, <1>1, LocalGroup
<1>10. LengthInv'
  BY <1>0, <1>4, <1>5, <1>6, <1>7 DEF LengthInv
<1>11. ASSUME NEW u \in Workers, Incarnation(u) = Incarnation(w), Training(u)'
       PROVE  model'[u] = weights
  <2>1. CASE u = w
    BY <1>7, <2>1
  <2>2. CASE u # w
    <3>1. Training(u) /\ Complete(u) /\ MaxRank(u) = m
      BY <1>1, <1>6, <1>11, <2>2, OneGroup
    <3>2. model[u] = model[MaxRank(u)]
      BY <1>0, <1>1, <1>11, <3>1 DEF AgreeInv
    <3> QED
      BY <1>7, <2>2, <3>1, <3>2 DEF weights
  <2> QED
    BY <2>1, <2>2
<1>12. ASSUME NEW u \in Workers, Incarnation(u) = Incarnation(w)
       PROVE  (model[MaxRank(u)])' = weights
  <2>1. /\ Peers(u)' = Peers(w) /\ \A x \in Peers(w) : Rank(x)' = Rank(x)
        /\ \A x \in Peers(w) : Rank(x) \in Nat
    BY <1>3, <1>8, <1>12, SameGroups, OneGroup, RankUnique DEF Peers
  <2>2. /\ Len(weights) \in Nat
        /\ Epoch(w)' = Len(weights) - 1 /\ Epoch(m)' = Len(weights) - 1
        /\ \A x \in Peers(w) : x # w => Epoch(x)' = Epoch(x)
        /\ Epoch(m) = Len(weights) - 1
    BY <1>3, <1>7 DEF Epoch, weights
  <2>3. \A x \in Peers(w) : /\ Epoch(x) <= Len(weights) - 1 /\ Epoch(x) \in Int
                            /\ Epoch(x) = Len(weights) - 1 => Rank(m) <= Rank(x)
    BY <1>2, <1>3, <2>2 DEF IsMax, Epoch
  <2> DEFINE Best == {y \in Peers(w) : \A x \in Peers(w) :
               Epoch(x)' < Epoch(y)' \/ (Epoch(x)' = Epoch(y)' /\ Rank(y) <= Rank(x))}
  <2>4. \E y \in Best : TRUE
    <3>1. ASSUME NEW x \in Peers(w)
          PROVE  /\ Epoch(x)' \in Int /\ Epoch(x)' <= Len(weights) - 1
                 /\ Epoch(x)' = Len(weights) - 1 => x = w \/ Rank(m) <= Rank(x)
      BY <2>2, <2>3, <3>1
    <3>2. Rank(w) \in Nat /\ Rank(m) \in Nat
      BY <1>3, <1>4, <2>1
    <3>3. CASE Rank(w) <= Rank(m)
      <4>1. ASSUME NEW x \in Peers(w)
            PROVE  \/ Epoch(x)' < Epoch(w)'
                   \/ Epoch(x)' = Epoch(w)' /\ Rank(w) <= Rank(x)
        <5>1. Rank(x) \in Nat
          BY <2>1, <4>1
        <5> QED
          BY <2>2, <3>1, <3>2, <3>3, <4>1, <5>1
      <4> QED
        BY <1>4, <4>1
    <3>4. CASE Rank(m) <= Rank(w)
      <4>1. ASSUME NEW x \in Peers(w)
            PROVE  \/ Epoch(x)' < Epoch(m)'
                   \/ Epoch(x)' = Epoch(m)' /\ Rank(m) <= Rank(x)
        BY <2>2, <3>1, <3>4, <4>1
      <4> QED
        BY <1>3, <4>1
    <3> QED
      BY <3>2, <3>3, <3>4
  <2>7. MaxRank(u)' \in Best
    BY <2>1, <2>4 DEF MaxRank
  <2> SUFFICES ASSUME NEW y, y = MaxRank(u)', y \in Best
               PROVE  model'[y] = weights
    BY <2>7
  <2>8. CASE y = w
    BY <1>7, <2>8
  <2>9. CASE y # w
    <3>1. y \in Peers(w) /\ y \in Workers /\ Epoch(y)' = Epoch(y)
      BY <1>3, <2>2, <2>9
    <3>2. Epoch(m)' < Epoch(y)' \/ (Epoch(m)' = Epoch(y)' /\ Rank(y) <= Rank(m))
      BY <1>3
    <3>3. Epoch(y) = Len(weights) - 1 /\ Rank(y) <= Rank(m)
      BY <2>2, <2>3, <3>1, <3>2
    <3>4. Rank(y) = Rank(m)
      BY <1>3, <2>1, <2>3, <3>1, <3>3
    <3>5. y = m
      BY <1>3, <3>1, <3>4, RankUnique DEF Peers
    <3> QED
      BY <1>7, <2>9, <3>1, <3>5 DEF weights
  <2> QED
    BY <2>8, <2>9
<1>13. ASSUME NEW u \in Workers, NEW v \in Workers, Incarnation(u) = Incarnation(v)
       PROVE  Pair(u, v)'
  <2>1. CASE Incarnation(u) # Incarnation(w)
    BY <1>1, <1>13, <2>1, OtherGroups
  <2>2. CASE Incarnation(u) = Incarnation(w)
    <3>1. v \in Peers(w) /\ pc'[v] # "load"
      BY <1>1, <1>6, <1>13, <2>2 DEF Peers
    <3>2. Len(weights) \in Nat
      BY <1>3
    <3>3. Training(u)' => model'[u] = (model[MaxRank(u)])'
      BY <1>11, <1>12, <2>2
    <3>4. ASSUME Training(u)', Training(v)'
          PROVE  model'[u] = weights /\ model'[v] = weights
      BY <1>11, <1>13, <2>2, <3>4
    <3> QED
      BY <3>1, <3>2, <3>3, <3>4 DEF Pair
  <2> QED
    BY <2>1, <2>2
<1>14. AgreeInv' /\ AheadInv' /\ SameWeights'
  BY <1>8, <1>13, PairsNext, SameGroups
<1> QED
  BY <1>3, <1>4, <1>6, <1>9, <1>10, <1>14 DEF WeightsOK, weights

\* A step of the optimizer over an epoch: all have the same gradients.
LEMMA TrainStep ==
  ASSUME TypeOK, WeightsOK, NEW w \in Workers, Train(w)
  PROVE  WeightsOK' /\ pc' \in [Workers -> Labels] /\ Append(model[w], Incarnation(w)) \in Seq(Nat)
<1> DEFINE weights == Append(model[w], Incarnation(w))
<1>0. GroupInv /\ LengthInv /\ AgreeInv /\ AheadInv /\ SameWeights
  BY DEF WeightsOK
<1>1. /\ Local(w, "validate") /\ pc[w] = "train" /\ Complete(w) /\ Training(w)
      /\ model' = [model EXCEPT ![w] = weights] /\ "validate" \in Labels
      /\ \A v \in Peers(w) : Epoch(v) > Epoch(w) \/ (pc[v] = "train" /\ Epoch(v) = Epoch(w))
  BY DEF Train, Local, Training, Labels
<1>2. /\ model[w] \in Seq(Nat) /\ Incarnation(w) \in Nat /\ weights \in Seq(Nat)
      /\ Len(weights) = Len(model[w]) + 1 /\ Len(weights) <= Epochs
  <2>1. model[w] \in Seq(Nat) /\ Incarnation(w) \in Nat
    BY WorkersAre DEF TypeOK, Incarnation
  <2>2. Len(model[w]) < Epochs
    BY <1>0, <1>1 DEF LengthInv
  <2> QED
    BY <2>1, <2>2, TrainingAssumption
<1> HIDE DEF weights
<1>3. /\ pc'[w] = "validate" /\ \A v \in Workers : v # w => pc'[v] = pc[v]
      /\ pc' \in [Workers -> Labels]
      /\ \A v \in Workers : v # w => (Training(v)' <=> Training(v))
      /\ \A v \in Workers : Complete(v)' => Complete(v)
  BY <1>1, LocalEffect
<1>4. model'[w] = weights /\ \A v \in Workers : v # w => model'[v] = model[v]
  BY <1>1 DEF TypeOK
<1>5. UNCHANGED <<members, group>>
  BY <1>1 DEF Local
<1>6. \A v \in Workers : Len(model[v]) \in Nat
  BY DEF TypeOK
<1>7. ASSUME NEW v \in Workers, Incarnation(v) = Incarnation(w)
      PROVE  /\ v \in Peers(w) /\ pc[v] \notin {"load", "reduce"}
             /\ v # w /\ Training(v) => model[v] = model[w] \/ model[v] = weights
  <2>1. v \in Peers(w)
    BY <1>7 DEF Peers
  <2>2. pc[v] # "load" /\ (pc[v] = "reduce" => model[w] = model[MaxRank(w)])
    BY <1>0, <1>1, <1>7 DEF AgreeInv
  <2>3. IsMax(MaxRank(w), w) /\ MaxRank(w) \in Workers
    BY <1>0, MaxRankIs DEF IsMax, Peers
  <2>4. pc[v] # "reduce"
    BY <1>1, <1>6, <2>1, <2>2, <2>3 DEF IsMax, Epoch
  <2>5. ASSUME Training(v) PROVE model[v] = model[w] \/ model[v] = weights
    <3>1. /\ Len(model[v]) <= Len(model[w]) + 1
          /\ Len(model[v]) = Len(model[w]) + 1 => model[v] = weights
      BY <1>0, <1>1, <1>7, <2>5, OneGroup DEF AheadInv, weights
    <3>2. Epoch(v) = Epoch(w) => model[v] = model[w]
      BY <1>0, <1>1, <1>7, <2>5 DEF SameWeights
    <3> QED
      BY <1>1, <1>6, <2>1, <3>1, <3>2 DEF Epoch
  <2> QED
    BY <2>1, <2>2, <2>4, <2>5
<1>8. GroupInv'
  BY <1>0, <1>1, LocalGroup
<1>9. LengthInv'
  BY <1>0, <1>2, <1>3, <1>4 DEF LengthInv
<1>10. ASSUME NEW u \in Workers, Incarnation(u) = Incarnation(w), Training(u)'
       PROVE  model'[u] = model[w] \/ model'[u] = weights
  BY <1>3, <1>4, <1>7, <1>10
<1>11. ASSUME NEW u \in Workers, NEW v \in Workers, Incarnation(u) = Incarnation(v)
       PROVE  Pair(u, v)'
  <2>1. CASE Incarnation(u) # Incarnation(w)
    BY <1>1, <1>11, <2>1, OtherGroups
  <2>2. CASE Incarnation(u) = Incarnation(w)
    <3>1. pc'[v] \notin {"load", "reduce"}
      BY <1>3, <1>7, <1>11, <2>2
    <3>2. Incarnation(v)' = Incarnation(w)
      BY <1>5, <1>11, <2>2, SameGroups
    <3>3. ASSUME Training(u)', Training(v)'
          PROVE  /\ Len(model'[u]) <= Len(model'[v]) + 1
                 /\ Len(model'[u]) = Len(model'[v]) + 1 =>
                      model'[u] = Append(model'[v], Incarnation(v)')
                 /\ Epoch(u)' = Epoch(v)' => model'[u] = model'[v]
      <4>1. /\ model'[u] = model[w] \/ model'[u] = weights
            /\ model'[v] = model[w] \/ model'[v] = weights
        BY <1>10, <1>11, <2>2, <3>3
      <4>2. Len(model[w]) \in Nat
        BY <1>6
      <4>3. model'[u] = weights /\ model'[v] = model[w] =>
              model'[u] = Append(model'[v], Incarnation(v)')
        BY <3>2 DEF weights
      <4>4. Len(weights) = Len(model[w]) + 1
        BY <1>2
      <4> HIDE DEF weights
      <4>5. model'[u] = model'[v] \/ Len(model'[u]) # Len(model'[v])
        BY <4>1, <4>2, <4>4
      <4>6. Len(model'[u]) \in Nat /\ Len(model'[v]) \in Nat /\ Len(model'[u]) <= Len(model'[v]) + 1
        BY <4>1, <4>2, <4>4
      <4>7. Len(model'[u]) = Len(model'[v]) + 1 => model'[u] = weights /\ model'[v] = model[w]
        BY <4>1, <4>2, <4>4
      <4> QED
        BY <4>3, <4>5, <4>6, <4>7 DEF Epoch
    <3> QED
      BY <3>1, <3>3 DEF Pair
  <2> QED
    BY <2>1, <2>2
<1>12. AgreeInv' /\ AheadInv' /\ SameWeights'
  BY <1>5, <1>11, PairsNext, SameGroups
<1> QED
  BY <1>2, <1>3, <1>8, <1>9, <1>12 DEF WeightsOK, weights

\* The workers of some nodes are stopped, and started in a new group or not.
LEMMA ResetStep ==
  ASSUME TypeOK, WeightsOK, NEW G \in SUBSET Nodes, NEW g, NEW label,
         \/ g = 0 /\ label = "none" /\ members' = members
         \/ g = Len(members) + 1 /\ label = "load" /\ members' = Append(members, G),
         group' = [n \in Nodes |-> IF n \in G THEN g ELSE group[n]],
         pc' = [w \in Workers |-> IF w[1] \in G THEN label ELSE pc[w]],
         model' = [w \in Workers |-> IF w[1] \in G THEN <<>> ELSE model[w]]
  PROVE  WeightsOK'
<1>0. GroupInv /\ LengthInv /\ AgreeInv /\ AheadInv /\ SameWeights
  BY DEF WeightsOK
<1>1. /\ Len(members) \in Nat /\ g \notin 1 .. Len(members)
      /\ \A h \in 1 .. Len(members) : members'[h] = members[h]
      /\ g # 0 => members'[g] = G
  <2>1. members \in Seq(SUBSET Nodes) /\ Len(members) \in Nat
    BY DEF TypeOK
  <2>2. CASE g = 0 /\ members' = members
    BY <2>1, <2>2
  <2>3. CASE g = Len(members) + 1 /\ members' = Append(members, G)
    BY <2>1, <2>3
  <2> QED
    BY <2>2, <2>3
<1>2. ASSUME NEW w \in Workers, w[1] \notin G
      PROVE  /\ Incarnation(w)' = Incarnation(w) /\ Incarnation(w) \in 0 .. Len(members)
             /\ pc'[w] = pc[w] /\ model'[w] = model[w] /\ (Training(w)' <=> Training(w))
  BY <1>2, WorkersAre DEF Incarnation, Training, TypeOK
<1>3. ASSUME NEW w \in Workers, w[1] \in G
      PROVE  /\ Incarnation(w)' = g /\ pc'[w] = label /\ model'[w] = <<>> /\ ~Training(w)'
  BY <1>3, WorkersAre DEF Incarnation, Training
<1>4. GroupInv'
  <2> SUFFICES ASSUME NEW w \in Workers
               PROVE  IF Incarnation(w)' = 0 THEN pc'[w] = "none"
                      ELSE w[1] \in members'[Incarnation(w)']
    BY DEF GroupInv
  <2>1. CASE w[1] \in G
    BY <1>1, <1>3, <2>1
  <2>2. CASE w[1] \notin G
    BY <1>0, <1>1, <1>2, <2>2 DEF GroupInv
  <2> QED
    BY <2>1, <2>2
<1>5. LengthInv'
  <2> SUFFICES ASSUME NEW w \in Workers
               PROVE  /\ Len(model'[w]) <= Epochs
                      /\ pc'[w] = "train" => Len(model'[w]) < Epochs
    BY DEF LengthInv
  <2>1. CASE w[1] \in G
    BY <1>3, <2>1, TrainingAssumption
  <2>2. CASE w[1] \notin G
    BY <1>0, <1>2, <2>2 DEF LengthInv
  <2> QED
    BY <2>1, <2>2
<1>6. ASSUME NEW u \in Workers, NEW v \in Workers, Incarnation(u)' = Incarnation(v)',
             Training(u)'
      PROVE  Pair(u, v)'
  <2>1. u[1] \notin G /\ Training(u)
    BY <1>2, <1>3, <1>6
  <2>2. Incarnation(u) \in 1 .. Len(members)
    BY <1>0, <1>2, <2>1 DEF GroupInv, Training
  <2>3. v[1] \notin G /\ Incarnation(v) = Incarnation(u)
    BY <1>1, <1>2, <1>3, <1>6, <2>1, <2>2
  <2>4. Pair(u, v)
    BY <1>0, <2>3, Pairs
  <2>5. /\ model'[u] = model[u] /\ model'[v] = model[v] /\ pc'[v] = pc[v]
        /\ (Training(v)' <=> Training(v)) /\ Incarnation(v)' = Incarnation(v)
        /\ Incarnation(u)' = Incarnation(u)
    BY <1>2, <2>1, <2>3
  <2>6. ASSUME Complete(u)'
        PROVE  Complete(u) /\ (model[MaxRank(u)])' = model[MaxRank(u)]
    <3>1. /\ \A n \in members'[Incarnation(u)'] : group'[n] = Incarnation(u)'
          /\ \A x \in Peers(u)' : pc'[x] # "none"
      BY <2>6 DEF Complete
    <3>2. members'[Incarnation(u)'] = members[Incarnation(u)]
      BY <1>1, <2>2, <2>5
    <3>3. members[Incarnation(u)] \subseteq Nodes
      BY <2>2 DEF TypeOK
    <3>4. \A n \in members[Incarnation(u)] : n \notin G /\ group[n] = Incarnation(u)
      <4> SUFFICES ASSUME NEW n \in members[Incarnation(u)]
                   PROVE  n \notin G /\ group[n] = Incarnation(u)
        OBVIOUS
      <4>1. group'[n] = Incarnation(u) /\ n \in Nodes
        BY <2>5, <3>1, <3>2, <3>3
      <4> QED
        BY <1>1, <2>2, <4>1
    <3>5. ASSUME NEW x \in Workers
          PROVE  /\ x \in Peers(u)' <=> x \in Peers(u)
                 /\ x \in Peers(u) => x[1] \notin G
      <4>1. x \in Peers(u)' <=> Incarnation(x)' = Incarnation(u)
        BY <2>5 DEF Peers
      <4>2. x \in Peers(u) <=> Incarnation(x) = Incarnation(u)
        BY DEF Peers
      <4>3. Incarnation(x) = Incarnation(u) => x[1] \notin G
        BY <1>0, <2>2, <3>4 DEF GroupInv
      <4> QED
        BY <1>1, <1>2, <1>3, <2>2, <4>1, <4>2, <4>3
    <3>6. Peers(u)' = Peers(u) /\ Peers(u) \subseteq Workers
      BY <3>5 DEF Peers
    <3>7. Complete(u)
      BY <1>2, <3>1, <3>4, <3>5, <3>6 DEF Complete
    <3>8. ASSUME NEW x \in Peers(u)
          PROVE  Rank(x)' = Rank(x) /\ Epoch(x)' = Epoch(x) /\ model'[x] = model[x]
      <4>1. x \in Workers /\ x[1] \notin G /\ Incarnation(x) = Incarnation(u)
        BY <3>5, <3>6 DEF Peers
      <4>2. Incarnation(x)' = Incarnation(u)' /\ model'[x] = model[x]
        BY <1>2, <2>5, <4>1
      <4>3. Peers(x)' = Peers(u)' /\ Peers(x) = Peers(u)
        BY <4>1, <4>2 DEF Peers
      <4>4. Rank(x)' = Rank(x)
        BY <3>6, <4>3 DEF Rank
      <4> QED
        BY <4>2, <4>4 DEF Epoch
    <3>9. MaxRank(u)' = MaxRank(u)
      BY <3>6, <3>8 DEF MaxRank
    <3>10. MaxRank(u) \in Peers(u)
      BY <1>0, MaxRankIs DEF IsMax
    <3> QED
      BY <3>7, <3>8, <3>9, <3>10
  <2> QED
    BY <1>6, <2>1, <2>4, <2>5, <2>6 DEF Pair, Epoch
<1>7. AgreeInv' /\ AheadInv' /\ SameWeights'
  <2>1. ASSUME NEW u \in Workers, NEW v \in Workers, ~Training(u)' PROVE Pair(u, v)'
    BY <2>1 DEF Pair
  <2> QED
    BY <1>6, <2>1, PairsNext
<1> QED
  BY <1>4, <1>5, <1>7 DEF WeightsOK

-----------------------------------------------------------------------------
(* The checkpoints.                                                        *)

DiskOK ==
  /\ DOMAIN disk = Nodes
  /\ \A n \in Nodes : /\ DOMAIN disk[n] = {"checkpoint", "tmp"}
                      /\ IsFile(disk[n].checkpoint) /\ IsFile(disk[n].tmp)

StateOK ==
  /\ members \in Seq(SUBSET Nodes)
  /\ group \in [Nodes -> 0 .. Len(members)]
  /\ pc \in [Workers -> Labels]
  /\ model \in [Workers -> Seq(Nat)]
  /\ failures \in Nat

LEMMA TypeParts == TypeOK <=> StateOK /\ DiskOK
  BY DEF TypeOK, StateOK, DiskOK

LEMMA TypePartsNext == TypeOK' <=> StateOK' /\ DiskOK'
  BY DEF TypeOK, StateOK, DiskOK

\* What a file holds.
LEMMA FilesAre ==
  /\ \A file : IsFile(file) => EpochsIn(file) \in Nat
  /\ IsFile(Absent) /\ EpochsIn(Absent) = 0
  /\ \A content \in Seq(Nat), whole \in BOOLEAN :
       /\ EpochsIn(File(content, whole)) = Len(content)
       /\ Len(content) <= Epochs => IsFile(File(content, whole))
       /\ \A f \in File(content, whole) : f.whole = whole /\ f.content = content
<1>1. ASSUME NEW file, IsFile(file) PROVE EpochsIn(file) \in Nat
  <2>1. CASE file = Absent
    BY <2>1 DEF EpochsIn
  <2>2. CASE file # Absent
    <3>1. PICK f \in file : file = {f} /\ f.content \in Seq(Nat)
      BY <1>1, <2>2 DEF IsFile
    <3>2. (CHOOSE x \in file : TRUE) = f
      BY <3>1
    <3> QED
      BY <2>2, <3>1, <3>2 DEF EpochsIn
  <2> QED
    BY <2>1, <2>2
<1>2. IsFile(Absent) /\ EpochsIn(Absent) = 0
  BY DEF IsFile, EpochsIn
<1>3. ASSUME NEW content \in Seq(Nat), NEW whole \in BOOLEAN
      PROVE  /\ EpochsIn(File(content, whole)) = Len(content)
             /\ Len(content) <= Epochs => IsFile(File(content, whole))
             /\ \A f \in File(content, whole) : f.whole = whole /\ f.content = content
  <2> DEFINE f == [content |-> content, whole |-> whole]
  <2>1. File(content, whole) = {f} /\ f.content = content /\ f.whole = whole
    BY DEF File
  <2> HIDE DEF f
  <2>2. (CHOOSE x \in {f} : TRUE) = f /\ {f} # Absent
    BY DEF Absent
  <2> QED
    BY <2>1, <2>2 DEF EpochsIn, IsFile
<1> QED
  BY <1>1, <1>2, <1>3

\* The worker that saves is the only one to write on its node.
LEMMA SaveLocal ==
  ASSUME TypeOK, SaveInv, NEW w \in Workers, NEW label \in Labels, Goto(w, label),
         \A v \in Workers : v # w => model'[v] = model[v],
         \A n \in Nodes : n # w[1] => disk'[n] = disk[n],
         disk'[w[1]] = disk[w[1]] \/ w[2] = 0,
         label \in {"save", "saving", "saved", "best"} => w[2] = 0,
         label = "saved" => disk'[w[1]].tmp = File(model'[w], TRUE),
         w[2] = 0 /\ label \notin {"none", "load"} =>
           EpochsIn(disk'[w[1]].checkpoint) <= Len(model'[w])
  PROVE  SaveInv'
<1>1. pc'[w] = label /\ \A v \in Workers : v # w => pc'[v] = pc[v]
  BY DEF Goto, TypeOK
<1> SUFFICES ASSUME NEW v \in Workers
             PROVE  /\ pc'[v] \in {"save", "saving", "saved", "best"} => v[2] = 0
                    /\ pc'[v] = "saved" => disk'[v[1]].tmp = File(model'[v], TRUE)
                    /\ v[2] = 0 /\ pc'[v] \notin {"none", "load"} =>
                         EpochsIn(disk'[v[1]].checkpoint) <= Len(model'[v])
  BY DEF SaveInv, EpochsIn, File
<1>2. CASE v = w
  BY <1>1, <1>2
<1>3. CASE v # w
  <2>1. pc'[v] = pc[v] /\ model'[v] = model[v]
    BY <1>1, <1>3
  <2>2. v[2] = 0 => disk'[v[1]] = disk[v[1]]
    BY <1>3, WorkersAre
  <2> QED
    BY <2>1, <2>2 DEF SaveInv
<1> QED
  BY <1>2, <1>3

\* No checkpoint of a disk that survives falls back.
Advance ==
  \A n \in Nodes :
    \/ disk'[n] = Empty
    \/ EpochsIn(disk[n].checkpoint) <= EpochsIn(disk'[n].checkpoint)

LEMMA DiskStays ==
  ASSUME TypeOK, WholeInv, UNCHANGED disk
  PROVE  DiskOK' /\ WholeInv' /\ Advance
<1>1. DiskOK' /\ WholeInv'
  BY TypeParts DEF DiskOK, WholeInv, IsFile, Absent
<1>2. \A n \in Nodes : EpochsIn(disk[n].checkpoint) \in Nat
  BY FilesAre DEF TypeOK
<1> QED
  BY <1>1, <1>2 DEF Advance

\* A write to the temporary file.
LEMMA WriteEffect ==
  ASSUME TypeOK, WholeInv, NEW w \in Workers, NEW content \in Seq(Nat), Len(content) <= Epochs,
         NEW whole \in BOOLEAN, Write(w, "tmp", content, whole)
  PROVE  /\ DiskOK' /\ WholeInv' /\ Advance
         /\ \A n \in Nodes : n # w[1] => disk'[n] = disk[n]
         /\ disk'[w[1]].tmp = File(content, whole)
         /\ disk'[w[1]].checkpoint = disk[w[1]].checkpoint
<1>0. DiskOK /\ w[1] \in Nodes
  BY TypeParts, WorkersAre
<1>1. /\ DOMAIN disk' = Nodes
      /\ \A n \in Nodes : n # w[1] => disk'[n] = disk[n]
      /\ disk'[w[1]] = [disk[w[1]] EXCEPT !["tmp"] = File(content, whole)]
  BY <1>0 DEF Write, DiskOK
<1>2. /\ disk'[w[1]].tmp = File(content, whole)
      /\ disk'[w[1]].checkpoint = disk[w[1]].checkpoint
      /\ DOMAIN disk'[w[1]] = {"checkpoint", "tmp"}
  BY <1>0, <1>1 DEF DiskOK
<1>3. IsFile(File(content, whole))
  BY FilesAre
<1>4. ASSUME NEW n \in Nodes
      PROVE  /\ DOMAIN disk'[n] = {"checkpoint", "tmp"}
             /\ IsFile(disk'[n].checkpoint) /\ IsFile(disk'[n].tmp)
             /\ disk'[n].checkpoint = disk[n].checkpoint
  <2>1. CASE n = w[1]
    BY <1>0, <1>2, <1>3, <2>1 DEF DiskOK
  <2>2. CASE n # w[1]
    BY <1>0, <1>1, <2>2 DEF DiskOK
  <2> QED
    BY <2>1, <2>2
<1>5. DiskOK'
  BY <1>1, <1>4 DEF DiskOK, IsFile, Absent
<1>6. WholeInv'
  BY <1>4 DEF WholeInv
<1>7. Advance
  BY <1>0, <1>4, FilesAre DEF Advance, DiskOK
<1> QED
  BY <1>1, <1>2, <1>5, <1>6, <1>7

\* The rename: the snapshot that was written takes the place of a checkpoint
\* that is not ahead of it.
LEMMA CommitEffect ==
  ASSUME TypeOK, WholeInv, SaveInv, NEW w \in Workers, Commit(w), Len(model[w]) <= Epochs
  PROVE  /\ DiskOK' /\ WholeInv' /\ Advance
         /\ \A n \in Nodes : n # w[1] => disk'[n] = disk[n]
         /\ w[2] = 0 /\ EpochsIn(disk'[w[1]].checkpoint) = Len(model[w])
<1>0. DiskOK /\ w[1] \in Nodes /\ model[w] \in Seq(Nat)
  BY TypeParts, WorkersAre DEF TypeOK
<1>1. /\ pc[w] = "saved" /\ w[2] = 0 /\ disk[w[1]].tmp = File(model[w], TRUE)
      /\ EpochsIn(disk[w[1]].checkpoint) <= Len(model[w])
  BY DEF Commit, SaveInv
<1>2. /\ DOMAIN disk' = Nodes
      /\ \A n \in Nodes : n # w[1] => disk'[n] = disk[n]
      /\ disk'[w[1]] = [disk[w[1]] EXCEPT !.checkpoint = disk[w[1]].tmp, !.tmp = Absent]
  BY <1>0 DEF Commit, DiskOK
<1>3. /\ disk'[w[1]].checkpoint = File(model[w], TRUE) /\ disk'[w[1]].tmp = Absent
      /\ DOMAIN disk'[w[1]] = {"checkpoint", "tmp"}
  BY <1>0, <1>1, <1>2 DEF DiskOK
<1>4. /\ IsFile(File(model[w], TRUE)) /\ IsFile(Absent)
      /\ EpochsIn(File(model[w], TRUE)) = Len(model[w])
      /\ \A f \in File(model[w], TRUE) : f.whole
  BY <1>0, FilesAre
<1>5. ASSUME NEW n \in Nodes
      PROVE  /\ DOMAIN disk'[n] = {"checkpoint", "tmp"}
             /\ IsFile(disk'[n].checkpoint) /\ IsFile(disk'[n].tmp)
             /\ \A f \in disk'[n].checkpoint : f.whole
             /\ EpochsIn(disk[n].checkpoint) <= EpochsIn(disk'[n].checkpoint)
  <2>1. CASE n = w[1]
    BY <1>1, <1>3, <1>4, <2>1
  <2>2. CASE n # w[1]
    BY <1>0, <1>2, <2>2, FilesAre DEF DiskOK, WholeInv
  <2> QED
    BY <2>1, <2>2
<1>6. DiskOK'
  BY <1>2, <1>5 DEF DiskOK, IsFile, Absent
<1> QED
  BY <1>1, <1>2, <1>3, <1>4, <1>5, <1>6 DEF WholeInv, Advance

-----------------------------------------------------------------------------
(* The steps.                                                              *)

Kept == TypeOK' /\ WeightsOK' /\ SaveInv' /\ WholeInv' /\ Advance

LEMMA InvParts == Inv <=> TypeOK /\ WeightsOK /\ SaveInv /\ WholeInv
  BY DEF Inv, WeightsOK

LEMMA InvPartsNext == Inv' <=> TypeOK' /\ WeightsOK' /\ SaveInv' /\ WholeInv'
  BY DEF Inv, WeightsOK

\* The next epoch is a place in training, and there is one to train.
LEMMA NextEpochIs ==
  ASSUME TypeOK, NEW w \in Workers
  PROVE  /\ NextEpoch(w) \in {"train", "done"}
         /\ NextEpoch(w) = "train" => Len(model[w]) < Epochs
<1>1. Len(model[w]) \in Nat
  BY DEF TypeOK
<1> QED
  BY <1>1 DEF NextEpoch, Epoch

\* load_checkpoint(), first part.
LEMMA KeptLoad ==
  ASSUME Inv, NEW w \in Workers, Load(w)
  PROVE  Kept
<1>0. TypeOK /\ WeightsOK /\ SaveInv /\ WholeInv /\ LengthInv
  BY InvParts DEF WeightsOK
<1> DEFINE file == disk[w[1]].checkpoint
<1>1. /\ pc[w] = "load" /\ Local(w, "reduce") /\ Goto(w, "reduce") /\ "reduce" \in Labels
      /\ UNCHANGED <<members, group, disk, failures>>
  BY DEF Load, Local, Labels
<1>2. IsFile(file) /\ model \in [Workers -> Seq(Nat)]
  BY <1>0, WorkersAre DEF TypeOK
<1>3. \E weights \in Seq(Nat) : /\ Len(weights) <= Epochs
                                /\ model' = [model EXCEPT ![w] = weights]
                                /\ EpochsIn(file) <= Len(weights)
  <2>1. CASE file = Absent
    <3>1. model' = [model EXCEPT ![w] = model[w]]
      BY <1>2, <2>1 DEF Load
    <3>2. model[w] \in Seq(Nat) /\ Len(model[w]) <= Epochs /\ Len(model[w]) \in Nat
      BY <1>0, <1>2 DEF LengthInv
    <3>3. EpochsIn(file) <= Len(model[w])
      <4>1. EpochsIn(file) = 0
        BY <2>1, FilesAre
      <4> HIDE DEF file
      <4> QED
        BY <3>2, <4>1
    <3> HIDE DEF file
    <3>4. model[w] \in Seq(Nat)
      BY <3>2
    <3> WITNESS model[w] \in Seq(Nat)
    <3> QED
      BY <3>1, <3>2, <3>3
  <2>2. CASE file # Absent
    <3>1. PICK f \in file : /\ file = {f} /\ f.content \in Seq(Nat)
                            /\ Len(f.content) <= Epochs
      BY <1>2, <2>2 DEF IsFile
    <3>2. model' = [model EXCEPT ![w] = f.content]
      BY <3>1 DEF Load
    <3>3. EpochsIn(file) = Len(f.content)
      <4>1. (CHOOSE x \in file : TRUE) = f
        BY <3>1
      <4> QED
        BY <2>2, <4>1 DEF EpochsIn
    <3> HIDE DEF file
    <3>4. f.content \in Seq(Nat)
      BY <3>1
    <3>5. Len(f.content) \in Nat
      BY <3>4
    <3> WITNESS f.content \in Seq(Nat)
    <3> QED
      BY <3>1, <3>2, <3>3, <3>5
  <2> QED
    BY <2>1, <2>2
<1>4. PICK weights \in Seq(Nat) : /\ Len(weights) <= Epochs
                                  /\ model' = [model EXCEPT ![w] = weights]
                                  /\ EpochsIn(file) <= Len(weights)
  BY <1>3
<1>5. WeightsOK'
  BY <1>0, <1>1, <1>4, OutsideStep
<1>6. DiskOK' /\ WholeInv' /\ Advance
  BY <1>0, <1>1, DiskStays
<1>7. StateOK'
  BY <1>0, <1>1, <1>2, <1>4 DEF TypeOK, StateOK, Goto
<1>8. model'[w] = weights /\ \A v \in Workers : v # w => model'[v] = model[v]
  BY <1>2, <1>4
<1>9. SaveInv'
  BY <1>0, <1>1, <1>4, <1>8, SaveLocal
<1> QED
  BY <1>5, <1>6, <1>7, <1>9, TypePartsNext DEF Kept

\* Steps of a worker in training that write nothing.
LEMMA KeptQuiet ==
  ASSUME Inv, NEW w \in Workers, Start(w) \/ Validate(w) \/ Copy(w)
  PROVE  Kept
<1>0. TypeOK /\ WeightsOK /\ SaveInv /\ WholeInv
  BY InvParts
<1>1. /\ UNCHANGED <<members, group, model, disk, failures>> /\ Training(w)
      /\ \E label \in Labels \ {"none", "load", "reduce", "saving", "saved", "best"} :
           /\ Goto(w, label) /\ (label = "save" => w[2] = 0)
           /\ label = "train" => Len(model[w]) < Epochs
  BY <1>0, NextEpochIs DEF Start, Validate, Copy, Training, Labels
<1>2. PICK label \in Labels \ {"none", "load", "reduce", "saving", "saved", "best"} :
        /\ Goto(w, label) /\ (label = "save" => w[2] = 0)
        /\ label = "train" => Len(model[w]) < Epochs
  BY <1>1
<1>3. WeightsOK'
  BY <1>0, <1>1, <1>2, QuietStep DEF Local
<1>4. DiskOK' /\ WholeInv' /\ Advance
  BY <1>0, <1>1, DiskStays
<1>5. StateOK'
  BY <1>0, <1>1, <1>2 DEF TypeOK, StateOK, Goto
<1>6. w[2] = 0 => EpochsIn(disk[w[1]].checkpoint) <= Len(model[w])
  BY <1>0, <1>1 DEF SaveInv, Training
<1>7. SaveInv'
  BY <1>0, <1>1, <1>2, <1>6, SaveLocal
<1> QED
  BY <1>3, <1>4, <1>5, <1>7, TypePartsNext DEF Kept

\* The steps that change the weights of a worker.
LEMMA KeptWeights ==
  ASSUME Inv, NEW w \in Workers, Restore(w) \/ Train(w)
  PROVE  Kept
<1>0. TypeOK /\ WeightsOK /\ SaveInv /\ WholeInv
  BY InvParts
<1>1. \E label \in Labels : /\ Goto(w, label)
                            /\ label \notin {"save", "saving", "saved", "best"}
  BY <1>0, NextEpochIs DEF Restore, Train, Labels
<1>2. PICK label \in Labels : /\ Goto(w, label)
                              /\ label \notin {"save", "saving", "saved", "best"}
  BY <1>1
<1>3. UNCHANGED <<members, group, disk, failures>> /\ pc[w] \notin {"none", "load"}
  BY DEF Restore, Train
<1>4. model \in [Workers -> Seq(Nat)] /\ Len(model[w]) \in Nat
  BY <1>0 DEF TypeOK
<1>5. WeightsOK' /\ \E weights \in Seq(Nat) : /\ model' = [model EXCEPT ![w] = weights]
                                              /\ Len(model[w]) <= Len(weights)
  <2>1. CASE Restore(w)
    BY <1>0, <2>1, RestoreStep DEF Restore, Broadcast
  <2>2. CASE Train(w)
    <3> DEFINE weights == Append(model[w], Incarnation(w))
    <3>1. /\ WeightsOK' /\ weights \in Seq(Nat)
          /\ model' = [model EXCEPT ![w] = weights]
      BY <1>0, <2>2, TrainStep DEF Train
    <3>2. Len(weights) = Len(model[w]) + 1
      BY <1>4
    <3> HIDE DEF weights
    <3>3. Len(model[w]) <= Len(weights)
      BY <1>4, <3>2
    <3> QED
      BY <3>1, <3>3
  <2> QED
    BY <2>1, <2>2
<1>6. PICK weights \in Seq(Nat) : /\ model' = [model EXCEPT ![w] = weights]
                                  /\ Len(model[w]) <= Len(weights)
  BY <1>5
<1>7. DiskOK' /\ WholeInv' /\ Advance
  BY <1>0, <1>3, DiskStays
<1>8. StateOK'
  BY <1>0, <1>2, <1>3, <1>6 DEF TypeOK, StateOK, Goto
<1>9. /\ model'[w] = weights /\ \A v \in Workers : v # w => model'[v] = model[v]
      /\ Len(weights) \in Nat
  BY <1>4, <1>6
<1>10. w[2] = 0 => EpochsIn(disk[w[1]].checkpoint) <= Len(weights)
  <2>1. EpochsIn(disk[w[1]].checkpoint) \in Nat
    BY <1>0, FilesAre, WorkersAre DEF TypeOK
  <2>2. w[2] = 0 => EpochsIn(disk[w[1]].checkpoint) <= Len(model[w])
    BY <1>0, <1>3 DEF SaveInv
  <2> QED
    BY <1>4, <1>6, <1>9, <2>1, <2>2
<1>11. SaveInv'
  BY <1>0, <1>2, <1>3, <1>9, <1>10, SaveLocal
<1> QED
  BY <1>5, <1>7, <1>8, <1>11, TypePartsNext DEF Kept

\* save_checkpoint().
LEMMA KeptSave ==
  ASSUME Inv, NEW w \in Workers, Save(w) \/ Saved(w) \/ Commit(w)
  PROVE  Kept
<1>0. TypeOK /\ WeightsOK /\ SaveInv /\ WholeInv /\ LengthInv
  BY InvParts DEF WeightsOK
<1>1. /\ UNCHANGED <<members, group, model, failures>> /\ Training(w)
      /\ \E label \in Labels \ {"none", "load", "reduce", "save"} :
           /\ Goto(w, label)
           /\ label = "saved" => Saved(w)
           /\ label = "train" => Len(model[w]) < Epochs
  BY <1>0, NextEpochIs DEF Save, Saved, Commit, Write, Training, Labels
<1>2. PICK label \in Labels \ {"none", "load", "reduce", "save"} :
        /\ Goto(w, label)
        /\ label = "saved" => Saved(w)
        /\ label = "train" => Len(model[w]) < Epochs
  BY <1>1
<1>3. WeightsOK'
  BY <1>0, <1>1, <1>2, QuietStep DEF Local
<1>4. StateOK'
  BY <1>0, <1>1, <1>2 DEF TypeOK, StateOK, Goto
<1>5. /\ model[w] \in Seq(Nat) /\ Len(model[w]) <= Epochs /\ w[2] = 0 /\ Len(model[w]) \in Nat
      /\ EpochsIn(disk[w[1]].checkpoint) <= Len(model[w])
  <2>1. pc[w] \in {"save", "saving", "saved"}
    BY DEF Save, Saved, Commit
  <2>2. model[w] \in Seq(Nat) /\ Len(model[w]) \in Nat
    BY <1>0 DEF TypeOK
  <2>3. Len(model[w]) <= Epochs
    BY <1>0 DEF LengthInv
  <2>4. w[2] = 0 /\ EpochsIn(disk[w[1]].checkpoint) <= Len(model[w])
    BY <1>0, <2>1 DEF SaveInv
  <2> QED
    BY <2>2, <2>3, <2>4
<1>6. /\ DiskOK' /\ WholeInv' /\ Advance
      /\ \A n \in Nodes : n # w[1] => disk'[n] = disk[n]
      /\ Saved(w) => disk'[w[1]].tmp = File(model[w], TRUE)
      /\ EpochsIn(disk'[w[1]].checkpoint) <= Len(model[w])
  <2>1. CASE Save(w)
    <3>1. Write(w, "tmp", model[w], FALSE) /\ ~Saved(w)
      BY <2>1 DEF Save, Saved
    <3> QED
      BY <1>0, <1>5, <3>1, WriteEffect
  <2>2. CASE Saved(w)
    <3>1. Write(w, "tmp", model[w], TRUE)
      BY <2>2 DEF Saved
    <3> QED
      BY <1>0, <1>5, <3>1, WriteEffect
  <2>3. CASE Commit(w)
    <3>1. ~Saved(w)
      BY <2>3 DEF Saved, Commit
    <3>2. /\ DiskOK' /\ WholeInv' /\ Advance
          /\ \A n \in Nodes : n # w[1] => disk'[n] = disk[n]
          /\ EpochsIn(disk'[w[1]].checkpoint) = Len(model[w])
      BY <1>0, <1>5, <2>3, CommitEffect
    <3>3. EpochsIn(disk'[w[1]].checkpoint) <= Len(model[w])
      BY <1>5, <3>2
    <3> QED
      BY <3>1, <3>2, <3>3
  <2> QED
    BY <2>1, <2>2, <2>3
<1>7. SaveInv'
  BY <1>0, <1>1, <1>2, <1>5, <1>6, SaveLocal
<1> QED
  BY <1>3, <1>4, <1>6, <1>7, TypePartsNext DEF Kept

\* A worker dies.
LEMMA KeptWorkerFails ==
  ASSUME Inv, NEW w \in Workers, WorkerFails(w)
  PROVE  Kept
<1>0. TypeOK /\ WeightsOK /\ SaveInv /\ WholeInv
  BY InvParts
<1>1. /\ UNCHANGED <<members, group, disk>> /\ failures' = failures + 1
      /\ pc[w] # "none" /\ Goto(w, "none") /\ Local(w, "none") /\ "none" \in Labels
      /\ model' = [model EXCEPT ![w] = <<>>]
  BY DEF WorkerFails, Fail, Local, Labels
<1>2. <<>> \in Seq(Nat) /\ Len(<<>>) <= Epochs
  BY TrainingAssumption
<1>3. WeightsOK'
  BY <1>0, <1>1, <1>2, OutsideStep
<1>4. DiskOK' /\ WholeInv' /\ Advance
  BY <1>0, <1>1, DiskStays
<1>5. StateOK'
  BY <1>0, <1>1 DEF TypeOK, StateOK, Goto
<1>6. \A v \in Workers : v # w => model'[v] = model[v]
  BY <1>0, <1>1 DEF TypeOK
<1>7. SaveInv'
  BY <1>0, <1>1, <1>6, SaveLocal
<1> QED
  BY <1>3, <1>4, <1>5, <1>7, TypePartsNext DEF Kept

\* A group is formed.
LEMMA KeptForm ==
  ASSUME Inv, NEW G \in SUBSET Nodes, Form(G)
  PROVE  Kept
<1>0. TypeOK /\ WeightsOK /\ SaveInv /\ WholeInv
  BY InvParts
<1>1. /\ members' = Append(members, G) /\ UNCHANGED <<disk, failures>>
      /\ group' = [n \in Nodes |-> IF n \in G THEN Len(members) + 1 ELSE group[n]]
      /\ pc' = [w \in Workers |-> IF w[1] \in G THEN "load" ELSE pc[w]]
      /\ model' = [w \in Workers |-> IF w[1] \in G THEN <<>> ELSE model[w]]
  BY DEF Form
<1>2. WeightsOK'
  BY <1>0, <1>1, ResetStep
<1>3. DiskOK' /\ WholeInv' /\ Advance
  BY <1>0, <1>1, DiskStays
<1>4. StateOK'
  <2>1. /\ members \in Seq(SUBSET Nodes) /\ group \in [Nodes -> 0 .. Len(members)]
        /\ pc \in [Workers -> Labels] /\ model \in [Workers -> Seq(Nat)] /\ failures \in Nat
    BY <1>0 DEF TypeOK
  <2>2. members' \in Seq(SUBSET Nodes) /\ Len(members') = Len(members) + 1 /\ Len(members) \in Nat
    BY <1>1, <2>1
  <2>3. group' \in [Nodes -> 0 .. Len(members')]
    BY <1>1, <2>1, <2>2
  <2>4. pc' \in [Workers -> Labels] /\ model' \in [Workers -> Seq(Nat)]
    BY <1>1, <2>1 DEF Labels
  <2> QED
    BY <1>1, <2>1, <2>2, <2>3, <2>4 DEF StateOK
<1>5. SaveInv'
  <2>1. \A w \in Workers : \/ pc'[w] = "load"
                           \/ pc'[w] = pc[w] /\ model'[w] = model[w]
    BY <1>1
  <2> QED
    BY <1>0, <1>1, <2>1 DEF SaveInv, File, EpochsIn
<1> QED
  BY <1>2, <1>3, <1>4, <1>5, TypePartsNext DEF Kept

\* A node dies, with its disk or without.
LEMMA KeptNodeFails ==
  ASSUME Inv, NEW n \in Nodes, NEW survives \in BOOLEAN, NodeFails(n, survives)
  PROVE  Kept
<1>0. TypeOK /\ WeightsOK /\ SaveInv /\ WholeInv
  BY InvParts
<1>1. /\ members' = members /\ failures' = failures + 1
      /\ group' = [group EXCEPT ![n] = 0]
      /\ pc' = [w \in Workers |-> IF w[1] = n THEN "none" ELSE pc[w]]
      /\ model' = [w \in Workers |-> IF w[1] = n THEN <<>> ELSE model[w]]
      /\ disk' = IF survives THEN disk ELSE [disk EXCEPT ![n] = Empty]
  BY DEF NodeFails, Fail
<1>2. StateOK /\ DiskOK
  BY <1>0, TypeParts
<1>3. WeightsOK'
  <2>1. /\ group' = [m \in Nodes |-> IF m \in {n} THEN 0 ELSE group[m]]
        /\ pc' = [w \in Workers |-> IF w[1] \in {n} THEN "none" ELSE pc[w]]
        /\ model' = [w \in Workers |-> IF w[1] \in {n} THEN <<>> ELSE model[w]]
        /\ {n} \in SUBSET Nodes
    BY <1>1, <1>2 DEF StateOK
  <2>2. ASSUME NEW G \in SUBSET Nodes, G = {n}, NEW g, g = 0, NEW label, label = "none"
        PROVE  WeightsOK'
    <3>1. /\ group' = [m \in Nodes |-> IF m \in G THEN g ELSE group[m]]
          /\ pc' = [w \in Workers |-> IF w[1] \in G THEN label ELSE pc[w]]
          /\ model' = [w \in Workers |-> IF w[1] \in G THEN <<>> ELSE model[w]]
      BY <2>1, <2>2
    <3>2. g = 0 /\ label = "none" /\ members' = members
      BY <1>1, <2>2
    <3> QED
      BY <1>0, <3>1, <3>2, ResetStep
  <2> QED
    BY <2>1, <2>2
<1>4. StateOK'
  BY <1>1, <1>2 DEF StateOK, Labels
<1>5. DiskOK' /\ WholeInv' /\ Advance
  <2>1. CASE survives
    BY <1>0, <1>1, <2>1, DiskStays
  <2>2. CASE ~survives
    <3>1. /\ DOMAIN disk' = Nodes /\ disk'[n] = Empty
          /\ \A m \in Nodes : m # n => disk'[m] = disk[m]
      BY <1>1, <1>2, <2>2 DEF DiskOK
    <3>2. /\ DOMAIN Empty = {"checkpoint", "tmp"}
          /\ Empty.checkpoint = Absent /\ Empty.tmp = Absent /\ IsFile(Absent)
      BY FilesAre DEF Empty
    <3>3. ASSUME NEW m \in Nodes
          PROVE  /\ DOMAIN disk'[m] = {"checkpoint", "tmp"}
                 /\ IsFile(disk'[m].checkpoint) /\ IsFile(disk'[m].tmp)
                 /\ \A f \in disk'[m].checkpoint : f.whole
                 /\ \/ disk'[m] = Empty
                    \/ EpochsIn(disk[m].checkpoint) <= EpochsIn(disk'[m].checkpoint)
      <4>1. CASE m = n
        BY <3>1, <3>2, <4>1 DEF Absent
      <4>2. CASE m # n
        BY <1>0, <1>2, <3>1, <4>2, FilesAre DEF DiskOK, WholeInv
      <4> QED
        BY <4>1, <4>2
    <3>4. DiskOK'
      BY <3>1, <3>3 DEF DiskOK, IsFile, Absent
    <3> QED
      BY <3>3, <3>4 DEF WholeInv, Advance
  <2> QED
    BY <2>1, <2>2
<1>6. SaveInv'
  <2>1. \A w \in Workers : \/ pc'[w] = "none"
                           \/ /\ pc'[w] = pc[w] /\ model'[w] = model[w]
                              /\ disk'[w[1]] = disk[w[1]]
    BY <1>1, <1>2, WorkersAre DEF DiskOK
  <2> QED
    BY <1>0, <2>1 DEF SaveInv, File, EpochsIn
<1> QED
  BY <1>3, <1>4, <1>5, <1>6, TypePartsNext DEF Kept

LEMMA KeptStep ==
  ASSUME Inv, [Next]_vars
  PROVE  Kept
<1>1. CASE UNCHANGED vars
  <2>1. UNCHANGED <<members, group, pc, model, disk, failures>>
    BY <1>1 DEF vars
  <2>2. TypeOK /\ WeightsOK /\ SaveInv /\ WholeInv /\ StateOK
    BY InvParts, TypeParts
  <2>3. WeightsOK'
    <3>1. ASSUME NEW G \in SUBSET Nodes, G = {}, NEW g, g = 0, NEW label, label = "none"
          PROVE  WeightsOK'
      <4>1. /\ group' = [m \in Nodes |-> IF m \in G THEN g ELSE group[m]]
            /\ pc' = [w \in Workers |-> IF w[1] \in G THEN label ELSE pc[w]]
            /\ model' = [w \in Workers |-> IF w[1] \in G THEN <<>> ELSE model[w]]
        BY <2>1, <2>2, <3>1 DEF StateOK
      <4> QED
        BY <2>1, <2>2, <3>1, <4>1, ResetStep
    <3>2. {} \in SUBSET Nodes
      OBVIOUS
    <3> QED
      BY <3>1, <3>2
  <2>4. DiskOK' /\ WholeInv' /\ Advance
    BY <2>1, <2>2, DiskStays
  <2>5. StateOK'
    BY <2>1, <2>2 DEF StateOK
  <2>6. SaveInv'
    BY <2>1, <2>2 DEF SaveInv, File, EpochsIn
  <2> QED
    BY <2>3, <2>4, <2>5, <2>6, TypePartsNext DEF Kept
<1> QED
  BY <1>1, KeptLoad, KeptQuiet, KeptWeights, KeptSave, KeptWorkerFails, KeptForm,
     KeptNodeFails DEF Next, Step, Rendezvous

LEMMA InitInv == Init => Inv
<1> SUFFICES ASSUME Init PROVE Inv
  OBVIOUS
<1>1. /\ \A w \in Workers : pc[w] = "none" /\ model[w] = <<>> /\ Incarnation(w) = 0
      /\ \A n \in Nodes : disk[n] = Empty
  BY WorkersAre DEF Init, Incarnation
<1>2. /\ DOMAIN Empty = {"checkpoint", "tmp"}
      /\ Empty.checkpoint = Absent /\ Empty.tmp = Absent /\ IsFile(Absent)
  BY FilesAre DEF Empty
<1>3. TypeOK
  <2>1. StateOK
    BY DEF Init, StateOK, Labels
  <2>2. DiskOK
    BY <1>1, <1>2 DEF Init, DiskOK
  <2> QED
    BY <2>1, <2>2, TypeParts
<1>4. GroupInv /\ LengthInv
  BY <1>1, TrainingAssumption DEF GroupInv, LengthInv
<1>5. AgreeInv /\ AheadInv /\ SameWeights
  BY <1>1 DEF AgreeInv, AheadInv, SameWeights, Training
<1>6. SaveInv /\ WholeInv
  BY <1>1, <1>2 DEF SaveInv, WholeInv, Absent
<1> QED
  BY <1>3, <1>4, <1>5, <1>6 DEF Inv

-----------------------------------------------------------------------------
(* The samples of an epoch.                                               *)

\* Division with a remainder.
LEMMA DivMod ==
  ASSUME NEW a \in Int, NEW b \in Nat \ {0}
  PROVE  /\ a \div b \in Int /\ a % b \in 0 .. b - 1
         /\ a = b * (a \div b) + (a % b)
<1>1. a \div b \in Int
  OBVIOUS
<1>2. a % b \in 0 .. b - 1
  OBVIOUS
<1>3. a = b * (a \div b) + (a % b)
  OBVIOUS
<1> QED
  BY <1>1, <1>2, <1>3

LEMMA ModIs ==
  ASSUME NEW b \in Nat \ {0}, NEW q \in Int, NEW r \in 0 .. b - 1
  PROVE  (b * q + r) % b = r
<1> DEFINE a == b * q + r
           p == a \div b
           s == a % b
<1>1. a \in Int /\ p \in Int /\ s \in 0 .. b - 1 /\ b * p + s = b * q + r
  BY DivMod
<1> HIDE DEF p, s
<1>2. b * (p - q) = r - s
  BY <1>1
<1>3. p - q <= 0
  <2>1. p - q >= 1 => b * (p - q) >= b
    BY <1>1
  <2> QED
    BY <1>1, <1>2, <2>1
<1>4. p - q >= 0
  <2>1. p - q <= -1 => b * (p - q) <= -b
    BY <1>1
  <2> QED
    BY <1>1, <1>2, <2>1
<1>5. p = q
  BY <1>1, <1>3, <1>4
<1>6. s = r
  BY <1>1, <1>5
<1> QED
  BY <1>6 DEF s

LEMMA RandpermOnto ==
  ASSUME NEW n \in Nat \ {0}, NEW seed \in Nat
  PROVE  /\ \A k \in 1 .. n : randperm(n, seed)[k] \in 0 .. n - 1
         /\ \A y \in 0 .. n - 1 : \E k \in 1 .. n : randperm(n, seed)[k] = y
<1>1. ASSUME NEW k \in 1 .. n PROVE randperm(n, seed)[k] \in 0 .. n - 1
  <2>1. k + seed \in Int
    OBVIOUS
  <2> QED
    BY <2>1, DivMod DEF randperm
<1>2. ASSUME NEW y \in 0 .. n - 1 PROVE \E k \in 1 .. n : randperm(n, seed)[k] = y
  <2> DEFINE a == y - seed - 1
             q == a \div n
             m == a % n
  <2>0. a \in Int /\ a = y - seed - 1
    OBVIOUS
  <2> HIDE DEF a
  <2>1. q \in Int /\ m \in 0 .. n - 1 /\ a = n * q + m
    BY <2>0, DivMod
  <2> HIDE DEF q, m
  <2>2. m + 1 \in 1 .. n /\ -q \in Int /\ m + 1 + seed = n * (-q) + y
    BY <2>0, <2>1
  <2>3. (m + 1 + seed) % n = y
    BY <2>2, ModIs
  <2>4. randperm(n, seed)[m + 1] = y
    BY <2>2, <2>3 DEF randperm
  <2> QED
    BY <2>2, <2>4
<1> QED
  BY <1>1, <1>2

\* Rounded up.
LEMMA Ceiling ==
  ASSUME NEW n \in Nat \ {0}, NEW b \in Nat \ {0}, NEW m, m = (n + b - 1) \div b
  PROVE  m \in Nat /\ n <= m * b /\ m * b < n + b
<1> DEFINE a == n + b - 1
           s == a % b
<1>0. a \in Int /\ a = n + b - 1 /\ m = a \div b
  OBVIOUS
<1> HIDE DEF a
<1>1. m \in Int /\ s \in 0 .. b - 1 /\ a = b * m + s
  BY <1>0, DivMod
<1> HIDE DEF s
<1>2. n <= m * b /\ m * b < n + b
  BY <1>0, <1>1
<1>3. m >= 0
  <2>1. m <= -1 => b * m <= -b
    BY <1>1
  <2> QED
    BY <1>0, <1>1, <2>1
<1> QED
  BY <1>1, <1>2, <1>3

\* The place of every index: one of the rounds, one of the replicas.
LEMMA PlaceOf ==
  ASSUME NEW W \in Nat \ {0}, NEW m \in Nat, NEW j \in 0 .. m * W - 1
  PROVE  \E k \in 1 .. m, r \in 0 .. W - 1 : j = r + (k - 1) * W
<1> DEFINE q == j \div W
           r == j % W
<1>1. j \in Int /\ q \in Int /\ r \in 0 .. W - 1 /\ j = W * q + r
  BY DivMod
<1> HIDE DEF q, r
<1>2. q >= 0
  <2>1. q <= -1 => W * q <= -W
    BY <1>1
  <2> QED
    BY <1>1, <2>1
<1>3. q < m
  <2>1. q >= m => W * q >= m * W
    BY <1>1
  <2> QED
    BY <1>1, <2>1
<1>4. q + 1 \in 1 .. m
  BY <1>1, <1>2, <1>3
<1>5. r \in 0 .. W - 1
  BY <1>1
<1>6. PICK k \in 1 .. m : q = k - 1
  BY <1>1, <1>4
<1>7. j = r + (k - 1) * W
  BY <1>1, <1>6
<1> QED
  BY <1>5, <1>7

LEMMA PlaceIn ==
  ASSUME NEW W \in Nat \ {0}, NEW m \in Nat, NEW k \in 1 .. m, NEW r \in 0 .. W - 1
  PROVE  r + 1 + (k - 1) * W \in 1 .. m * W
<1>1. (k - 1) * W \in Nat /\ (k - 1) * W <= (m - 1) * W
  OBVIOUS
<1>2. (m - 1) * W = m * W - W
  OBVIOUS
<1> QED
  BY <1>1, <1>2

\* What __iter__() of the sampler has to choose from: the shuffled indices,
\* padded to a multiple of the replicas when the assertion holds.
LEMMA PaddedIs ==
  ASSUME NEW W \in Nat \ {0}, NEW start \in 0 .. DatasetSize - 1, NEW epoch \in Nat,
         Divisible(W, start)
  PROVE  LET m == num_samples(W, start)
             s == padded(W, start, epoch)
         IN  /\ m \in Nat
             /\ \A i \in 1 .. m * W : s[i] \in start .. DatasetSize - 1
             /\ \A x \in start .. DatasetSize - 1 : \E i \in 1 .. m * W : s[i] = x
<1> DEFINE n == DatasetSize - start
           m == num_samples(W, start)
           total == total_size(W, start)
           missing == total - n
           pad == IF missing < n THEN missing ELSE n
           Indices(e) == [k \in 1 .. n |-> randperm(n, e)[k] + start]
<1>1. n \in Nat \ {0} /\ DatasetSize \in Nat /\ start \in Nat
  BY DatasetAssumption
<1>2. m \in Nat /\ n <= m * W /\ total = m * W /\ total \in Nat
  <2>1. m = (n + W - 1) \div W
    BY DEF num_samples
  <2> HIDE DEF n, m
  <2>2. m \in Nat /\ n <= m * W
    BY <1>1, <2>1, Ceiling
  <2>3. total = m * W
    BY DEF total_size, m
  <2> QED
    BY <2>2, <2>3
<1>3. \A e : padded(W, start, e) = Indices(e) \o SubSeq(Indices(e), 1, pad)
  BY DEF padded
<1> HIDE DEF n, m, total
<1>4. pad \in 0 .. n
  BY <1>1, <1>2
<1>5. ASSUME NEW e \in Nat
      PROVE  /\ Indices(e) \in Seq(Int) /\ Len(Indices(e)) = n
             /\ \A k \in 1 .. n : Indices(e)[k] = randperm(n, e)[k] + start
             /\ \A k \in 1 .. n : Indices(e)[k] \in start .. DatasetSize - 1
  <2>1. \A k \in 1 .. n : randperm(n, e)[k] \in 0 .. n - 1
    BY <1>1, <1>5, RandpermOnto
  <2>2. \A k \in 1 .. n : randperm(n, e)[k] + start \in start .. DatasetSize - 1
    BY <1>1, <2>1 DEF n
  <2>3. \A k \in 1 .. n : randperm(n, e)[k] + start \in Int
    BY <1>1, <2>1
  <2> QED
    BY <1>1, <2>2, <2>3
<1> HIDE DEF pad, Indices
<1>6. ASSUME NEW e \in Nat
      PROVE  /\ Len(padded(W, start, e)) = n + pad
             /\ \A i \in 1 .. n : padded(W, start, e)[i] = Indices(e)[i]
             /\ \A i \in n + 1 .. n + pad : padded(W, start, e)[i] = Indices(e)[i - n]
  <2>1. SubSeq(Indices(e), 1, pad) \in Seq(Int) /\ Len(SubSeq(Indices(e), 1, pad)) = pad
    BY <1>1, <1>4, <1>5, <1>6
  <2>2. \A i \in 1 .. pad : SubSeq(Indices(e), 1, pad)[i] = Indices(e)[i]
    BY <1>1, <1>4, <1>5, <1>6
  <2>3. padded(W, start, e) = Indices(e) \o SubSeq(Indices(e), 1, pad)
    BY <1>3
  <2>4. Indices(e) \in Seq(Int) /\ Len(Indices(e)) = n
    BY <1>5, <1>6
  <2>5. ASSUME NEW s \in Seq(Int), NEW t \in Seq(Int), Len(s) = n, Len(t) = pad
        PROVE  /\ Len(s \o t) = n + pad
               /\ \A i \in 1 .. n : (s \o t)[i] = s[i]
               /\ \A i \in n + 1 .. n + pad : (s \o t)[i] = t[i - n]
    <3>0. Len(s) \in Nat /\ Len(t) \in Nat
      BY <2>5
    <3>1. Len(s \o t) = Len(s) + Len(t)
      BY <2>5
    <3>2. ASSUME NEW i \in 1 .. Len(s) PROVE (s \o t)[i] = s[i]
      BY <2>5, <3>0, <3>2
    <3>3. ASSUME NEW i \in Len(s) + 1 .. Len(s) + Len(t) PROVE (s \o t)[i] = t[i - Len(s)]
      BY <2>5, <3>0, <3>3
    <3> QED
      BY <2>5, <3>1, <3>2, <3>3
  <2>6. \A i \in n + 1 .. n + pad : i - n \in 1 .. pad
    BY <1>1, <1>4
  <2> QED
    BY <2>1, <2>2, <2>3, <2>4, <2>5, <2>6
<1>7. n + pad = m * W
  <2>1. Len(padded(W, start, 0)) = total
    BY DEF Divisible, total
  <2> QED
    BY <1>2, <1>6, <2>1
<1>8. \A i \in 1 .. m * W : padded(W, start, epoch)[i] \in start .. DatasetSize - 1
  <2> SUFFICES ASSUME NEW i \in 1 .. m * W
               PROVE  padded(W, start, epoch)[i] \in start .. DatasetSize - 1
    OBVIOUS
  <2>1. CASE i <= n
    <3>1. i \in 1 .. n
      BY <1>1, <1>2, <2>1
    <3> QED
      BY <1>5, <1>6, <3>1
  <2>2. CASE i > n
    <3>1. i \in n + 1 .. n + pad /\ i - n \in 1 .. n
      BY <1>1, <1>2, <1>4, <1>7, <2>2
    <3> QED
      BY <1>5, <1>6, <3>1
  <2> QED
    BY <1>1, <1>2, <2>1, <2>2
<1>9. ASSUME NEW x \in start .. DatasetSize - 1
      PROVE  \E i \in 1 .. m * W : padded(W, start, epoch)[i] = x
  <2>1. x - start \in 0 .. n - 1
    BY <1>1 DEF n
  <2>2. PICK k \in 1 .. n : randperm(n, epoch)[k] = x - start
    <3>1. \A y \in 0 .. n - 1 : \E k \in 1 .. n : randperm(n, epoch)[k] = y
      BY <1>1, RandpermOnto
    <3> QED
      BY <2>1, <3>1
  <2>3. padded(W, start, epoch)[k] = x
    <3>1. padded(W, start, epoch)[k] = randperm(n, epoch)[k] + start
      BY <1>5, <1>6
    <3> QED
      BY <1>1, <2>2, <3>1
  <2>4. k \in 1 .. m * W
    BY <1>1, <1>2
  <2> QED
    BY <2>3, <2>4
<1> QED
  BY <1>2, <1>8, <1>9 DEF m

\* The ranks of a complete group are all the numbers below the world size.
LEMMA RanksOnto ==
  ASSUME TypeOK, GroupInv, NEW w \in Workers, Incarnation(w) # 0, Complete(w)
  PROVE  /\ WorldSize(w) \in Nat \ {0}
         /\ \A v \in Peers(w) : Rank(v) \in 0 .. WorldSize(w) - 1
         /\ \A r \in 0 .. WorldSize(w) - 1 : \E v \in Peers(w) : Rank(v) = r
<1> DEFINE W == WorldSize(w)
           M == members[Incarnation(w)]
           L == 0 .. LocalWorldSize - 1
           P == Peers(w)
<1>1. w[1] \in M /\ M \subseteq Nodes /\ IsFiniteSet(Nodes)
  <2>1. w[1] \in M
    BY DEF GroupInv
  <2>2. Incarnation(w) \in 1 .. Len(members) /\ members \in Seq(SUBSET Nodes)
    BY WorkersAre DEF TypeOK, Incarnation
  <2>3. NumNodes - 1 \in Int
    BY TrainingAssumption
  <2>4. IsFiniteSet(Nodes)
    BY <2>3, FS_Interval DEF Nodes
  <2> QED
    BY <2>1, <2>2, <2>4
<1>2. P = M \X L
  <2>1. ASSUME NEW v \in P PROVE v \in M \X L
    <3>1. v \in Workers /\ Incarnation(v) = Incarnation(w)
      BY <2>1 DEF Peers
    <3>2. v[1] \in M
      BY <3>1 DEF GroupInv
    <3> QED
      BY <3>1, <3>2 DEF Workers
  <2>2. ASSUME NEW v \in M \X L PROVE v \in P
    <3>1. v \in Workers /\ v[1] \in M
      BY <1>1, <2>2 DEF Workers
    <3>2. Incarnation(v) = Incarnation(w)
      BY <3>1 DEF Complete, Incarnation
    <3> QED
      BY <3>1, <3>2 DEF Peers
  <2> QED
    BY <2>1, <2>2
<1>3. IsFiniteSet(M) /\ Cardinality(M) \in Nat \ {0}
  <2>1. IsFiniteSet(M)
    BY <1>1, FS_Subset
  <2> QED
    BY <1>1, <2>1, FS_CardinalityType, FS_EmptySet
<1>4. IsFiniteSet(L) /\ Cardinality(L) = LocalWorldSize
  <2>1. LocalWorldSize - 1 \in Int /\ 0 \in Int /\ LocalWorldSize \in Nat \ {0}
    BY TrainingAssumption
  <2>2. Cardinality(L) = IF 0 > LocalWorldSize - 1 THEN 0 ELSE LocalWorldSize - 1 - 0 + 1
    BY <2>1, FS_Interval
  <2> QED
    BY <2>1, <2>2, FS_Interval
<1>5. IsFiniteSet(P) /\ Cardinality(P) = W
  BY <1>2, <1>3, <1>4, FS_Product DEF WorldSize
<1>6. W \in Nat \ {0}
  <2>1. LocalWorldSize \in Nat \ {0}
    BY TrainingAssumption
  <2> QED
    BY <1>3, <2>1 DEF WorldSize
<1>7. ASSUME NEW v \in P PROVE Rank(v) \in 0 .. W - 1
  <2> DEFINE Q == {x \in Peers(v) : Precedes(x, v)}
  <2>1. v \in Workers /\ Peers(v) = P
    BY <1>7 DEF Peers
  <2>2. Q \subseteq P /\ v \notin Q /\ Rank(v) = Cardinality(Q)
    BY <2>1, WorkersAre DEF Rank, Precedes
  <2> HIDE DEF Q, P
  <2>3. IsFiniteSet(Q) /\ Cardinality(Q) <= Cardinality(P) /\ Cardinality(P) # Cardinality(Q)
    BY <1>5, <1>7, <2>2, FS_Subset
  <2>4. Cardinality(Q) \in Nat
    BY <2>3, FS_CardinalityType
  <2> HIDE DEF W
  <2> QED
    BY <1>5, <1>6, <2>2, <2>3, <2>4
<1>8. ASSUME NEW r \in 0 .. W - 1 PROVE \E v \in P : Rank(v) = r
  <2> DEFINE f == [v \in P |-> Rank(v)]
             T == 0 .. W - 1
  <2>1. f \in Injection(P, T)
    <3>1. f \in [P -> T]
      BY <1>7
    <3>2. ASSUME NEW x \in P, NEW y \in P, f[x] = f[y] PROVE x = y
      <4>1. x \in Workers /\ y \in Workers /\ Incarnation(x) = Incarnation(y)
        BY <3>2 DEF Peers
      <4> QED
        BY <3>2, <4>1, RankUnique
    <3> QED
      BY <3>1, <3>2 DEF Injection, IsInjective
  <2>2. IsFiniteSet(T) /\ Cardinality(T) = W
    <3> HIDE DEF W
    <3>1. W - 1 \in Int /\ 0 \in Int
      BY <1>6
    <3>2. IsFiniteSet(T) /\ Cardinality(T) = IF 0 > W - 1 THEN 0 ELSE W - 1 - 0 + 1
      BY <3>1, FS_Interval
    <3> QED
      BY <1>6, <3>2
  <2>3. f \in Surjection(P, T)
    <3> HIDE DEF f, P, T, W
    <3> QED
      BY <1>5, <2>1, <2>2, FS_Injection
  <2>4. \E v \in P : f[v] = r
    BY <1>8, <2>3 DEF Surjection
  <2> QED
    BY <2>4
<1> QED
  BY <1>6, <1>7, <1>8

\* The workers of a complete group that begin an epoch share out all samples.
LEMMA SharedOut ==
  ASSUME Inv, NEW w \in Workers, NEW start \in 0 .. DatasetSize - 1,
         pc[w] = "train", Complete(w), Divisible(WorldSize(w), start),
         \A v \in Peers(w) : Epoch(v) = Epoch(w)
  PROVE  /\ UNION {{MySamples(v, start)[k] : k \in DOMAIN MySamples(v, start)} : v \in Peers(w)}
              = start .. DatasetSize - 1
         /\ \A v \in Peers(w) : Len(MySamples(v, start)) = Len(MySamples(w, start))
<1> DEFINE W == WorldSize(w)
           m == num_samples(W, start)
           e == Epoch(w) + 1
           s == padded(W, start, e)
           Mine(v) == MySamples(v, start)
<1>0. TypeOK /\ GroupInv
  BY DEF Inv
<1>1. Incarnation(w) # 0
  BY <1>0 DEF GroupInv
<1>2. e \in Nat
  BY <1>0 DEF TypeOK, Epoch
<1>3. /\ W \in Nat \ {0}
      /\ \A v \in Peers(w) : Rank(v) \in 0 .. W - 1
      /\ \A r \in 0 .. W - 1 : \E v \in Peers(w) : Rank(v) = r
  BY <1>0, <1>1, RanksOnto
<1>4. /\ m \in Nat
      /\ \A i \in 1 .. m * W : s[i] \in start .. DatasetSize - 1
      /\ \A x \in start .. DatasetSize - 1 : \E i \in 1 .. m * W : s[i] = x
  BY <1>2, <1>3, PaddedIs
<1>5. w \in Peers(w)
  BY DEF Peers
<1>6. ASSUME NEW v \in Peers(w)
      PROVE  Mine(v) = [k \in 1 .. m |-> s[Rank(v) + 1 + (k - 1) * W]]
  <2>1. WorldSize(v) = W /\ Epoch(v) + 1 = e
    BY <1>6 DEF Peers, WorldSize
  <2> QED
    BY <2>1 DEF MySamples, Samples
<1> HIDE DEF W, m, s, e, Mine
<1>7. ASSUME NEW v \in Peers(w) PROVE Len(Mine(v)) = m /\ DOMAIN Mine(v) = 1 .. m
  BY <1>4, <1>6, <1>7
<1>8. ASSUME NEW v \in Peers(w), NEW k \in 1 .. m
      PROVE  Mine(v)[k] \in start .. DatasetSize - 1
  <2>1. Rank(v) + 1 + (k - 1) * W \in 1 .. m * W
    BY <1>3, <1>4, PlaceIn
  <2> QED
    BY <1>4, <1>6, <2>1
<1>9. ASSUME NEW x \in start .. DatasetSize - 1
      PROVE  \E v \in Peers(w) : \E k \in 1 .. m : Mine(v)[k] = x
  <2>1. PICK i \in 1 .. m * W : s[i] = x
    BY <1>4
  <2>2. m * W \in Nat /\ i - 1 \in 0 .. m * W - 1
    BY <1>3, <1>4
  <2>3. PICK k \in 1 .. m, r \in 0 .. W - 1 : i - 1 = r + (k - 1) * W
    BY <1>3, <1>4, <2>2, PlaceOf
  <2>4. PICK v \in Peers(w) : Rank(v) = r
    BY <1>3
  <2>5. i = Rank(v) + 1 + (k - 1) * W
    BY <1>3, <1>4, <2>3, <2>4
  <2>6. Mine(v)[k] = x
    BY <1>6, <2>1, <2>5
  <2> QED
    BY <2>6
<1>10. UNION {{Mine(v)[k] : k \in DOMAIN Mine(v)} : v \in Peers(w)} = start .. DatasetSize - 1
  <2>1. ASSUME NEW x \in UNION {{Mine(v)[k] : k \in DOMAIN Mine(v)} : v \in Peers(w)}
        PROVE  x \in start .. DatasetSize - 1
    BY <1>7, <1>8, <2>1
  <2>2. ASSUME NEW x \in start .. DatasetSize - 1
        PROVE  x \in UNION {{Mine(v)[k] : k \in DOMAIN Mine(v)} : v \in Peers(w)}
    BY <1>7, <1>9, <2>2
  <2> QED
    BY <2>1, <2>2
<1>11. \A v \in Peers(w) : Len(Mine(v)) = Len(Mine(w))
  BY <1>5, <1>7
<1> QED
  BY <1>10, <1>11 DEF Mine

-----------------------------------------------------------------------------
(* The theorems.                                                           *)

\* The workers of a complete group agree on the state to go on from and are
\* never more than an epoch apart; the worker that saves is not behind the
\* checkpoint of its node, which is whole.
THEOREM Invariance == Spec => []Inv
<1>1. Inv /\ [Next]_vars => Inv'
  BY KeptStep, InvPartsNext DEF Kept
<1> QED
  BY <1>1, InitInv, PTL DEF Spec

\* The variables keep the types of the script: positions in main(), weights
\* of at most args.epochs epochs, files that are absent or hold one snapshot.
THEOREM TypeCorrect == Spec => []TypeOK
<1>1. Inv => TypeOK
  BY DEF Inv
<1> QED
  BY <1>1, Invariance, PTL

\* Workers of a group that are at the same epoch have the same weights,
\* whatever checkpoints their nodes had and whoever fails.
THEOREM WeightsEqual == Spec => []SameWeights
<1>1. Inv => SameWeights
  BY DEF Inv
<1> QED
  BY <1>1, Invariance, PTL

\* Checkpoints are whole at every moment and never fall back on a disk that
\* survives, wherever a crash interrupts save_checkpoint().
THEOREM CheckpointsKept == Spec => CheckpointsAdvance
<1>1. Inv => \A n \in Nodes : \A f \in disk[n].checkpoint : f.whole
  BY DEF Inv, WholeInv
<1>2. Inv /\ [Next]_vars =>
        [\A n \in Nodes :
           \/ disk'[n] = Empty
           \/ EpochsIn(disk[n].checkpoint) <= EpochsIn(disk'[n].checkpoint)]_vars
  BY KeptStep DEF Kept, Advance
<1> QED
  BY <1>1, <1>2, Invariance, PTL DEF Spec, CheckpointsAdvance

\* In every epoch, whatever the size of the group and of the data and wherever
\* the epoch starts, no sample is left out and all workers have equally many,
\* as long as the assertion of the sampler holds.
THEOREM SamplesCovered == Spec => []EpochCovers
<1>1. Inv => EpochCovers
  BY SharedOut DEF EpochCovers
<1> QED
  BY <1>1, Invariance, PTL
=============================================================================
