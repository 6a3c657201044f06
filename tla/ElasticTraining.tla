-------------------------- MODULE ElasticTraining ---------------------------
(***************************************************************************)
(* The training script examples/imagenet/main.py in the workers of an      *)
(* elastic job: it loads the most advanced checkpoint that any node of the *)
(* new group still has, trains epoch by epoch on the samples of its rank,  *)
(* and one worker of each node saves a checkpoint on the disk of the node. *)
(*                                                                         *)
(* The agents are external here: they start the workers of a group of      *)
(* nodes (an incarnation) after stopping those that ran before on the same *)
(* nodes.  Workers of a node that is not in the new group may go on for a  *)
(* while; they can not pass a collective operation any more.  The weights  *)
(* are abstracted to the sequence of the incarnations that trained them,   *)
(* one for each epoch, so that the epoch of a state is its length less 1.  *)
(***************************************************************************)
EXTENDS ElasticSampler, FiniteSets

CONSTANTS
  NumNodes,         \* the nodes 0 .. NumNodes - 1, in the order of their ranks
  LocalWorldSize,   \* the workers of a node
  Epochs,           \* args.epochs
  MaxIncarnations,  \* bound: groups that are formed
  MaxFailures       \* bound: workers and nodes that fail

ASSUME TrainingAssumption ==
  NumNodes \in Nat \ {0} /\ LocalWorldSize \in Nat \ {0} /\ Epochs \in Nat

Nodes == 0 .. NumNodes - 1
Workers == Nodes \X (0 .. LocalWorldSize - 1)

VARIABLES
  members,   \* the nodes of each incarnation formed so far
  group,     \* the incarnation whose workers a node has, 0 for none
  pc,        \* where each worker is in main()
  model,     \* the state of each worker: its weights
  disk,      \* the files of each node
  failures

vars == <<members, group, pc, model, disk, failures>>

\* A file: absent, or its content and whether all of it was written.
Absent == {}
File(content, whole) == {[content |-> content, whole |-> whole]}
Empty == [checkpoint |-> Absent, tmp |-> Absent]

Init ==
  /\ members = <<>>
  /\ group = [n \in Nodes |-> 0]
  /\ pc = [w \in Workers |-> "none"]
  /\ model = [w \in Workers |-> <<>>]
  /\ disk = [n \in Nodes |-> Empty]
  /\ failures = 0

Epoch(w) == Len(model[w]) - 1
Incarnation(w) == group[w[1]]
Peers(w) == {v \in Workers : Incarnation(v) = Incarnation(w)}

WorldSize(w) == Cardinality(members[Incarnation(w)]) * LocalWorldSize
Rank(w) == Cardinality({v \in Peers(w) :
                          v[1] < w[1] \/ (v[1] = w[1] /\ v[2] < w[2])})

\* All members of the group are there and none of their workers has failed.
Complete(w) ==
  /\ \A n \in members[Incarnation(w)] : group[n] = Incarnation(w)
  /\ \A v \in Peers(w) : pc[v] # "none"

Goto(w, label) == pc' = [pc EXCEPT ![w] = label]

-----------------------------------------------------------------------------
(* main()                                                                  *)

\* load_checkpoint(), first part: the checkpoint of the own node, if any.
Load(w) ==
  /\ pc[w] = "load"
  /\ \A f \in disk[w[1]].checkpoint :
       f.whole /\ model' = [model EXCEPT ![w] = f.content]
  /\ disk[w[1]].checkpoint = Absent => UNCHANGED model
  /\ Goto(w, "reduce")
  /\ UNCHANGED <<members, group, disk, failures>>

\* Faulty variant: the state of rank 0.
MaxRankFirst(w) == CHOOSE v \in Peers(w) : Rank(v) = 0

\* The first rank with the largest epoch.
MaxRank(w) ==
  CHOOSE v \in Peers(w) : \A u \in Peers(w) :
    Epoch(u) < Epoch(v) \/ (Epoch(u) = Epoch(v) /\ Rank(v) <= Rank(u))

\* Faulty variant: each worker goes on with what its own node has.
BroadcastNot(w) == UNCHANGED model

\* The state of that rank is broadcast, unless nobody has a checkpoint.
Broadcast(w) == model' = [model EXCEPT ![w] = model[MaxRank(w)]]

\* The loop of main(): the next epoch, if any is left.
NextEpoch(w) == IF Epoch(w) + 1 < Epochs THEN "train" ELSE "done"

\* max_epoch == -1.
NoCheckpoint(w) == \A v \in Peers(w) : Epoch(v) = -1

\* load_checkpoint(), second part: the workers agree on the state, at once
\* if nobody has a checkpoint.
Restore(w) ==
  /\ pc[w] = "reduce"
  /\ Complete(w)
  /\ \A v \in Peers(w) : pc[v] # "load"
  /\ Broadcast(w)
  /\ Goto(w, IF NoCheckpoint(w) THEN NextEpoch(w) ELSE "restored")
  /\ UNCHANGED <<members, group, disk, failures>>

\* The barrier at the end of load_checkpoint().
Start(w) ==
  /\ pc[w] = "restored"
  /\ Complete(w)
  /\ \A v \in Peers(w) : pc[v] \notin {"load", "reduce"}
  /\ Goto(w, NextEpoch(w))
  /\ UNCHANGED <<members, group, model, disk, failures>>

\* The samples of a worker in the epoch it is about to train; the script
\* begins with the first one.
MySamples(w, start_index) ==
  Samples(WorldSize(w), Rank(w), start_index, Epoch(w) + 1)

\* train(): every step of the optimizer waits for the gradients of all
\* workers, which therefore need the same number of batches.
Train(w) ==
  /\ pc[w] = "train"
  /\ Complete(w)
  /\ Divisible(WorldSize(w), 0)
  /\ \A v \in Peers(w) :
       \/ Epoch(v) > Epoch(w)
       \/ /\ pc[v] = "train" /\ Epoch(v) = Epoch(w)
          /\ Len(MySamples(v, 0)) = Len(MySamples(w, 0))
  /\ model' = [model EXCEPT ![w] = Append(@, Incarnation(w))]
  /\ Goto(w, "validate")
  /\ UNCHANGED <<members, group, disk, failures>>

\* validate(); the worker with device 0 saves.
Validate(w) ==
  /\ pc[w] = "validate"
  /\ Goto(w, IF w[2] = 0 THEN "save" ELSE NextEpoch(w))
  /\ UNCHANGED <<members, group, model, disk, failures>>

Write(w, file, content, whole) ==
  /\ disk' = [disk EXCEPT ![w[1]][file] = File(content, whole)]
  /\ UNCHANGED <<members, group, model, failures>>

\* save_checkpoint(): the snapshot goes to a temporary file, ...
Save(w) ==
  /\ pc[w] = "save"
  /\ Write(w, "tmp", model[w], FALSE)
  /\ Goto(w, "saving")

Saved(w) ==
  /\ pc[w] = "saving"
  /\ Write(w, "tmp", model[w], TRUE)
  /\ Goto(w, "saved")

\* ... which is renamed, ...
Commit(w) ==
  /\ pc[w] = "saved"
  /\ disk' = [disk EXCEPT ![w[1]].checkpoint = disk[w[1]].tmp, ![w[1]].tmp = Absent]
  /\ \E is_best \in BOOLEAN : Goto(w, IF is_best THEN "best" ELSE NextEpoch(w))
  /\ UNCHANGED <<members, group, model, failures>>

\* ... and copied if it is the best so far, to a file that is never read.
Copy(w) ==
  /\ pc[w] = "best"
  /\ Goto(w, NextEpoch(w))
  /\ UNCHANGED <<members, group, model, disk, failures>>

-----------------------------------------------------------------------------
(* The agents and the machines.                                            *)

Finished(n) == \A w \in Workers : w[1] = n => pc[w] = "done"

\* The node is new, or one of its workers fails or waits in vain.
Broken(n) == group[n] # 0 => \E w \in Workers : w[1] = n /\ ~Complete(w)

Form(G) ==
  /\ Len(members) < MaxIncarnations
  /\ members' = Append(members, G)
  /\ group' = [n \in Nodes |-> IF n \in G THEN Len(members) + 1 ELSE group[n]]
  /\ pc' = [w \in Workers |-> IF w[1] \in G THEN "load" ELSE pc[w]]
  /\ model' = [w \in Workers |-> IF w[1] \in G THEN <<>> ELSE model[w]]
  /\ UNCHANGED <<disk, failures>>

\* Nodes meet, after a failure or because one of them is new; nodes that
\* have finished take no part.
Rendezvous(G) ==
  /\ G # {}
  /\ \A n \in G : ~Finished(n)
  /\ \E n \in G : Broken(n)
  /\ Form(G)

Fail == failures < MaxFailures /\ failures' = failures + 1

\* A worker dies, in the middle of anything.
WorkerFails(w) ==
  /\ Fail
  /\ pc[w] \notin {"none", "done"}
  /\ Goto(w, "none")
  /\ model' = [model EXCEPT ![w] = <<>>]
  /\ UNCHANGED <<members, group, disk>>

\* A node dies with its workers; its disk survives or is that of a new node.
NodeFails(n, survives) ==
  /\ Fail
  /\ group[n] # 0
  /\ group' = [group EXCEPT ![n] = 0]
  /\ pc' = [w \in Workers |-> IF w[1] = n THEN "none" ELSE pc[w]]
  /\ model' = [w \in Workers |-> IF w[1] = n THEN <<>> ELSE model[w]]
  /\ disk' = IF survives THEN disk ELSE [disk EXCEPT ![n] = Empty]
  /\ UNCHANGED members

Step(w) ==
  \/ Load(w) \/ Restore(w) \/ Start(w) \/ Train(w) \/ Validate(w)
  \/ Save(w) \/ Saved(w) \/ Commit(w) \/ Copy(w)

Next ==
  \/ \E w \in Workers : Step(w) \/ WorkerFails(w)
  \/ \E G \in SUBSET Nodes : Rendezvous(G)
  \/ \E n \in Nodes, survives \in BOOLEAN : NodeFails(n, survives)

Spec == Init /\ [][Next]_vars

-----------------------------------------------------------------------------
(* What the script promises.                                               *)

Training(w) == pc[w] \notin {"none", "load", "reduce"}

\* Workers of one incarnation have the same weights after the same epoch,
\* whatever their nodes had on disk: gradients are averaged over equal models.
SameWeights ==
  \A v, w \in Workers :
    (Incarnation(v) = Incarnation(w) /\ Training(v) /\ Training(w) /\ Epoch(v) = Epoch(w))
      => model[v] = model[w]

EpochsIn(file) == IF file = Absent THEN 0 ELSE Len((CHOOSE f \in file : TRUE).content)

\* The checkpoint of a node is whole at every moment, and on a disk that
\* survives it never falls back behind an epoch once saved: a new group starts
\* from the most advanced checkpoint of its members.
CheckpointsAdvance ==
  /\ [](\A n \in Nodes : \A f \in disk[n].checkpoint : f.whole)
  /\ [][\A n \in Nodes :
          \/ disk'[n] = Empty
          \/ EpochsIn(disk[n].checkpoint) <= EpochsIn(disk'[n].checkpoint)]_vars

\* In every epoch of every group, of whatever size, each sample from any
\* start index on belongs to some worker and all workers have equally many,
\* unless the padding is too short and the assertion stops them all.
EpochCovers ==
  \A w \in Workers, start \in 0 .. DatasetSize - 1 :
    LET Mine(v) == MySamples(v, start)
    IN  (/\ pc[w] = "train" /\ Complete(w) /\ Divisible(WorldSize(w), start)
         /\ \A v \in Peers(w) : pc[v] = "train" /\ Epoch(v) = Epoch(w))
          => /\ UNION {{Mine(v)[k] : k \in DOMAIN Mine(v)} : v \in Peers(w)}
                  = start .. DatasetSize - 1
             /\ \A v \in Peers(w) : Len(Mine(v)) = Len(Mine(w))

-----------------------------------------------------------------------------
(* The inductive invariant behind the weights and the checkpoints.         *)

Labels == {"none", "load", "reduce", "restored", "train", "validate", "save",
           "saving", "saved", "best", "done"}

IsFile(file) ==
  file = Absent \/ \E f \in file : /\ file = {f} /\ f.content \in Seq(Nat)
                                   /\ Len(f.content) <= Epochs /\ f.whole \in BOOLEAN

TypeOK ==
  /\ members \in Seq(SUBSET Nodes)
  /\ group \in [Nodes -> 0 .. Len(members)]
  /\ pc \in [Workers -> Labels]
  /\ model \in [Workers -> Seq(Nat)]
  /\ DOMAIN disk = Nodes
  /\ \A n \in Nodes : /\ DOMAIN disk[n] = {"checkpoint", "tmp"}
                      /\ IsFile(disk[n].checkpoint) /\ IsFile(disk[n].tmp)
  /\ failures \in Nat

\* A node with workers is a member of their incarnation.
GroupInv ==
  \A w \in Workers : IF Incarnation(w) = 0 THEN pc[w] = "none"
                     ELSE w[1] \in members[Incarnation(w)]

\* The weights are those of at most all epochs.
LengthInv ==
  \A w \in Workers : /\ Len(model[w]) <= Epochs
                     /\ pc[w] = "train" => Len(model[w]) < Epochs

\* As long as the group is complete: a worker that was restored has the state
\* that those who are not yet will get.
AgreeInv ==
  \A v, w \in Workers :
    (Incarnation(v) = Incarnation(w) /\ Training(v) /\ Complete(v)) =>
      pc[w] # "load" /\ (pc[w] = "reduce" => model[v] = model[MaxRank(v)])

\* Of two workers in training one is at most an epoch ahead, of the same weights.
AheadInv ==
  \A v, w \in Workers :
    (Incarnation(v) = Incarnation(w) /\ Training(v) /\ Training(w) /\ Complete(v)) =>
      /\ Len(model[v]) <= Len(model[w]) + 1
      /\ Len(model[v]) = Len(model[w]) + 1 => model[v] = Append(model[w], Incarnation(w))

\* The first worker of a node saves, and is never behind the checkpoint.
SaveInv ==
  \A w \in Workers :
    /\ pc[w] \in {"save", "saving", "saved", "best"} => w[2] = 0
    /\ pc[w] = "saved" => disk[w[1]].tmp = File(model[w], TRUE)
    /\ w[2] = 0 /\ pc[w] \notin {"none", "load"} =>
         EpochsIn(disk[w[1]].checkpoint) <= Len(model[w])

WholeInv == \A n \in Nodes : \A f \in disk[n].checkpoint : f.whole

Inv == /\ TypeOK /\ GroupInv /\ LengthInv /\ AgreeInv /\ AheadInv /\ SameWeights
       /\ SaveInv /\ WholeInv
=============================================================================
