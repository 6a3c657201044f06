--------------------------- MODULE ElasticSampler ---------------------------
(***************************************************************************)
(* ElasticDistributedSampler, torchelastic/utils/data.  The samples are    *)
(* numbered from 0; torch.randperm is external: any permutation will do    *)
(* that depends on the seed alone.                                         *)
(***************************************************************************)
EXTENDS Integers, Sequences

CONSTANT DatasetSize

ASSUME DatasetAssumption == DatasetSize \in Nat \ {0}

\* The permutation of 0 .. n - 1 that the generator gives for a seed.
randperm(n, seed) == [k \in 1 .. n |-> (k + seed) % n]

\* __init__(): the samples of one replica, rounded up.
num_samples(num_replicas, start_index) ==
  (DatasetSize - start_index + num_replicas - 1) \div num_replicas

total_size(num_replicas, start_index) ==
  num_samples(num_replicas, start_index) * num_replicas

\* __iter__(): the shuffled indices, padded once with their beginning.
padded(num_replicas, start_index, epoch) ==
  LET n == DatasetSize - start_index
      indices == [k \in 1 .. n |-> randperm(n, epoch)[k] + start_index]
      missing == total_size(num_replicas, start_index) - n
  IN  indices \o SubSeq(indices, 1, IF missing < n THEN missing ELSE n)

\* The assertion after the padding.
Divisible(num_replicas, start_index) ==
  Len(padded(num_replicas, start_index, 0)) = total_size(num_replicas, start_index)

\* Faulty variant: the indices are not padded.
SamplesUnpadded(num_replicas, rank, start_index, epoch) ==
  LET n == DatasetSize - start_index
  IN  [k \in 1 .. (n - rank + num_replicas - 1) \div num_replicas |->
         randperm(n, epoch)[rank + 1 + (k - 1) * num_replicas] + start_index]

\* Every num_replicas-th index, beginning with the rank.
Samples(num_replicas, rank, start_index, epoch) ==
  [k \in 1 .. num_samples(num_replicas, start_index) |->
     padded(num_replicas, start_index, epoch)[rank + 1 + (k - 1) * num_replicas]]
=============================================================================
