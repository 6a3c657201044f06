-------------------------- MODULE MCEtcdRendezvous --------------------------
(* Instances of EtcdRendezvous for TLC.                                    *)
EXTENDS EtcdRendezvous, TLC

\* The agents are interchangeable in the runs that check safety.
Interchangeable == Permutations(Agents)
=============================================================================
