-------------------------- MODULE MCLocalScheduler --------------------------
(* Instances of LocalScheduler for TLC.                                    *)
EXTENDS LocalScheduler

Ready == [image |-> TRUE, resources |-> TRUE]
R(container) ==
  [entrypoint |-> TRUE, container |-> container, num_replicas |-> 1]

\* Applications of one name: one that runs, one with an image that can not be
\* fetched for its second role, and one without container.
SomeApps ==
  {[name |-> "a", roles |-> <<R(Ready), R(Ready)>>],
   [name |-> "a", roles |-> <<R(Ready), R([Ready EXCEPT !.image = FALSE])>>],
   [name |-> "a", roles |-> <<R(NullContainer)>>]}
=============================================================================
