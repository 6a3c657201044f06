---------------------------- MODULE MCElasticJob ----------------------------
(* Instances of ElasticJob for TLC.                                        *)
EXTENDS ElasticJob

Base == [replicas |-> 2, min |-> 1, max |-> 2, policy |-> "ExitCode",
         clean |-> "None", ttl |-> FALSE, nproc |-> "1"]

\* The sample of the repository; a job without bounds on GPUs that is cleaned
\* up and removed; one whose bounds the launcher refuses.
SomeSpecs ==
  {Base,
   [Base EXCEPT !.replicas = 1, !.min = 0, !.max = 0, !.policy = "Never",
                !.clean = "All", !.ttl = TRUE, !.nproc = "gpu"],
   [Base EXCEPT !.replicas = 1, !.min = 2, !.max = 1, !.policy = "Never",
                !.clean = "All"]}
=============================================================================
