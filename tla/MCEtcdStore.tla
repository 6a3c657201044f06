---------------------------- MODULE MCEtcdStore ----------------------------
(***************************************************************************)
(* Instances of EtcdStore for TLC: two keys, of which n is a counter and x *)
(* is both set and incremented.                                            *)
(***************************************************************************)
EXTENDS EtcdStore, TLC

TwoKeys == {"n", "x"}

WriteRequests ==
  [op : {"set"}, key : {"x"}, num : {1, 2}]
    \cup [op : {"add"}, key : TwoKeys, num : {1}]

ReadRequests ==
  [op : {"get"}, keys : {<<"x">>}]
    \cup [op : {"wait", "check"}, keys : {<<"n", "x">>}]

\* Every method, with keys that are distinct.
AllRequests == WriteRequests \cup ReadRequests

\* The theorems about EtcdStore assume this.
ASSUME DistinctRequests == Distinct

=============================================================================
