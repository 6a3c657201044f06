---------------------------- MODULE AppLifecycle ----------------------------
(***************************************************************************)
(* What a scheduler does with the ids of the applications submitted to it  *)
(* (Scheduler of torchelastic/tsm/driver/api.py): an application lives,    *)
(* ends once, and may be forgotten after that; an id that is gone stays    *)
(* gone.  Which terminal state of AppState an ended application is in, and *)
(* whether it keeps it, is not said here.                                  *)
(***************************************************************************)
CONSTANT Ids        \* the application ids

VARIABLE status     \* what the scheduler knows of each id

Statuses == {"unsubmitted", "live", "ended", "gone"}

Init == status = [i \in Ids |-> "unsubmitted"]

Moves(i, from, to) ==
  /\ status[i] = from
  /\ status' = [status EXCEPT ![i] = to]

\* The id is given to an application that runs.
Submit(i) == Moves(i, "unsubmitted", "live")

\* The id is used up by a submission that fails.
Reject(i) == Moves(i, "unsubmitted", "gone")

\* The processes of the application ended by themselves, or cancel() ended
\* them.
Finish(i) == Moves(i, "live", "ended")

\* Only an application that has ended is forgotten.
Forget(i) == Moves(i, "ended", "gone")

Next == \E i \in Ids : Submit(i) \/ Reject(i) \/ Finish(i) \/ Forget(i)

Spec == Init /\ [][Next]_status
=============================================================================
