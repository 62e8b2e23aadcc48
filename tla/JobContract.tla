----------------------------- MODULE JobContract -----------------------------
(***************************************************************************)
(* What the job machinery promises about one job, whatever nodes, queues   *)
(* and consumers do underneath:                                            *)
(*   - a job that is on a queue is neither lost nor duplicated: it leaves  *)
(*     the queue only because some consumer took it;                       *)
(*   - a job is executed at most once;                                     *)
(*   - it is executed only after the project update it asked for has       *)
(*     succeeded, and given up in error only after that update has failed; *)
(*   - once it has ended its verdict stands, until its record is deleted.  *)
(* What it does not promise is that a job somebody has taken ends: a crash *)
(* or a failed write may lose it.                                          *)
(***************************************************************************)

CONSTANTS Job, NoJob

VARIABLES
    stage,  \* the life of a job
    after   \* the update job it has to wait for

Ended == {"successful", "failed", "error"}
Stage == {"unborn", "accepted", "queued", "taken", "executing", "lost", "forgotten"} \cup Ended

Init ==
    /\ stage = [j \in Job |-> "unborn"]
    /\ after = [j \in Job |-> NoJob]

Move(j, s) == stage' = [stage EXCEPT ![j] = s]

Accept(j) == stage[j] = "unborn" /\ Move(j, "accepted") /\ UNCHANGED after

\* A launch creates the update job it will wait for.
AcceptAfter(j, u) ==
    /\ stage[j] = "accepted" /\ after[j] = NoJob
    /\ stage[u] = "unborn" /\ Move(u, "accepted")
    /\ after' = [after EXCEPT ![j] = u]

Enqueue(j) == stage[j] = "accepted" /\ Move(j, "queued") /\ UNCHANGED after

Take(j) == stage[j] = "queued" /\ Move(j, "taken") /\ UNCHANGED after

Execute(j) ==
    /\ stage[j] = "taken"
    /\ after[j] # NoJob => stage[after[j]] \in {"successful", "forgotten"}
    /\ Move(j, "executing")
    /\ UNCHANGED after

\* The verdict may stay unrecorded, or the record be deleted already.
End(j) ==
    /\ stage[j] = "executing"
    /\ \E s \in {"successful", "failed", "lost", "forgotten"} : Move(j, s)
    /\ UNCHANGED after

GiveUp(j) ==
    /\ stage[j] = "taken"
    /\ after[j] # NoJob /\ stage[after[j]] = "failed"
    /\ \E s \in {"error", "lost", "forgotten"} : Move(j, s)
    /\ UNCHANGED after

\* Requests fail and nodes crash: what is not on a queue may be lost.
Drop ==
    /\ \A j \in Job : stage'[j] # stage[j] =>
         /\ stage[j] \in {"accepted", "taken", "executing"}
         /\ stage'[j] \in {"lost", "forgotten"}
    /\ stage' \in [Job -> Stage]
    /\ UNCHANGED after

\* Records of jobs nobody is working on are deleted.
Forget ==
    /\ \A j \in Job : stage'[j] # stage[j] =>
         stage[j] \in Ended \cup {"lost"} /\ stage'[j] = "forgotten"
    /\ stage' \in [Job -> Stage]
    /\ UNCHANGED after

Next ==
    \/ \E j \in Job : Accept(j) \/ Enqueue(j) \/ Take(j) \/ Execute(j) \/ End(j) \/ GiveUp(j)
    \/ \E j, u \in Job : AcceptAfter(j, u)
    \/ Drop
    \/ Forget

Spec == Init /\ [][Next]_<<stage, after>>

=============================================================================
