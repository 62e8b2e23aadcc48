----------------------------- MODULE TensorJobs -----------------------------
(***************************************************************************)
(* How a Tensor cluster launches and runs jobs: the API handlers that      *)
(* insert a job and put it on a Redis queue, the project update that a     *)
(* launch may put in front of it, and on every node one Ansible and one    *)
(* Terraform consumer that take jobs one at a time and run them.           *)
(***************************************************************************)
EXTENDS JobDocs, TaskQueue

CONSTANTS
    MaxCrashes,  \* bound: how many times a node may crash
    Removable    \* the projects and templates somebody asks to delete

ASSUME TensorJobsAssumption ==
    /\ Delivery = Job
    /\ MaxCrashes \in Nat
    /\ Removable \subseteq Project \cup Template

VARIABLES
    up,        \* the nodes that are running
    crashes,   \* crashes so far
    handler,   \* progress of the request handler that creates a job
    host,      \* the node that handler runs on
    previous,  \* the PreviousJob of a launched job's payload
    phase,     \* what the consumer of a node and queue is doing
    held,      \* the job it is doing it for
    outcome    \* the status it is about to report

apiVars == <<handler, host, previous>>
runVars == <<phase, held, outcome>>
vars == <<docVars, queueVars, up, crashes, apiVars, runVars>>

-----------------------------------------------------------------------------
\* A launch handler: none, inserted, updating (inside sync.UpdateProject),
\* updated, then done (201) or failed.  The handler of an update job is the
\* call of UpdateProject that creates it: none, inserted, done or failed.
HandlerPhase == {"none", "inserted", "updating", "updated", "done", "failed"}
InProgress(j) == handler[j] \in {"inserted", "updating", "updated"}

Phase == {"idle", "acked", "pending", "waiting", "cleared", "getting", "running",
          "finished", "reported"}

QueueOf(j) == IF j \in TerraformJob THEN "terraformq" ELSE "ansibleq"

TypeOK ==
    /\ TypeOKDocs
    /\ TypeOKQueue
    /\ up \subseteq Node
    /\ crashes \in 0 .. MaxCrashes
    /\ handler \in [Job -> HandlerPhase]
    /\ host \in [Job -> Node \cup {NoJob}]
    /\ previous \in [Job -> UpdateJob \cup {NoJob}]
    /\ phase \in [Node -> [Queue -> Phase]]
    /\ held \in [Node -> [Queue -> Job \cup {NoJob}]]
    /\ outcome \in [Node -> [Queue -> Outcome \cup {"none"}]]

Init ==
    /\ InitDocs
    /\ InitQueue
    /\ up = Node
    /\ crashes = 0
    /\ handler = [j \in Job |-> "none"]
    /\ host = [j \in Job |-> NoJob]
    /\ previous = [j \in Job |-> NoJob]
    /\ phase = [n \in Node |-> [q \in Queue |-> "idle"]]
    /\ held = [n \in Node |-> [q \in Queue |-> NoJob]]
    /\ outcome = [n \in Node |-> [q \in Queue |-> "none"]]

-----------------------------------------------------------------------------
(* Request handlers.  A handler reads the template, the project and the    *)
(* credentials before its first write; it may be delayed there for any     *)
(* time, so nothing of what it read need still exist when it writes.       *)

\* JobTemplateController.Launch up to the insert of the job.
Launch(n, j) ==
    /\ handler[j] = "none"
    /\ InsertJob(j, "new")
    /\ handler' = [handler EXCEPT ![j] = "inserted"]
    /\ host' = [host EXCEPT ![j] = n]
    /\ UNCHANGED <<projectStatus, templateStatus, teardown>>
    /\ UNCHANGED <<queueVars, up, crashes, previous, runVars>>

LaunchAnsible(n, j) == j \in AnsibleJob /\ Launch(n, j)
LaunchTerraform(n, j) == j \in TerraformJob /\ Launch(n, j)

\* sync.UpdateProject up to the insert of update job u.
BeginUpdate(n, u) ==
    /\ handler[u] = "none"
    /\ InsertJob(u, "pending")
    /\ host' = [host EXCEPT ![u] = n]
    /\ UNCHANGED <<projectStatus, templateStatus, teardown>>
    /\ UNCHANGED <<queueVars, up, crashes, runVars>>

\* Launch, when the project is not checked out or has ScmUpdateOnLaunch.
LaunchWithUpdate(n, j, u) ==
    /\ j \in LaunchedJob
    /\ handler[j] = "inserted"
    /\ host[j] = n
    /\ ProjectOf[u] = ProjectOf[j]
    /\ BeginUpdate(n, u)
    /\ handler' = [handler EXCEPT ![j] = "updating", ![u] = "inserted"]
    /\ previous' = [previous EXCEPT ![j] = u]

\* ProjectController.Create, Update and SCMUpdate.
RequestUpdate(n, u) ==
    /\ BeginUpdate(n, u)
    /\ handler' = [handler EXCEPT ![u] = "inserted"]
    /\ UNCHANGED previous

\* The launch handler that called UpdateProject for update job u, if any.
Callers(u) == {j \in LaunchedJob : previous[j] = u /\ handler[j] = "updating"}

\* The rest of UpdateProject: read the SCM credential, publish, return.
PublishUpdate(n, u) ==
    /\ u \in UpdateJob
    /\ handler[u] = "inserted"
    /\ host[u] = n
    /\ Publish("ansibleq", u)
    /\ handler' = [j \in Job |-> IF j = u THEN "done"
                                 ELSE IF j \in Callers(u) THEN "updated" ELSE handler[j]]
    /\ UNCHANGED <<docVars, up, crashes, host, previous, runVars>>

\* UpdateProject returns an error (the SCM credential cannot be read): its job
\* is in the database and on no queue, and the launch that called it gives up.
AbortUpdate(n, u) ==
    /\ u \in UpdateJob
    /\ handler[u] = "inserted"
    /\ host[u] = n
    /\ handler' = [j \in Job |-> IF j = u \/ j \in Callers(u) THEN "failed"
                                 ELSE handler[j]]
    /\ UNCHANGED <<docVars, queueVars, up, crashes, host, previous, runVars>>

\* Slip: the job is queued before UpdateProject has queued its update.
PublishJobEarly(n, j) ==
    /\ j \in LaunchedJob
    /\ handler[j] \in {"inserted", "updating", "updated"}
    /\ host[j] = n
    /\ Publish(QueueOf(j), j)
    /\ handler' = [handler EXCEPT ![j] = "done"]
    /\ UNCHANGED <<docVars, up, crashes, host, previous, runVars>>

\* Launch, from its last branch to the 201: the payload is queued with the
\* update job in PreviousJob, or without one.
PublishJob(n, j) ==
    /\ j \in LaunchedJob
    /\ handler[j] \in {"inserted", "updated"}
    /\ host[j] = n
    /\ Publish(QueueOf(j), j)
    /\ handler' = [handler EXCEPT ![j] = "done"]
    /\ UNCHANGED <<docVars, up, crashes, host, previous, runVars>>

\* Launch gives up after it inserted the job: the update job cannot be inserted
\* or the payload not be marshalled.  The job stays "new".
AbortLaunch(n, j) ==
    /\ j \in LaunchedJob
    /\ handler[j] \in {"inserted", "updated"}
    /\ host[j] = n
    /\ handler' = [handler EXCEPT ![j] = "failed"]
    /\ UNCHANGED <<docVars, queueVars, up, crashes, host, previous, runVars>>

Handle(n) ==
    \/ \E j \in AnsibleJob : LaunchAnsible(n, j)
    \/ \E j \in TerraformJob : LaunchTerraform(n, j)
    \/ \E j \in LaunchedJob, u \in UpdateJob : LaunchWithUpdate(n, j, u)
    \/ \E u \in UpdateJob : RequestUpdate(n, u)
    \/ \E u \in UpdateJob : PublishUpdate(n, u)
    \/ \E u \in UpdateJob : AbortUpdate(n, u)
    \/ \E j \in LaunchedJob : PublishJob(n, j)
    \/ \E j \in LaunchedJob : AbortLaunch(n, j)

-----------------------------------------------------------------------------
(* Consumers.  rmq calls Consume for one delivery after the other; it      *)
(* returns when the job has been run and reported.                         *)

Enter(n, q, p) == phase' = [phase EXCEPT ![n][q] = p]

\* A payload is acked as soon as it is decoded, before anything is run.
Consume(n, q) ==
    /\ phase[n][q] = "idle"
    /\ \E j \in Job :
         /\ TakeAndAck(n, q, j)
         /\ held' = [held EXCEPT ![n][q] = j]
    /\ Enter(n, q, "acked")
    /\ UNCHANGED <<docVars, up, crashes, apiVars, outcome>>

AnsibleConsume(n) == Consume(n, "ansibleq")
TerraformConsume(n) == Consume(n, "terraformq")

\* A status write and the consumer's next phase.
Record(n, q, s, p) ==
    /\ SetStatus(held[n][q], s)
    /\ Enter(n, q, p)
    /\ UNCHANGED <<projectStatus, templateStatus, teardown>>
    /\ UNCHANGED <<queueVars, up, crashes, apiVars, held>>

MarkPending(n, q) ==
    /\ phase[n][q] = "acked"
    /\ Record(n, q, "pending", "pending")
    /\ UNCHANGED outcome

\* sync.Sync
StartSync(n) ==
    /\ phase[n]["ansibleq"] = "pending"
    /\ held[n]["ansibleq"] \in UpdateJob
    /\ Record(n, "ansibleq", "running", "running")
    /\ UNCHANGED outcome

\* ansibleRun and terraformRun: a job with a PreviousJob waits for it first.
BeginWaiting(n, q) ==
    /\ phase[n][q] = "pending"
    /\ held[n][q] \in LaunchedJob
    /\ previous[held[n][q]] # NoJob
    /\ Record(n, q, "waiting", "waiting")
    /\ UNCHANGED outcome

PreviousStatus(n, q) == status[previous[held[n][q]]]

\* Slips: everything but success is a failure; only "error" is.
PollFailedEagerly(n, q) ==
    /\ phase[n][q] = "waiting"
    /\ PreviousStatus(n, q) # "successful"
    /\ Record(n, q, "error", "finished")
    /\ outcome' = [outcome EXCEPT ![n][q] = "error"]

PollFailedOnErrorOnly(n, q) ==
    /\ phase[n][q] = "waiting"
    /\ PreviousStatus(n, q) = "error"
    /\ Record(n, q, "error", "finished")
    /\ outcome' = [outcome EXCEPT ![n][q] = "error"]

\* A tick that finds the update job failed; jobError writes the verdict.
PollFailed(n, q) ==
    /\ phase[n][q] = "waiting"
    /\ PreviousStatus(n, q) \in {"failed", "error"}
    /\ Record(n, q, "error", "finished")
    /\ outcome' = [outcome EXCEPT ![n][q] = "error"]

\* Slip: any end of the update will do.
PollSuccessfulOnAnyEnd(n, q) ==
    /\ phase[n][q] = "waiting"
    /\ PreviousStatus(n, q) \in Outcome
    /\ Enter(n, q, "cleared")
    /\ UNCHANGED <<docVars, queueVars, up, crashes, apiVars, held, outcome>>

\* A tick that finds it successful.  Any other tick, one that does not find
\* the document included, leaves the consumer waiting.
PollSuccessful(n, q) ==
    /\ phase[n][q] = "waiting"
    /\ PreviousStatus(n, q) = "successful"
    /\ Enter(n, q, "cleared")
    /\ UNCHANGED <<docVars, queueVars, up, crashes, apiVars, held, outcome>>

MayStart(n, q) ==
    \/ phase[n][q] = "cleared"
    \/ /\ phase[n][q] = "pending"
       /\ held[n][q] \in LaunchedJob
       /\ previous[held[n][q]] = NoJob

StartAnsible(n) ==
    /\ MayStart(n, "ansibleq")
    /\ Record(n, "ansibleq", "running", "running")
    /\ UNCHANGED outcome

StartTerraform(n) ==
    /\ MayStart(n, "terraformq")
    /\ Record(n, "terraformq", "running", "getting")
    /\ UNCHANGED outcome

\* terraform get ran before the command proper; no timer limits it.
TerraformGet(n) ==
    /\ phase[n]["terraformq"] = "getting"
    /\ Enter(n, "terraformq", "running")
    /\ UNCHANGED <<docVars, queueVars, up, crashes, apiVars, held, outcome>>

Verdict(n, q, s) ==
    /\ Record(n, q, s, "finished")
    /\ outcome' = [outcome EXCEPT ![n][q] = s]

\* jobSuccess: the command exited with status zero.
JobSuccess(n, q) == phase[n][q] = "running" /\ Verdict(n, q, "successful")

\* Slip: a command killed by the timer is reported by jobCancel.
JobFailOrCancel(n, q) ==
    /\ phase[n][q] \in {"getting", "running"}
    /\ \E s \in {"failed", "canceled"} : Verdict(n, q, s)

\* Slip: no return after jobFail.
JobFailAndCarryOn(n, q) ==
    /\ phase[n][q] \in {"getting", "running"}
    /\ Record(n, q, "failed", "running")
    /\ UNCHANGED outcome

\* jobFail: a key or credential could not be used, the command could not be
\* started, exited with an error or was killed by the timer.
JobFail(n, q) == phase[n][q] \in {"getting", "running"} /\ Verdict(n, q, "failed")

\* updateProject and updateJobTemplate follow every verdict; sync has no
\* template to update.
Leave(n, q) ==
    /\ Enter(n, q, "idle")
    /\ held' = [held EXCEPT ![n][q] = NoJob]
    /\ outcome' = [outcome EXCEPT ![n][q] = "none"]

UpdateProject(n, q) ==
    /\ phase[n][q] = "finished"
    /\ SetProjectStatus(held[n][q], outcome[n][q])
    /\ IF held[n][q] \in UpdateJob
       THEN Leave(n, q)
       ELSE Enter(n, q, "reported") /\ UNCHANGED <<held, outcome>>
    /\ UNCHANGED <<status, templateStatus, teardown, lostWrites>>
    /\ UNCHANGED <<queueVars, up, crashes, apiVars>>

UpdateJobTemplate(n, q) ==
    /\ phase[n][q] = "reported"
    /\ SetTemplateStatus(held[n][q], outcome[n][q])
    /\ Leave(n, q)
    /\ UNCHANGED <<status, projectStatus, teardown, lostWrites>>
    /\ UNCHANGED <<queueVars, up, crashes, apiVars>>

Run(n, q) ==
    \/ MarkPending(n, q)
    \/ BeginWaiting(n, q)
    \/ PollFailed(n, q)
    \/ PollSuccessful(n, q)
    \/ JobSuccess(n, q)
    \/ JobFail(n, q)
    \/ UpdateProject(n, q)
    \/ UpdateJobTemplate(n, q)

AnsibleRunner(n) ==
    AnsibleConsume(n) \/ StartSync(n) \/ StartAnsible(n) \/ Run(n, "ansibleq")

TerraformRunner(n) ==
    TerraformConsume(n) \/ StartTerraform(n) \/ TerraformGet(n) \/ Run(n, "terraformq")

-----------------------------------------------------------------------------
(* The rest of the system.                                                 *)

Fetch(n, q) ==
    /\ Prefetch(n, q)
    /\ UNCHANGED <<docVars, up, crashes, apiVars, runVars>>

RMQCleaner(n) ==
    /\ \E q \in Queue : \E j \in unclaimed[q] : ReturnUnacked(q, j)
    /\ UNCHANGED <<docVars, up, crashes, apiVars, runVars>>

\* A crash loses whatever the node's goroutines were doing.
Crash(n) ==
    /\ crashes < MaxCrashes
    /\ crashes' = crashes + 1
    /\ up' = up \ {n}
    /\ DropConnection(n)
    /\ phase' = [phase EXCEPT ![n] = [q \in Queue |-> "idle"]]
    /\ held' = [held EXCEPT ![n] = [q \in Queue |-> NoJob]]
    /\ outcome' = [outcome EXCEPT ![n] = [q \in Queue |-> "none"]]
    /\ handler' = [j \in Job |-> IF host[j] = n /\ InProgress(j) THEN "failed"
                                 ELSE handler[j]]
    /\ UNCHANGED <<docVars, host, previous>>

Restart(n) ==
    /\ n \notin up
    /\ up' = up \cup {n}
    /\ UNCHANGED <<docVars, queueVars, crashes, apiVars, runVars>>

Delete(x) ==
    /\ \/ x \in Project /\ (RemoveProjectJobs(x) \/ RemoveProjectTemplates(x) \/ RemoveProject(x))
       \/ x \in Template /\ (RemoveTemplateJobs(x) \/ RemoveTemplate(x))
    /\ UNCHANGED <<queueVars, up, crashes, apiVars, runVars>>

NodeStep(n) ==
    \/ Handle(n)
    \/ AnsibleRunner(n)
    \/ TerraformRunner(n)
    \/ \E q \in Queue : Fetch(n, q)
    \/ RMQCleaner(n)
    \/ Crash(n)

Next ==
    \/ \E n \in up : NodeStep(n)
    \/ \E n \in Node : Restart(n)
    \/ \E x \in Removable : Delete(x)

Spec == Init /\ [][Next]_vars

-----------------------------------------------------------------------------
(* Safety.                                                                 *)

Prefetched(j) == \E n \in Node, q \in Queue : prefetched[n][q] = j
Held(j) == \E n \in Node, q \in Queue : held[n][q] = j

\* Published and not yet acked by any consumer.
OnQueue(j) == \E q \in Queue : IsReady(q, j) \/ j \in unclaimed[q] \/ Prefetched(j)

\* A delivery is never duplicated: a job is in one place only, be it a list of
\* Redis, a channel of rmq or the hands of a consumer, through every crash and
\* every return of unacked deliveries.
OnePlace ==
    /\ \A q \in Queue : \A i, k \in 1 .. Len(ready[q]) : ready[q][i] = ready[q][k] => i = k
    /\ \A n, m \in Node, q, r \in Queue :
         /\ prefetched[n][q] = prefetched[m][r] /\ prefetched[n][q] # NoJob => n = m /\ q = r
         /\ held[n][q] = held[m][r] /\ held[n][q] # NoJob => n = m /\ q = r
         /\ prefetched[n][q] = held[m][r] => held[m][r] = NoJob
    /\ \A q, r \in Queue, j \in Job :
         /\ IsReady(q, j) => ~Prefetched(j) /\ ~Held(j) /\ j \notin unclaimed[r]
         /\ j \in unclaimed[q] => ~Prefetched(j) /\ ~Held(j)
         /\ IsReady(q, j) /\ IsReady(r, j) => q = r
         /\ j \in unclaimed[q] \cap unclaimed[r] => q = r

\* Because a consumer acks before it runs anything, a job that can still be
\* delivered has never been touched: redelivery after a crash cannot run a job
\* a second time.
RedeliveryIsFirstRun ==
    \A j \in Job : OnQueue(j) =>
        status[j] \in {"removed", IF j \in UpdateJob THEN "pending" ELSE "new"}

\* A job that asked for a project update runs on the outcome of that update:
\* when its consumer gets to run it, the update job has ended well, and nothing
\* rewrote its document since, whichever nodes ran the two.
RunsAfterUpdate ==
    \A n \in Node, q \in Queue :
        /\ phase[n][q] \in {"cleared", "getting", "running"}
        /\ held[n][q] \in LaunchedJob
        /\ previous[held[n][q]] # NoJob
        => PreviousStatus(n, q) \in {"successful", "removed"}

\* A job is reported in error only for an update that failed.
ErrorMeansUpdateFailed ==
    \A j \in Job : status[j] = "error" =>
        /\ previous[j] # NoJob
        /\ status[previous[j]] \in {"failed", "removed"}

\* While nothing fails but requests, a job the API answered 201 for is on a
\* queue, in the hands of a consumer, or has a verdict: nothing slips between
\* the queue, the channel and the consumer, and no verdict is dropped.
NothingLost ==
    \A j \in Job : handler[j] = "done" => OnQueue(j) \/ Held(j) \/ status[j] \in Outcome

\* An update job stays in front of the job that waits for it: the consumer that
\* holds the dependent never has the update behind it, in its own channel or
\* still on the queue.
UpdateAhead ==
    \A n \in Node :
        LET u == previous[held[n]["ansibleq"]] IN
        held[n]["ansibleq"] \in AnsibleJob /\ u # NoJob =>
            ~IsReady("ansibleq", u) /\ prefetched[n]["ansibleq"] # u

Blocked(n, q) == phase[n][q] = "waiting" /\ PreviousStatus(n, q) \notin Outcome

\* Consumers wait for jobs that other consumers, or they themselves, have yet to
\* take.  They never wait in a circle: as long as one is blocked, an Ansible
\* consumer somewhere has something to do.
NoGridlock ==
    (\E n \in Node, q \in Queue : Blocked(n, q)) =>
        \E m \in up :
            /\ ~Blocked(m, "ansibleq")
            /\ \/ phase[m]["ansibleq"] # "idle"
               \/ prefetched[m]["ansibleq"] # NoJob
               \/ ready["ansibleq"] # <<>>

\* The status of a job only moves forward, an outcome is final, and a removed
\* document is never written again.
Rank(s) ==
    CASE s = "absent" -> 0
      [] s = "new" -> 1
      [] s = "pending" -> 2
      [] s = "waiting" -> 3
      [] s = "running" -> 4
      [] s \in Outcome -> 5
      [] s = "removed" -> 6

StatusMovesForward ==
    [][\A j \in Job : status'[j] # status[j] => Rank(status[j]) < Rank(status'[j])]_vars

-----------------------------------------------------------------------------
(* The contract.                                                           *)

HeldIn(j, phases) == \E n \in Node, q \in Queue : held[n][q] = j /\ phase[n][q] \in phases

Stage(j) ==
    CASE OnQueue(j) -> "queued"
      [] HeldIn(j, {"acked", "pending", "waiting", "cleared"}) -> "taken"
      [] HeldIn(j, {"getting", "running"}) -> "executing"
      [] InProgress(j) -> "accepted"
      [] OTHER ->
           CASE status[j] = "absent" -> "unborn"
             [] status[j] = "removed" -> "forgotten"
             [] status[j] \in Outcome -> status[j]
             [] OTHER -> "lost"

\* The machinery keeps the contract of module JobContract.
Contract == INSTANCE JobContract WITH
    stage <- [j \in Job |-> Stage(j)],
    after <- previous

KeepsContract == Contract!Spec

-----------------------------------------------------------------------------
(* Liveness.                                                               *)

\* Goroutines are scheduled, tickers tick, and a started command ends, by itself
\* or killed by the timer of its job type, and leaves no process behind that keeps
\* its output open (see EveryRunEnds of module JobProcess).  No timer limits
\* terraform get, so nothing is assumed of a consumer that runs it; and no client
\* is obliged to send a request.
Fairness ==
    \A n \in Node :
        /\ WF_vars(n \in up /\ AnsibleRunner(n))
        /\ WF_vars(n \in up /\ phase[n]["terraformq"] # "getting" /\ TerraformRunner(n))
        /\ \A q \in Queue : WF_vars(n \in up /\ Fetch(n, q))
        /\ WF_vars(n \in up /\ RMQCleaner(n))
        /\ WF_vars(Restart(n))

FairSpec == Spec /\ Fairness

\* Every job that was queued ends, even though its consumer may have to wait
\* for an update job that some other consumer has in its channel, and even if
\* Terraform consumers hang; only Terraform jobs may wait behind such a hang.
EveryQueuedJobEnds ==
    /\ \A j \in AnsibleJob \cup UpdateJob : handler[j] = "done" ~> status[j] \in Outcome
    /\ \A j \in TerraformJob : handler[j] = "done" ~>
         status[j] \in Outcome \/ \E n \in Node : phase[n]["terraformq"] = "getting"

\* What the comment of RMQCleaner says of unacked deliveries of crashed
\* consumers: they are returned so that a new consumer can consume them.
ReturnedIsConsumed ==
    \A j \in Job : (\E q \in Queue : j \in unclaimed[q]) ~> Held(j)

=============================================================================
