-------------------------- MODULE TensorJobsProofs --------------------------
(***************************************************************************)
(* Theorems about TensorJobs, for any number of nodes, jobs, projects and  *)
(* templates, any number of crashes and any number of lost writes.         *)
(***************************************************************************)
EXTENDS TensorJobs, SequenceTheorems, TLAPS

-----------------------------------------------------------------------------
(* The inductive invariant.                                                *)

Initial(j) == IF j \in UpdateJob THEN "pending" ELSE "new"

\* Where a payload is, an entry of the right kind is.
Homes ==
    \A q \in Queue :
        /\ \A j \in Range(ready[q]) \cup unclaimed[q] : q = QueueOf(j)
        /\ \A n \in Node : prefetched[n][q] # NoJob => q = QueueOf(prefetched[n][q])
        /\ \A n \in Node : held[n][q] # NoJob => q = QueueOf(held[n][q])

\* No id is used twice: a job without a handler has no document yet.
Fresh == \A j \in Job : handler[j] = "none" <=> status[j] = "absent"

\* What is on a queue or in a consumer's hands was published by its handler.
Published ==
    \A j \in Job : OnQueue(j) \/ Held(j) => handler[j] = "done"

\* A job no consumer has taken is as its handler inserted it, or deleted.
Untouched ==
    \A j \in Job : InProgress(j) \/ OnQueue(j) => status[j] \in {"removed", Initial(j)}

\* A consumer has a job in its hands exactly while it is busy, and it waits
\* only on behalf of a launched job that has an update job.
Busy ==
    \A n \in Node, q \in Queue :
        /\ held[n][q] = NoJob <=> phase[n][q] = "idle"
        /\ phase[n][q] \in {"waiting", "cleared"} =>
             held[n][q] \in LaunchedJob /\ previous[held[n][q]] # NoJob

\* The status of a held job is never ahead of its consumer; lost writes leave it
\* behind.
Reached(p) ==
    CASE p \in {"acked", "pending"} -> {"new", "pending"}
      [] p \in {"waiting", "cleared"} -> {"new", "pending", "waiting"}
      [] p \in {"getting", "running"} -> {"new", "pending", "waiting", "running"}
      [] OTHER -> Status

Behind ==
    \A n \in Node, q \in Queue : held[n][q] # NoJob =>
        status[held[n][q]] \in {"removed"} \cup Reached(phase[n][q])

UpdatesNeverInError == \A u \in UpdateJob : status[u] # "error"

IInv ==
    /\ TypeOK
    /\ Homes
    /\ OnePlace
    /\ Fresh
    /\ Published
    /\ Untouched
    /\ Busy
    /\ Behind
    /\ UpdatesNeverInError
    /\ RunsAfterUpdate
    /\ ErrorMeansUpdateFailed

-----------------------------------------------------------------------------
(* The steps of the system, grouped by what they do to the state.          *)

\* What a consumer may write, and where it goes from there.
MayRecord(n, q, s, p) ==
    \/ phase[n][q] = "acked" /\ s = "pending" /\ p = "pending"
    \/ /\ phase[n][q] = "pending"
       /\ held[n][q] \in LaunchedJob /\ previous[held[n][q]] # NoJob
       /\ s = "waiting" /\ p = "waiting"
    \/ /\ phase[n][q] = "waiting"
       /\ PreviousStatus(n, q) \in {"failed", "error"}
       /\ s = "error" /\ p = "finished"
    \/ /\ \/ phase[n][q] = "cleared"
          \/ phase[n][q] = "pending" /\ held[n][q] \in UpdateJob
          \/ phase[n][q] = "pending" /\ previous[held[n][q]] = NoJob
       /\ s = "running" /\ p \in {"getting", "running"}
    \/ /\ phase[n][q] \in {"getting", "running"}
       /\ s \in {"successful", "failed"} /\ p = "finished"

RecordStep(n, q) ==
    /\ \E s \in Status, p \in Phase : MayRecord(n, q, s, p) /\ Record(n, q, s, p)
    /\ outcome' \in [Node -> [Queue -> Outcome \cup {"none"}]]

\* Steps after which the consumer still has its job.
AdvanceStep(n, q) ==
    /\ \E p \in Phase :
         /\ \/ phase[n][q] = "waiting" /\ PreviousStatus(n, q) = "successful" /\ p = "cleared"
            \/ phase[n][q] = "getting" /\ p = "running"
            \/ phase[n][q] = "finished" /\ p = "reported"
         /\ Enter(n, q, p)
    /\ projectStatus' \in [Project -> OwnerStatus]
    /\ UNCHANGED <<status, templateStatus, teardown, lostWrites>>
    /\ UNCHANGED <<queueVars, up, crashes, apiVars, held, outcome>>

\* The last step of a run.
LeaveStep(n, q) ==
    /\ phase[n][q] \in {"finished", "reported"}
    /\ Leave(n, q)
    /\ projectStatus' \in [Project -> OwnerStatus]
    /\ templateStatus' \in [Template -> OwnerStatus]
    /\ UNCHANGED <<status, teardown, lostWrites>>
    /\ UNCHANGED <<queueVars, up, crashes, apiVars>>

RemoveStep ==
    /\ status' \in [Job -> Status \cup NoDocument]
    /\ \A j \in Job : status'[j] = status[j] \/ (Exists(j) /\ status'[j] = "removed")
    /\ projectStatus' \in [Project -> OwnerStatus]
    /\ templateStatus' \in [Template -> OwnerStatus]
    /\ teardown' \in [Project \cup Template -> {"none", "jobs", "templates"}]
    /\ UNCHANGED <<lostWrites, queueVars, up, crashes, apiVars, runVars>>

ReturnStep(q, j) ==
    /\ ReturnUnacked(q, j)
    /\ UNCHANGED <<docVars, up, crashes, apiVars, runVars>>

HandlerStep(n) ==
    \/ \E j \in LaunchedJob : Launch(n, j)
    \/ \E j \in LaunchedJob, u \in UpdateJob : LaunchWithUpdate(n, j, u)
    \/ \E u \in UpdateJob : RequestUpdate(n, u)
    \/ \E u \in UpdateJob : PublishUpdate(n, u)
    \/ \E u \in UpdateJob : AbortUpdate(n, u)
    \/ \E j \in LaunchedJob : PublishJob(n, j)
    \/ \E j \in LaunchedJob : AbortLaunch(n, j)

RunnerStep(n, q) ==
    Consume(n, q) \/ RecordStep(n, q) \/ AdvanceStep(n, q) \/ LeaveStep(n, q)

Step ==
    \/ \E n \in Node : HandlerStep(n)
    \/ \E n \in Node, q \in Queue : RunnerStep(n, q) \/ Fetch(n, q)
    \/ \E q \in Queue, j \in Job : ReturnStep(q, j)
    \/ \E n \in Node : Crash(n)
    \/ \E n \in Node : Restart(n)
    \/ RemoveStep

LEMMA ConstantFacts ==
    /\ NoJob \notin Job
    /\ LaunchedJob \subseteq Job /\ UpdateJob \subseteq Job
    /\ LaunchedJob \cap UpdateJob = {}
    /\ AnsibleJob \subseteq LaunchedJob /\ TerraformJob \subseteq LaunchedJob
    /\ Delivery = Job
    /\ "ansibleq" \in Queue /\ "terraformq" \in Queue
  BY JobDocsAssumption, TaskQueueAssumption, TensorJobsAssumption
     DEF Job, LaunchedJob, Queue

LEMMA RunStep ==
    ASSUME TypeOK, NEW n \in Node, NEW q \in Queue, Run(n, q)
    PROVE  RunnerStep(n, q)
<1> USE ConstantFacts
<1>t. outcome \in [Node -> [Queue -> Outcome \cup {"none"}]]
  BY DEF TypeOK
<1>o. outcome[n][q] \in OwnerStatus /\ "gone" \in OwnerStatus
  BY <1>t DEF OwnerStatus
<1>1. CASE MarkPending(n, q)
  BY <1>1, <1>t DEF MarkPending, RunnerStep, RecordStep, MayRecord, Status, Phase
<1>2. CASE BeginWaiting(n, q)
  BY <1>2, <1>t DEF BeginWaiting, RunnerStep, RecordStep, MayRecord, Status, Phase
<1>3. CASE PollFailed(n, q)
  BY <1>3, <1>t DEF PollFailed, RunnerStep, RecordStep, MayRecord, Status, Phase, Outcome
<1>4. CASE PollSuccessful(n, q)
  BY <1>4 DEF PollSuccessful, RunnerStep, AdvanceStep, Phase, docVars, TypeOK, TypeOKDocs
<1>5. CASE JobSuccess(n, q)
  BY <1>5, <1>t DEF JobSuccess, Verdict, RunnerStep, RecordStep, MayRecord, Status, Phase, Outcome
<1>6. CASE JobFail(n, q)
  BY <1>6, <1>t DEF JobFail, Verdict, RunnerStep, RecordStep, MayRecord, Status, Phase, Outcome
<1>7. CASE UpdateProject(n, q)
  <2>1. projectStatus' \in [Project -> OwnerStatus]
    BY <1>7, <1>o DEF UpdateProject, SetProjectStatus, TypeOK, TypeOKDocs, OwnerStatus
  <2>2. QED
    BY <1>7, <2>1 DEF UpdateProject, RunnerStep, AdvanceStep, LeaveStep, Phase, TypeOK, TypeOKDocs
<1>8. CASE UpdateJobTemplate(n, q)
  <2>1. templateStatus' \in [Template -> OwnerStatus]
    BY <1>8, <1>o DEF UpdateJobTemplate, SetTemplateStatus, TypeOK, TypeOKDocs, OwnerStatus
  <2>2. QED
    BY <1>8, <2>1 DEF UpdateJobTemplate, RunnerStep, LeaveStep, TypeOK, TypeOKDocs
<1> QED BY <1>1, <1>2, <1>3, <1>4, <1>5, <1>6, <1>7, <1>8 DEF Run

\* Every step of the system is one of these, or changes nothing.
LEMMA NextStep ==
    ASSUME TypeOK, Next
    PROVE  Step
<1> USE ConstantFacts
<1>1. ASSUME NEW n \in Node, Handle(n) PROVE Step
  BY <1>1 DEF Handle, LaunchAnsible, LaunchTerraform, LaunchedJob, HandlerStep, Step
<1>2. ASSUME NEW n \in Node, AnsibleRunner(n) PROVE RunnerStep(n, "ansibleq")
  <2> USE <1>2
  <2>t. outcome \in [Node -> [Queue -> Outcome \cup {"none"}]]
    BY DEF TypeOK
  <2>1. CASE AnsibleConsume(n)
    BY <2>1 DEF AnsibleConsume, RunnerStep
  <2>2. CASE StartSync(n)
    BY <2>2, <2>t DEF StartSync, RunnerStep, RecordStep, MayRecord, Status, Phase
  <2>3. CASE StartAnsible(n)
    BY <2>3, <2>t DEF StartAnsible, MayStart, RunnerStep, RecordStep, MayRecord, Status, Phase
  <2>4. CASE Run(n, "ansibleq")
    BY <2>4, RunStep
  <2> QED BY <2>1, <2>2, <2>3, <2>4 DEF AnsibleRunner
<1>3. ASSUME NEW n \in Node, TerraformRunner(n) PROVE RunnerStep(n, "terraformq")
  <2> USE <1>3
  <2>t. outcome \in [Node -> [Queue -> Outcome \cup {"none"}]]
    BY DEF TypeOK
  <2>1. CASE TerraformConsume(n)
    BY <2>1 DEF TerraformConsume, RunnerStep
  <2>2. CASE StartTerraform(n)
    BY <2>2, <2>t DEF StartTerraform, MayStart, RunnerStep, RecordStep, MayRecord, Status, Phase
  <2>3. CASE TerraformGet(n)
    BY <2>3 DEF TerraformGet, RunnerStep, AdvanceStep, Phase, docVars, TypeOK, TypeOKDocs
  <2>4. CASE Run(n, "terraformq")
    BY <2>4, RunStep
  <2> QED BY <2>1, <2>2, <2>3, <2>4 DEF TerraformRunner
<1>4. ASSUME NEW n \in Node, RMQCleaner(n) PROVE Step
  <2>0. PICK q \in Queue : \E j \in unclaimed[q] : ReturnUnacked(q, j)
    BY <1>4 DEF RMQCleaner
  <2>1. PICK j \in unclaimed[q] : ReturnUnacked(q, j)
    BY <2>0
  <2>2. j \in Job
    BY <2>1 DEF TypeOK, TypeOKQueue
  <2> QED BY <1>4, <2>1, <2>2 DEF RMQCleaner, ReturnStep, Step
<1>5. ASSUME NEW x \in Removable, Delete(x) PROVE RemoveStep
  <2>t. /\ status \in [Job -> Status \cup NoDocument]
        /\ projectStatus \in [Project -> OwnerStatus]
        /\ templateStatus \in [Template -> OwnerStatus]
        /\ teardown \in [Project \cup Template -> {"none", "jobs", "templates"}]
    BY DEF TypeOK, TypeOKDocs
  <2>o. "gone" \in OwnerStatus /\ "removed" \in NoDocument
    BY DEF OwnerStatus, NoDocument
  <2>u. UNCHANGED <<queueVars, up, crashes, apiVars, runVars>>
    BY <1>5 DEF Delete
  <2>r. ASSUME NEW S, RemoveJobs(S)
        PROVE  /\ status' \in [Job -> Status \cup NoDocument]
               /\ \A j \in Job : status'[j] = status[j] \/ (Exists(j) /\ status'[j] = "removed")
    BY <2>r, <2>t, <2>o DEF RemoveJobs
  <2>1. CASE x \in Project /\ RemoveProjectJobs(x)
    BY <2>1, <2>t, <2>u, <2>r DEF RemoveProjectJobs, RemoveStep
  <2>2. CASE x \in Project /\ RemoveProjectTemplates(x)
    BY <2>2, <2>t, <2>o, <2>u DEF RemoveProjectTemplates, RemoveStep
  <2>3. CASE x \in Project /\ RemoveProject(x)
    BY <2>3, <2>t, <2>o, <2>u DEF RemoveProject, RemoveStep
  <2>4. CASE x \in Template /\ RemoveTemplateJobs(x)
    BY <2>4, <2>t, <2>u, <2>r DEF RemoveTemplateJobs, RemoveStep
  <2>5. CASE x \in Template /\ RemoveTemplate(x)
    BY <2>5, <2>t, <2>o, <2>u DEF RemoveTemplate, RemoveStep
  <2> QED BY <1>5, <2>1, <2>2, <2>3, <2>4, <2>5 DEF Delete
<1>6. up \subseteq Node
  BY DEF TypeOK
<1>7. CASE \E n \in up : NodeStep(n)
  BY <1>7, <1>6, <1>1, <1>2, <1>3, <1>4 DEF NodeStep, Step
<1>8. CASE \E n \in Node : Restart(n)
  BY <1>8 DEF Step
<1>9. CASE \E x \in Removable : Delete(x)
  BY <1>9, <1>5 DEF Step
<1> QED BY <1>7, <1>8, <1>9 DEF Next

-----------------------------------------------------------------------------
(* Sequences without repetition.                                           *)

Distinct(s) == \A i, k \in 1 .. Len(s) : s[i] = s[k] => i = k

\* Appending a new element keeps a sequence free of repetitions.
LEMMA AppendDistinct ==
    ASSUME NEW S, NEW s \in Seq(S), NEW e \in S
    PROVE  /\ Append(s, e) \in Seq(S)
           /\ Range(Append(s, e)) = Range(s) \cup {e}
           /\ Distinct(s) /\ e \notin Range(s) => Distinct(Append(s, e))
<1>1. /\ Append(s, e) \in Seq(S)
      /\ Len(Append(s, e)) = Len(s) + 1
      /\ Append(s, e)[Len(s) + 1] = e
      /\ \A i \in 1 .. Len(s) : Append(s, e)[i] = s[i]
      /\ Len(s) \in Nat
  OBVIOUS
<1>2. /\ Range(s) = {s[i] : i \in 1 .. Len(s)}
      /\ Range(Append(s, e)) = {Append(s, e)[i] : i \in 1 .. (Len(s) + 1)}
  BY <1>1 DEF Range
<1>3. 1 .. (Len(s) + 1) = (1 .. Len(s)) \cup {Len(s) + 1}
  BY <1>1
<1>4. Range(Append(s, e)) = Range(s) \cup {e}
  BY <1>1, <1>2, <1>3
<1>5. ASSUME Distinct(s), e \notin Range(s)
      PROVE  Distinct(Append(s, e))
  BY <1>1, <1>2, <1>3, <1>5 DEF Distinct
<1> QED BY <1>1, <1>4, <1>5

\* Taking the head off a sequence without repetitions removes it for good.
LEMMA TailDistinct ==
    ASSUME NEW S, NEW s \in Seq(S), s # <<>>
    PROVE  /\ Tail(s) \in Seq(S)
           /\ Head(s) \in S
           /\ Range(s) = Range(Tail(s)) \cup {Head(s)}
           /\ Distinct(s) => Distinct(Tail(s)) /\ Head(s) \notin Range(Tail(s))
<1>1. /\ Tail(s) \in Seq(S)
      /\ Len(s) \in Nat /\ Len(s) >= 1
      /\ Len(Tail(s)) = Len(s) - 1
      /\ \A i \in 1 .. (Len(s) - 1) : Tail(s)[i] = s[i + 1]
      /\ Head(s) = s[1] /\ s[1] \in S
  OBVIOUS
<1>2. /\ Range(s) = {s[i] : i \in 1 .. Len(s)}
      /\ Range(Tail(s)) = {Tail(s)[i] : i \in 1 .. (Len(s) - 1)}
  <2>1. DOMAIN s = 1 .. Len(s) /\ DOMAIN Tail(s) = 1 .. Len(Tail(s))
    BY <1>1
  <2> QED BY <2>1, <1>1 DEF Range
<1>3. Range(s) = Range(Tail(s)) \cup {Head(s)}
  <2>1. ASSUME NEW x \in Range(s) PROVE x \in Range(Tail(s)) \cup {Head(s)}
    <3>1. PICK i \in 1 .. Len(s) : x = s[i]
      BY <1>2
    <3>2. CASE i = 1
      BY <3>1, <3>2, <1>1
    <3>3. CASE i # 1
      <4>1. i - 1 \in 1 .. (Len(s) - 1) /\ Tail(s)[i - 1] = s[i]
        BY <3>3, <1>1
      <4> QED BY <4>1, <3>1, <1>2
    <3> QED BY <3>2, <3>3
  <2>2. ASSUME NEW x \in Range(Tail(s)) PROVE x \in Range(s)
    <3>1. PICK i \in 1 .. (Len(s) - 1) : x = Tail(s)[i]
      BY <1>2
    <3>2. i + 1 \in 1 .. Len(s) /\ x = s[i + 1]
      BY <3>1, <1>1
    <3> QED BY <3>2, <1>2
  <2>3. Head(s) \in Range(s)
    BY <1>1, <1>2
  <2> QED BY <2>1, <2>2, <2>3
<1>4. ASSUME Distinct(s)
      PROVE  Distinct(Tail(s)) /\ Head(s) \notin Range(Tail(s))
  <2>1. ASSUME NEW i \in 1 .. Len(Tail(s)), NEW k \in 1 .. Len(Tail(s)), Tail(s)[i] = Tail(s)[k]
        PROVE  i = k
    <3>1. i + 1 \in 1 .. Len(s) /\ k + 1 \in 1 .. Len(s) /\ s[i + 1] = s[k + 1]
      BY <2>1, <1>1
    <3>2. i + 1 = k + 1
      BY <3>1, <1>4 DEF Distinct
    <3> QED BY <3>2, <1>1
  <2>2. ASSUME NEW i \in 1 .. (Len(s) - 1), Head(s) = Tail(s)[i] PROVE FALSE
    <3>1. i + 1 \in 1 .. Len(s) /\ 1 \in 1 .. Len(s) /\ s[i + 1] = s[1]
      BY <2>2, <1>1
    <3>2. i + 1 = 1
      BY <3>1, <1>4 DEF Distinct
    <3> QED BY <3>2
  <2>3. Distinct(Tail(s))
    BY <2>1 DEF Distinct
  <2> QED BY <2>2, <2>3, <1>2
<1> QED BY <1>1, <1>3, <1>4

-----------------------------------------------------------------------------
(* Type correctness.                                                       *)

LEMMA InitTypeOK == Init => TypeOK
<1> USE ConstantFacts, JobDocsAssumption, TensorJobsAssumption
<1> SUFFICES ASSUME Init PROVE TypeOK
  OBVIOUS
<1>1. TypeOKDocs
  BY DEF Init, InitDocs, TypeOKDocs, Status, NoDocument, OwnerStatus
<1>2. TypeOKQueue
  BY DEF Init, InitQueue, TypeOKQueue
<1>3. /\ up \subseteq Node
      /\ crashes \in 0 .. MaxCrashes
      /\ handler \in [Job -> HandlerPhase]
      /\ host \in [Job -> Node \cup {NoJob}]
      /\ previous \in [Job -> UpdateJob \cup {NoJob}]
  BY DEF Init, HandlerPhase
<1>4. /\ phase \in [Node -> [Queue -> Phase]]
      /\ held \in [Node -> [Queue -> Job \cup {NoJob}]]
      /\ outcome \in [Node -> [Queue -> Outcome \cup {"none"}]]
  BY DEF Init, Phase
<1> QED BY <1>1, <1>2, <1>3, <1>4 DEF TypeOK

LEMMA PublishType ==
    ASSUME TypeOKQueue, NEW q \in Queue, NEW j \in Job, Publish(q, j)
    PROVE  TypeOKQueue'
<1>1. ready[q] \in Seq(Delivery) /\ j \in Delivery
  BY ConstantFacts DEF TypeOKQueue
<1>2. Append(ready[q], j) \in Seq(Delivery)
  BY <1>1, AppendDistinct
<1> QED BY <1>2 DEF Publish, TypeOKQueue

\* A request handler keeps every variable in its type.
LEMMA HandlerStepType ==
    ASSUME TypeOK, NEW n \in Node, HandlerStep(n)
    PROVE  TypeOK'
<1> USE ConstantFacts DEF TypeOK
<1>s. "new" \in Status /\ "pending" \in Status
  BY DEF Status
<1>h. {"none", "inserted", "updating", "updated", "done", "failed"} \subseteq HandlerPhase
  BY DEF HandlerPhase
<1>1. ASSUME NEW j \in LaunchedJob, Launch(n, j) PROVE TypeOK'
  <2>1. TypeOKDocs'
    BY <1>1, <1>s DEF Launch, InsertJob, TypeOKDocs
  <2>2. TypeOKQueue'
    BY <1>1 DEF Launch, queueVars, TypeOKQueue
  <2> QED BY <1>1, <1>h, <2>1, <2>2 DEF Launch, runVars
<1>2. ASSUME NEW u \in UpdateJob, BeginUpdate(n, u)
      PROVE  TypeOKDocs' /\ TypeOKQueue' /\ host' \in [Job -> Node \cup {NoJob}]
  <2>1. TypeOKDocs'
    BY <1>2, <1>s DEF BeginUpdate, InsertJob, TypeOKDocs
  <2>2. TypeOKQueue'
    BY <1>2 DEF BeginUpdate, queueVars, TypeOKQueue
  <2> QED BY <1>2, <2>1, <2>2 DEF BeginUpdate
<1>3. ASSUME NEW j \in LaunchedJob, NEW u \in UpdateJob, LaunchWithUpdate(n, j, u) PROVE TypeOK'
  BY <1>2, <1>3, <1>h DEF LaunchWithUpdate, BeginUpdate, runVars
<1>4. ASSUME NEW u \in UpdateJob, RequestUpdate(n, u) PROVE TypeOK'
  BY <1>2, <1>4, <1>h DEF RequestUpdate, BeginUpdate, runVars
<1>d. TypeOKDocs /\ UNCHANGED docVars => TypeOKDocs'
  BY DEF TypeOKDocs, docVars
<1>q. TypeOKQueue /\ UNCHANGED queueVars => TypeOKQueue'
  BY DEF TypeOKQueue, queueVars
<1>5. ASSUME NEW u \in UpdateJob, PublishUpdate(n, u) PROVE TypeOK'
  <2>1. TypeOKQueue'
    BY <1>5, PublishType DEF PublishUpdate
  <2> QED BY <1>5, <1>h, <1>d, <2>1 DEF PublishUpdate, runVars
<1>6. ASSUME NEW u \in UpdateJob, AbortUpdate(n, u) PROVE TypeOK'
  BY <1>6, <1>h, <1>d, <1>q DEF AbortUpdate, runVars
<1>7. ASSUME NEW j \in LaunchedJob, PublishJob(n, j) PROVE TypeOK'
  <2>0. QueueOf(j) \in Queue
    BY DEF QueueOf
  <2>1. TypeOKQueue'
    BY <1>7, <2>0, PublishType DEF PublishJob
  <2> QED BY <1>7, <1>h, <1>d, <2>1 DEF PublishJob, runVars
<1>8. ASSUME NEW j \in LaunchedJob, AbortLaunch(n, j) PROVE TypeOK'
  BY <1>8, <1>h, <1>d, <1>q DEF AbortLaunch, runVars
<1> QED BY <1>1, <1>3, <1>4, <1>5, <1>6, <1>7, <1>8 DEF HandlerStep

LEMMA RunnerStepType ==
    ASSUME TypeOK, NEW n \in Node, NEW q \in Queue, RunnerStep(n, q)
    PROVE  TypeOK'
<1> USE ConstantFacts DEF TypeOK
<1>d. UNCHANGED docVars => TypeOKDocs'
  BY DEF TypeOKDocs, docVars
<1>q. UNCHANGED queueVars => TypeOKQueue'
  BY DEF TypeOKQueue, queueVars
<1>a. UNCHANGED apiVars =>
        /\ handler' \in [Job -> HandlerPhase]
        /\ host' \in [Job -> Node \cup {NoJob}]
        /\ previous' \in [Job -> UpdateJob \cup {NoJob}]
  BY DEF apiVars
<1>e. ASSUME NEW p \in Phase, Enter(n, q, p)
      PROVE  phase' \in [Node -> [Queue -> Phase]]
  BY <1>e DEF Enter
<1>p. "idle" \in Phase /\ "acked" \in Phase
  BY DEF Phase
<1>1. CASE Consume(n, q)
  <2>1. PICK j \in Job : TakeAndAck(n, q, j) /\ held' = [held EXCEPT ![n][q] = j]
    BY <1>1 DEF Consume
  <2>2. TypeOKQueue'
    BY <2>1 DEF TakeAndAck, TypeOKQueue
  <2>3. held' \in [Node -> [Queue -> Job \cup {NoJob}]]
    BY <2>1
  <2> QED BY <1>1, <1>a, <1>d, <1>e, <1>p, <2>2, <2>3 DEF Consume
<1>2. CASE RecordStep(n, q)
  <2>1. PICK s \in Status : \E p \in Phase : MayRecord(n, q, s, p) /\ Record(n, q, s, p)
    BY <1>2 DEF RecordStep
  <2>2. PICK p \in Phase : MayRecord(n, q, s, p) /\ Record(n, q, s, p)
    BY <2>1
  <2>3. /\ status' \in [Job -> Status \cup NoDocument]
        /\ lostWrites' \in 0 .. MaxLostWrites
    <3>1. SetStatus(held[n][q], s)
      BY <2>2 DEF Record
    <3>2. /\ status \in [Job -> Status \cup NoDocument]
          /\ lostWrites \in 0 .. MaxLostWrites
          /\ MaxLostWrites \in Nat
      BY JobDocsAssumption DEF TypeOKDocs
    <3>3. status' \in [Job -> Status \cup NoDocument]
      BY <3>1, <3>2 DEF SetStatus
    <3>4. lostWrites' = lostWrites \/ (lostWrites < MaxLostWrites /\ lostWrites' = lostWrites + 1)
      BY <3>1 DEF SetStatus
    <3> QED BY <3>2, <3>3, <3>4
  <2>4. TypeOKDocs'
    BY <2>2, <2>3 DEF Record, TypeOKDocs
  <2> QED BY <1>2, <1>a, <1>q, <1>e, <2>2, <2>4 DEF RecordStep, Record
<1>3. CASE AdvanceStep(n, q)
  <2>1. TypeOKDocs'
    BY <1>3 DEF AdvanceStep, TypeOKDocs
  <2> QED BY <1>3, <1>a, <1>q, <1>e, <2>1 DEF AdvanceStep
<1>4. CASE LeaveStep(n, q)
  <2>1. TypeOKDocs'
    BY <1>4 DEF LeaveStep, TypeOKDocs
  <2> QED BY <1>4, <1>a, <1>q, <1>e, <1>p, <2>1 DEF LeaveStep, Leave
<1> QED BY <1>1, <1>2, <1>3, <1>4 DEF RunnerStep

LEMMA FetchType ==
    ASSUME TypeOK, NEW n \in Node, NEW q \in Queue, Fetch(n, q)
    PROVE  TypeOK'
<1>1. TypeOKQueue'
  <2>1. ready[q] \in Seq(Delivery) /\ ready[q] # <<>>
    BY DEF Fetch, Prefetch, TypeOK, TypeOKQueue
  <2>2. Tail(ready[q]) \in Seq(Delivery) /\ Head(ready[q]) \in Delivery
    BY <2>1, TailDistinct
  <2> QED BY <2>2 DEF Fetch, Prefetch, TypeOK, TypeOKQueue
<1> QED BY <1>1 DEF Fetch, TypeOK, TypeOKDocs, docVars, apiVars, runVars

LEMMA ReturnStepType ==
    ASSUME TypeOK, NEW q \in Queue, NEW j \in Job, ReturnStep(q, j)
    PROVE  TypeOK'
<1>1. TypeOKQueue'
  <2>1. ready[q] \in Seq(Delivery) /\ j \in Delivery
    BY ConstantFacts DEF TypeOK, TypeOKQueue
  <2>2. Append(ready[q], j) \in Seq(Delivery)
    BY <2>1, AppendDistinct
  <2> QED BY <2>2 DEF ReturnStep, ReturnUnacked, TypeOK, TypeOKQueue
<1> QED BY <1>1 DEF ReturnStep, TypeOK, TypeOKDocs, docVars, apiVars, runVars

LEMMA CrashType ==
    ASSUME TypeOK, NEW n \in Node, Crash(n)
    PROVE  TypeOK'
<1> USE DEF TypeOK
<1>1. TypeOKQueue'
  BY DEF Crash, DropConnection, TypeOKQueue
<1>2. TypeOKDocs'
  BY DEF Crash, docVars, TypeOKDocs
<1>3. up' \subseteq Node /\ crashes' \in 0 .. MaxCrashes
  BY TensorJobsAssumption DEF Crash
<1>4. handler' \in [Job -> HandlerPhase]
  BY DEF Crash, HandlerPhase
<1>5. /\ phase' \in [Node -> [Queue -> Phase]]
      /\ held' \in [Node -> [Queue -> Job \cup {NoJob}]]
      /\ outcome' \in [Node -> [Queue -> Outcome \cup {"none"}]]
  BY DEF Crash, Phase
<1> QED BY <1>1, <1>2, <1>3, <1>4, <1>5 DEF Crash

LEMMA StepType ==
    ASSUME TypeOK, Step
    PROVE  TypeOK'
<1>1. ASSUME NEW n \in Node, Restart(n) PROVE TypeOK'
  BY <1>1 DEF Restart, TypeOK, TypeOKDocs, TypeOKQueue, docVars, queueVars, apiVars, runVars
<1>2. CASE RemoveStep
  BY <1>2 DEF RemoveStep, TypeOK, TypeOKDocs, TypeOKQueue, queueVars, apiVars, runVars
<1> QED
  BY <1>1, <1>2, HandlerStepType, RunnerStepType, FetchType, ReturnStepType, CrashType DEF Step

LEMMA StutterType ==
    ASSUME TypeOK, UNCHANGED vars
    PROVE  TypeOK'
  BY DEF vars, TypeOK, TypeOKDocs, TypeOKQueue, docVars, queueVars, apiVars, runVars

\* Every variable keeps its type: a job is known to one status, one handler and
\* at most one consumer per node and queue (all of api/, queue/ and exec/).
THEOREM TypeCorrect == Spec => []TypeOK
<1>1. Init => TypeOK
  BY InitTypeOK
<1>2. TypeOK /\ [Next]_vars => TypeOK'
  BY NextStep, StepType, StutterType
<1> QED BY <1>1, <1>2, PTL DEF Spec

-----------------------------------------------------------------------------
(* Where the payloads are: Homes, OnePlace and Published.                  *)

Located == Homes /\ OnePlace /\ Published

DoneStaysDone == \A j \in Job : handler[j] = "done" => handler'[j] = "done"

OneReady == \A q \in Queue : Distinct(ready[q])

OneHolder ==
    \A n, m \in Node, q, r \in Queue :
        /\ prefetched[n][q] = prefetched[m][r] /\ prefetched[n][q] # NoJob => n = m /\ q = r
        /\ held[n][q] = held[m][r] /\ held[n][q] # NoJob => n = m /\ q = r
        /\ prefetched[n][q] = held[m][r] => held[m][r] = NoJob

OnNoNode(j) == \A n \in Node, q \in Queue : prefetched[n][q] # j /\ held[n][q] # j

OneKind ==
    \A q, r \in Queue, j \in Job :
        /\ j \in Range(ready[q]) => OnNoNode(j) /\ j \notin unclaimed[r]
        /\ j \in unclaimed[q] => OnNoNode(j)
        /\ j \in Range(ready[q]) /\ j \in Range(ready[r]) => q = r
        /\ j \in unclaimed[q] \cap unclaimed[r] => q = r

LEMMA OnePlaceParts ==
    /\ OnePlace <=> OneReady /\ OneHolder /\ OneKind
    /\ OnePlace' <=> OneReady' /\ OneHolder' /\ OneKind'
  BY DEF OnePlace, OneReady, OneHolder, OneKind, OnNoNode, Distinct, IsReady, Prefetched, Held

\* Steps that move no payload.
LEMMA LocatedUnmoved ==
    ASSUME Located, UNCHANGED <<ready, prefetched, unclaimed, held>>, DoneStaysDone
    PROVE  Located'
<1>1. Homes'
  BY DEF Located, Homes
<1>2. OnePlace'
  BY DEF Located, OnePlace, IsReady, Prefetched, Held
<1>3. Published'
  BY DEF Located, Published, DoneStaysDone, OnQueue, IsReady, Prefetched, Held
<1> QED BY <1>1, <1>2, <1>3 DEF Located

\* A handler publishes a job that nobody has published before.
LEMMA LocatedPublish ==
    ASSUME TypeOK, Located, NEW j \in Job, handler[j] # "done",
           Publish(QueueOf(j), j), UNCHANGED held, DoneStaysDone, handler'[j] = "done"
    PROVE  Located'
<1> DEFINE p == QueueOf(j)
<1>t. /\ p \in Queue
      /\ \A q \in Queue : ready[q] \in Seq(Job)
      /\ ready \in [Queue -> Seq(Job)]
  BY ConstantFacts DEF QueueOf, TypeOK, TypeOKQueue
<1>n. /\ \A q \in Queue : j \notin Range(ready[q]) /\ j \notin unclaimed[q]
      /\ \A n \in Node, q \in Queue : prefetched[n][q] # j /\ held[n][q] # j
  BY DEF Located, Published, OnQueue, IsReady, Prefetched, Held
<1>r. /\ ready'[p] = Append(ready[p], j)
      /\ \A q \in Queue \ {p} : ready'[q] = ready[q]
      /\ UNCHANGED <<prefetched, unclaimed, held>>
  BY <1>t DEF Publish
<1>a. /\ Range(ready'[p]) = Range(ready[p]) \cup {j}
      /\ Distinct(ready[p]) => Distinct(ready'[p])
  BY <1>t, <1>n, <1>r, AppendDistinct
<1>1. Homes'
  BY <1>r, <1>a DEF Located, Homes
<1>2. OnePlace'
  <2> HIDE DEF p
  <2>1. OneReady'
    BY <1>r, <1>a, OnePlaceParts DEF Located, OneReady
  <2>2. OneHolder'
    BY <1>r, OnePlaceParts DEF Located, OneHolder
  <2>3. ASSUME NEW q \in Queue PROVE Range(ready'[q]) = Range(ready[q]) \cup (IF q = p THEN {j} ELSE {})
    BY <1>r, <1>a
  <2>4. OneKind'
    BY <2>3, <1>r, <1>n, OnePlaceParts DEF Located, OneKind, OnNoNode
  <2> QED BY <2>1, <2>2, <2>4, OnePlaceParts
<1>3. Published'
  <2>1. ASSUME NEW i \in Job, (OnQueue(i) \/ Held(i))' PROVE i = j \/ OnQueue(i) \/ Held(i)
    BY <2>1, <1>r, <1>a DEF OnQueue, IsReady, Prefetched, Held
  <2> QED BY <2>1 DEF Located, Published, DoneStaysDone
<1> QED BY <1>1, <1>2, <1>3 DEF Located

\* A consumer takes a payload out of its channel into its hands.
LEMMA LocatedConsume ==
    ASSUME TypeOK, Located, NEW n \in Node, NEW q \in Queue, Consume(n, q)
    PROVE  Located'
<1>1. PICK j \in Job : TakeAndAck(n, q, j) /\ held' = [held EXCEPT ![n][q] = j]
  BY DEF Consume
<1>t. /\ prefetched \in [Node -> [Queue -> Job \cup {NoJob}]]
      /\ held \in [Node -> [Queue -> Job \cup {NoJob}]]
  BY ConstantFacts DEF TypeOK, TypeOKQueue
<1>2. /\ j # NoJob /\ prefetched[n][q] = j
      /\ \A m \in Node, r \in Queue :
           /\ prefetched'[m][r] = IF m = n /\ r = q THEN NoJob ELSE prefetched[m][r]
           /\ held'[m][r] = IF m = n /\ r = q THEN j ELSE held[m][r]
      /\ UNCHANGED <<ready, unclaimed, handler>>
  BY <1>1, <1>t DEF TakeAndAck, Consume, apiVars
<1> HIDE DEF Consume
<1>3. Homes'
  BY <1>2 DEF Located, Homes
<1>4. OnePlace'
  <2>1. OneReady'
    BY <1>2, OnePlaceParts DEF Located, OneReady
  <2>2. OneHolder'
    BY <1>2, OnePlaceParts DEF Located, OneHolder
  <2>3. OneKind'
    BY <1>2, ConstantFacts, OnePlaceParts DEF Located, OneKind, OnNoNode
  <2> QED BY <2>1, <2>2, <2>3, OnePlaceParts
<1>5. Published'
  <2>1. ASSUME NEW i \in Job, (OnQueue(i) \/ Held(i))' PROVE OnQueue(i) \/ Held(i)
    BY <2>1, <1>2, ConstantFacts DEF OnQueue, IsReady, Prefetched, Held
  <2> QED BY <2>1, <1>2 DEF Located, Published
<1> QED BY <1>3, <1>4, <1>5 DEF Located

\* A consumer lets go of a job.
LEMMA LocatedLeave ==
    ASSUME TypeOK, Located, NEW n \in Node, NEW q \in Queue, LeaveStep(n, q)
    PROVE  Located'
<1>1. /\ \A m \in Node, r \in Queue :
           held'[m][r] = IF m = n /\ r = q THEN NoJob ELSE held[m][r]
      /\ UNCHANGED <<ready, prefetched, unclaimed, handler>>
  BY DEF LeaveStep, Leave, apiVars, queueVars, TypeOK
<1>3. Homes'
  BY <1>1 DEF Located, Homes
<1>4. OnePlace'
  <2>1. OneReady'
    BY <1>1, OnePlaceParts DEF Located, OneReady
  <2>2. OneHolder'
    BY <1>1, OnePlaceParts DEF Located, OneHolder
  <2>3. OneKind'
    BY <1>1, OnePlaceParts, ConstantFacts DEF Located, OneKind, OnNoNode
  <2> QED BY <2>1, <2>2, <2>3, OnePlaceParts
<1>5. Published'
  <2>1. ASSUME NEW i \in Job, (OnQueue(i) \/ Held(i))' PROVE OnQueue(i) \/ Held(i)
    BY <2>1, <1>1, ConstantFacts DEF OnQueue, IsReady, Prefetched, Held
  <2> QED BY <2>1, <1>1 DEF Located, Published
<1> QED BY <1>3, <1>4, <1>5 DEF Located

\* A payload moves from the queue to an empty channel.
LEMMA LocatedFetch ==
    ASSUME TypeOK, Located, NEW n \in Node, NEW q \in Queue, Fetch(n, q)
    PROVE  Located'
<1> DEFINE j == Head(ready[q])
<1>t. /\ prefetched \in [Node -> [Queue -> Job \cup {NoJob}]]
      /\ ready \in [Queue -> Seq(Job)]
      /\ ready[q] \in Seq(Job) /\ ready[q] # <<>>
  BY ConstantFacts DEF TypeOK, TypeOKQueue, Fetch, Prefetch
<1>1. /\ prefetched[n][q] = NoJob
      /\ \A m \in Node, r \in Queue :
           prefetched'[m][r] = IF m = n /\ r = q THEN j ELSE prefetched[m][r]
      /\ ready'[q] = Tail(ready[q])
      /\ \A r \in Queue \ {q} : ready'[r] = ready[r]
      /\ UNCHANGED <<unclaimed, held, handler>>
  BY <1>t DEF Fetch, Prefetch, apiVars, runVars
<1>2. /\ j \in Job /\ j # NoJob
      /\ Range(ready[q]) = Range(ready'[q]) \cup {j}
      /\ Distinct(ready[q]) => Distinct(ready'[q]) /\ j \notin Range(ready'[q])
  BY <1>t, <1>1, TailDistinct, ConstantFacts
<1> HIDE DEF j
<1>3. Homes'
  BY <1>1, <1>2 DEF Located, Homes
<1>4. OnePlace'
  <2>1. OneReady'
    BY <1>1, <1>2, OnePlaceParts DEF Located, OneReady
  <2>2. \A m \in Node, r \in Queue : prefetched[m][r] # j /\ held[m][r] # j
    BY <1>2, OnePlaceParts DEF Located, OneKind, OnNoNode
  <2>3. OneHolder'
    BY <1>1, <1>2, <2>2, OnePlaceParts DEF Located, OneHolder
  <2>4. j \notin Range(ready'[q]) /\ \A r \in Queue \ {q} : j \notin Range(ready[r])
    BY <1>2, OnePlaceParts DEF Located, OneKind, OneReady
  <2>5. \A r \in Queue : j \notin unclaimed[r]
    BY <1>2, OnePlaceParts DEF Located, OneKind
  <2>6. \A r \in Queue : Range(ready'[r]) \subseteq Range(ready[r]) \ {j}
    BY <1>1, <1>2, <2>4
  <2>7. OneKind'
    BY <1>1, <2>5, <2>6, OnePlaceParts DEF Located, OneKind, OnNoNode
  <2> QED BY <2>1, <2>3, <2>7, OnePlaceParts
<1>5. Published'
  <2>1. ASSUME NEW i \in Job, (OnQueue(i) \/ Held(i))' PROVE OnQueue(i) \/ Held(i)
    BY <2>1, <1>1, <1>2 DEF OnQueue, IsReady, Prefetched, Held
  <2> QED BY <2>1, <1>1 DEF Located, Published
<1> QED BY <1>3, <1>4, <1>5 DEF Located

\* The cleaner moves a payload from a dead connection back to the queue.
LEMMA LocatedReturn ==
    ASSUME TypeOK, Located, NEW q \in Queue, NEW j \in Job, ReturnStep(q, j)
    PROVE  Located'
<1>t. /\ ready \in [Queue -> Seq(Job)]
      /\ ready[q] \in Seq(Job)
      /\ unclaimed \in [Queue -> SUBSET Job]
  BY ConstantFacts DEF TypeOK, TypeOKQueue
<1>1. /\ j \in unclaimed[q]
      /\ unclaimed'[q] = unclaimed[q] \ {j}
      /\ ready'[q] = Append(ready[q], j)
      /\ \A r \in Queue \ {q} : ready'[r] = ready[r] /\ unclaimed'[r] = unclaimed[r]
      /\ UNCHANGED <<prefetched, held, handler>>
  BY <1>t DEF ReturnStep, ReturnUnacked, apiVars, runVars
<1>n. /\ OnNoNode(j)
      /\ \A r \in Queue : j \notin Range(ready[r])
      /\ \A r \in Queue \ {q} : j \notin unclaimed[r]
  BY <1>1, OnePlaceParts DEF Located, OneKind
<1>2. /\ Range(ready'[q]) = Range(ready[q]) \cup {j}
      /\ Distinct(ready[q]) => Distinct(ready'[q])
  BY <1>t, <1>1, <1>n, AppendDistinct
<1>3. Homes'
  <2>1. ASSUME NEW r \in Queue, NEW i \in Range(ready'[r]) \cup unclaimed'[r]
        PROVE  i \in Range(ready[r]) \cup unclaimed[r]
    BY <1>1, <1>2
  <2> QED BY <1>1, <2>1 DEF Located, Homes
<1>4. OnePlace'
  <2>1. OneReady'
    BY <1>1, <1>2, OnePlaceParts DEF Located, OneReady
  <2>2. OneHolder'
    BY <1>1, OnePlaceParts DEF Located, OneHolder
  <2>3. \A r \in Queue :
          /\ Range(ready'[r]) = Range(ready[r]) \cup (IF r = q THEN {j} ELSE {})
          /\ unclaimed'[r] = unclaimed[r] \ {j}
    BY <1>1, <1>2, <1>n
  <2>4. OneKind'
    BY <1>1, <1>n, <2>3, OnePlaceParts DEF Located, OneKind, OnNoNode
  <2> QED BY <2>1, <2>2, <2>4, OnePlaceParts
<1>5. Published'
  <2>1. ASSUME NEW i \in Job, (OnQueue(i) \/ Held(i))' PROVE OnQueue(i) \/ Held(i)
    BY <2>1, <1>1, <1>2 DEF OnQueue, IsReady, Prefetched, Held
  <2> QED BY <2>1, <1>1 DEF Located, Published
<1> QED BY <1>3, <1>4, <1>5 DEF Located

\* A node dies: its channels become unacked deliveries, its hands are empty.
LEMMA LocatedCrash ==
    ASSUME TypeOK, Located, NEW n \in Node, Crash(n)
    PROVE  Located'
<1>1. /\ \A m \in Node, q \in Queue :
           /\ prefetched'[m][q] = IF m = n THEN NoJob ELSE prefetched[m][q]
           /\ held'[m][q] = IF m = n THEN NoJob ELSE held[m][q]
      /\ \A q \in Queue : unclaimed'[q] = unclaimed[q] \cup ({prefetched[n][q]} \ {NoJob})
      /\ UNCHANGED ready
      /\ DoneStaysDone
  BY DEF Crash, DropConnection, TypeOK, TypeOKQueue, DoneStaysDone, InProgress
<1>3. Homes'
  BY <1>1 DEF Located, Homes
<1>4. OnePlace'
  <2>1. OneReady'
    BY <1>1, OnePlaceParts DEF Located, OneReady
  <2>2. OneHolder'
    BY <1>1, OnePlaceParts DEF Located, OneHolder
  <2>3. ASSUME NEW j \in Job, NEW q \in Queue, j \in unclaimed'[q], j \notin unclaimed[q]
        PROVE  j = prefetched[n][q] /\ j # NoJob /\ prefetched'[n][q] # j
    BY <2>3, <1>1
  <2>4. OneKind'
    <3> SUFFICES ASSUME NEW q \in Queue, NEW r \in Queue, NEW j \in Job
        PROVE  /\ j \in Range(ready[q]) => OnNoNode(j)' /\ j \notin unclaimed'[r]
               /\ j \in unclaimed'[q] => OnNoNode(j)'
               /\ j \in Range(ready[q]) /\ j \in Range(ready[r]) => q = r
               /\ j \in unclaimed'[q] \cap unclaimed'[r] => q = r
      BY <1>1 DEF OneKind
    <3>1. j \in Range(ready[q]) => OnNoNode(j)' /\ j \notin unclaimed'[r]
      BY <1>1, ConstantFacts, OnePlaceParts DEF Located, OneKind, OnNoNode
    <3>2. j \in unclaimed'[q] => OnNoNode(j)'
      <4>1. CASE j \in unclaimed[q]
        BY <4>1, <1>1, ConstantFacts, OnePlaceParts DEF Located, OneKind, OnNoNode
      <4>2. CASE j = prefetched[n][q]
        BY <4>2, <1>1, ConstantFacts, OnePlaceParts DEF Located, OneHolder, OnNoNode
      <4> QED BY <4>1, <4>2, <1>1
    <3>3. j \in unclaimed'[q] \cap unclaimed'[r] => q = r
      BY <2>3, ConstantFacts, OnePlaceParts DEF Located, OneKind, OneHolder, OnNoNode
    <3> QED BY <3>1, <3>2, <3>3, OnePlaceParts DEF Located, OneKind
  <2> QED BY <2>1, <2>2, <2>4, OnePlaceParts
<1>5. Published'
  <2>1. ASSUME NEW i \in Job, (OnQueue(i) \/ Held(i))' PROVE OnQueue(i) \/ Held(i)
    BY <2>1, <1>1, ConstantFacts DEF OnQueue, IsReady, Prefetched, Held
  <2> QED BY <2>1, <1>1 DEF Located, Published, DoneStaysDone
<1> QED BY <1>3, <1>4, <1>5 DEF Located

LEMMA StepLocated ==
    ASSUME TypeOK, Located, Step
    PROVE  Located'
<1> USE ConstantFacts
<1>0. ASSUME NEW j \in Job, InProgress(j) PROVE handler[j] # "done"
  BY <1>0 DEF InProgress
<1>1. ASSUME NEW n \in Node, HandlerStep(n) PROVE Located'
  <2>1. ASSUME NEW j \in LaunchedJob, Launch(n, j) PROVE Located'
    BY <2>1, LocatedUnmoved DEF Launch, queueVars, runVars, DoneStaysDone, TypeOK
  <2>2. ASSUME NEW j \in LaunchedJob, NEW u \in UpdateJob, LaunchWithUpdate(n, j, u) PROVE Located'
    BY <2>2, LocatedUnmoved DEF LaunchWithUpdate, BeginUpdate, queueVars, runVars, DoneStaysDone, TypeOK
  <2>3. ASSUME NEW u \in UpdateJob, RequestUpdate(n, u) PROVE Located'
    BY <2>3, LocatedUnmoved DEF RequestUpdate, BeginUpdate, queueVars, runVars, DoneStaysDone, TypeOK
  <2>4. ASSUME NEW u \in UpdateJob, PublishUpdate(n, u) PROVE Located'
    <3>1. QueueOf(u) = "ansibleq"
      BY DEF QueueOf, LaunchedJob
    <3> QED BY <2>4, <3>1, LocatedPublish DEF PublishUpdate, runVars, DoneStaysDone, Callers
  <2>5. ASSUME NEW u \in UpdateJob, AbortUpdate(n, u) PROVE Located'
    BY <2>5, LocatedUnmoved DEF AbortUpdate, queueVars, runVars, DoneStaysDone, Callers
  <2>6. ASSUME NEW j \in LaunchedJob, PublishJob(n, j) PROVE Located'
    BY <2>6, LocatedPublish DEF PublishJob, runVars, DoneStaysDone, TypeOK
  <2>7. ASSUME NEW j \in LaunchedJob, AbortLaunch(n, j) PROVE Located'
    BY <2>7, LocatedUnmoved DEF AbortLaunch, queueVars, runVars, DoneStaysDone, TypeOK
  <2> QED BY <1>1, <2>1, <2>2, <2>3, <2>4, <2>5, <2>6, <2>7 DEF HandlerStep
<1>2. ASSUME NEW n \in Node, NEW q \in Queue, RunnerStep(n, q) PROVE Located'
  <2>1. CASE Consume(n, q)
    BY <2>1, LocatedConsume
  <2>2. CASE RecordStep(n, q)
    BY <2>2, LocatedUnmoved DEF RecordStep, Record, queueVars, apiVars, DoneStaysDone
  <2>3. CASE AdvanceStep(n, q)
    BY <2>3, LocatedUnmoved DEF AdvanceStep, queueVars, apiVars, DoneStaysDone
  <2>4. CASE LeaveStep(n, q)
    BY <2>4, LocatedLeave
  <2> QED BY <1>2, <2>1, <2>2, <2>3, <2>4 DEF RunnerStep
<1>3. ASSUME NEW n \in Node, Restart(n) PROVE Located'
  BY <1>3, LocatedUnmoved DEF Restart, queueVars, apiVars, runVars, DoneStaysDone
<1>4. CASE RemoveStep
  BY <1>4, LocatedUnmoved DEF RemoveStep, queueVars, apiVars, runVars, DoneStaysDone
<1> QED
  BY <1>1, <1>2, <1>3, <1>4, LocatedFetch, LocatedReturn, LocatedCrash DEF Step

-----------------------------------------------------------------------------
(* What the documents say: the rest of the invariant.                      *)

Recorded ==
    /\ Fresh
    /\ Untouched
    /\ Busy
    /\ Behind
    /\ UpdatesNeverInError
    /\ RunsAfterUpdate
    /\ ErrorMeansUpdateFailed

LEMMA QueuedIsDone ==
    ASSUME Located, NEW j \in Job, OnQueue(j) \/ Held(j)
    PROVE  handler[j] = "done" /\ ~InProgress(j)
  BY DEF Located, Published, InProgress

LEMMA OnQueueUnmoved ==
    ASSUME UNCHANGED <<ready, prefetched, unclaimed>>, NEW j \in Job
    PROVE  OnQueue(j)' <=> OnQueue(j)
  BY DEF OnQueue, IsReady, Prefetched

\* Steps that write no document and make no job younger.
LEMMA RecordedFrame ==
    ASSUME Recorded, UNCHANGED <<status, previous>>,
           \A j \in Job : handler'[j] = "none" <=> handler[j] = "none",
           \A j \in Job : (InProgress(j) \/ OnQueue(j))' => InProgress(j) \/ OnQueue(j),
           Busy', Behind', RunsAfterUpdate'
    PROVE  Recorded'
<1>1. Fresh'
  BY DEF Recorded, Fresh
<1>2. Untouched'
  BY DEF Recorded, Untouched, Initial
<1>3. UpdatesNeverInError'
  BY DEF Recorded, UpdatesNeverInError
<1>4. ErrorMeansUpdateFailed'
  BY DEF Recorded, ErrorMeansUpdateFailed
<1> QED BY <1>1, <1>2, <1>3, <1>4 DEF Recorded

\* ... while the consumers stand still, too.
LEMMA RecordedStill ==
    ASSUME Recorded, UNCHANGED <<status, previous, phase, held>>,
           \A j \in Job : handler'[j] = "none" <=> handler[j] = "none",
           \A j \in Job : (InProgress(j) \/ OnQueue(j))' => InProgress(j) \/ OnQueue(j)
    PROVE  Recorded'
<1>1. Busy'
  BY DEF Recorded, Busy
<1>2. Behind'
  BY DEF Recorded, Behind, Reached
<1>3. RunsAfterUpdate'
  BY DEF Recorded, RunsAfterUpdate, PreviousStatus
<1> QED BY <1>1, <1>2, <1>3, RecordedFrame

\* A handler inserts job x, and a launch that waits for x names it.
LEMMA RecordedInsert ==
    ASSUME TypeOK, Located, Recorded, NEW x \in Job,
           handler[x] = "none", handler'[x] = "inserted",
           status' = [status EXCEPT ![x] = Initial(x)],
           \A j \in Job \ {x} : handler'[j] = handler[j] \/ (InProgress(j) /\ InProgress(j)'),
           \A j \in Job : previous'[j] = previous[j] \/ InProgress(j),
           UNCHANGED <<queueVars, runVars>>
    PROVE  Recorded'
<1> USE ConstantFacts
<1>t. /\ status \in [Job -> Status \cup NoDocument]
      /\ \A j \in Job : previous[j] \in UpdateJob \cup {NoJob}
      /\ \A n \in Node, q \in Queue : held[n][q] \in Job \cup {NoJob}
      /\ UNCHANGED <<ready, prefetched, unclaimed, phase, held>>
  BY DEF TypeOK, TypeOKDocs, queueVars, runVars
<1>x. status[x] = "absent" /\ Initial(x) \in {"new", "pending"}
  BY DEF Recorded, Fresh, Initial
<1>s. status'[x] = Initial(x) /\ \A j \in Job \ {x} : status'[j] = status[j]
  BY <1>t
<1>o. \A j \in Job : OnQueue(j)' <=> OnQueue(j)
  BY <1>t, OnQueueUnmoved
<1>h. \A n \in Node, q \in Queue : held[n][q] # NoJob =>
        held[n][q] # x /\ previous'[held[n][q]] = previous[held[n][q]]
  BY <1>t, QueuedIsDone DEF Held
<1>1. Fresh'
  BY <1>x, <1>s DEF Recorded, Fresh, InProgress
<1>2. Untouched'
  BY <1>s, <1>o DEF Recorded, Untouched, Initial, InProgress
<1>3. Busy'
  BY <1>t, <1>h DEF Recorded, Busy
<1>4. Behind'
  BY <1>t, <1>s, <1>h DEF Recorded, Behind, Reached
<1>5. UpdatesNeverInError'
  BY <1>x, <1>s DEF Recorded, UpdatesNeverInError
<1>6. RunsAfterUpdate'
  <2> SUFFICES ASSUME NEW n \in Node, NEW q \in Queue,
                      phase[n][q] \in {"cleared", "getting", "running"},
                      held[n][q] \in LaunchedJob, previous'[held[n][q]] # NoJob
               PROVE  status'[previous'[held[n][q]]] \in {"successful", "removed"}
    BY <1>t DEF RunsAfterUpdate, PreviousStatus
  <2>1. previous'[held[n][q]] = previous[held[n][q]]
    BY <1>h
  <2>2. status[previous[held[n][q]]] \in {"successful", "removed"}
    BY <2>1 DEF Recorded, RunsAfterUpdate, PreviousStatus
  <2>3. previous[held[n][q]] \in Job
    BY <2>1, <1>t
  <2> QED BY <2>1, <2>2, <2>3, <1>x, <1>s
<1>7. ErrorMeansUpdateFailed'
  <2> SUFFICES ASSUME NEW j \in Job, status'[j] = "error"
               PROVE  previous'[j] # NoJob /\ status'[previous'[j]] \in {"failed", "removed"}
    BY DEF ErrorMeansUpdateFailed
  <2>1. status[j] = "error"
    BY <1>x, <1>s
  <2>2. ~InProgress(j)
    BY <2>1 DEF Recorded, Untouched, Initial
  <2>3. previous[j] # NoJob /\ status[previous[j]] \in {"failed", "removed"} /\ previous[j] \in Job
    BY <2>1, <1>t DEF Recorded, ErrorMeansUpdateFailed
  <2> QED BY <2>2, <2>3, <1>x, <1>s
<1> QED BY <1>1, <1>2, <1>3, <1>4, <1>5, <1>6, <1>7 DEF Recorded

\* A published payload belongs to a job whose handler was in progress.
LEMMA PublishOnQueue ==
    ASSUME TypeOK, NEW q \in Queue, NEW x \in Job, Publish(q, x), NEW j \in Job, OnQueue(j)'
    PROVE  OnQueue(j) \/ j = x
<1>t. ready \in [Queue -> Seq(Job)] /\ ready[q] \in Seq(Job)
  BY ConstantFacts DEF TypeOK, TypeOKQueue
<1>1. /\ Range(ready'[q]) = Range(ready[q]) \cup {x}
      /\ \A r \in Queue \ {q} : ready'[r] = ready[r]
      /\ UNCHANGED <<prefetched, unclaimed>>
  BY <1>t, AppendDistinct DEF Publish
<1> QED BY <1>1 DEF OnQueue, IsReady, Prefetched

LEMMA HandlerStepRecorded ==
    ASSUME TypeOK, Located, Recorded, NEW n \in Node, HandlerStep(n)
    PROVE  Recorded'
<1> USE ConstantFacts
<1>t. /\ handler \in [Job -> HandlerPhase]
      /\ previous \in [Job -> UpdateJob \cup {NoJob}]
  BY DEF TypeOK
<1>1. ASSUME NEW j \in LaunchedJob, Launch(n, j) PROVE Recorded'
  BY <1>1, <1>t, RecordedInsert DEF Launch, InsertJob, Initial
<1>2. ASSUME NEW j \in LaunchedJob, NEW u \in UpdateJob, LaunchWithUpdate(n, j, u) PROVE Recorded'
  <2>1. j # u
    OBVIOUS
  <2>2. InProgress(j) /\ InProgress(j)'
    BY <1>2, <1>t, <2>1 DEF LaunchWithUpdate, InProgress
  <2>3. /\ handler[u] = "none" /\ handler'[u] = "inserted"
        /\ status' = [status EXCEPT ![u] = Initial(u)]
        /\ UNCHANGED <<queueVars, runVars>>
    BY <1>2, <1>t, <2>1 DEF LaunchWithUpdate, BeginUpdate, InsertJob, Initial
  <2>4. \A i \in Job \ {u} : handler'[i] = handler[i] \/ (InProgress(i) /\ InProgress(i)')
    BY <1>2, <1>t, <2>2 DEF LaunchWithUpdate
  <2>5. \A i \in Job : previous'[i] = previous[i] \/ InProgress(i)
    BY <1>2, <1>t, <2>2 DEF LaunchWithUpdate
  <2> QED BY <2>3, <2>4, <2>5, RecordedInsert
<1>3. ASSUME NEW u \in UpdateJob, RequestUpdate(n, u) PROVE Recorded'
  BY <1>3, <1>t, RecordedInsert DEF RequestUpdate, BeginUpdate, InsertJob, Initial
<1>4. ASSUME NEW u \in UpdateJob, PublishUpdate(n, u) PROVE Recorded'
  <2>1. \A j \in Job : OnQueue(j)' => OnQueue(j) \/ j = u
    BY <1>4, PublishOnQueue DEF PublishUpdate
  <2>2. InProgress(u) /\ \A j \in Job : InProgress(j)' => InProgress(j)
    BY <1>4 DEF PublishUpdate, InProgress, Callers
  <2>3. \A j \in Job : handler'[j] = "none" <=> handler[j] = "none"
    BY <1>4 DEF PublishUpdate, Callers
  <2> QED BY <1>4, <2>1, <2>2, <2>3, RecordedStill DEF PublishUpdate, docVars, runVars
<1>5. ASSUME NEW u \in UpdateJob, AbortUpdate(n, u) PROVE Recorded'
  <2>1. \A j \in Job : OnQueue(j)' => OnQueue(j)
    BY <1>5, OnQueueUnmoved DEF AbortUpdate, queueVars
  <2>2. \A j \in Job : InProgress(j)' => InProgress(j)
    BY <1>5 DEF AbortUpdate, InProgress
  <2>3. \A j \in Job : handler'[j] = "none" <=> handler[j] = "none"
    BY <1>5 DEF AbortUpdate, Callers
  <2> QED BY <1>5, <2>1, <2>2, <2>3, RecordedStill DEF AbortUpdate, docVars, runVars
<1>6. ASSUME NEW j \in LaunchedJob, PublishJob(n, j) PROVE Recorded'
  <2>0. QueueOf(j) \in Queue
    BY DEF QueueOf
  <2>1. \A i \in Job : OnQueue(i)' => OnQueue(i) \/ i = j
    BY <1>6, <2>0, PublishOnQueue DEF PublishJob
  <2>2. InProgress(j) /\ \A i \in Job : InProgress(i)' => InProgress(i)
    BY <1>6, <1>t DEF PublishJob, InProgress
  <2>3. \A i \in Job : handler'[i] = "none" <=> handler[i] = "none"
    BY <1>6, <1>t DEF PublishJob
  <2> QED BY <1>6, <2>1, <2>2, <2>3, RecordedStill DEF PublishJob, docVars, runVars
<1>7. ASSUME NEW j \in LaunchedJob, AbortLaunch(n, j) PROVE Recorded'
  <2>1. \A i \in Job : OnQueue(i)' => OnQueue(i)
    BY <1>7, OnQueueUnmoved DEF AbortLaunch, queueVars
  <2>2. \A i \in Job : InProgress(i)' => InProgress(i)
    BY <1>7, <1>t DEF AbortLaunch, InProgress
  <2>3. \A i \in Job : handler'[i] = "none" <=> handler[i] = "none"
    BY <1>7, <1>t DEF AbortLaunch
  <2> QED BY <1>7, <2>1, <2>2, <2>3, RecordedStill DEF AbortLaunch, docVars, runVars
<1> QED BY <1>1, <1>2, <1>3, <1>4, <1>5, <1>6, <1>7 DEF HandlerStep

\* Steps of a consumer that write no status.
LEMMA ConsumerMoveRecorded ==
    ASSUME TypeOK, Located, Recorded, NEW n \in Node, NEW q \in Queue,
           Consume(n, q) \/ AdvanceStep(n, q) \/ LeaveStep(n, q)
    PROVE  Recorded'
<1> USE ConstantFacts
<1>t. /\ phase \in [Node -> [Queue -> Phase]]
      /\ held \in [Node -> [Queue -> Job \cup {NoJob}]]
      /\ prefetched \in [Node -> [Queue -> Job \cup {NoJob}]]
  BY DEF TypeOK, TypeOKQueue
<1>f. UNCHANGED <<status, previous, handler>>
  BY DEF Consume, AdvanceStep, LeaveStep, docVars, apiVars
<1>1. CASE Consume(n, q)
  <2>1. PICK j \in Job : TakeAndAck(n, q, j) /\ held' = [held EXCEPT ![n][q] = j]
    BY <1>1 DEF Consume
  <2>2. /\ prefetched[n][q] = j
        /\ \A m \in Node, r \in Queue :
             /\ phase'[m][r] = IF m = n /\ r = q THEN "acked" ELSE phase[m][r]
             /\ held'[m][r] = IF m = n /\ r = q THEN j ELSE held[m][r]
             /\ prefetched'[m][r] = IF m = n /\ r = q THEN NoJob ELSE prefetched[m][r]
        /\ UNCHANGED <<ready, unclaimed>>
    BY <1>1, <1>t, <2>1 DEF Consume, Enter, TakeAndAck
  <2>3. status[j] \in {"removed", "new", "pending"}
    <3>1. OnQueue(j)
      BY <2>2 DEF OnQueue, Prefetched
    <3> QED BY <3>1 DEF Recorded, Untouched, Initial
  <2>4. Busy'
    BY <2>2, <1>f DEF Recorded, Busy
  <2>5. Behind'
    BY <2>2, <2>3, <1>f DEF Recorded, Behind, Reached
  <2>6. RunsAfterUpdate'
    BY <2>2, <1>f DEF Recorded, RunsAfterUpdate, PreviousStatus
  <2>7. \A i \in Job : (InProgress(i) \/ OnQueue(i))' => InProgress(i) \/ OnQueue(i)
    BY <2>2, <1>f DEF InProgress, OnQueue, IsReady, Prefetched
  <2> QED BY <1>f, <2>4, <2>5, <2>6, <2>7, RecordedFrame
<1>o. ASSUME UNCHANGED queueVars
      PROVE  \A i \in Job : (InProgress(i) \/ OnQueue(i))' => InProgress(i) \/ OnQueue(i)
  BY <1>o, <1>f, OnQueueUnmoved DEF InProgress, queueVars
<1>2. CASE AdvanceStep(n, q)
  <2>1. PICK p \in Phase :
          /\ \/ phase[n][q] = "waiting" /\ PreviousStatus(n, q) = "successful" /\ p = "cleared"
             \/ phase[n][q] = "getting" /\ p = "running"
             \/ phase[n][q] = "finished" /\ p = "reported"
          /\ Enter(n, q, p)
    BY <1>2 DEF AdvanceStep
  <2>2. /\ \A m \in Node, r \in Queue :
             phase'[m][r] = IF m = n /\ r = q THEN p ELSE phase[m][r]
        /\ UNCHANGED <<held, queueVars>>
    BY <1>2, <1>t, <2>1 DEF AdvanceStep, Enter
  <2>4. Busy'
    BY <2>1, <2>2, <1>f DEF Recorded, Busy
  <2>5. Behind'
    BY <2>1, <2>2, <1>f DEF Recorded, Behind, Reached
  <2>6. RunsAfterUpdate'
    BY <2>1, <2>2, <1>f DEF Recorded, RunsAfterUpdate, PreviousStatus
  <2> QED BY <1>f, <1>o, <2>2, <2>4, <2>5, <2>6, RecordedFrame
<1>3. CASE LeaveStep(n, q)
  <2>2. /\ \A m \in Node, r \in Queue :
             /\ phase'[m][r] = IF m = n /\ r = q THEN "idle" ELSE phase[m][r]
             /\ held'[m][r] = IF m = n /\ r = q THEN NoJob ELSE held[m][r]
        /\ UNCHANGED queueVars
    BY <1>3, <1>t DEF LeaveStep, Leave, Enter
  <2>4. Busy'
    BY <2>2, <1>f DEF Recorded, Busy
  <2>5. Behind'
    BY <2>2, <1>f DEF Recorded, Behind, Reached
  <2>6. RunsAfterUpdate'
    BY <2>2, <1>f DEF Recorded, RunsAfterUpdate, PreviousStatus
  <2> QED BY <1>f, <1>o, <2>2, <2>4, <2>5, <2>6, RecordedFrame
<1> QED BY <1>1, <1>2, <1>3

\* A consumer writes the status of the job in its hands.
LEMMA RecordStepRecorded ==
    ASSUME TypeOK, Located, Recorded, NEW n \in Node, NEW q \in Queue, RecordStep(n, q)
    PROVE  Recorded'
<1> DEFINE h == held[n][q]
<1> USE ConstantFacts
<1>1. PICK s \in Status : \E p \in Phase : MayRecord(n, q, s, p) /\ Record(n, q, s, p)
  BY DEF RecordStep
<1>2. PICK p \in Phase : MayRecord(n, q, s, p) /\ Record(n, q, s, p)
  BY <1>1
<1>t. /\ status \in [Job -> Status \cup NoDocument]
      /\ phase \in [Node -> [Queue -> Phase]]
      /\ \A m \in Node, r \in Queue : held[m][r] \in Job \cup {NoJob}
      /\ \A j \in Job : previous[j] \in UpdateJob \cup {NoJob}
  BY DEF TypeOK, TypeOKDocs
<1>f. /\ UNCHANGED <<previous, handler, held, queueVars>>
      /\ \A m \in Node, r \in Queue :
           phase'[m][r] = IF m = n /\ r = q THEN p ELSE phase[m][r]
  BY <1>2, <1>t DEF Record, Enter, apiVars
<1>b. /\ phase[n][q] \in {"acked", "pending", "waiting", "cleared", "getting", "running"}
      /\ p \in {"pending", "waiting", "getting", "running", "finished"}
  BY <1>2 DEF MayRecord
<1>h. h \in Job /\ h # NoJob
  BY <1>t, <1>b DEF Recorded, Busy
<1>d. handler[h] = "done" /\ ~InProgress(h) /\ ~OnQueue(h)
  <2>1. Held(h)
    BY <1>h DEF Held
  <2>2. ~OnQueue(h)
    BY <1>h, OnePlaceParts DEF Located, OneKind, OneHolder, OnNoNode, OnQueue, IsReady, Prefetched
  <2> QED BY <2>1, <2>2, <1>h, QueuedIsDone
<1>r. status[h] \in {"removed", "new", "pending", "waiting", "running"}
  BY <1>b, <1>h DEF Recorded, Behind, Reached
<1>s. /\ \A j \in Job \ {h} : status'[j] = status[j]
      /\ status'[h] \in {status[h], s}
      /\ status[h] = "removed" => status'[h] = "removed"
  BY <1>2, <1>t, <1>h DEF Record, SetStatus, Exists, NoDocument
<1>n. s \in {"pending", "waiting", "running", "error", "successful", "failed"}
  BY <1>2 DEF MayRecord
<1>u. \A m \in Node, r \in Queue : held[m][r] = h => m = n /\ r = q
  BY <1>h, OnePlaceParts DEF Located, OneHolder
<1>w. p \in {"waiting", "cleared"} =>
        /\ phase[n][q] = "pending" /\ s = "waiting"
        /\ h \in LaunchedJob /\ previous[h] # NoJob
  BY <1>2 DEF MayRecord
<1> HIDE DEF h
<1>3. Fresh'
  BY <1>s, <1>d, <1>r, <1>n, <1>f, <1>h DEF Recorded, Fresh
<1>4. Untouched'
  <2>1. \A j \in Job : (InProgress(j) \/ OnQueue(j))' => InProgress(j) \/ OnQueue(j)
    BY <1>f, OnQueueUnmoved DEF InProgress, queueVars
  <2> QED BY <2>1, <1>s, <1>d DEF Recorded, Untouched, Initial
<1>5. Busy'
  <2>1. ASSUME NEW m \in Node, NEW r \in Queue, ~(m = n /\ r = q)
        PROVE  /\ held'[m][r] = NoJob <=> phase'[m][r] = "idle"
               /\ phase'[m][r] \in {"waiting", "cleared"} =>
                    held'[m][r] \in LaunchedJob /\ previous'[held'[m][r]] # NoJob
    BY <2>1, <1>f DEF Recorded, Busy
  <2>2. /\ held'[n][q] # NoJob /\ phase'[n][q] # "idle"
        /\ phase'[n][q] \in {"waiting", "cleared"} =>
             held'[n][q] \in LaunchedJob /\ previous'[held'[n][q]] # NoJob
    BY <1>f, <1>h, <1>b, <1>w DEF h
  <2> QED BY <2>1, <2>2 DEF Busy
<1>6. Behind'
  <2>1. ASSUME NEW m \in Node, NEW r \in Queue, ~(m = n /\ r = q), held[m][r] # NoJob
        PROVE  status'[held[m][r]] \in {"removed"} \cup Reached(phase[m][r])
    <3>1. held[m][r] \in Job \ {h}
      BY <2>1, <1>t, <1>u
    <3> QED BY <2>1, <3>1, <1>s DEF Recorded, Behind
  <2>2. status'[h] \in {"removed"} \cup Reached(p)
    <3>1. status[h] \in {"removed"} \cup Reached(phase[n][q])
      BY <1>h DEF Recorded, Behind, h
    <3> QED BY <3>1, <1>2, <1>s, <1>b, <1>w DEF MayRecord, Reached, Status, Outcome
  <2>3. ASSUME NEW m \in Node, NEW r \in Queue, held'[m][r] # NoJob
        PROVE  status'[held'[m][r]] \in {"removed"} \cup Reached(phase'[m][r])
    <3>1. CASE m = n /\ r = q
      BY <3>1, <2>2, <1>f DEF h
    <3>2. CASE ~(m = n /\ r = q)
      BY <3>2, <2>1, <2>3, <1>f
    <3> QED BY <3>1, <3>2
  <2> QED BY <2>3 DEF Behind, Reached
<1>l. s = "error" => h \in LaunchedJob /\ previous[h] # NoJob /\ status[previous[h]] \in {"failed", "error"}
  BY <1>2 DEF MayRecord, PreviousStatus, Recorded, Busy, h
<1>7. UpdatesNeverInError'
  BY <1>s, <1>l DEF Recorded, UpdatesNeverInError
<1>8. RunsAfterUpdate'
  <2> SUFFICES ASSUME NEW m \in Node, NEW r \in Queue,
                      phase'[m][r] \in {"cleared", "getting", "running"},
                      held[m][r] \in LaunchedJob, previous[held[m][r]] # NoJob
               PROVE  status'[previous[held[m][r]]] \in {"successful", "removed"}
    BY <1>f DEF RunsAfterUpdate, PreviousStatus
  <2>1. phase[m][r] \in {"cleared", "getting", "running"}
    <3>1. CASE m = n /\ r = q
      BY <3>1, <1>2, <1>f DEF MayRecord, h
    <3>2. CASE ~(m = n /\ r = q)
      BY <3>2, <1>f
    <3> QED BY <3>1, <3>2
  <2>2. status[previous[held[m][r]]] \in {"successful", "removed"}
    BY <2>1 DEF Recorded, RunsAfterUpdate, PreviousStatus
  <2>3. previous[held[m][r]] \in Job
    BY <1>t
  <2> QED BY <2>2, <2>3, <1>s, <1>r
<1>9. ErrorMeansUpdateFailed'
  <2> SUFFICES ASSUME NEW j \in Job, status'[j] = "error"
               PROVE  previous[j] # NoJob /\ status'[previous[j]] \in {"failed", "removed"}
    BY <1>f DEF ErrorMeansUpdateFailed
  <2>1. previous[j] # NoJob /\ status[previous[j]] \in {"failed", "removed"}
    <3>1. CASE status[j] = "error"
      BY <3>1 DEF Recorded, ErrorMeansUpdateFailed
    <3>2. CASE status[j] # "error"
      <4>1. j = h /\ s = "error"
        BY <3>2, <1>s
      <4>2. previous[h] \in UpdateJob
        BY <4>1, <1>l, <1>t, <1>h
      <4> QED BY <4>1, <4>2, <1>l DEF Recorded, UpdatesNeverInError
    <3> QED BY <3>1, <3>2
  <2>2. previous[j] \in Job
    BY <2>1, <1>t
  <2> QED BY <2>1, <2>2, <1>s, <1>r
<1> QED BY <1>3, <1>4, <1>5, <1>6, <1>7, <1>8, <1>9 DEF Recorded

\* A crash empties the hands of a node and fails the requests it was serving.
LEMMA CrashRecorded ==
    ASSUME TypeOK, Located, Recorded, NEW n \in Node, Crash(n)
    PROVE  Recorded'
<1> USE ConstantFacts
<1>1. /\ \A m \in Node, q \in Queue :
           /\ phase'[m][q] = IF m = n THEN "idle" ELSE phase[m][q]
           /\ held'[m][q] = IF m = n THEN NoJob ELSE held[m][q]
           /\ prefetched'[m][q] = IF m = n THEN NoJob ELSE prefetched[m][q]
      /\ \A q \in Queue : unclaimed'[q] = unclaimed[q] \cup ({prefetched[n][q]} \ {NoJob})
      /\ UNCHANGED <<ready, status, previous>>
  BY DEF Crash, DropConnection, TypeOK, TypeOKQueue, docVars
<1>2. /\ \A j \in Job : handler'[j] = "none" <=> handler[j] = "none"
      /\ \A j \in Job : InProgress(j)' => InProgress(j)
  BY DEF Crash, InProgress
<1>3. \A j \in Job : OnQueue(j)' => OnQueue(j)
  BY <1>1 DEF OnQueue, IsReady, Prefetched
<1>4. Busy'
  BY <1>1 DEF Recorded, Busy
<1>5. Behind'
  BY <1>1 DEF Recorded, Behind, Reached
<1>6. RunsAfterUpdate'
  BY <1>1 DEF Recorded, RunsAfterUpdate, PreviousStatus
<1> QED BY <1>1, <1>2, <1>3, <1>4, <1>5, <1>6, RecordedFrame

\* Payloads move between Redis and a channel.
LEMMA MoveRecorded ==
    ASSUME TypeOK, Recorded, NEW q \in Queue,
           (\E n \in Node : Fetch(n, q)) \/ (\E j \in Job : ReturnStep(q, j))
    PROVE  Recorded'
<1> USE ConstantFacts
<1>t. /\ ready \in [Queue -> Seq(Job)] /\ ready[q] \in Seq(Job)
      /\ prefetched \in [Node -> [Queue -> Job \cup {NoJob}]]
      /\ unclaimed \in [Queue -> SUBSET Job]
  BY DEF TypeOK, TypeOKQueue
<1>1. ASSUME NEW n \in Node, Fetch(n, q), NEW i \in Job, OnQueue(i)' PROVE OnQueue(i)
  <2>1. /\ ready[q] # <<>> /\ ready'[q] = Tail(ready[q])
        /\ \A r \in Queue \ {q} : ready'[r] = ready[r]
        /\ \A m \in Node, r \in Queue :
             prefetched'[m][r] = IF m = n /\ r = q THEN Head(ready[q]) ELSE prefetched[m][r]
        /\ UNCHANGED unclaimed
    BY <1>1, <1>t DEF Fetch, Prefetch
  <2>2. Range(ready[q]) = Range(ready'[q]) \cup {Head(ready[q])}
    BY <2>1, <1>t, TailDistinct
  <2> QED BY <1>1, <2>1, <2>2 DEF OnQueue, IsReady, Prefetched
<1>2. ASSUME NEW j \in Job, ReturnStep(q, j), NEW i \in Job, OnQueue(i)' PROVE OnQueue(i)
  <2>1. /\ j \in unclaimed[q] /\ ready'[q] = Append(ready[q], j)
        /\ \A r \in Queue \ {q} : ready'[r] = ready[r]
        /\ \A r \in Queue : unclaimed'[r] \subseteq unclaimed[r]
        /\ UNCHANGED prefetched
    BY <1>2, <1>t DEF ReturnStep, ReturnUnacked
  <2>2. Range(ready'[q]) = Range(ready[q]) \cup {j}
    BY <2>1, <1>t, AppendDistinct
  <2> QED BY <1>2, <2>1, <2>2 DEF OnQueue, IsReady, Prefetched
<1>3. UNCHANGED <<status, previous, handler, phase, held>>
  BY DEF Fetch, ReturnStep, docVars, apiVars, runVars
<1>4. \A i \in Job : InProgress(i)' => InProgress(i)
  BY <1>3 DEF InProgress
<1> QED BY <1>1, <1>2, <1>3, <1>4, RecordedStill

\* Deleted documents.
LEMMA RemoveRecorded ==
    ASSUME TypeOK, Recorded, RemoveStep
    PROVE  Recorded'
<1> USE ConstantFacts
<1>t. /\ \A j \in Job : previous[j] \in UpdateJob \cup {NoJob}
      /\ \A n \in Node, q \in Queue : held[n][q] \in Job \cup {NoJob}
  BY DEF TypeOK
<1>1. /\ \A j \in Job : status'[j] = status[j] \/ (Exists(j) /\ status'[j] = "removed")
      /\ UNCHANGED <<handler, previous, phase, held, ready, prefetched, unclaimed>>
  BY DEF RemoveStep, apiVars, runVars, queueVars
<1>2. Fresh'
  BY <1>1 DEF Recorded, Fresh, Exists, NoDocument
<1>3. Untouched'
  <2>1. \A j \in Job : (InProgress(j) \/ OnQueue(j))' => InProgress(j) \/ OnQueue(j)
    BY <1>1, OnQueueUnmoved DEF InProgress
  <2> QED BY <1>1, <2>1 DEF Recorded, Untouched, Initial
<1>4. Busy'
  BY <1>1 DEF Recorded, Busy
<1>5. Behind'
  <2>1. ASSUME NEW n \in Node, NEW q \in Queue, held[n][q] # NoJob
        PROVE  status'[held[n][q]] \in {"removed"} \cup Reached(phase[n][q])
    <3>1. held[n][q] \in Job
      BY <2>1, <1>t, ConstantFacts
    <3> QED BY <2>1, <3>1, <1>1 DEF Recorded, Behind
  <2> QED BY <1>1, <2>1 DEF Behind, Reached
<1>6. UpdatesNeverInError'
  BY <1>1 DEF Recorded, UpdatesNeverInError
<1>7. RunsAfterUpdate'
  <2> SUFFICES ASSUME NEW n \in Node, NEW q \in Queue,
                      phase[n][q] \in {"cleared", "getting", "running"},
                      held[n][q] \in LaunchedJob, previous[held[n][q]] # NoJob
               PROVE  status'[previous[held[n][q]]] \in {"successful", "removed"}
    BY <1>1 DEF RunsAfterUpdate, PreviousStatus
  <2>1. status[previous[held[n][q]]] \in {"successful", "removed"}
    BY DEF Recorded, RunsAfterUpdate, PreviousStatus
  <2>2. previous[held[n][q]] \in Job
    BY <1>t
  <2> QED BY <2>1, <2>2, <1>1
<1>8. ErrorMeansUpdateFailed'
  <2> SUFFICES ASSUME NEW j \in Job, status'[j] = "error"
               PROVE  previous[j] # NoJob /\ status'[previous[j]] \in {"failed", "removed"}
    BY <1>1 DEF ErrorMeansUpdateFailed
  <2>1. previous[j] # NoJob /\ status[previous[j]] \in {"failed", "removed"}
    BY <1>1 DEF Recorded, ErrorMeansUpdateFailed
  <2>2. previous[j] \in Job
    BY <2>1, <1>t
  <2> QED BY <2>1, <2>2, <1>1
<1> QED BY <1>2, <1>3, <1>4, <1>5, <1>6, <1>7, <1>8 DEF Recorded

LEMMA StepRecorded ==
    ASSUME TypeOK, Located, Recorded, Step
    PROVE  Recorded'
<1>1. ASSUME NEW n \in Node, NEW q \in Queue, RunnerStep(n, q) PROVE Recorded'
  BY <1>1, ConsumerMoveRecorded, RecordStepRecorded DEF RunnerStep
<1>2. ASSUME NEW n \in Node, Restart(n) PROVE Recorded'
  <2>1. \A j \in Job : (InProgress(j) \/ OnQueue(j))' => InProgress(j) \/ OnQueue(j)
    BY <1>2, OnQueueUnmoved DEF Restart, queueVars, apiVars, InProgress
  <2> QED BY <1>2, <2>1, RecordedStill DEF Restart, docVars, apiVars, runVars
<1> QED
  BY <1>1, <1>2, HandlerStepRecorded, MoveRecorded, CrashRecorded, RemoveRecorded DEF Step

-----------------------------------------------------------------------------
(* The invariant and what follows from it.                                 *)

LEMMA IInvParts == IInv <=> TypeOK /\ Located /\ Recorded
  BY DEF IInv, Located, Recorded

LEMMA InitIInv == Init => IInv
<1> SUFFICES ASSUME Init PROVE IInv
  OBVIOUS
<1> USE ConstantFacts
<1>1. /\ \A q \in Queue : ready[q] = <<>> /\ unclaimed[q] = {}
      /\ \A n \in Node, q \in Queue :
           prefetched[n][q] = NoJob /\ held[n][q] = NoJob /\ phase[n][q] = "idle"
      /\ \A j \in Job : status[j] = "absent" /\ handler[j] = "none"
  BY DEF Init, InitDocs, InitQueue
<1>2. Range(<<>>) = {}
  BY DEF Range
<1>3. \A j \in Job : ~OnQueue(j) /\ ~Held(j) /\ ~InProgress(j)
  BY <1>1, <1>2 DEF OnQueue, Held, IsReady, Prefetched, InProgress
<1>4. Homes
  BY <1>1, <1>2 DEF Homes
<1>5. OnePlace
  BY <1>1, <1>2, OnePlaceParts DEF OneReady, Distinct, OneHolder, OneKind
<1>6. Recorded
  BY <1>1, <1>3 DEF Recorded, Fresh, Untouched, Busy, Behind, UpdatesNeverInError,
                    RunsAfterUpdate, ErrorMeansUpdateFailed
<1> QED BY <1>3, <1>4, <1>5, <1>6, InitTypeOK, IInvParts DEF Located, Published

LEMMA NextIInv == IInv /\ [Next]_vars => IInv'
<1> SUFFICES ASSUME TypeOK, Located, Recorded, [Next]_vars
             PROVE  TypeOK' /\ Located' /\ Recorded'
  BY IInvParts DEF IInv, Located, Recorded
<1>1. CASE Next
  BY <1>1, NextStep, StepType, StepLocated, StepRecorded
<1>2. CASE UNCHANGED vars
  <2>1. UNCHANGED <<ready, prefetched, unclaimed, status, handler, previous, phase, held>>
    BY <1>2 DEF vars, docVars, queueVars, apiVars, runVars
  <2>2. Located'
    BY <2>1, LocatedUnmoved DEF DoneStaysDone
  <2>3. \A j \in Job : (InProgress(j) \/ OnQueue(j))' => InProgress(j) \/ OnQueue(j)
    BY <2>1, OnQueueUnmoved DEF InProgress
  <2>4. Recorded'
    BY <2>1, <2>3, RecordedStill
  <2> QED BY <1>2, <2>2, <2>4, StutterType
<1> QED BY <1>1, <1>2

THEOREM Inductive == Spec => []IInv
  BY InitIInv, NextIInv, PTL DEF Spec

\* No crash, return of unacked deliveries or second node duplicates a payload.
THEOREM NoDuplicate == Spec => []OnePlace
<1>1. IInv => OnePlace
  BY DEF IInv
<1> QED BY <1>1, Inductive, PTL

\* A payload that can still be delivered is one nobody has worked on: there is
\* no second run of a job (ansible.Consume and terraform.Consume ack first).
THEOREM FirstRunOnly == Spec => []RedeliveryIsFirstRun
<1>1. IInv => RedeliveryIsFirstRun
  BY DEF IInv, Untouched, RedeliveryIsFirstRun, Initial
<1> QED BY <1>1, Inductive, PTL

\* A job with a PreviousJob is started on a successful update only (the polls of
\* ansibleRun and terraformRun).
THEOREM UpdateFirst == Spec => []RunsAfterUpdate
<1>1. IInv => RunsAfterUpdate
  BY DEF IInv
<1> QED BY <1>1, Inductive, PTL

\* jobError is called for no other reason than a failed update.
THEOREM ErrorIsJustified == Spec => []ErrorMeansUpdateFailed
<1>1. IInv => ErrorMeansUpdateFailed
  BY DEF IInv
<1> QED BY <1>1, Inductive, PTL

-----------------------------------------------------------------------------
(* An action property from the same invariant.                             *)

Forward == \A j \in Job : status'[j] # status[j] => Rank(status[j]) < Rank(status'[j])

LEMMA Ranks ==
    /\ Rank("absent") = 0 /\ Rank("new") = 1 /\ Rank("pending") = 2
    /\ Rank("waiting") = 3 /\ Rank("running") = 4 /\ Rank("removed") = 6
    /\ Rank("successful") = 5 /\ Rank("failed") = 5 /\ Rank("error") = 5
  BY DEF Rank, Outcome

LEMMA StepForward ==
    ASSUME TypeOK, Located, Recorded, Step
    PROVE  Forward
<1> USE ConstantFacts
<1>t. /\ status \in [Job -> Status \cup NoDocument]
      /\ \A n \in Node, q \in Queue : held[n][q] \in Job \cup {NoJob}
  BY DEF TypeOK, TypeOKDocs
<1>0. ASSUME UNCHANGED status PROVE Forward
  BY <1>0 DEF Forward
<1>1. ASSUME NEW j \in Job, NEW s \in {"new", "pending"}, InsertJob(j, s) PROVE Forward
  BY <1>1, <1>t, Ranks DEF InsertJob, Forward
<1>2. ASSUME NEW n \in Node, HandlerStep(n) PROVE Forward
  BY <1>0, <1>1, <1>2 DEF HandlerStep, Launch, LaunchWithUpdate, RequestUpdate, BeginUpdate,
        PublishUpdate, AbortUpdate, PublishJob, AbortLaunch, docVars
<1>3. ASSUME NEW n \in Node, NEW q \in Queue, RecordStep(n, q) PROVE Forward
  <2>1. PICK s \in Status : \E p \in Phase : MayRecord(n, q, s, p) /\ Record(n, q, s, p)
    BY <1>3 DEF RecordStep
  <2>2. PICK p \in Phase : MayRecord(n, q, s, p) /\ Record(n, q, s, p)
    BY <2>1
  <2>3. held[n][q] \in Job /\ held[n][q] # NoJob
    BY <2>2, <1>t DEF MayRecord, Recorded, Busy
  <2>4. status[held[n][q]] \in {"removed"} \cup Reached(phase[n][q])
    BY <2>3 DEF Recorded, Behind
  <2>5. /\ \A j \in Job : j # held[n][q] => status'[j] = status[j]
        /\ status'[held[n][q]] \in {status[held[n][q]], s}
        /\ status[held[n][q]] = "removed" => status'[held[n][q]] = "removed"
    BY <2>2, <2>3, <1>t DEF Record, SetStatus, Exists, NoDocument
  <2>6. status'[held[n][q]] # status[held[n][q]] =>
          Rank(status[held[n][q]]) < Rank(status'[held[n][q]])
    <3> DEFINE old == status[held[n][q]]
               new == status'[held[n][q]]
    <3> SUFFICES ASSUME new # old PROVE Rank(old) < Rank(new)
      OBVIOUS
    <3>1. new = s /\ old \in Reached(phase[n][q])
      BY <2>4, <2>5
    <3> HIDE DEF old, new
    <3>2. CASE phase[n][q] \in {"acked", "pending"}
      BY <3>1, <3>2, <2>2, Ranks DEF MayRecord, Reached
    <3>3. CASE phase[n][q] \in {"waiting", "cleared"}
      BY <3>1, <3>3, <2>2, Ranks DEF MayRecord, Reached
    <3>4. CASE phase[n][q] \in {"getting", "running"}
      BY <3>1, <3>4, <2>2, Ranks DEF MayRecord, Reached
    <3> QED BY <3>2, <3>3, <3>4, <2>2 DEF MayRecord
  <2> QED BY <2>5, <2>6 DEF Forward
<1>4. ASSUME NEW n \in Node, NEW q \in Queue, RunnerStep(n, q) PROVE Forward
  BY <1>0, <1>3, <1>4 DEF RunnerStep, Consume, AdvanceStep, LeaveStep, docVars
<1>5. CASE RemoveStep
  <2>1. ASSUME NEW j \in Job, status'[j] # status[j] PROVE Rank(status[j]) < Rank(status'[j])
    <3>1. status[j] \in Status /\ status'[j] = "removed"
      BY <1>5, <2>1, <1>t DEF RemoveStep, Exists
    <3> QED BY <3>1, Ranks DEF Status, Outcome
  <2> QED BY <2>1 DEF Forward
<1> QED
  BY <1>0, <1>2, <1>4, <1>5 DEF Step, Fetch, ReturnStep, Crash, Restart, docVars

\* A status only moves forward, whatever order nodes, crashes, lost writes and
\* deletions come in: no report of a runner undoes a later one.
THEOREM Monotone == Spec => StatusMovesForward
<1>1. IInv /\ [Next]_vars => [Forward]_vars
  <2> SUFFICES ASSUME TypeOK, Located, Recorded, Next PROVE Forward
    BY IInvParts
  <2> QED BY NextStep, StepForward
<1> QED BY <1>1, Inductive, PTL DEF Spec, StatusMovesForward, Forward

=============================================================================
