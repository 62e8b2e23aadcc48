------------------------------- MODULE JobDocs -------------------------------
(***************************************************************************)
(* The MongoDB documents a job leaves its mark on: the job itself, its     *)
(* project and its template.  The runners only ever write them with        *)
(* UpdateId and $set, never with an upsert, so a document that was removed *)
(* stays removed; a write that fails is logged and the runner goes on.     *)
(*                                                                         *)
(* Of a document the model keeps the field that steers other components,   *)
(* "status"; the timestamps and captured output written beside it do not   *)
(* influence any step.                                                     *)
(***************************************************************************)
EXTENDS Integers

CONSTANTS
    AnsibleJob,    \* ids of jobs launched from Ansible job templates
    TerraformJob,  \* ids of jobs launched from Terraform job templates
    UpdateJob,     \* ids of project update (SCM sync) jobs
    Project, Template,
    ProjectOf,     \* the project a job belongs to
    TemplateOf,    \* the template a launched job was launched from
    MaxLostWrites  \* bound: how many status writes MongoDB may fail

LaunchedJob == AnsibleJob \cup TerraformJob
Job == LaunchedJob \cup UpdateJob

ASSUME JobDocsAssumption ==
    /\ AnsibleJob \cap TerraformJob = {}
    /\ LaunchedJob \cap UpdateJob = {}
    /\ ProjectOf \in [Job -> Project]
    /\ TemplateOf \in [LaunchedJob -> Template]
    /\ \A a \in AnsibleJob, t \in TerraformJob : TemplateOf[a] # TemplateOf[t]
    /\ Project \cap Template = {}
    /\ MaxLostWrites \in Nat

VARIABLES
    status,          \* a job's status, or that its document does not exist
    projectStatus,   \* the status field of the project
    templateStatus,  \* the status field of the template
    teardown,        \* how far a DELETE of a project or template has come
    lostWrites       \* status writes lost so far

docVars == <<status, projectStatus, templateStatus, teardown, lostWrites>>

-----------------------------------------------------------------------------
Outcome == {"successful", "failed", "error"}
Status == {"new", "pending", "waiting", "running"} \cup Outcome
NoDocument == {"absent", "removed"}

\* What an owner's status field holds: "none" until a job reports, "gone" once
\* the document is removed.
OwnerStatus == Outcome \cup {"none", "gone"}

TypeOKDocs ==
    /\ status \in [Job -> Status \cup NoDocument]
    /\ projectStatus \in [Project -> OwnerStatus]
    /\ templateStatus \in [Template -> OwnerStatus]
    /\ teardown \in [Project \cup Template -> {"none", "jobs", "templates"}]
    /\ lostWrites \in 0 .. MaxLostWrites

InitDocs ==
    /\ status = [j \in Job |-> "absent"]
    /\ projectStatus = [p \in Project |-> "none"]
    /\ templateStatus = [t \in Template |-> "none"]
    /\ teardown = [x \in Project \cup Template |-> "none"]
    /\ lostWrites = 0

Exists(j) == status[j] \notin NoDocument

-----------------------------------------------------------------------------
(* Writes of the request handlers and of the runners.                      *)

InsertJob(j, s) ==
    /\ status[j] = "absent"
    /\ status' = [status EXCEPT ![j] = s]
    /\ UNCHANGED lostWrites

\* db.Jobs().UpdateId(id, {$set: {status: s}}): nothing happens when the
\* document is gone, and an error of the database is only logged.
SetStatus(j, s) ==
    \/ /\ status' = IF Exists(j) THEN [status EXCEPT ![j] = s] ELSE status
       /\ UNCHANGED lostWrites
    \/ /\ Exists(j)
       /\ lostWrites < MaxLostWrites
       /\ lostWrites' = lostWrites + 1
       /\ UNCHANGED status

SetProjectStatus(j, s) ==
    projectStatus' = [projectStatus EXCEPT
        ![ProjectOf[j]] = IF @ = "gone" THEN @ ELSE s]

SetTemplateStatus(j, s) ==
    templateStatus' = [templateStatus EXCEPT
        ![TemplateOf[j]] = IF @ = "gone" THEN @ ELSE s]

-----------------------------------------------------------------------------
(* DELETE requests.  Each removal is an operation of its own on the        *)
(* database, in the order of the handler; a handler may stop between two   *)
(* of them, and the request may be repeated while the document exists.     *)

RemoveJobs(S) ==
    status' = [j \in Job |-> IF Exists(j) /\ j \in S THEN "removed" ELSE status[j]]

\* Ansible and update jobs live in the "jobs" collection, Terraform jobs do not.
RemoveProjectJobs(p) ==
    /\ projectStatus[p] # "gone"
    /\ RemoveJobs({j \in AnsibleJob \cup UpdateJob : ProjectOf[j] = p})
    /\ teardown' = [teardown EXCEPT ![p] = "jobs"]
    /\ UNCHANGED <<projectStatus, templateStatus, lostWrites>>

RemoveProjectTemplates(p) ==
    /\ teardown[p] = "jobs"
    /\ teardown' = [teardown EXCEPT ![p] = "templates"]
    /\ templateStatus' = [t \in Template |->
         IF \E a \in AnsibleJob : ProjectOf[a] = p /\ TemplateOf[a] = t
         THEN "gone" ELSE templateStatus[t]]
    /\ UNCHANGED <<status, projectStatus, lostWrites>>

RemoveProject(p) ==
    /\ teardown[p] = "templates"
    /\ teardown' = [teardown EXCEPT ![p] = "none"]
    /\ projectStatus' = [projectStatus EXCEPT ![p] = "gone"]
    /\ UNCHANGED <<status, templateStatus, lostWrites>>

\* Update jobs carry no job_template_id, so they survive their template.
RemoveTemplateJobs(t) ==
    /\ templateStatus[t] # "gone"
    /\ RemoveJobs({j \in LaunchedJob : TemplateOf[j] = t})
    /\ teardown' = [teardown EXCEPT ![t] = "jobs"]
    /\ UNCHANGED <<projectStatus, templateStatus, lostWrites>>

RemoveTemplate(t) ==
    /\ teardown[t] = "jobs"
    /\ templateStatus[t] # "gone"
    /\ teardown' = [teardown EXCEPT ![t] = "none"]
    /\ templateStatus' = [templateStatus EXCEPT ![t] = "gone"]
    /\ UNCHANGED <<status, projectStatus, lostWrites>>

=============================================================================
