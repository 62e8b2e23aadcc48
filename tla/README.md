# Tensor, specified

TLA+ models of [Tensor](../src/README.md), a server that stores projects,
inventories and job templates and runs Ansible and Terraform jobs on a cluster of
nodes. Paths in this document are relative to `src/`.

## The system

A node is one `tensord` process (`tensord/main.go`). It serves the REST API and
runs three background goroutines: an Ansible consumer, a Terraform consumer and a
queue cleaner. Nodes share a MongoDB database and two Redis task queues and talk
to each other in no other way.

| Component | State | Operations | Hard part |
|---|---|---|---|
| Job launching (`api/template.go`, `api/terraformtemplate.go`, `exec/sync/sync.go` `UpdateProject`) | job documents, queue entries | `Launch`, `SCMUpdate`, project `Create`/`Update` | several writes without a transaction; every one may be the last |
| Task queues (`queue/`, library rmq) | ready, unacked and dead deliveries | publish, prefetch, ack, clean | a node dies between fetch and ack; order after a return |
| Consumers (`exec/ansible`, `exec/terraform`, `exec/sync`) | the job in hand, its child process | `Consume`, wait for the update, run, report | one job at a time; a consumer blocks while it waits for another consumer |
| Job reporting (`exec/*/logging.go`) | status of job, project, template | `start`, `status`, `jobFail`, `jobError`, `jobSuccess` | lost writes, deleted documents |
| Deletion (`Delete` of `api/project.go`, `api/template.go`, `api/terraformtemplate.go`) | documents | cascades | jobs are still queued or running |
| ssh agent, keys, temporary files (`ssh/agent.go`, `exec/misc/cloud.go`, `getCmd`) | processes and files of a run | start, add key, clean up | early returns, timers |
| Inventories, groups, hosts (`api/inventory.go`, `api/group.go`, `api/host.go`) | a forest of groups, host membership | CRUD, tree, inventory script | depth, cycles, cascades, races |
| Organizations (`api/organization.go`) | owner of everything | CRUD, delete cascade | creation during the cascade |
| Projects (`api/project.go`) | project document, directory | CRUD, SCM update | whole-document writes racing with reports and grants |
| Users, teams, roles (`api/user.go`, `api/team.go`, `rbac/`, `api/acl.go`) | grants in every object | associate, disassociate, checks | grants that outlive their grantee |
| Credentials (`api/credential.go`) | enciphered secrets | CRUD | the `$encrypted$` round trip |
| Queries, pagination (`util/`) | none | parse | boundaries |
| Activity stream, metadata, dashboard, JWT, router, configuration | none that steers anything | | not modelled |

## Modules

| Module | Models |
|---|---|
| `JobDocs` | the status fields of jobs, projects and templates in MongoDB, the writes of handlers and runners, the deletes |
| `TaskQueue` | the two Redis queues and rmq, as this code uses them |
| `TensorJobs` | launch handlers, project updates, consumers, the cleaner, crashes; composes the two above |
| `JobContract` | what the machinery promises about one job: the abstract specification `TensorJobs` implements |
| `TensorJobsProofs` | the theorems about `TensorJobs` under faults |
| `JobOrderProofs` | the theorems about the order of the queue and what follows without faults |
| `JobContractProofs` | the theorem that `TensorJobs` implements `JobContract` |
| `JobProcess` | what one run does to its node: agent, files, command, timer, clean-up |
| `JobProcessProofs` | the theorems about `JobProcess` |
| `InventoryTree` | groups, hosts and inventories: their handlers, the tree, the inventory script |
| `InventoryTreeProofs` | the theorems about `InventoryTree` |
| `Pagination`, `InventoryPages` | the pages of a list; the lists of an inventory, page by page |
| `InventoryPagesProofs` | the theorems about the readers: tree, script and pages |
| `AccessControl` | the documents with their grants, and every check of `rbac/` over them |
| `Documents` | the handlers that create, update and remove documents of all kinds and change roles |
| `DocumentsProofs` | the theorems about `Documents` |
| `DocumentsCascadeProofs` | the theorem about what removals leave behind |
| `AccessLists` | what the handlers of `api/acl.go` answer |
| `MCJobs`, `MCJobProcess`, `MCInventory`, `MCDocuments` | instances for TLC |

`TensorJobs` is composed of `JobDocs` and `TaskQueue` and implements `JobContract`;
`InventoryPages` extends `InventoryTree` and `Pagination`, `Documents` extends
`AccessControl`, and `AccessLists` reads the documents of the latter. The three
parts meet where one removes what another uses: deletion of a project or template is
in `TensorJobs` for what it does to jobs that run, in `Documents` for what it takes and
leaves; removal of an inventory is in `InventoryTree` for the order of its steps, in
`Documents` for its place in the cascade of an organization.

### TensorJobs

*State.* `status[j]` is the `status` field of a job's document; `"absent"` before
its insert and `"removed"` after its delete. `ready`, `prefetched` and `unclaimed`
are rmq's lists: `prefetched[n][q]` is the one delivery (`StartConsuming(1, ...)`)
node `n` has moved to its unacked list and not yet acked. `handler[j]` is how far
the request that creates `j` has come, `previous[j]` the `PreviousJob` it put into
the payload. `phase`, `held` and `outcome` are the local state of a consumer
goroutine inside `Consume`.

*Steps.* An action ends where another process can see an effect: at a write to
MongoDB or at a queue operation. So `Launch` inserts, `LaunchWithUpdate` inserts the
update job inside `sync.UpdateProject`, `PublishUpdate` and `PublishJob` publish, and
`AbortUpdate` and `AbortLaunch` are the error returns between them. A consumer goes
`Consume` (ack), `MarkPending`, `BeginWaiting`, a poll, `StartAnsible` /
`StartTerraform` / `StartSync`, `TerraformGet`, `JobSuccess` / `JobFail`, then
`UpdateProject` and `UpdateJobTemplate`, the two writes every report ends with.
`SetStatus` may lose a write: the runners log the error and go on.

*Abstractions.* A payload is its job's id: nothing reads a payload's contents but the
consumer it is for. A sync payload is encoded from a `SyncJob` and decoded into an
`AnsibleJob`, whose fields `Job`, `SCM`, `Project`, `User` and `Token` have the same
names; both decoders accept what the handlers encode, so `Reject` is not modelled.
The reads of a handler come before its first write and may be arbitrarily old, so a
launch needs no document to exist. Writes to the status of projects and templates do
not fail in the model; no step reads them. The heartbeat of a live node is taken
never to expire, and an Ansible or Terraform child that survives a crash of
`tensord` (it has its own session) reports to nobody and is left out; module
`JobProcess` has it.

### JobProcess

The time between `StartAnsible`, `StartTerraform` or `StartSync` and the verdict of
`TensorJobs`, in detail and for one node. `step[r]` is the place `ansibleRun`,
`terraformRun` or `Sync` has come to, `holds[r]` what the run has on the node: the
ssh-agent with its keys, the directories of `createTmpDirs`, the cloud credential
file. `command[r]` has the `leader`, the process `cmd.Start` started, and `children`,
any processes that inherited its output: `cmd.Wait` copies output to a buffer and so
waits for both, while the timer kills the leader only. `timer[r]` tells whether the
timer killed the leader or fired too late to. The steps follow the functions:
`Begin`, `StartAgent`, `AddKeys`, `GetCmd`, for Terraform `StartGet` and `GetEnds`,
then `Start`, the end of the command with `JobSuccess` or `JobFail`, and `Cleanup`,
the deferred function. `RejectKey` and `GetCmdFails` are the returns before that
function is deferred. For a project update the code defers it one step earlier,
before `getCmd`, which cannot fail there.

A verdict that is not written is the business of `TensorJobs`. `kinit`, `kdestroy` and
the Kerberos ticket cache are left out, as no code reads the cache.

### InventoryTree and Pagination

*State.* `group[g]` and `host[h]` are the documents of the collections, `Unborn` before
the insert and `Gone` after the removal. `request[r]` is one HTTP request, served by a
goroutine of its own: its operation, the place in its handler, the body it was sent,
the document its middleware loaded, and what it has read since.

*Steps.* One action is one operation on the database: `InventoryExist`, `IsUniqueGroup`,
`GetParent`, `GetGrandparent`, `GroupExist`, then the write; for removals `ReadIds`,
`RemoveHosts`, `RemoveGroups`, `RemoveInventory`. So another request may act between a
check and the write it allows. `Reject` is any early return. The `IsUnique` functions
drop the error of their query, so a name can be found free when it is not (`Overlook`);
the `Exist` functions fail closed. Updates look for a name only if it differs from the
one loaded, store the trimmed name having looked for the untrimmed one, and check a new
parent for existence only, not for depth: all of that is as in the code.

The readers are operators on a state of the database: `Tree` (`api/inventory.go:639`,
three nested loops over parents), `Script` (`api/inventory.go:301`) and, in `Pagination`,
the offset, the end and the 404 of a page, with integers that wrap above `MaxInt`.
`Script` is a Go map from names, so of several groups with one name any may win
(`Winners`). The entry `"all"` is set after the groups, and with `?hostvars`, as the
plug-in `packaging/ansible/plugins/inventory/tensorrest.py` sends it, so is `"_meta"`:
a group may have either name, and its entry is replaced (`Overwritten`). Variables are
not modelled; that some document the script reads has variables that are not JSON, which
ends the request with an error, is a parameter (`ScriptFails`). With `?host` the handler
answers the variables of one host and no lists; that branch is left out.

`taken`, `moved` and `late` record for the properties what happened during a request.
The properties are explanations: a duplicate name, a fourth level, an orphan appears
*only* in the listed ways. `NestingGrowsByMoves` is the code's own promise "Maximum level
of nesting is 3." (`api/group.go:194`), which `Update` does not check.

### AccessControl and Documents

*State.* `docs[id]` is what is stored under an id, over all collections: a name, an
`owner` (the organization, of a template or job the project, of a group or host the
inventory), the references that checks or removals follow, and the grants. Middlewares
and handlers are sequences of step names (`CreateTeam`, `TeamMiddleware`, ...), in the
order of the code; `Handlers` is their table and `request[r].next` the place of a
request in its own. A step is a query, a check or a write: `Load`, `Permission`,
`Exist`, `IsUnique`, `Insert`, `Save`, `OrganizationAdmin`, `AssociateAuthor`, `Find`,
`ModifyRole`, `PullRoles`, `ReadChildren`, `RemoveAll`, `RemoveId`. Between two steps of
a request any steps of others may happen.

*Kept as the code has it.* `IsOrganizationAdmin` asks for a grant of the user and a grant
with the role, not for one with both. The query for teams has a field `"_id:"` that no
document has, so a role of a team opens nothing to its members. `GetOrganizationID` of a
template looks the id of its project up among the organizations. Some handlers send 401
and go on (`OrganizationWriteByIDCheck`, `ProjectReadByIDCheck`). `Save` writes back the
roles as they were loaded. `AssignTeamRole` on a team grants the role to the team
itself. An error of `Associate` is answered as success (`AssociateFails`). The
middleware of Terraform templates checks `PUT` and `POST`, not `DELETE`. `Delete` of an
organization closes its first cursor twice, so it may have read any part of its
inventories (`ReadChildren`). `Delete` of a project leaves Terraform templates and jobs.

*Abstractions.* A database error is `Reject`, but where the code goes on after one. The
flags of users do not change. An id belongs to one collection (`KindOf`), and an initial
database has references only to the collections they are for (`Belongs`), which the
handlers keep: they look an id up in its collection (`Found`) before they store it. Fields that no check, removal or name depends on are left
out, as are secrets and passwords. The update job that `Create` of a project launches
is `BeginUpdate` of `TensorJobs`. Groups, hosts and jobs are there to be removed.

`AccessLists` has the six handlers of `api/acl.go` as what they answer for the grants
there are. The two of templates look for the project by a field `project_id` that
projects do not have (`FindsProject`), so they always answer an error. The one of
credentials has no route (`api/router.go:136` answers 501).

## Runs

| Run | Instance | Checks |
|---|---|---|
| `jobs_faults` | 2 nodes, an Ansible job, a Terraform job, a project update; 1 crash, 1 lost status write; symmetric nodes | `TypeOK`, `OnePlace`, `RedeliveryIsFirstRun`, `RunsAfterUpdate`, `ErrorMeansUpdateFailed`, `StatusMovesForward` |
| `jobs_removal` | 1 node, an Ansible job, an update; project and template may be deleted; 1 crash, 1 lost write | `KeepsContract`: every behaviour is one of `JobContract` |
| `jobs_order` | 2 nodes, 2 Ansible jobs, 2 updates; no faults but failing requests | `NothingLost`, `UpdateAhead`, `NoGridlock` |
| `jobs_live` | 2 nodes, one job of each kind; no faults; fairness | `EveryQueuedJobEnds` |
| `jobs_cleaner` | 1 node, an Ansible job, an update; 1 crash; fairness | `ReturnedIsConsumed`, which is **violated** |
| `process_faults` | 2 Ansible jobs, one with a cloud credential file, one with a locked key, a project update, a Terraform job with a cloud credential file; 1 crash; fairness | `TypeOK`, `FilesOutliveCommand`, `LeftoversMeanNoCommand`, `OneCommandAtATime`, `EveryRunEnds` |
| `process_credential` | an Ansible and a Terraform job, both with a credential file | `CredentialFileRemoved`, which is **violated** |
| `inventory_tree` | 4 groups, 2 hosts, 2 inventories; 2 requests; pages of 4-bit integers | `TypeOK`, `TreeIsHierarchy`, `ScriptListsHosts`, `PagesAreInBounds`, `PagesShowEverything`, `DuplicatesNeedARace`, `NestingGrowsByMoves`, `HostsKeepTheirGroups`, `GroupsKeepTheirParents` |
| `documents_access` | a super user, an administrator, a member and 34 requests on documents of all kinds; 2 at a time | `TypeOK`, `WriterCanRead`, `FinisherCanWrite`, `RolesChangeOnPurpose`, `NamesakesNeedARace` |
| `documents_cascade` | an organization with contents of every kind; removals, creations and moves; 2 at a time | `OrphansNeedARace` |
| `deletion_grants` | a user with a grant, removed | `DeletionRemovesGrants`, which is **violated** |
| `access_lists` | a first role in an organization | `AccessListAnswers`, which is **violated** |

*Bounds.* One crash is enough to leave a delivery in a dead connection and a half
done request, and lets a second node or the restarted one take over; one lost write
leaves any one status behind its consumer. The theorems below need none of the
bounds. Two nodes give two consumers for the Ansible queue; a blocked consumer, the
one that can unblock it and a job behind both fit into two launches with updates.

*Fairness.* Goroutines get scheduled, the ticker of a waiting consumer ticks, rmq
polls, the cleaner runs every 15 seconds and a crashed node is restarted. That a
started command ends is assumed because a timer kills it
(`exec/ansible/ansible.go:273`). The timer kills the leader only, so the assumption
includes that no child outlives it with its output open: `EveryRunEnds` shows that
such children are the only thing besides `terraform get` a consumer can hang on, under
fairness of the run's own steps and of timers alone. `terraform get` has no timer
(`exec/terraform/terraform.go:249`), so nothing is assumed of a consumer that runs
it. No client has to send a request and no request has to be completed.

`CHECK_DEADLOCK` is off because a cluster with no request left to serve may rest.

Two requests are what a race takes: one that checked, one that writes. In
`inventory_tree` two of them can move a group and create below it, or remove a group
that a host is being put in; the initial stores have a chain of three groups and groups
of two inventories, so one more level, a cycle and a foreign parent are all one request
away. Groups named `"all"` and `"_meta"` have hosts, or come to have them. 4-bit integers reach the overflow of the offset with limits of 1 and 2.
`documents_access` has for each kind of document one to load and one to create, names
that differ by a blank, and two databases, with and without grants of the member;
`documents_cascade` has for each kind a document in the organization and the ways in
and out of it. Each run reaches some 200 000 states.

In `JobProcess` two Ansible jobs and an update contend for one consumer while the
Terraform consumer works beside it, and one crash leaves any of their commands behind.

*What `jobs_cleaner` shows.* `queue/cleaner.go` says the cleaner returns the
deliveries of crashed consumers "so they can be consumed by a new consumer". A
returned delivery goes to the newest end of its queue. If it is a project update
whose dependent job was behind it, the restarted node takes the dependent first and
waits for the update inside `Consume`, with the update in its own channel: neither
moves again. With `MaxCrashes = 0` this cannot happen (`UpdateAhead`, `NoGridlock`).

*What `process_credential` shows.* `exec/misc/cloud.go` leaves it to the caller to
remove the credential file. When the file exists but cannot be written or closed, the
caller, `getCmd`, returns without a clean-up function, and the file stays.

*What `deletion_grants` shows.* `Delete` of a user or a team is to "Remove permissions"
(`api/user.go:257`, `api/team.go:250`). It pulls a grant whose type and role are empty
strings, and no grant is stored like that: all grants stay. (`DocumentsProofs` has it as
the lemma `NothingPulled`.)

*What `access_lists` shows.* The map a handler of `api/acl.go` collects users in is of
pointers and none is ever made: the first grant it knows is a nil dereference. So the
list of a project, team or inventory is a panic and status 500 as soon as a user has a
role in it or in its organization. The property is about these three: the lists of
templates fail before they get to the map, and that of credentials cannot be asked for.

## Proofs

`TensorJobsProofs` proves, for any number of nodes, jobs, projects and templates, any
bound on crashes and on lost writes and any set of deletable objects:

| Theorem | Property |
|---|---|
| `TypeCorrect` | `TypeOK` |
| `NoDuplicate` | `OnePlace` |
| `FirstRunOnly` | `RedeliveryIsFirstRun` |
| `UpdateFirst` | `RunsAfterUpdate` |
| `ErrorIsJustified` | `ErrorMeansUpdateFailed` |
| `Monotone` | `StatusMovesForward` |

The assumptions are those of the modules: the three kinds of job ids are disjoint,
every job has a project and every launched job a template, deliveries are job ids and
`NoJob` is none.

None of the properties is inductive. The invariant `IInv` adds what connects the
parts: a payload is on the queue of its kind (`Homes`) and was published by a handler
that is done (`Published`), a job without a handler has no document (`Fresh`), a job
nobody has taken has the status it was inserted with, or was deleted (`Untouched`), a
consumer holds a job exactly while it is busy (`Busy`), and the status of a held job
is never ahead of its consumer (`Behind`). The last one is what makes writes safe: a
job whose verdict was seen is held by nobody who could still write it. `NextStep`
groups the actions by their effect (a record, a move of a payload, a step without a
write, a removal), and the invariant is proved in three layers over these groups:
types, then where payloads are (`Located`), then what documents say (`Recorded`).

`JobOrderProofs` has what the order of the queue is good for, again for any constants:

| Theorem | Property | Holds |
|---|---|---|
| `UpdatesGoAhead` | `UpdateAhead` | as long as no node crashed |
| `NothingSlips` | `NothingLost` | ... and no status write was lost and nothing deleted |
| `NoStandstill` | `NoGridlock` | the same |

The conditions are part of the statements (`crashes = 0 => ...`, `Quiet => ...`), and each
is met by whole behaviours: the run `jobs_order` has no others. A launch is queued after
its update (`Linked`); as long as every connection lives (`Connected`), no update is
behind its dependent on the queue (`QueueOrder`), and who took the dependent left no
update behind (`NodeOrder`). That is not enough for two consumers, each of which waits for
the update in the channel of the other. So the invariant says that any set of nodes
has one that waits for none of the set (`NoCircle`): only the oldest payload moves into a
channel, and by then nobody can hold its dependent. In `NoStandstill` the
set is that of all nodes. `Kept` adds for `NothingLost` that who reports has recorded
its verdict (`Told`).

`JobContractProofs` has `ContractKept`: `Spec => KeepsContract`, the refinement, under any
number of crashes, lost writes and deletions. A job's stage in the contract is a
function of its place (`AtRest`, `StageFacts`). The proof has one lemma for each action
of `TensorJobs`, which names the step of the contract it is (`Promised`):

| `TensorJobs` | `JobContract` |
|---|---|
| first write of a handler; publishing; abandoning a request | accepted; queued; lost |
| fetch, crash between fetch and ack, cleaner | stutter |
| `Consume`; `StartAnsible`, `StartTerraform`, `StartSync` | taken; executing |
| `JobSuccess`, `JobFail`, the error of a wait | the verdict, or lost if the write is |
| crash with a job in hand | lost |
| deletion | stutter, until the job rests |

The contract lets a job start only if the update it waits for was successful. That is
read at the poll and used at the start, so the invariant `CInv` keeps it in between
(`Settled`), also when the document of the update is deleted in the meantime, and says
that updates wait for nothing (`NoChains`).

`JobProcessProofs` proves, for any set of runs, their kinds, keys and credentials, and
any bound on crashes:

| Theorem | Property |
|---|---|
| `FilesStay` | `FilesOutliveCommand` |
| `LittleIsLeft` | `LeftoversMeanNoCommand` |
| `CommandsTakeTurns` | `OneCommandAtATime` |

Here the invariant adds that the step of a run settles what it holds (`Staged`), that a
live command is waited for or was left behind by a crash (`Attended`), that timers are
set for commands (`Timed`) and that a consumer has one run in hand (`OneInHand`). All
but the last speak of one run at a time, so the proof takes a run's part of the
invariant (`About`) through each of its actions, and shows once that an action leaves
the other runs alone (`ActType`).

`JobProcessProofs` also has `TypeCorrect`.

`InventoryTreeProofs`, for any groups, hosts, inventories and names and any number of
concurrent requests:

| Theorem | Property |
|---|---|
| `TypeCorrect` | `TypeOK` |
| `Duplicates` | `DuplicatesNeedARace` |
| `Nesting` | `NestingGrowsByMoves` |
| `HostsFirst` | `HostsKeepTheirGroups` |
| `ChildrenToo` | `GroupsKeepTheirParents` |

What a request has read is true until another one makes it false, and then the request
is marked. The invariant says so for each thing a request knows: a name found free is
free or taken (`NameFree`), the parent and grandparent seen were inserted
(`ParentSeen`) and are as shallow as they looked, unless a group moved (`Shallow`), and
when the groups go, no host and no child is left that was not written late
(`RemovalSafe`). `NoUnbornParent` excludes parents that are inserted later. Each fact is
about one request (`About`), so the proof has three parts: what a request's own check
establishes, what a write of another request leaves true, and the marks it sets.

`InventoryPagesProofs`, for the same stores and any width of integers, any limits and
finite lists that an integer can count:

| Theorem | Property |
|---|---|
| `TreeShowsGroups` | `TreeIsHierarchy` |
| `ScriptIsComplete` | `ScriptListsHosts` |
| `SlicesAreSafe` | `PagesAreInBounds` |
| `PagesAreComplete` | `PagesShowEverything` |

The readers promise this of every store of the right type, so `TypeOK` is all the
invariant they need; the work is in the operators. A group is on one of three
levels of the tree or has an ancestor that explains why not. A host is in the entry of
its group or in `"all"` and in no other, if the entry was not replaced: the statement is
for any names, with and without `?hostvars`, and about scripts that are answered. An offset overflows only
for the pages of an empty list, which `PagesAreInBounds` excludes. The pages from 1 to
the last cover the positions of the list without a gap or an overlap: the proof divides
positions by the limit.

`DocumentsProofs`, for any ids, kinds, grants, inputs and initial databases and any
number of concurrent requests:

| Theorem | Property |
|---|---|
| `TypeCorrect` | `TypeOK` |
| `WritersRead` | `WriterCanRead` |
| `FinishersWrite` | `FinisherCanWrite` |
| `RolesOnPurpose` | `RolesChangeOnPurpose` |
| `NamesRace` | `NamesakesNeedARace` |

The proof first reads the table of handlers, one lemma for each: in every handler the
write comes after the check of the name, the grant to the author is last and comes
right after the question for the administrator, the document is loaded first
(`Shaped`). From then on a handler is any sequence of that shape. `IInv` says what a
request at its step knows, unless `touched`: the grants that an update will write back
are those of the document (`OldKnown`), a name found free has no namesake
(`Unclaimed`), what was written is there (`Written`), an administrator is one
(`AdminKnown`), and a check that was passed still holds (`Passed`). A step writes
nothing and finds what it should (`FinderSound`), or is one of the writes; the other
requests' knowledge survives because it is marked (`OthersSound`).

`DocumentsCascadeProofs` has `OrphansRace`: `Spec => OrphansNeedARace`, with nothing more
assumed. Here the order of steps within a handler matters: contents are removed before
what contains them, the projects are read before anything is removed, and an owner is
looked up before it is stored (`CascadeShaped`, again one lemma for each handler). The
invariant `CInv` adds to `IInv` that references are to the right collection (`Sorted`)
and what requests know from earlier steps: what a removal has emptied is empty and the
projects it read are all there are (`Emptied`), and an owner that was found is there
(`Checked`), but for what `touched` says. `Outlives` follows every kind of document that
a step could leave without its owner or template to the earlier step that should have
taken it; the three exceptions of the property are where there is none.

All invariants and action properties of the passing runs are thus theorems. Left to
TLC are the liveness properties `EveryQueuedJobEnds` and `EveryRunEnds`, which rest on
fairness, and the four properties that the code violates.

## Plan

The core of the program is modelled: jobs, processes, inventories, documents and roles.
In this order, what is left:

1. The secrets of credentials: the `$encrypted$` round trip of `Update`.
2. The parameters of a launch that are prompted for (`api/template.go`, `Launch`).
3. The filters of `util/query.go` as a pure operator.
4. The status of projects and templates, which the last report decides
   (`exec/ansible/logging.go:191`).

## Not modelled

Rendering of responses (`api/metadata`), the activity stream, the dashboard, JWT,
CORS, routing and configuration keep no state another step depends on. MongoDB, Redis
and rmq are external and modelled by how this code uses them. The filters of
`util/query.go` and the lists of a user's or an organization's documents are queries
built from the words of a request. `Project.Update` and the `WriteByID` of templates in
`rbac/` are left out because no handler calls them.
