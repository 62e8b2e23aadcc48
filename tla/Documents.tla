------------------------------- MODULE Documents -------------------------------
(***************************************************************************)
(* The requests of the REST API that write documents (package api).  A     *)
(* handler is the sequence of its operations on the database, in the order *)
(* of the code; every operation is a step of its own, so the handlers of   *)
(* two requests interleave between a check and the write it allows, and    *)
(* between the steps of a removal.  Reject ends a request early: a check   *)
(* that fails, a database error or the end of the process.  Groups, hosts  *)
(* and jobs are here only as what removals take with them (see             *)
(* InventoryTree, TensorJobs).                                             *)
(***************************************************************************)
EXTENDS AccessControl, Sequences

CONSTANTS
    Trim,           \* strings.Trim(name, " "), on Names
    Requests,       \* requests, each of which is served once
    Inputs,         \* what may be asked for
    InitialDocs     \* databases to begin with

ASSUME TrimAssumption == Trim \in [Names -> Names]

VARIABLE request    \* what each request is about to do

vars == <<docs, request>>

--------------------------------------------------------------------------------

(* Middlewares load the document of PUT and DELETE and check the user.     *)
OrganizationMiddleware == <<"load", "organizationWrite">>
TeamMiddleware == <<"load", "teamWrite">>
CredentialMiddleware == <<"load", "credentialWrite">>
InventoryMiddleware == <<"load", "inventoryWrite">>
ProjectMiddleware == <<"load", "projectWrite">>
JobTemplateMiddleware == <<"load", "jobTemplateWrite">>
UserMiddleware == <<"load", "userWrite">>
(* This one checks PUT and POST, not DELETE. *)
TerraformTemplateMiddleware(method) ==
    IF method = "PUT" THEN <<"load", "terraformTemplateWrite">> ELSE <<"load">>

CreateOrganization == <<"superUser", "unique", "insert">>
CreateTeam ==
    <<"ownerExist", "organizationWriteByID", "unique", "insert", "organizationAdmin", "associate">>
CreateCredential ==
    <<"ownerExist", "organizationRead", "unique", "insert", "organizationAdmin", "associate">>
CreateInventory ==
    <<"ownerExist", "organizationRead", "unique", "insert", "organizationAdmin", "associate">>
(* The SCM credential is left out: no other step depends on it. *)
CreateProject ==
    <<"ownerExist", "organizationRead", "unique", "insert", "organizationAdmin", "associate">>
CreateJobTemplate ==
    <<"ownerExist", "projectReadByID", "unique", "inventoryExist", "inventoryReadByID",
      "credentialExist", "credentialReadByID", "insert", "organizationAdmin", "associate">>
CreateTerraformTemplate ==
    <<"ownerExist", "projectReadByID", "unique", "credentialExist", "credentialReadByID",
      "insert", "organizationAdmin", "associate">>
CreateUser == <<"superUser", "unique", "insert">>

UpdateOrganization == OrganizationMiddleware \o <<"unique", "save">>
UpdateTeam ==
    TeamMiddleware \o <<"ownerExist", "organizationWriteByID", "unique", "save">>
UpdateCredential == CredentialMiddleware \o
    <<"ownerExist", "organizationRead", "unique", "save", "organizationAdmin", "associate">>
UpdateInventory == InventoryMiddleware \o
    <<"ownerExist", "organizationRead", "unique", "save", "organizationAdmin", "associate">>
UpdateProject == ProjectMiddleware \o
    <<"ownerExist", "organizationRead", "unique", "save", "organizationAdmin", "associate">>
UpdateJobTemplate == JobTemplateMiddleware \o
    <<"ownerExist", "projectReadByID", "unique", "credentialExist", "credentialReadByID",
      "save", "organizationAdmin", "associate">>
UpdateTerraformTemplate == TerraformTemplateMiddleware("PUT") \o
    <<"ownerExist", "unique", "credentialExist", "credentialReadByID",
      "save", "organizationAdmin", "associate">>
UpdateUser == UserMiddleware \o <<"unique", "save">>

(* Wrong: the teams stay. *)
DeleteOrganizationButTeams == OrganizationMiddleware \o
    <<"readProjects", "readInventories", "removeJobs", "removeJobTemplates",
      "removeTerraformJobs", "removeTerraformTemplates", "removeProjects", "removeHosts",
      "removeGroups", "removeInventories", "removeCredentials", "remove">>

DeleteOrganization == OrganizationMiddleware \o
    <<"readProjects", "readInventories", "removeJobs", "removeJobTemplates",
      "removeTerraformJobs", "removeTerraformTemplates", "removeProjects", "removeHosts",
      "removeGroups", "removeInventories", "removeTeams", "removeCredentials", "remove">>
DeleteTeam == TeamMiddleware \o
    <<"pullProjects", "pullCredentials", "pullInventories", "pullJobTemplates",
      "pullTerraformTemplates", "remove">>
DeleteCredential == CredentialMiddleware \o <<"remove">>
DeleteInventory == InventoryMiddleware \o <<"removeHosts", "removeGroups", "remove">>
DeleteProject == ProjectMiddleware \o <<"removeJobs", "removeJobTemplates", "remove">>
DeleteJobTemplate == JobTemplateMiddleware \o <<"removeTemplateJobs", "remove">>
DeleteTerraformTemplate ==
    TerraformTemplateMiddleware("DELETE") \o <<"removeTerraformTemplateJobs", "remove">>
DeleteUser == UserMiddleware \o
    <<"pullProjects", "pullCredentials", "pullInventories", "pullJobTemplates",
      "pullTerraformTemplates", "remove">>

(* POST on a user asks for WriteSpecial, on a team for nothing. *)
AssignUserRole == <<"loadGrantee", "userWriteSpecial", "find", "modifyRole">>
AssignTeamRole == <<"loadGrantee", "find", "modifyRole">>

Create(kind) ==
    CASE kind = "organization" -> CreateOrganization
      [] kind = "team" -> CreateTeam
      [] kind = "credential" -> CreateCredential
      [] kind = "inventory" -> CreateInventory
      [] kind = "project" -> CreateProject
      [] kind = "jobTemplate" -> CreateJobTemplate
      [] kind = "terraformTemplate" -> CreateTerraformTemplate
      [] kind = "user" -> CreateUser

Update(kind) ==
    CASE kind = "organization" -> UpdateOrganization
      [] kind = "team" -> UpdateTeam
      [] kind = "credential" -> UpdateCredential
      [] kind = "inventory" -> UpdateInventory
      [] kind = "project" -> UpdateProject
      [] kind = "jobTemplate" -> UpdateJobTemplate
      [] kind = "terraformTemplate" -> UpdateTerraformTemplate
      [] kind = "user" -> UpdateUser

Delete(kind) ==
    CASE kind = "organization" -> DeleteOrganization
      [] kind = "team" -> DeleteTeam
      [] kind = "credential" -> DeleteCredential
      [] kind = "inventory" -> DeleteInventory
      [] kind = "project" -> DeleteProject
      [] kind = "jobTemplate" -> DeleteJobTemplate
      [] kind = "terraformTemplate" -> DeleteTerraformTemplate
      [] kind = "user" -> DeleteUser

Handler(verb, kind) ==
    CASE verb = "create" -> Create(kind)
      [] verb = "update" -> Update(kind)
      [] verb = "delete" -> Delete(kind)
      [] verb \in {"assignUser", "revokeUser"} -> AssignUserRole
      [] verb \in {"assignTeam", "revokeTeam"} -> AssignTeamRole

Verbs == {"create", "update", "delete", "assignUser", "revokeUser", "assignTeam", "revokeTeam"}

Handlers == [verb \in Verbs |-> [kind \in Resources \cup {"user"} |-> Handler(verb, kind)]]

(* kind is the collection of the document asked for. *)
InputType ==
    [verb : Verbs, kind : Resources \cup {"user"}, user : Ids, id : Ids \cup {None},
     body : Doc \cup {None}, grant : Grants \cup {None}]

NoRoles(doc) == doc.roles = {} /\ doc.template = None

(* The roles that may be asked for; a request for another one is invalid.  *)
RolesOf ==
    [credential |-> {"admin", "use"}, organization |-> {"admin", "auditor", "member"},
     team |-> {"admin", "member"}, project |-> {"admin", "update", "use"},
     inventory |-> {"admin", "update", "use"}, jobTemplate |-> {"admin", "execute"},
     terraformTemplate |-> {"admin", "execute"}]

WellFormed(i) ==
    /\ i.verb = "create" <=> i.id = None
    /\ i.id # None => KindOf[i.id] = i.kind
    /\ i.verb \in {"create", "update"} =>
           /\ i.body \in Doc /\ NoRoles(i.body)
           /\ i.kind \in {"organization", "user"} => i.body.owner = None
    /\ i.verb \in {"assignUser", "revokeUser", "assignTeam", "revokeTeam"} =>
           /\ i.grant \in Grants
           /\ i.kind \in Resources
           /\ i.grant.role \in RolesOf[i.kind]
           /\ i.grant.type = IF i.verb \in {"assignUser", "revokeUser"} THEN "user" ELSE "team"

ASSUME InputsAssumption == Inputs \subseteq InputType /\ \A i \in Inputs : WellFormed(i)

ASSUME InitialAssumption ==
    /\ InitialDocs \subseteq [Ids -> Doc \cup {Unborn, Gone}]
    /\ \A initial \in InitialDocs : \A d \in Ids :
           initial[d] \in Doc => Belongs(KindOf[d], initial[d])

--------------------------------------------------------------------------------

(* next: the index of the next operation of the handler.                   *)
(* old: the document as the middleware loaded it.  projects, inventories:  *)
(* whose contents are to be removed.  admin: what IsOrganizationAdmin said.*)
(* refused: 401 was sent, but the handler has no return there.  blind and  *)
(* touched are for the properties: a namesake was not seen as the query    *)
(* failed; what other requests wrote since this one began.                 *)
Idle == [status |-> "idle", verb |-> "create", kind |-> "user", user |-> None, id |-> None,
         body |-> None, grant |-> None, next |-> 1, old |-> None,
         projects |-> {}, inventories |-> {}, admin |-> FALSE, refused |-> FALSE,
         blind |-> FALSE, touched |-> {}]

HandlerOf(q) == Handlers[q.verb][q.kind]

At(r, step) ==
    /\ request[r].status = "running" /\ request[r].next \in DOMAIN HandlerOf(request[r])
    /\ HandlerOf(request[r])[request[r].next] = step

Answered(status) == [Idle EXCEPT !.status = status]

(* q goes on to its next step, or answers. *)
Onward(q) ==
    IF q.next < Len(HandlerOf(q)) THEN [q EXCEPT !.next = q.next + 1]
    ELSE Answered(IF q.refused THEN "refused" ELSE "done")

Proceed(r, q) == request' = [request EXCEPT ![r] = Onward(q)]

(* The same, when the step wrote to ids. *)
Wrote(r, q, ids) ==
    request' = [s \in Requests |->
        CASE s = r -> Onward(q)
          [] s # r /\ request[s].status = "running" ->
                 [request[s] EXCEPT !.touched = @ \cup ids]
          [] OTHER -> request[s]]

Receive(r) ==
    \E i \in Inputs :
        /\ request[r].status = "idle"
        /\ IsDoc(i.user)
        /\ request' = [request EXCEPT ![r] =
               [Idle EXCEPT !.status = "running", !.verb = i.verb, !.kind = i.kind,
                   !.user = i.user, !.id = i.id, !.body = i.body, !.grant = i.grant,
                   !.projects = {i.id} \ {None}, !.inventories = {i.id} \ {None}]]
        /\ UNCHANGED docs

Reject(r) ==
    /\ request[r].status = "running"
    /\ request' = [request EXCEPT ![r] = Answered("rejected")]
    /\ UNCHANGED docs

--------------------------------------------------------------------------------

Load(r) ==
    /\ At(r, "load") /\ IsDoc(request[r].id)
    /\ Proceed(r, [request[r] EXCEPT !.old = docs[request[r].id]])
    /\ UNCHANGED docs

(* Two requests on one document both pass: the check is not repeated. *)
Allowed(q, check) ==
    CASE check = "superUser" -> HasGlobalWrite(q.user)
      [] check = "organizationWrite" -> OrganizationWrite(q.user, q.old)
      [] check = "teamWrite" -> TeamWrite(q.user, q.old)
      [] check = "credentialWrite" -> CredentialWrite(q.user, q.old)
      [] check = "inventoryWrite" -> InventoryWrite(q.user, q.old)
      [] check = "projectWrite" -> ProjectWrite(q.user, q.old)
      [] check = "jobTemplateWrite" -> JobTemplateWrite(q.user, q.old)
      [] check = "terraformTemplateWrite" -> TerraformTemplateWrite(q.user, q.old)
      [] check = "userWrite" -> UserWrite(q.user, q.id)
      [] check = "userWriteSpecial" -> UserWriteSpecial(q.user)
      [] check = "organizationRead" ->
             \/ q.body.owner = None \/ HasGlobalRead(q.user)
             \/ HasOrganizationRead(q.body.owner, q.user)
      [] check = "inventoryReadByID" -> InventoryReadByID(q.user, q.body.inventory)
      [] check = "credentialReadByID" ->
             q.body.credential = None \/ CredentialReadByID(q.user, q.body.credential)

Permissions == {"superUser", "organizationWrite", "teamWrite", "credentialWrite",
    "inventoryWrite", "projectWrite", "jobTemplateWrite", "terraformTemplateWrite",
    "userWrite", "userWriteSpecial", "organizationRead", "inventoryReadByID",
    "credentialReadByID"}

Permission(r) ==
    \E check \in Permissions :
        /\ At(r, check) /\ Allowed(request[r], check)
        /\ Proceed(r, request[r])
        /\ UNCHANGED docs

(* Checks that answer 401 and go on.  A query that fails finds nothing.    *)
OrganizationWriteByIDCheck(r) ==
    LET q == request[r] IN
    /\ At(r, "organizationWriteByID")
    /\ \E refused \in {TRUE, ~OrganizationWriteByID(q.user, q.body.owner)} :
           Proceed(r, [q EXCEPT !.refused = refused])
    /\ UNCHANGED docs

ProjectReadByIDCheck(r) ==
    LET q == request[r] IN
    /\ At(r, "projectReadByID")
    /\ \E refused \in {TRUE, ~ProjectReadByID(q.user, q.body.owner)} :
           Proceed(r, [q EXCEPT !.refused = refused])
    /\ UNCHANGED docs

(* OrganizationExist, ProjectExist, InventoryExist, MachineCredentialExist: *)
(* each looks for an id in its own collection.                              *)
Found(id, kind) == IsDoc(id) /\ KindOf[id] = kind

Exist(r) ==
    LET body == request[r].body
        kind == request[r].kind
    IN
    /\ \/ /\ At(r, "ownerExist") /\ kind \in DOMAIN OwnerKind
          /\ body.owner = None => kind = "credential"
          /\ body.owner # None => Found(body.owner, OwnerKind[kind])
       \/ At(r, "inventoryExist") /\ Found(body.inventory, "inventory")
       \/ At(r, "credentialExist") /\ (body.credential # None => Found(body.credential, "credential"))
    /\ Proceed(r, request[r])
    /\ UNCHANGED docs

--------------------------------------------------------------------------------

(* IsUnique: names of organizations, credentials and users are unique at   *)
(* all, the others within their organization or project.                   *)
SameKey(kind, a, b) ==
    a.name = b.name /\ (kind \notin {"organization", "credential", "user"} => a.owner = b.owner)

Namesakes(kind, doc) == {d \in Of(kind) : IsDoc(d) /\ SameKey(kind, docs[d], doc)}

KeepsName(q) == q.verb = "update" /\ q.body.name = q.old.name

(* Wrong: an update may take any name. *)
IsUniqueOnCreate(r) ==
    LET q == request[r] IN
    /\ At(r, "unique")
    /\ q.verb = "create" => Namesakes(q.kind, q.body) = {}
    /\ Proceed(r, q)
    /\ UNCHANGED docs

(* A name is unique when the query finds no namesake, and also when the    *)
(* query fails: the error is dropped.                                      *)
IsUnique(r) ==
    LET q == request[r]
        isTaken == ~KeepsName(q) /\ Namesakes(q.kind, q.body) # {}
    IN  /\ At(r, "unique")
        /\ \/ ~isTaken /\ Proceed(r, q)
           \/ isTaken /\ Proceed(r, [q EXCEPT !.blind = TRUE])
        /\ UNCHANGED docs

(* Some handlers trim the name they store. *)
Trims(q) ==
    CASE q.verb = "create" -> q.kind \in {"organization", "credential", "project"}
      [] q.verb = "update" -> q.kind # "user"

StoredName(q) == IF Trims(q) THEN Trim[q.body.name] ELSE q.body.name

(* users has unique indexes on username and email. *)
UniqueIndex(kind, doc, id) == kind = "user" => Namesakes(kind, doc) \subseteq {id}

Insert(r) ==
    LET q == request[r]
        doc == [q.body EXCEPT !.name = StoredName(q)]
    IN  /\ At(r, "insert")
        /\ \E id \in Of(q.kind) :
               /\ docs[id] = Unborn
               /\ UniqueIndex(q.kind, doc, id)
               /\ docs' = [docs EXCEPT ![id] = doc]
               /\ Wrote(r, [q EXCEPT !.id = id], {id})

(* Wrong: the document is built from the request alone. *)
SaveBody(r) ==
    LET q == request[r]
        doc == [q.body EXCEPT !.name = StoredName(q)]
    IN  /\ At(r, "save")
        /\ IsDoc(q.id)
        /\ UniqueIndex(q.kind, doc, q.id)
        /\ docs' = [docs EXCEPT ![q.id] = doc]
        /\ Wrote(r, q, {q.id})

(* UpdateId with the whole document, roles as they were loaded. *)
Save(r) ==
    LET q == request[r]
        doc == [q.body EXCEPT !.name = StoredName(q), !.roles = q.old.roles]
    IN  /\ At(r, "save")
        /\ IsDoc(q.id)
        /\ UniqueIndex(q.kind, doc, q.id)
        /\ docs' = [docs EXCEPT ![q.id] = doc]
        /\ Wrote(r, q, {q.id})

Associate(doc, grant) == [doc EXCEPT !.roles = @ \cup {grant}]
Disassociate(doc, grant) == [doc EXCEPT !.roles = @ \ {grant}]

(* For a credential without organization, CreateCredential dereferences    *)
(* the nil id and panics, unless the user is a super user.                 *)
OrganizationAdmin(r) ==
    LET q == request[r]
        templates == {"jobTemplate", "terraformTemplate"}
        org == IF q.kind \in templates THEN GetOrganizationID(q.body) ELSE q.body.owner
    IN  /\ At(r, "organizationAdmin")
        /\ q.verb = "create" /\ q.kind = "credential" /\ org = None => HasGlobalWrite(q.user)
        /\ \E admin \in {FALSE, IsOrganizationAdmin(org, q.user)} :
               Proceed(r, [q EXCEPT !.admin = admin])
        /\ UNCHANGED docs

(* Wrong: membership of the organization is taken for administration. *)
BecomesAdminUnlessMember(q) ==
    ~(HasGlobalWrite(q.user) \/ HasOrganizationRead(q.body.owner, q.user))

BecomesAdmin(q) ==
    CASE q.kind \in {"team", "inventory"} -> ~(HasGlobalWrite(q.user) \/ q.admin)
      [] q.kind = "project" -> ~(HasGlobalWrite(q.user) /\ q.admin)
      [] q.kind = "credential" /\ q.verb = "create" -> ~HasGlobalWrite(q.user)
      [] q.kind = "credential" /\ q.verb = "update" ->
             ~HasGlobalWrite(q.user) \/ (q.body.owner # None /\ ~q.admin)
      [] q.kind \in {"jobTemplate", "terraformTemplate"} ->
             ~HasGlobalWrite(q.user) \/ (GetOrganizationID(q.body) = None /\ ~q.admin)

(* Wrong: a role that is none. *)
OwnerGrant(u) == [grantee |-> u, type |-> "user", role |-> "owner"]

AdminGrant(u) == [grantee |-> u, type |-> "user", role |-> "admin"]

(* The error of a document that is gone is only logged. *)
AssociateAuthor(r) ==
    LET q == request[r] IN
    /\ At(r, "associate")
    /\ IF BecomesAdmin(q) /\ IsDoc(q.id)
       THEN /\ docs' = [docs EXCEPT ![q.id] = Associate(@, AdminGrant(q.user))]
            /\ Wrote(r, q, {q.id})
       ELSE Proceed(r, q) /\ UNCHANGED docs

(* So is any other error: the request is answered as if it had succeeded.  *)
AssociateFails(r) ==
    LET q == request[r] IN
    /\ At(r, "associate") /\ BecomesAdmin(q)
    /\ request' = [request EXCEPT ![r] = Answered("unassociated")]
    /\ UNCHANGED docs

--------------------------------------------------------------------------------

LoadGrantee(r) ==
    /\ At(r, "loadGrantee") /\ IsDoc(request[r].grant.grantee)
    /\ Proceed(r, request[r])
    /\ UNCHANGED docs

(* For a team the resource is loaded into the variable of the team that    *)
(* was to have the role: a team is granted to itself.                      *)
Find(r) ==
    LET q == request[r]
        grantee == IF q.grant.type = "team" /\ q.kind = "team" THEN q.id ELSE q.grant.grantee
    IN  /\ At(r, "find") /\ IsDoc(q.id)
        /\ ~(q.grant.type = "team" /\ q.kind = "organization")
        /\ Proceed(r, [q EXCEPT !.grant = [q.grant EXCEPT !.grantee = grantee]])
        /\ UNCHANGED docs

ModifyRole(r) ==
    LET q == request[r] IN
    /\ At(r, "modifyRole") /\ IsDoc(q.id)
    /\ docs' = [docs EXCEPT ![q.id] =
           IF q.verb \in {"assignUser", "assignTeam"} THEN Associate(@, q.grant)
           ELSE Disassociate(@, q.grant)]
    /\ Wrote(r, q, {q.id})

--------------------------------------------------------------------------------

(* The document pulled has an empty type and an empty role.  It equals no  *)
(* grant that a request makes.                                             *)
Pulled == [pullProjects |-> "project", pullCredentials |-> "credential",
           pullInventories |-> "inventory", pullJobTemplates |-> "jobTemplate",
           pullTerraformTemplates |-> "terraformTemplate"]

PullRoles(r) ==
    \E pull \in DOMAIN Pulled :
        LET grant == [grantee |-> request[r].id, type |-> "", role |-> ""]
            holders == {d \in Of(Pulled[pull]) : IsDoc(d) /\ grant \in docs[d].roles}
        IN  /\ At(r, pull)
            /\ docs' = [d \in Ids |->
                   IF d \in holders THEN Disassociate(docs[d], grant) ELSE docs[d]]
            /\ Wrote(r, request[r], holders)

PresentIn(kind, owner) == {d \in Of(kind) : IsDoc(d) /\ docs[d].owner = owner}

(* The error of the second cursor goes unnoticed, as it is the first one   *)
(* that is closed again: any part of the inventories may have been read.   *)
ReadChildren(r) ==
    LET q == request[r] IN
    /\ \/ /\ At(r, "readProjects")
          /\ Proceed(r, [q EXCEPT !.projects = PresentIn("project", q.id)])
       \/ /\ At(r, "readInventories")
          /\ \E found \in SUBSET PresentIn("inventory", q.id) :
                 Proceed(r, [q EXCEPT !.inventories = found])
    /\ UNCHANGED docs

ByProject == [removeJobs |-> "job", removeJobTemplates |-> "jobTemplate",
    removeTerraformJobs |-> "terraformJob", removeTerraformTemplates |-> "terraformTemplate"]
ByInventory == [removeHosts |-> "host", removeGroups |-> "group"]
ByOrganization == [removeProjects |-> "project", removeInventories |-> "inventory",
    removeTeams |-> "team", removeCredentials |-> "credential"]
ByTemplate == [removeTemplateJobs |-> "job", removeTerraformTemplateJobs |-> "terraformJob"]

(* What RemoveAll removes in a step. *)
Selected(q, step) ==
    {d \in Ids : IsDoc(d) /\
        \/ step \in DOMAIN ByProject /\ KindOf[d] = ByProject[step] /\ docs[d].owner \in q.projects
        \/ step \in DOMAIN ByInventory /\ KindOf[d] = ByInventory[step]
                                       /\ docs[d].owner \in q.inventories
        \/ step \in DOMAIN ByOrganization /\ KindOf[d] = ByOrganization[step]
                                          /\ docs[d].owner = q.id
        \/ step \in DOMAIN ByTemplate /\ KindOf[d] = ByTemplate[step] /\ docs[d].template = q.id
        \/ step = "remove" /\ d = q.id}

Removals == DOMAIN ByProject \cup DOMAIN ByInventory \cup DOMAIN ByOrganization
                \cup DOMAIN ByTemplate

Removing(r, step) ==
    LET ids == Selected(request[r], step) IN
    /\ At(r, step)
    /\ docs' = [d \in Ids |-> IF d \in ids THEN Gone ELSE docs[d]]
    /\ Wrote(r, request[r], ids)

RemoveAll(r) == \E step \in Removals : Removing(r, step)

(* RemoveId fails when the document is gone. *)
RemoveId(r) == IsDoc(request[r].id) /\ Removing(r, "remove")

--------------------------------------------------------------------------------

Init ==
    /\ docs \in InitialDocs
    /\ request = [r \in Requests |-> Idle]

Next ==
    \E r \in Requests :
        \/ Receive(r) \/ Reject(r) \/ Load(r) \/ Permission(r)
        \/ OrganizationWriteByIDCheck(r) \/ ProjectReadByIDCheck(r)
        \/ Exist(r) \/ IsUnique(r) \/ Insert(r) \/ Save(r)
        \/ OrganizationAdmin(r) \/ AssociateAuthor(r) \/ AssociateFails(r)
        \/ LoadGrantee(r) \/ Find(r) \/ ModifyRole(r) \/ PullRoles(r)
        \/ ReadChildren(r) \/ RemoveAll(r) \/ RemoveId(r)

Spec == Init /\ [][Next]_vars

--------------------------------------------------------------------------------

RequestType ==
    [status : {"idle", "running", "done", "refused", "unassociated", "rejected"},
     verb : Verbs, kind : Resources \cup {"user"}, user : Ids \cup {None},
     id : Ids \cup {None}, body : Doc \cup {None}, grant : Grants \cup {None},
     next : Nat \ {0}, old : Doc \cup {None}, projects : SUBSET Ids,
     inventories : SUBSET Ids, admin : BOOLEAN, refused : BOOLEAN, blind : BOOLEAN,
     touched : SUBSET Ids]

(* Variables have their types. *)
TypeOK ==
    /\ docs \in [Ids -> Doc \cup {Unborn, Gone}]
    /\ request \in [Requests -> RequestType]

(* Whoever may write a document may read it (package rbac), whatever grants *)
(* there are, with one exception: the credential of a template decides who  *)
(* reads it and is not asked about writing.                                 *)
WriterCanRead ==
    \A u \in Users, d \in {x \in Ids : IsDoc(x) /\ KindOf[x] \in Resources} :
        /\ docs[d].credential = None
        /\ Writes(u, KindOf[d], docs[d])
        => Reads(u, KindOf[d], docs[d])

AuthorsCanWrite ==
    \A r \in Requests :
        LET q == request[r] IN
        /\ q.status = "running" /\ request'[r].status = "done"
        /\ q.verb \in {"create", "update"} /\ q.kind \in Resources
        => \A u \in {q.user}, d \in {q.id}, kind \in {q.kind} :
               {d, q.body.owner} \cap q.touched = {} => Writes(u, kind, docs[d])'

(* A user whose Create or Update was answered with success may write the    *)
(* document afterwards: each handler makes its user an administrator        *)
(* exactly when the organization does not (api/inventory.go:181,            *)
(* api/project.go:221).  Except that another request wrote the document or  *)
(* its organization meanwhile.                                              *)
FinisherCanWrite == [][AuthorsCanWrite]_vars

(* The grant g of document d, if it came or went, did so by what r asked    *)
(* for or by an update that wrote back what it had loaded.                  *)
Explains(r, d, g) ==
    LET q == request[r] IN
    /\ q.id = d
    /\ \/ At(r, "modifyRole") /\ g = q.grant
                              /\ (g \in docs[d].roles <=> q.verb \in {"revokeUser", "revokeTeam"})
       \/ At(r, "associate") /\ g = AdminGrant(q.user) /\ g \notin docs[d].roles
       \/ At(r, "save") /\ d \in q.touched

RolesExplained ==
    \A d \in {x \in Ids : docs'[x] # docs[x]} : IsDoc(d) /\ IsDoc(d)' =>
        \A g \in (docs[d].roles \ docs'[d].roles) \cup (docs'[d].roles \ docs[d].roles) :
            \E r \in Requests : Explains(r, d, g)

(* Handlers write back the whole document they loaded (api/project.go:309). *)
(* A grant leaves or joins a document only when it is revoked or made by a  *)
(* request that names it, or with an update that loaded the document before *)
(* another request wrote it.                                                *)
RolesChangeOnPurpose == [][RolesExplained]_vars

(* Why r may store a name d that e has, too. *)
Overlooks(r, d, e) ==
    LET q == request[r] IN
    /\ At(r, "insert") \/ At(r, "save")
    /\ \/ {d, e} \cap q.touched # {}
       \/ KeepsName(q) \/ q.blind
       \/ StoredName(q) # q.body.name

NamesakesExplained ==
    \A d \in {x \in Ids : docs'[x] # docs[x]} : \A e \in Of(KindOf[d]) \ {d} :
        /\ IsDoc(d)' /\ IsDoc(e)'
        /\ KindOf[d] \in Resources \cup {"user"}
        /\ SameKey(KindOf[d], docs'[d], docs'[e])
        /\ ~(IsDoc(d) /\ IsDoc(e) /\ SameKey(KindOf[d], docs[d], docs[e]))
        => KindOf[d] # "user" /\ \E r \in Requests : Overlooks(r, d, e)

(* IsUnique and the write it allows are two operations.  Two documents come *)
(* to share a name only when one was written while the other request was    *)
(* under way, when the query for it failed (models/common/team.go:50), or   *)
(* by an update that did not look for the name it stored (api/team.go:220,  *)
(* api/project.go:293); users never do, because of the index                *)
(* (db/mongo.go:92).                                                        *)
NamesakesNeedARace == [][NamesakesExplained]_vars

Parents(doc) == {doc.owner, doc.template} \ {None}

Acts(r) == <<request[r].status, request[r].next>> # <<request'[r].status, request'[r].next>>

OrphansExplained ==
    \A d \in {x \in Ids : docs' # docs /\ IsDoc(x)'} : \A p \in Parents(docs'[d]) :
        /\ docs'[p] = Gone
        /\ ~(IsDoc(d) /\ p \in Parents(docs[d]) /\ docs[p] = Gone)
        => \/ \E r \in Requests : Acts(r) /\ {d, p} \cap request[r].touched # {}
           \/ /\ docs[d].template = p
              /\ docs[d].owner # docs[p].owner
           \/ /\ KindOf[d] \in {"terraformTemplate", "terraformJob"}
              /\ KindOf[p] = "project"
              /\ \E r \in Requests : At(r, "remove") /\ request[r].kind = "project"
           \/ /\ KindOf[p] = "inventory"
              /\ \E r \in Requests :
                     At(r, "removeInventories") /\ Acts(r) /\ p \notin request[r].inventories

(* Removals take the contents of a document before the document itself      *)
(* (api/organization.go:187).  A document is left without its organization, *)
(* project, inventory or template only when it or the other one was written *)
(* while the request was under way; when it is the job of a template that   *)
(* has moved to another project; when Delete of a project leaves its        *)
(* Terraform templates and jobs (api/project.go:341); or when Delete of an  *)
(* organization did not read its inventory (api/organization.go:211).       *)
OrphansNeedARace == [][OrphansExplained]_vars

(* User's and team's Delete "Remove permissions" (api/user.go:257,          *)
(* api/team.go:250): when the user or the team is gone, no project,         *)
(* credential, inventory or template has a grant for it.                    *)
DeletionRemovesGrants ==
    [][ \A s \in Ids :
            IsDoc(s) /\ docs'[s] = Gone /\ KindOf[s] \in {"user", "team"} =>
                \A d \in Ids :
                    IsDoc(d)' /\ KindOf[d] \in {Pulled[p] : p \in DOMAIN Pulled} =>
                        \A g \in docs'[d].roles : g.grantee # s ]_vars

================================================================================
