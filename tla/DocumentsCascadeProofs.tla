------------------------ MODULE DocumentsCascadeProofs ------------------------
(***************************************************************************)
(* Proof of OrphansNeedARace of Documents: what a removal has emptied stays *)
(* empty, and an owner that was found stays there, unless another request  *)
(* writes, which is recorded in touched.                                   *)
(***************************************************************************)
EXTENDS DocumentsProofs

\* What a handler has done before it removes a document of some kind.
Prepared(kind) ==
    CASE kind = "organization" ->
             {"removeProjects", "removeInventories", "removeTeams", "removeCredentials"}
      [] kind = "project" -> {"removeJobs", "removeJobTemplates"}
      [] kind = "inventory" -> {"removeHosts", "removeGroups"}
      [] kind = "jobTemplate" -> {"removeTemplateJobs"}
      [] kind = "terraformTemplate" -> {"removeTerraformTemplateJobs"}
      [] OTHER -> {}

\* The same for a step that removes many.
PreparedFor(step) ==
    CASE step = "removeJobTemplates" -> {"removeJobs"}
      [] step = "removeTerraformTemplates" -> {"removeTerraformJobs"}
      [] step = "removeProjects" ->
             {"readProjects", "removeJobs", "removeJobTemplates", "removeTerraformJobs",
              "removeTerraformTemplates"}
      [] step = "removeInventories" -> {"removeHosts", "removeGroups"}
      [] OTHER -> {}

\* In every handler contents go first, and what is to be removed is read before.
CascadeShaped(verb, kind, h) ==
    \A i \in DOMAIN h :
        /\ h[i] \in {"insert", "save"} =>
               kind \in {"organization", "user"} \/ \E j \in 1..(i - 1) : h[j] = "ownerExist"
        /\ h[i] = "remove" => \A step \in Prepared(kind) : \E j \in 1..(i - 1) : h[j] = step
        /\ \A step \in PreparedFor(h[i]) : \E j \in 1..(i - 1) : h[j] = step
        /\ h[i] \in {"readProjects", "readInventories"} =>
               /\ kind = "organization"
               /\ \A j \in 1..(i - 1) : h[j] \notin Removals
        /\ h[i] = "readProjects" => \A j \in 1..(i - 1) : h[j] # "readProjects"
        /\ h[i] \in DOMAIN ByOrganization => kind = "organization"

LEMMA CreateOwnerFirst ==
    ASSUME NEW kind \in (Resources \cup {"user"}) \ {"organization", "user"}
    PROVE  Create(kind)[1] = "ownerExist"
<1>1. /\ CreateTeam[1] = "ownerExist" /\ CreateCredential[1] = "ownerExist"
      /\ CreateInventory[1] = "ownerExist" /\ CreateProject[1] = "ownerExist"
      /\ CreateJobTemplate[1] = "ownerExist" /\ CreateTerraformTemplate[1] = "ownerExist"
  BY SMT DEF CreateTeam, CreateCredential, CreateInventory, CreateProject, CreateJobTemplate,
             CreateTerraformTemplate
<1> QED BY <1>1, Zenon DEF Create, Resources

LEMMA UpdateOwnerFirst ==
    ASSUME NEW kind \in (Resources \cup {"user"}) \ {"organization", "user"}
    PROVE  Update(kind)[3] = "ownerExist" /\ Update(kind)[2] # "save"
<1>1. /\ UpdateTeam[3] = "ownerExist" /\ UpdateTeam[2] # "save"
      /\ UpdateCredential[3] = "ownerExist" /\ UpdateCredential[2] # "save"
      /\ UpdateInventory[3] = "ownerExist" /\ UpdateInventory[2] # "save"
  BY SMT DEF UpdateTeam, UpdateCredential, UpdateInventory, TeamMiddleware,
             CredentialMiddleware, InventoryMiddleware
<1>2. /\ UpdateProject[3] = "ownerExist" /\ UpdateProject[2] # "save"
      /\ UpdateJobTemplate[3] = "ownerExist" /\ UpdateJobTemplate[2] # "save"
      /\ UpdateTerraformTemplate[3] = "ownerExist" /\ UpdateTerraformTemplate[2] # "save"
  BY SMT DEF UpdateProject, UpdateJobTemplate, UpdateTerraformTemplate, ProjectMiddleware,
             JobTemplateMiddleware, TerraformTemplateMiddleware
<1> QED BY <1>1, <1>2, Zenon DEF Update, Resources

\* Steps of removals are those of removals only.
LEMMA NoTaking ==
    ASSUME NEW step, step \notin Takings
    PROVE  /\ step \notin {"remove", "readProjects", "readInventories"}
           /\ step \notin Removals /\ step \notin DOMAIN ByOrganization
           /\ PreparedFor(step) = {}
  BY DEF Takings, PreparedFor, Removals, ByProject, ByInventory, ByOrganization, ByTemplate

LEMMA CreateCascade ==
    ASSUME NEW kind \in Resources \cup {"user"}
    PROVE  CascadeShaped("create", kind, Create(kind))
<1> DEFINE h == Create(kind)
<1>1. Shaped("create", kind, h)
  BY CreateShape
<1> SUFFICES ASSUME NEW i \in DOMAIN h
             PROVE  /\ h[i] \notin Takings
                    /\ h[i] # "save"
                    /\ h[i] = "insert" /\ kind \notin {"organization", "user"} =>
                           \E j \in 1..(i - 1) : h[j] = "ownerExist"
  BY NoTaking, Zenon DEF CascadeShaped
<1>2. Placed("create", kind, h, i) /\ i \in 1..Len(h) /\ Len(h) \in Nat
  BY <1>1, Zenon DEF Shaped
<1>3. h[i] \notin Takings /\ h[i] # "save"
  BY <1>2 DEF Placed
<1>4. ASSUME h[i] = "insert", kind \notin {"organization", "user"}
      PROVE  \E j \in 1..(i - 1) : h[j] = "ownerExist"
  <2>1. h[1] = "ownerExist"
    BY <1>4, CreateOwnerFirst
  <2> HIDE DEF h
  <2>2. i # 1
    BY <1>4, <2>1
  <2>3. 1 \in 1..(i - 1)
    BY <1>2, <2>2, SMT
  <2> QED BY <2>1, <2>3, Zenon
<1> QED BY <1>3, <1>4

LEMMA UpdateCascade ==
    ASSUME NEW kind \in Resources \cup {"user"}
    PROVE  CascadeShaped("update", kind, Update(kind))
<1> DEFINE h == Update(kind)
<1>1. Shaped("update", kind, h)
  BY UpdateShape
<1> SUFFICES ASSUME NEW i \in DOMAIN h
             PROVE  /\ h[i] \notin Takings
                    /\ h[i] # "insert"
                    /\ h[i] = "save" /\ kind \notin {"organization", "user"} =>
                           \E j \in 1..(i - 1) : h[j] = "ownerExist"
  BY NoTaking, Zenon DEF CascadeShaped
<1>2. Placed("update", kind, h, i) /\ i \in 1..Len(h) /\ Len(h) \in Nat
  BY <1>1, Zenon DEF Shaped
<1>3. h[i] \notin Takings /\ h[i] # "insert" /\ (h[i] = "save" => i > 1)
  BY <1>2 DEF Placed
<1>4. ASSUME h[i] = "save", kind \notin {"organization", "user"}
      PROVE  \E j \in 1..(i - 1) : h[j] = "ownerExist"
  <2>1. h[3] = "ownerExist" /\ h[2] # "save"
    BY <1>4, UpdateOwnerFirst
  <2> HIDE DEF h
  <2>2. i # 1 /\ i # 2 /\ i # 3
    BY <1>2, <1>3, <1>4, <2>1
  <2>3. 3 \in 1..(i - 1)
    BY <1>2, <2>2, SMT
  <2> QED BY <2>1, <2>3, Zenon
<1> QED BY <1>3, <1>4

LEMMA DeleteTeamCascade == CascadeShaped("delete", "team", DeleteTeam)
<1> DEFINE h == DeleteTeam
<1>1. /\ DOMAIN h = 1..8
      /\ h[1] = "load" /\ h[2] = "teamWrite" /\ h[3] = "pullProjects"
      /\ h[4] = "pullCredentials" /\ h[5] = "pullInventories" /\ h[6] = "pullJobTemplates"
      /\ h[7] = "pullTerraformTemplates" /\ h[8] = "remove"
  BY SMT DEF DeleteTeam, TeamMiddleware
<1>2. \A i \in 1..8 : i \in {1, 2, 3, 4, 5, 6, 7, 8}
  BY SMT
<1> HIDE DEF h
<1>3. CascadeShaped("delete", "team", h)
  BY <1>1, <1>2, SMT DEF CascadeShaped, Prepared, PreparedFor, Removals, ByProject, ByInventory,
                         ByOrganization, ByTemplate
<1> QED BY <1>3 DEF h

LEMMA DeleteCredentialCascade == CascadeShaped("delete", "credential", DeleteCredential)
<1> DEFINE h == DeleteCredential
<1>1. /\ DOMAIN h = 1..3
      /\ h[1] = "load" /\ h[2] = "credentialWrite" /\ h[3] = "remove"
  BY SMT DEF DeleteCredential, CredentialMiddleware
<1>2. \A i \in 1..3 : i \in {1, 2, 3}
  BY SMT
<1> HIDE DEF h
<1>3. CascadeShaped("delete", "credential", h)
  BY <1>1, <1>2, SMT DEF CascadeShaped, Prepared, PreparedFor, Removals, ByProject, ByInventory,
                         ByOrganization, ByTemplate
<1> QED BY <1>3 DEF h

LEMMA DeleteInventoryCascade == CascadeShaped("delete", "inventory", DeleteInventory)
<1> DEFINE h == DeleteInventory
<1>1. /\ DOMAIN h = 1..5
      /\ h[1] = "load" /\ h[2] = "inventoryWrite" /\ h[3] = "removeHosts"
      /\ h[4] = "removeGroups" /\ h[5] = "remove"
  BY SMT DEF DeleteInventory, InventoryMiddleware
<1>2. \A i \in 1..5 : i \in {1, 2, 3, 4, 5}
  BY SMT
<1> HIDE DEF h
<1>3. CascadeShaped("delete", "inventory", h)
  BY <1>1, <1>2, SMT DEF CascadeShaped, Prepared, PreparedFor, Removals, ByProject, ByInventory,
                         ByOrganization, ByTemplate
<1> QED BY <1>3 DEF h

LEMMA DeleteProjectCascade == CascadeShaped("delete", "project", DeleteProject)
<1> DEFINE h == DeleteProject
<1>1. /\ DOMAIN h = 1..5
      /\ h[1] = "load" /\ h[2] = "projectWrite" /\ h[3] = "removeJobs"
      /\ h[4] = "removeJobTemplates" /\ h[5] = "remove"
  BY SMT DEF DeleteProject, ProjectMiddleware
<1>2. \A i \in 1..5 : i \in {1, 2, 3, 4, 5}
  BY SMT
<1> HIDE DEF h
<1>3. CascadeShaped("delete", "project", h)
  BY <1>1, <1>2, SMT DEF CascadeShaped, Prepared, PreparedFor, Removals, ByProject, ByInventory,
                         ByOrganization, ByTemplate
<1> QED BY <1>3 DEF h

LEMMA DeleteJobTemplateCascade == CascadeShaped("delete", "jobTemplate", DeleteJobTemplate)
<1> DEFINE h == DeleteJobTemplate
<1>1. /\ DOMAIN h = 1..4
      /\ h[1] = "load" /\ h[2] = "jobTemplateWrite" /\ h[3] = "removeTemplateJobs"
      /\ h[4] = "remove"
  BY SMT DEF DeleteJobTemplate, JobTemplateMiddleware
<1>2. \A i \in 1..4 : i \in {1, 2, 3, 4}
  BY SMT
<1> HIDE DEF h
<1>3. CascadeShaped("delete", "jobTemplate", h)
  BY <1>1, <1>2, SMT DEF CascadeShaped, Prepared, PreparedFor, Removals, ByProject, ByInventory,
                         ByOrganization, ByTemplate
<1> QED BY <1>3 DEF h

LEMMA DeleteTerraformTemplateCascade == CascadeShaped("delete", "terraformTemplate", DeleteTerraformTemplate)
<1> DEFINE h == DeleteTerraformTemplate
<1>1. /\ DOMAIN h = 1..3
      /\ h[1] = "load" /\ h[2] = "removeTerraformTemplateJobs" /\ h[3] = "remove"
  BY SMT DEF DeleteTerraformTemplate, TerraformTemplateMiddleware
<1>2. \A i \in 1..3 : i \in {1, 2, 3}
  BY SMT
<1> HIDE DEF h
<1>3. CascadeShaped("delete", "terraformTemplate", h)
  BY <1>1, <1>2, SMT DEF CascadeShaped, Prepared, PreparedFor, Removals, ByProject, ByInventory,
                         ByOrganization, ByTemplate
<1> QED BY <1>3 DEF h

LEMMA DeleteUserCascade == CascadeShaped("delete", "user", DeleteUser)
<1> DEFINE h == DeleteUser
<1>1. /\ DOMAIN h = 1..8
      /\ h[1] = "load" /\ h[2] = "userWrite" /\ h[3] = "pullProjects"
      /\ h[4] = "pullCredentials" /\ h[5] = "pullInventories" /\ h[6] = "pullJobTemplates"
      /\ h[7] = "pullTerraformTemplates" /\ h[8] = "remove"
  BY SMT DEF DeleteUser, UserMiddleware
<1>2. \A i \in 1..8 : i \in {1, 2, 3, 4, 5, 6, 7, 8}
  BY SMT
<1> HIDE DEF h
<1>3. CascadeShaped("delete", "user", h)
  BY <1>1, <1>2, SMT DEF CascadeShaped, Prepared, PreparedFor, Removals, ByProject, ByInventory,
                         ByOrganization, ByTemplate
<1> QED BY <1>3 DEF h

LEMMA DeleteOrganizationCascade == CascadeShaped("delete", "organization", DeleteOrganization)
<1> DEFINE h == DeleteOrganization
<1>1. /\ DOMAIN h = 1..15
      /\ h[1] = "load" /\ h[2] = "organizationWrite" /\ h[3] = "readProjects"
      /\ h[4] = "readInventories" /\ h[5] = "removeJobs" /\ h[6] = "removeJobTemplates"
      /\ h[7] = "removeTerraformJobs" /\ h[8] = "removeTerraformTemplates" /\ h[9] = "removeProjects"
      /\ h[10] = "removeHosts" /\ h[11] = "removeGroups" /\ h[12] = "removeInventories"
      /\ h[13] = "removeTeams" /\ h[14] = "removeCredentials" /\ h[15] = "remove"
  BY SMT DEF DeleteOrganization, OrganizationMiddleware
<1>2. \A i \in 1..15 : i \in {1, 2, 3, 4, 5, 6, 7, 8, 9, 10, 11, 12, 13, 14, 15}
  BY SMT
<1> HIDE DEF h
<1>3. CascadeShaped("delete", "organization", h)
  BY <1>1, <1>2, SMT DEF CascadeShaped, Prepared, PreparedFor, Removals, ByProject, ByInventory,
                         ByOrganization, ByTemplate
<1> QED BY <1>3 DEF h

LEMMA AssignCascade ==
    ASSUME NEW verb \in Assigns, NEW kind, NEW h \in {AssignUserRole, AssignTeamRole}
    PROVE  CascadeShaped(verb, kind, h)
<1>1. Shaped(verb, kind, h) /\ verb \notin {"create", "update", "delete"}
  BY AssignShape DEF Assigns
<1>2. ASSUME NEW i \in DOMAIN h PROVE h[i] \notin Takings /\ h[i] \notin {"insert", "save"}
  BY <1>1, Zenon DEF Shaped, Placed
<1> QED BY <1>2, NoTaking, Zenon DEF CascadeShaped

LEMMA Cascades ==
    ASSUME NEW q \in RequestType
    PROVE  CascadeShaped(q.verb, q.kind, HandlerOf(q))
<1>1. q.verb \in Verbs /\ q.kind \in Resources \cup {"user"}
  BY Zenon DEF RequestType
<1>2. HandlerOf(q) = Handler(q.verb, q.kind)
  BY <1>1, Zenon DEF HandlerOf, Handlers
<1>3. CASE q.verb = "create"
  <2>1. Handler(q.verb, q.kind) = Create(q.kind)
    BY <1>3 DEF Handler
  <2> QED BY <1>1, <1>2, <1>3, <2>1, CreateCascade, Zenon
<1>4. CASE q.verb = "update"
  <2>1. Handler(q.verb, q.kind) = Update(q.kind)
    BY <1>4 DEF Handler
  <2> QED BY <1>1, <1>2, <1>4, <2>1, UpdateCascade, Zenon
<1>5. CASE q.verb = "delete"
  <2>1. Handler(q.verb, q.kind) = Delete(q.kind)
    BY <1>5 DEF Handler
  <2>2. CascadeShaped("delete", q.kind, Delete(q.kind))
    BY <1>1, DeleteOrganizationCascade, DeleteTeamCascade, DeleteCredentialCascade,
       DeleteInventoryCascade, DeleteProjectCascade, DeleteJobTemplateCascade,
       DeleteTerraformTemplateCascade, DeleteUserCascade, SMT DEF Delete, Resources
  <2> QED BY <1>2, <1>5, <2>1, <2>2
<1>6. CASE q.verb \in Assigns
  <2>1. Handler(q.verb, q.kind) \in {AssignUserRole, AssignTeamRole}
    BY <1>6 DEF Handler, Assigns
  <2> QED BY <1>1, <1>2, <1>6, <2>1, AssignCascade, Zenon
<1> QED BY <1>1, <1>3, <1>4, <1>5, <1>6, Zenon DEF Verbs, Assigns

--------------------------------------------------------------------------------

\* The body of a request, as a handler binds it.
Bodied(r) ==
    LET q == request[r] IN
    q.verb \in {"create", "update"} =>
        /\ q.body.template = None
        /\ q.kind \in {"organization", "user"} => q.body.owner = None

\* An owner that was found is there.
Checked(r) ==
    LET q == request[r] IN
    /\ q.verb \in {"create", "update"} /\ Past(q, {"ownerExist"})
    /\ q.body.owner # None
    => /\ q.kind \in DOMAIN OwnerKind /\ KindOf[q.body.owner] = OwnerKind[q.kind]
       /\ IsDoc(q.body.owner) \/ q.body.owner \in q.touched

\* What was emptied is empty, and what was read is all there is.
Emptied(r) ==
    LET q == request[r] IN
    q.verb = "delete" =>
        /\ \A step \in Removals : Past(q, {step}) => Selected(q, step) \subseteq q.touched
        /\ Past(q, {"readProjects"}) =>
               PresentIn("project", q.id) \subseteq q.projects \cup q.touched
        /\ q.kind = "project" => q.projects = {q.id}
        /\ q.kind = "inventory" => q.inventories = {q.id}

Known(r) == request[r].status = "running" => Bodied(r) /\ Checked(r) /\ Emptied(r)

\* References are to documents of the right kind.
Sorted == \A d \in Ids : IsDoc(d) => Belongs(KindOf[d], docs[d])

CInv == IInv /\ Sorted /\ \A r \in Requests : Known(r)

--------------------------------------------------------------------------------

\* p is q with ids touched.
Sees(p, q, ids) ==
    p.status = "running" =>
        /\ q.status = "running" /\ p.touched = q.touched \cup ids
        /\ p.verb = q.verb /\ p.kind = q.kind /\ p.body = q.body /\ p.next = q.next
        /\ p.id = q.id /\ p.projects = q.projects /\ p.inventories = q.inventories

LEMMA TouchedSees ==
    ASSUME NEW q \in RequestType, NEW ids, q.status = "running"
    PROVE  Sees([q EXCEPT !.touched = @ \cup ids], q, ids)
  BY Zenon DEF Sees, RequestType

\* A step writes some documents, and tells the other requests which.
Tells(r, ids) ==
    /\ \A d \in Ids \ ids : docs'[d] = docs[d]
    /\ \A s \in Requests \ {r} : Sees(request'[s], request[s], ids)

LEMMA QuietTells ==
    ASSUME request \in [Requests -> RequestType], NEW r \in Requests, docs' = docs,
           (\E q : Proceed(r, q)) \/ (\E x : request' = [request EXCEPT ![r] = x])
    PROVE  Tells(r, {})
<1>1. \A s \in Requests \ {r} : request'[s] = request[s]
  BY Zenon DEF Proceed
<1>2. ASSUME NEW s \in Requests \ {r} PROVE Sees(request'[s], request[s], {})
  BY <1>1, SMT DEF Sees
<1> QED BY <1>2 DEF Tells

LEMMA WroteTells ==
    ASSUME request \in [Requests -> RequestType], NEW r \in Requests, NEW q, NEW ids,
           Wrote(r, q, ids), \A d \in Ids \ ids : docs'[d] = docs[d]
    PROVE  Tells(r, ids)
<1>1. ASSUME NEW s \in Requests \ {r} PROVE Sees(request'[s], request[s], ids)
  <2>1. CASE request[s].status = "running"
    <3>1. request'[s] = [request[s] EXCEPT !.touched = @ \cup ids]
      BY <2>1, Zenon DEF Wrote
    <3>2. request[s] \in RequestType
      BY Zenon
    <3> QED BY <2>1, <3>1, <3>2, TouchedSees
  <2>2. CASE request[s].status # "running"
    <3>1. request'[s] = request[s]
      BY <2>2, Zenon DEF Wrote
    <3> QED BY <2>2, <3>1, Zenon DEF Sees
  <2> QED BY <2>1, <2>2
<1> QED BY <1>1, Zenon DEF Tells

\* What another request knows, it knows after the step.
LEMMA OthersKnow ==
    ASSUME NEW s \in Requests, NEW ids, Known(s), Sees(request'[s], request[s], ids),
           \A d \in Ids \ ids : docs'[d] = docs[d]
    PROVE  Known(s)'
<1> DEFINE p == request'[s]
<1> DEFINE q == request[s]
<1> SUFFICES ASSUME p.status = "running" PROVE Known(s)'
  BY DEF Known
<1>1. /\ q.status = "running" /\ p.touched = q.touched \cup ids
      /\ p.verb = q.verb /\ p.kind = q.kind /\ p.body = q.body /\ p.next = q.next
      /\ p.id = q.id /\ p.projects = q.projects /\ p.inventories = q.inventories
  BY DEF Sees
<1>2. HandlerOf(p) = HandlerOf(q)
  BY <1>1, Zenon DEF HandlerOf
<1>3. Bodied(s) /\ Checked(s) /\ Emptied(s)
  BY <1>1 DEF Known
<1>4. \A steps : Past(q, steps)' <=> Past(q, steps)
  BY <1>1, <1>2, Zenon DEF Past
<1>5. \A d : IsDoc(d) /\ d \notin ids => IsDoc(d)'
  BY DEF IsDoc
<1>6. \A d : IsDoc(d)' /\ d \notin ids => IsDoc(d) /\ docs'[d] = docs[d]
  BY DEF IsDoc
<1>7. Bodied(s)'
  BY <1>1, <1>3, Zenon DEF Bodied
<1>8. Checked(s)'
  <2> SUFFICES ASSUME p.verb \in {"create", "update"}, Past(q, {"ownerExist"})',
                      p.body.owner # None
               PROVE  /\ p.kind \in DOMAIN OwnerKind
                      /\ KindOf[p.body.owner] = OwnerKind[p.kind]
                      /\ (IsDoc(q.body.owner))' \/ p.body.owner \in p.touched
    BY Zenon DEF Checked
  <2>1. /\ q.kind \in DOMAIN OwnerKind /\ KindOf[q.body.owner] = OwnerKind[q.kind]
        /\ IsDoc(q.body.owner) \/ q.body.owner \in q.touched
    BY <1>1, <1>3, <1>4, Zenon DEF Checked
  <2>2. IsDoc(q.body.owner) /\ q.body.owner \notin ids => (IsDoc(q.body.owner))'
    BY <1>1, Zenon DEF IsDoc
  <2> QED BY <1>1, <2>1, <2>2
<1>9. Emptied(s)'
  <2> SUFFICES ASSUME p.verb = "delete" PROVE Emptied(s)'
    BY DEF Emptied
  <2>1. /\ \A step \in Removals : Past(q, {step}) => Selected(q, step) \subseteq q.touched
        /\ Past(q, {"readProjects"}) =>
               PresentIn("project", q.id) \subseteq q.projects \cup q.touched
        /\ q.kind = "project" => q.projects = {q.id}
        /\ q.kind = "inventory" => q.inventories = {q.id}
    BY <1>1, <1>3, Zenon DEF Emptied
  <2>2. ASSUME NEW step \in Removals, Past(q, {step})'
        PROVE  (Selected(q, step) \subseteq q.touched)'
    <3>1. Selected(q, step) \subseteq q.touched
      BY <1>4, <2>1, <2>2
    <3>2. ASSUME NEW d, (d \in Selected(q, step))', d \notin ids PROVE d \in Selected(q, step)
      BY <1>1, <1>6, <3>2, Zenon DEF Selected
    <3> QED BY <1>1, <3>1, <3>2
  <2>3. Past(q, {"readProjects"})' =>
            (PresentIn("project", q.id) \subseteq q.projects \cup q.touched)'
    <3>1. ASSUME NEW d, (d \in PresentIn("project", q.id))', d \notin ids
          PROVE  d \in PresentIn("project", q.id)
      BY <1>1, <1>6, <3>1, Zenon DEF PresentIn, Of
    <3> QED BY <1>1, <1>4, <2>1, <3>1
  <2> QED BY <1>1, <2>1, <2>2, <2>3, Zenon DEF Emptied
<1> QED BY <1>7, <1>8, <1>9 DEF Known

--------------------------------------------------------------------------------

\* The next step of a request has one more behind it.
LEMMA PastNext ==
    ASSUME NEW p, NEW q \in RequestType, NEW steps, p.verb = q.verb, p.kind = q.kind,
           p.next = q.next + 1
    PROVE  Past(p, steps) <=> Past(q, steps) \/ HandlerOf(q)[q.next] \in steps
<1>1. HandlerOf(p) = HandlerOf(q)
  BY Zenon DEF HandlerOf
<1>2. q.next \in Nat \ {0}
  BY Zenon DEF RequestType
<1>3. \A i : i \in 1..(p.next - 1) <=> i \in 1..(q.next - 1) \/ i = q.next
  BY <1>2, SMT
<1> QED BY <1>1, <1>3, Zenon DEF Past

\* A step of a create or an update.
LEMMA AuthorKnows ==
    ASSUME NEW r \in Requests, request[r] \in RequestType, request[r].status = "running", Known(r),
           request[r].verb \in {"create", "update"}, Moves(r),
           \A d \in Ids : IsDoc(d) => IsDoc(d)',
           At(r, "ownerExist") => Exist(r)
    PROVE  Known(r)'
<1> DEFINE q == request[r]
<1> DEFINE p == request'[r]
<1> SUFFICES ASSUME p.status = "running" PROVE Known(r)'
  BY DEF Known
<1>1. /\ p.verb = q.verb /\ p.kind = q.kind /\ p.body = q.body /\ p.touched = q.touched
      /\ p.next = q.next + 1 /\ q.next < Len(HandlerOf(q)) /\ DOMAIN HandlerOf(q) = 1..Len(HandlerOf(q))
  <2>1. PICK o \in RequestType : Alike(o, q) /\ o.next = q.next /\ Follows(p, o)
    BY DEF Moves
  <2>2. HandlerOf(o) = HandlerOf(q)
    BY <2>1, Zenon DEF HandlerOf, Alike
  <2>3. DOMAIN HandlerOf(q) = 1..Len(HandlerOf(q))
    BY Shapes DEF Shaped
  <2> QED BY <2>1, <2>2, <2>3, Zenon DEF Follows, Alike
<1>2. Bodied(r) /\ Checked(r)
  BY DEF Known
<1>3. Bodied(r)'
  BY <1>1, <1>2, Zenon DEF Bodied
<1>4. Emptied(r)'
  BY <1>1 DEF Emptied
<1>5. Checked(r)'
  <2> SUFFICES ASSUME Past(q, {"ownerExist"})', q.body.owner # None
               PROVE  /\ q.kind \in DOMAIN OwnerKind
                      /\ KindOf[q.body.owner] = OwnerKind[q.kind]
                      /\ (IsDoc(q.body.owner))' \/ q.body.owner \in q.touched
    BY <1>1, Zenon DEF Checked
  <2>1. IsDoc(q.body.owner) => (IsDoc(q.body.owner))'
    <3>1. IsDoc(q.body.owner) => q.body.owner \in Ids
      BY Zenon DEF IsDoc
    <3> QED BY <1>1, <3>1, Zenon DEF IsDoc
  <2>2. CASE Past(q, {"ownerExist"})
    BY <1>2, <2>1, <2>2, Zenon DEF Checked
  <2>3. CASE ~Past(q, {"ownerExist"})
    <3>1. Past(p, {"ownerExist"})
      BY Zenon DEF Past, HandlerOf
    <3>2. HandlerOf(q)[q.next] = "ownerExist"
      BY <1>1, <2>3, <3>1, PastNext
    <3>3. q.next \in DOMAIN HandlerOf(q)
      <4>1. q.next \in Nat \ {0} /\ Len(HandlerOf(q)) \in Nat
        BY Shapes, Zenon DEF RequestType, Shaped
      <4> QED BY <1>1, <4>1, SMT
    <3>4. At(r, "ownerExist") /\ Exist(r)
      BY <3>2, <3>3, Zenon DEF At
    <3>5. /\ q.kind \in DOMAIN OwnerKind
          /\ IsDoc(q.body.owner) /\ KindOf[q.body.owner] = OwnerKind[q.kind]
      BY <3>4, Zenon DEF Exist, Found, At
    <3> QED BY <2>1, <3>5
  <2> QED BY <2>2, <2>3
<1> QED BY <1>3, <1>4, <1>5 DEF Known

\* A step of a handler that grants or revokes: nothing is known on the way.
LEMMA AssignerKnows ==
    ASSUME NEW r \in Requests, request[r].verb \in Assigns, Moves(r)
    PROVE  Known(r)'
<1> SUFFICES ASSUME request'[r].status = "running"
             PROVE  request'[r].verb \notin {"create", "update", "delete"}
  BY DEF Known, Bodied, Checked, Emptied
<1>1. request'[r].verb = request[r].verb
  BY Zenon DEF Moves, Follows, Alike
<1> QED BY <1>1 DEF Assigns

\* q is request o with other knowledge.
Same(q, o) ==
    /\ q \in RequestType
    /\ q.status = o.status /\ q.verb = o.verb /\ q.kind = o.kind /\ q.touched = o.touched
    /\ q.id = o.id /\ q.next = o.next

\* What a removal goes on with.
LEMMA OnwardKeeps ==
    ASSUME NEW q \in RequestType, Onward(q).status = "running"
    PROVE  LET p == Onward(q) IN
           /\ p.verb = q.verb /\ p.kind = q.kind /\ p.touched = q.touched /\ p.id = q.id
           /\ p.projects = q.projects /\ p.inventories = q.inventories
           /\ p.next = q.next + 1 /\ q.next < Len(HandlerOf(q))
<1>1. q.next < Len(HandlerOf(q))
  <2>1. Answered("refused").status # "running" /\ Answered("done").status # "running"
    BY AnsweredType
  <2> QED BY <2>1, Zenon DEF Onward
<1>2. Onward(q) = [q EXCEPT !.next = q.next + 1]
  BY <1>1, Zenon DEF Onward
<1> QED BY <1>1, <1>2, Zenon DEF RequestType

\* A step of a removal: what it reads, and what is still there afterwards.
LEMMA RemoverKnows ==
    ASSUME NEW r \in Requests, request[r] \in RequestType, Known(r), request[r].status = "running",
           request[r].verb = "delete", NEW q, Same(q, request[r]), request'[r] = Onward(q),
           \A d \in Ids : IsDoc(d)' => IsDoc(d) /\ docs'[d] = docs[d],
           request'[r].status = "running" =>
               \A step \in Removals : Now(r) = step => Selected(request[r], step)' = {},
           Now(r) \notin {"readProjects", "readInventories"} =>
               q.projects = request[r].projects /\ q.inventories = request[r].inventories,
           Now(r) = "readProjects" => PresentIn("project", request[r].id) \subseteq q.projects,
           Now(r) = "readInventories" => q.projects = request[r].projects
    PROVE  Known(r)'
<1> DEFINE o == request[r]
<1> DEFINE p == request'[r]
<1> DEFINE h == HandlerOf(o)
<1> SUFFICES ASSUME p.status = "running" PROVE Known(r)'
  BY DEF Known
<1>1. /\ p.verb = "delete" /\ p.kind = o.kind /\ p.touched = o.touched /\ p.id = o.id
      /\ p.next = o.next + 1 /\ o.next < Len(h)
      /\ p.projects = q.projects /\ p.inventories = q.inventories
  <2>1. HandlerOf(q) = h
    BY Zenon DEF Same, HandlerOf
  <2> QED BY <2>1, OnwardKeeps, Zenon DEF Same
<1>2. Emptied(r)
  BY DEF Known
<1>3. \A steps : Past(p, steps) <=> Past(o, steps) \/ Now(r) \in steps
  BY <1>1, PastNext DEF Now
<1>4. \A steps : Past(o, steps)' <=> Past(p, steps)
  BY Zenon DEF Past, HandlerOf
<1>5. Now(r) \in {"readProjects", "readInventories"} =>
          /\ o.kind = "organization" /\ ~Past(o, Removals)
          /\ Now(r) = "readProjects" => ~Past(o, {"readProjects"})
  <2>1. CascadeShaped(o.verb, o.kind, h) /\ Shaped(o.verb, o.kind, h)
    BY Cascades, Shapes
  <2>2. DOMAIN h = 1..Len(h) /\ Len(h) \in Nat
    BY <2>1 DEF Shaped
  <2>3. o.next \in DOMAIN h
    <3>1. o.next \in Nat \ {0}
      BY Zenon DEF RequestType
    <3> QED BY <1>1, <2>2, <3>1, SMT
  <2> QED BY <2>1, <2>3, Zenon DEF CascadeShaped, Past, Now
<1>6. ASSUME NEW step \in Removals, Past(o, {step})' PROVE (Selected(o, step) \subseteq o.touched)'
  <2>1. Past(o, {step}) \/ Now(r) = step
    BY <1>3, <1>4, <1>6
  <2>2. CASE Now(r) = step
    BY <2>2, Zenon
  <2>3. CASE Past(o, {step})
    <3>1. Past(o, Removals)
      BY <2>3, Zenon DEF Past
    <3>2. Now(r) \notin {"readProjects", "readInventories"}
      BY <1>5, <3>1
    <3>3. p.projects = o.projects /\ p.inventories = o.inventories
      BY <1>1, <3>2
    <3>4. Selected(o, step) \subseteq o.touched
      BY <1>2, <2>3, Zenon DEF Emptied
    <3>5. ASSUME NEW d, (d \in Selected(o, step))' PROVE d \in Selected(o, step)
      BY <1>1, <3>3, <3>5, Zenon DEF Selected
    <3> QED BY <1>1, <3>4, <3>5
  <2> QED BY <2>1, <2>2, <2>3
<1>7. Past(o, {"readProjects"})' =>
          (PresentIn("project", o.id) \subseteq o.projects \cup o.touched)'
  <2> SUFFICES ASSUME Past(o, {"readProjects"})'
               PROVE  (PresentIn("project", o.id) \subseteq o.projects \cup o.touched)'
    OBVIOUS
  <2>1. ASSUME NEW d, (d \in PresentIn("project", o.id))' PROVE d \in PresentIn("project", o.id)
    BY <1>1, <2>1, Zenon DEF PresentIn, Of
  <2>2. Past(o, {"readProjects"}) \/ Now(r) = "readProjects"
    BY <1>3, <1>4
  <2>3. CASE Now(r) = "readProjects"
    BY <1>1, <2>1, <2>3
  <2>4. CASE Past(o, {"readProjects"}) /\ Now(r) # "readProjects"
    <3>1. p.projects = o.projects
      BY <1>1, <2>4
    <3>2. PresentIn("project", o.id) \subseteq o.projects \cup o.touched
      BY <1>2, <2>4, Zenon DEF Emptied
    <3> QED BY <1>1, <2>1, <3>1, <3>2
  <2> QED BY <2>2, <2>3, <2>4
<1>8. /\ o.kind = "project" => p.projects = {o.id}
      /\ o.kind = "inventory" => p.inventories = {o.id}
  <2>1. o.kind \in {"project", "inventory"} => q.projects = o.projects /\ q.inventories = o.inventories
    BY <1>5
  <2> QED BY <1>1, <1>2, <2>1, Zenon DEF Emptied
<1>9. Emptied(r)'
  BY <1>1, <1>6, <1>7, <1>8, Zenon DEF Emptied
<1>10. Bodied(r)' /\ Checked(r)'
  BY <1>1 DEF Bodied, Checked
<1> QED BY <1>9, <1>10 DEF Known

--------------------------------------------------------------------------------

\* No document goes away.
Grows == \A d \in Ids : IsDoc(d) => IsDoc(d)'

\* A step of a create or an update, where it stands.
LEMMA StepOfAuthor ==
    ASSUME CInv, NEW r \in Requests, request[r].verb \in {"create", "update"}, Moves(r), Grows,
           NEW step, At(r, step), step = "ownerExist" => Exist(r)
    PROVE  Known(r)'
<1>1. request[r] \in RequestType /\ request[r].status = "running" /\ Now(r) = step
  BY AtStep, Zenon DEF CInv
<1>2. At(r, "ownerExist") => Exist(r)
  <2>1. At(r, "ownerExist") => Now(r) = "ownerExist"
    BY AtStep, Zenon DEF CInv
  <2> QED BY <1>1, <2>1
<1>3. Known(r) /\ \A d : IsDoc(d) => IsDoc(d)'
  BY Zenon DEF CInv, Grows, IsDoc
<1> QED BY <1>1, <1>2, <1>3, AuthorKnows

\* A step of a removal that removes and reads nothing.
LEMMA QuietRemover ==
    ASSUME CInv, NEW r \in Requests, request[r].verb = "delete", NEW step, At(r, step),
           step \notin Removals \cup {"readProjects", "readInventories"},
           NEW q, Same(q, request[r]),
           q.projects = request[r].projects, q.inventories = request[r].inventories,
           Proceed(r, q) \/ \E ids : Wrote(r, q, ids),
           \A d \in Ids : IsDoc(d)' => IsDoc(d) /\ docs'[d] = docs[d]
    PROVE  Known(r)'
<1>1. request[r] \in RequestType /\ request[r].status = "running" /\ Now(r) = step /\ Known(r)
  BY AtStep, Zenon DEF CInv
<1>2. request'[r] = Onward(q)
  <2>1. request \in [Requests -> RequestType]
    BY Zenon DEF CInv, IInv, TypeOK
  <2> QED BY <2>1, Zenon DEF Proceed, Wrote
<1>3. /\ \A x \in Removals : Now(r) # x
      /\ Now(r) # "readProjects" /\ Now(r) # "readInventories"
  BY <1>1
<1> HIDE DEF Now
<1> QED BY <1>1, <1>2, <1>3, RemoverKnows

--------------------------------------------------------------------------------
(* A request knows after each of its steps.                                *)

LEMMA EndKnows ==
    ASSUME IInv, NEW r \in Requests, Reject(r) \/ AssociateFails(r) PROVE Known(r)'
<1>1. PICK x \in {"rejected", "unassociated"} : request' = [request EXCEPT ![r] = Answered(x)]
  BY Zenon DEF Reject, AssociateFails
<1>2. request \in [Requests -> RequestType]
  BY Zenon DEF IInv, TypeOK
<1>3. Answered(x).status = x
  BY AnsweredType
<1>4. request'[r].status # "running"
  BY <1>1, <1>2, <1>3
<1> QED BY <1>4 DEF Known

LEMMA ReceiveKnows == ASSUME IInv, NEW r \in Requests, Receive(r) PROVE Known(r)'
<1> DEFINE New(i) == [Idle EXCEPT !.status = "running", !.verb = i.verb, !.kind = i.kind,
                          !.user = i.user, !.id = i.id, !.body = i.body, !.grant = i.grant,
                          !.projects = {i.id} \ {None}, !.inventories = {i.id} \ {None}]
<1>1. PICK i \in Inputs : request' = [request EXCEPT ![r] = New(i)]
  BY Zenon DEF Receive
<1>2. i \in InputType /\ WellFormed(i)
  BY InputsAssumption
<1>3. request \in [Requests -> RequestType]
  BY Zenon DEF IInv, TypeOK
<1>4. Idle \in RequestType /\ Idle.next = 1
  BY DEF RequestType, Idle, Verbs
<1> HIDE DEF New
<1>5. /\ New(i).verb = i.verb /\ New(i).kind = i.kind /\ New(i).id = i.id
      /\ New(i).body = i.body /\ New(i).next = 1
      /\ New(i).projects = {i.id} \ {None} /\ New(i).inventories = {i.id} \ {None}
  BY <1>4, Zenon DEF New, RequestType
<1>6. request'[r] = New(i)
  BY <1>1, <1>3, Zenon
<1>7. \A q, steps : q.next = 1 => ~Past(q, steps)
  <2>1. 1..(1 - 1) = {}
    BY SMT
  <2> QED BY <2>1, Zenon DEF Past
<1>8. Bodied(r)'
  <2>1. i.verb \in {"create", "update"} =>
            i.body.template = None /\ (i.kind \in {"organization", "user"} => i.body.owner = None)
    BY <1>2, Zenon DEF WellFormed, NoRoles
  <2> QED BY <1>5, <1>6, <2>1, Zenon DEF Bodied
<1>9. \A steps : ~(Past(request[r], steps))'
  BY <1>5, <1>6, <1>7, Zenon
<1>10. Checked(r)'
  BY <1>9, Zenon DEF Checked
<1>11. i.verb = "delete" => {i.id} \ {None} = {i.id}
  <2>1. i.verb = "delete" => i.id # None
    BY <1>2 DEF WellFormed
  <2> QED BY <2>1
<1>12. Emptied(r)'
  BY <1>5, <1>6, <1>9, <1>11, Zenon DEF Emptied
<1> QED BY <1>8, <1>10, <1>12 DEF Known

\* A step that leaves the documents as they are.
LEMMA ReaderKnows ==
    ASSUME CInv, NEW r \in Requests, Moves(r), NEW step, At(r, step), step \notin Takings,
           step = "ownerExist" => Exist(r), docs' = docs, NEW q, Same(q, request[r]),
           q.projects = request[r].projects, q.inventories = request[r].inventories,
           Proceed(r, q)
    PROVE  Known(r)'
<1>1. request[r] \in RequestType
  BY AtStep, Zenon DEF CInv
<1>2. step \notin Removals \cup {"readProjects", "readInventories"}
  BY NoTaking
<1>3. Grows /\ \A d \in Ids : IsDoc(d)' => IsDoc(d) /\ docs'[d] = docs[d]
  BY Zenon DEF Grows, IsDoc
<1>4. CASE request[r].verb \in {"create", "update"}
  BY <1>3, <1>4, StepOfAuthor
<1>5. CASE request[r].verb \in Assigns
  BY <1>5, AssignerKnows
<1>6. CASE request[r].verb = "delete"
  BY <1>2, <1>3, <1>6, QuietRemover
<1> QED BY <1>1, <1>4, <1>5, <1>6, Zenon DEF RequestType, Verbs, Assigns

\* The steps that readers take.
LEMMA ReaderSteps ==
    /\ Permissions \cap Takings = {} /\ "ownerExist" \notin Permissions
    /\ \A step \in {"load", "organizationWriteByID", "projectReadByID", "ownerExist",
                    "inventoryExist", "credentialExist", "unique", "organizationAdmin"} :
           step \notin Takings
  BY DEF Permissions, Takings

LEMMA LoadKnows == ASSUME CInv, NEW r \in Requests, Load(r) PROVE Known(r)'
<1>1. At(r, "load") /\ IsDoc(request[r].id) /\ docs' = docs /\ IInv
  BY Zenon DEF Load, CInv
<1>2. request[r] \in RequestType /\ docs \in DocsType
  BY <1>1, AtStep, Zenon
<1> DEFINE x == docs[request[r].id]
<1> DEFINE q == [request[r] EXCEPT !.old = x]
<1>3. x \in Doc \cup {None}
  BY <1>1, <1>2 DEF IsDoc, DocsType
<1>4. /\ Same(q, request[r])
      /\ q.projects = request[r].projects /\ q.inventories = request[r].inventories
  BY <1>2, <1>3, Zenon DEF RequestType, Same
<1>5. Proceed(r, q)
  BY Zenon DEF Load
<1> HIDE DEF q
<1> QED BY <1>1, <1>4, <1>5, LoadMoves, ReaderKnows, ReaderSteps

LEMMA PlainKnows == ASSUME CInv, NEW r \in Requests, Permission(r) \/ Exist(r) PROVE Known(r)'
<1>1. PICK step \in Permissions \cup {"ownerExist", "inventoryExist", "credentialExist"} :
          At(r, step) /\ (step \in Permissions \/ Exist(r))
  BY Zenon DEF Permission, Exist
<1>2. docs' = docs /\ Proceed(r, request[r]) /\ IInv
  BY Zenon DEF Permission, Exist, CInv
<1>3. request[r] \in RequestType
  BY <1>1, <1>2, AtStep, Zenon
<1>4. Same(request[r], request[r])
  BY <1>3 DEF Same
<1>5. step \notin Takings /\ (step = "ownerExist" => Exist(r))
  BY <1>1, ReaderSteps
<1> QED BY <1>1, <1>2, <1>4, <1>5, PlainStepMoves, ReaderKnows

LEMMA RefusingKnows ==
    ASSUME CInv, NEW r \in Requests, OrganizationWriteByIDCheck(r) \/ ProjectReadByIDCheck(r)
    PROVE  Known(r)'
<1>1. PICK step \in {"organizationWriteByID", "projectReadByID"} : At(r, step)
  BY Zenon DEF OrganizationWriteByIDCheck, ProjectReadByIDCheck
<1>2. docs' = docs /\ IInv
  BY Zenon DEF OrganizationWriteByIDCheck, ProjectReadByIDCheck, CInv
<1>3. PICK x \in BOOLEAN : Proceed(r, [request[r] EXCEPT !.refused = x])
  BY Zenon DEF OrganizationWriteByIDCheck, ProjectReadByIDCheck
<1> DEFINE q == [request[r] EXCEPT !.refused = x]
<1>4. request[r] \in RequestType
  BY <1>1, <1>2, AtStep, Zenon
<1>5. /\ Same(q, request[r])
      /\ q.projects = request[r].projects /\ q.inventories = request[r].inventories
  BY <1>4, Zenon DEF RequestType, Same
<1>6. Proceed(r, q)
  BY <1>3
<1> HIDE DEF q
<1>7. step \notin Takings /\ step # "ownerExist"
  BY ReaderSteps
<1> QED BY <1>1, <1>2, <1>5, <1>6, <1>7, RefusingMoves, ReaderKnows

LEMMA IsUniqueKnows == ASSUME CInv, NEW r \in Requests, IsUnique(r) PROVE Known(r)'
<1>1. At(r, "unique") /\ docs' = docs /\ IInv
  BY Zenon DEF IsUnique, CInv
<1> DEFINE q == [request[r] EXCEPT !.blind = TRUE]
<1>2. request[r] \in RequestType
  BY <1>1, AtStep, Zenon
<1>3. /\ Same(q, request[r])
      /\ q.projects = request[r].projects /\ q.inventories = request[r].inventories
  BY <1>2, Zenon DEF RequestType, Same
<1>4. Same(request[r], request[r])
  BY <1>2 DEF Same
<1>5. Proceed(r, request[r]) \/ Proceed(r, q)
  BY Zenon DEF IsUnique
<1> HIDE DEF q
<1>6. "unique" \notin Takings
  BY ReaderSteps
<1> QED BY <1>1, <1>3, <1>4, <1>5, <1>6, IsUniqueMoves, ReaderKnows

LEMMA OrganizationAdminKnows ==
    ASSUME CInv, NEW r \in Requests, OrganizationAdmin(r) PROVE Known(r)'
<1>1. At(r, "organizationAdmin") /\ docs' = docs /\ IInv
  BY Zenon DEF OrganizationAdmin, CInv
<1>2. request[r] \in RequestType
  BY <1>1, AtStep, Zenon
<1>3. PICK x \in BOOLEAN : Proceed(r, [request[r] EXCEPT !.admin = x])
  BY Zenon DEF OrganizationAdmin, IsOrganizationAdmin
<1> DEFINE q == [request[r] EXCEPT !.admin = x]
<1>4. /\ Same(q, request[r])
      /\ q.projects = request[r].projects /\ q.inventories = request[r].inventories
  BY <1>2, Zenon DEF RequestType, Same
<1>5. Proceed(r, q)
  BY <1>3
<1> HIDE DEF q
<1>6. "organizationAdmin" \notin Takings
  BY ReaderSteps
<1> QED BY <1>1, <1>4, <1>5, <1>6, OrganizationAdminMoves, ReaderKnows

LEMMA AssigningKnows ==
    ASSUME CInv, NEW r \in Requests, LoadGrantee(r) \/ Find(r) \/ ModifyRole(r) PROVE Known(r)'
<1>1. PICK step \in {"loadGrantee", "find", "modifyRole"} : At(r, step)
  BY Zenon DEF LoadGrantee, Find, ModifyRole
<1>2. IInv
  BY DEF CInv
<1>3. request[r].verb \in Assigns /\ request[r] \in RequestType /\ request[r].status = "running"
  BY <1>1, <1>2, AtStep, Zenon DEF Placed
<1>4. CASE LoadGrantee(r)
  <2>1. Proceed(r, request[r])
    BY <1>4, Zenon DEF LoadGrantee
  <2> QED BY <1>2, <1>3, <2>1, PlainMoves, AssignerKnows
<1>5. CASE ModifyRole(r)
  <2>1. Wrote(r, request[r], {request[r].id}) /\ request[r].id \in Ids
    BY <1>5, Zenon DEF ModifyRole, IsDoc
  <2>2. {request[r].id} \in SUBSET Ids
    BY <2>1
  <2> QED BY <1>2, <1>3, <2>1, <2>2, PlainMoves, AssignerKnows
<1>6. CASE Find(r)
  <2> DEFINE q(x) == [request[r] EXCEPT !.grant = x]
  <2>1. PICK x : Proceed(r, q(x))
    BY <1>6, Zenon DEF Find
  <2>2. Alike(q(x), request[r]) /\ q(x).next = request[r].next
    BY <1>3, Zenon DEF RequestType, Alike
  <2>3. CASE request'[r].status # "running"
    BY <2>3 DEF Known
  <2>4. CASE request'[r].status = "running"
    <3>1. request'[r] = Onward(q(x))
      <4>1. request \in [Requests -> RequestType]
        BY <1>2, Zenon DEF IInv, TypeOK
      <4> QED BY <2>1, <4>1, Zenon DEF Proceed
    <3>2. Onward(q(x)).verb = request[r].verb
      <4>1. Answered("refused").status # "running" /\ Answered("done").status # "running"
        BY AnsweredType
      <4>2. Onward(q(x)) = [q(x) EXCEPT !.next = q(x).next + 1]
        BY <2>4, <3>1, <4>1, Zenon DEF Onward
      <4> QED BY <1>3, <4>2, Zenon DEF RequestType
    <3>3. request'[r].verb \notin {"create", "update", "delete"}
      BY <1>3, <3>1, <3>2 DEF Assigns
    <3> QED BY <3>3 DEF Known, Bodied, Checked, Emptied
  <2> QED BY <2>3, <2>4
<1> QED BY <1>4, <1>5, <1>6

LEMMA InsertKnows == ASSUME CInv, NEW r \in Requests, Insert(r) PROVE Known(r)'
<1>1. At(r, "insert") /\ IInv
  BY Zenon DEF Insert, CInv
<1>2. request[r].verb = "create"
  BY <1>1, AtStep, Zenon DEF Placed
<1>3. PICK id \in Of(request[r].kind), doc \in Doc :
          ~IsDoc(id) /\ docs'[id] = doc /\ \A d \in Ids \ {id} : docs'[d] = docs[d]
  BY <1>1, Inserted
<1>4. Grows
  BY <1>3 DEF Grows, IsDoc
<1> QED BY <1>1, <1>2, <1>4, InsertMoves, StepOfAuthor

LEMMA SaveGrows == ASSUME IInv, NEW r \in Requests, Save(r) PROVE Grows
<1> DEFINE o == request[r]
<1>1. /\ At(r, "save") /\ o.next > 1 /\ o.verb = "update" /\ o.body \in Doc
      /\ \A d \in Ids \ {o.id} : docs'[d] = docs[d]
      /\ docs'[o.id] = [o.body EXCEPT !.name = StoredName(o), !.roles = o.old.roles]
  BY Saved
<1>2. o.old.roles \in SUBSET Grants
  <2>1. o.old \in Doc
    BY <1>1, AtStep, Zenon DEF Sound, OldKnown
  <2> QED BY <2>1, Zenon DEF Doc
<1>3. docs'[o.id] \in Doc
  <2>1. StoredName(o) \in Names
    BY <1>1, StoredNameType
  <2> QED BY <1>1, <1>2, <2>1, Zenon DEF Doc
<1> QED BY <1>1, <1>3, StatesAssumption DEF Grows, IsDoc

LEMMA SaveKnows == ASSUME CInv, NEW r \in Requests, Save(r) PROVE Known(r)'
<1>1. IInv
  BY DEF CInv
<1>2. At(r, "save") /\ request[r].verb = "update"
  BY <1>1, Saved
<1> QED BY <1>1, <1>2, SaveGrows, SaveMoves, StepOfAuthor

\* What a change of roles leaves.
LEMMA Granting ==
    ASSUME IInv, NEW r \in Requests, AssociateAuthor(r) \/ ModifyRole(r)
    PROVE  \A d \in Ids :
               /\ IsDoc(d) <=> IsDoc(d)'
               /\ IsDoc(d) => docs'[d].owner = docs[d].owner /\ docs'[d].template = docs[d].template
               /\ ~IsDoc(d) => docs'[d] = docs[d]
<1> DEFINE o == request[r]
<1>1. PICK step \in {"associate", "modifyRole"} : At(r, step)
  BY Zenon DEF AssociateAuthor, ModifyRole
<1>2. /\ Fits(r) /\ docs \in DocsType
      /\ Placed(o.verb, o.kind, HandlerOf(o), o.next) /\ HandlerOf(o)[o.next] = step
  BY <1>1, AtStep, Zenon
<1>3. CASE docs' = docs
  BY <1>3, Zenon DEF IsDoc
<1>4. ASSUME NEW roles \in SUBSET Grants, IsDoc(o.id),
             docs' = [docs EXCEPT ![o.id] = [docs[o.id] EXCEPT !.roles = roles]]
      PROVE  \A d \in Ids :
                 /\ IsDoc(d) <=> IsDoc(d)'
                 /\ IsDoc(d) =>
                        docs'[d].owner = docs[d].owner /\ docs'[d].template = docs[d].template
                 /\ ~IsDoc(d) => docs'[d] = docs[d]
  <2>1. o.id \in Ids /\ docs[o.id] \in Doc
    BY <1>2, <1>4 DEF IsDoc, DocsType
  <2> DEFINE doc == [docs[o.id] EXCEPT !.roles = roles]
  <2>2. doc \in Doc /\ doc.owner = docs[o.id].owner /\ doc.template = docs[o.id].template
    BY <2>1, Zenon DEF Doc
  <2> HIDE DEF doc
  <2>3. docs'[o.id] = doc /\ \A d \in Ids \ {o.id} : docs'[d] = docs[d]
    BY <1>2, <1>4, <2>1 DEF DocsType, doc
  <2>4. IsDoc(o.id) /\ doc \notin {Unborn, Gone}
    BY <1>4, <2>2, StatesAssumption
  <2> QED BY <2>2, <2>3, <2>4 DEF IsDoc
<1>5. CASE AssociateAuthor(r) /\ docs' # docs
  <2>1. IsDoc(o.id) /\ docs' = [docs EXCEPT ![o.id] = Associate(@, AdminGrant(o.user))]
    BY <1>5, Zenon DEF AssociateAuthor
  <2>2. o.id \in Ids /\ docs[o.id] \in Doc
    BY <1>2, <2>1 DEF IsDoc, DocsType
  <2>3. AdminGrant(o.user) \in Grants
    BY <1>2, AdminGrantType DEF Fits
  <2>4. docs[o.id].roles \cup {AdminGrant(o.user)} \in SUBSET Grants
    <3>1. docs[o.id].roles \in SUBSET Grants
      BY <2>2, Zenon DEF Doc
    <3> QED BY <2>3, <3>1
  <2>5. docs' = [docs EXCEPT ![o.id] =
                     [docs[o.id] EXCEPT !.roles = docs[o.id].roles \cup {AdminGrant(o.user)}]]
    BY <1>2, <2>1, <2>2, Zenon DEF Associate, DocsType, Doc
  <2> QED BY <1>4, <2>1, <2>4, <2>5
<1>6. CASE ModifyRole(r)
  <2>1. At(r, "modifyRole") /\ IsDoc(o.id)
    BY <1>6, Zenon DEF ModifyRole
  <2>2. o.id \in Ids /\ docs[o.id] \in Doc
    BY <1>2, <2>1 DEF IsDoc, DocsType
  <2>3. o.grant \in Grants
    <3>1. o.verb \in Assigns
      BY <2>1, AtStep, Zenon DEF Placed
    <3> QED BY <1>2, <3>1, Zenon DEF Fits
  <2>4. docs[o.id].roles \cup {o.grant} \in SUBSET Grants
        /\ docs[o.id].roles \ {o.grant} \in SUBSET Grants
    <3>1. docs[o.id].roles \in SUBSET Grants
      BY <2>2, Zenon DEF Doc
    <3> QED BY <2>3, <3>1
  <2>5. \/ docs' = [docs EXCEPT ![o.id] = Associate(docs[o.id], o.grant)]
        \/ docs' = [docs EXCEPT ![o.id] = Disassociate(docs[o.id], o.grant)]
    BY <1>2, <1>6, <2>2, Zenon DEF ModifyRole, DocsType
  <2>6. \/ docs' = [docs EXCEPT ![o.id] =
                        [docs[o.id] EXCEPT !.roles = docs[o.id].roles \cup {o.grant}]]
        \/ docs' = [docs EXCEPT ![o.id] =
                        [docs[o.id] EXCEPT !.roles = docs[o.id].roles \ {o.grant}]]
    BY <2>2, <2>5, Zenon DEF Associate, Disassociate, Doc
  <2> QED BY <1>4, <2>1, <2>4, <2>6
<1> QED BY <1>3, <1>5, <1>6

LEMMA AssociateKnows == ASSUME CInv, NEW r \in Requests, AssociateAuthor(r) PROVE Known(r)'
<1>1. At(r, "associate") /\ IInv
  BY Zenon DEF AssociateAuthor, CInv
<1>2. request[r].verb \in {"create", "update"}
  BY <1>1, AtStep, Zenon DEF Placed
<1>3. Grows
  BY <1>1, Granting DEF Grows
<1> QED BY <1>1, <1>2, <1>3, AssociateMoves, StepOfAuthor

LEMMA PullRolesKnows == ASSUME CInv, NEW r \in Requests, PullRoles(r) PROVE Known(r)'
<1>1. docs' = docs /\ Wrote(r, request[r], {}) /\ IInv
  BY PullRolesKeep DEF CInv
<1>2. PICK step \in DOMAIN Pulled : At(r, step)
  BY <1>1, PullRolesKeep
<1>3. request[r].verb = "delete" /\ request[r] \in RequestType
  BY <1>1, <1>2, Takes, PullingTakes, AtStep
<1>4. step \notin Removals \cup {"readProjects", "readInventories"}
  BY DEF Pulled, Removals, ByProject, ByInventory, ByOrganization, ByTemplate
<1>5. Same(request[r], request[r])
  BY <1>3 DEF Same
<1>6. \A d \in Ids : IsDoc(d)' => IsDoc(d) /\ docs'[d] = docs[d]
  BY <1>1 DEF IsDoc
<1> QED BY <1>1, <1>2, <1>3, <1>4, <1>5, <1>6, QuietRemover

LEMMA ReadChildrenKnows == ASSUME CInv, NEW r \in Requests, ReadChildren(r) PROVE Known(r)'
<1> DEFINE o == request[r]
<1>1. docs' = docs /\ IInv
  BY Zenon DEF ReadChildren, CInv
<1>2. \A d \in Ids : IsDoc(d)' => IsDoc(d) /\ docs'[d] = docs[d]
  BY <1>1 DEF IsDoc
<1>3. \A kind, owner : PresentIn(kind, owner) \in SUBSET Ids
  BY Zenon DEF PresentIn, Of
<1>4. ASSUME NEW step \in {"readProjects", "readInventories"}, At(r, step)
      PROVE  /\ o \in RequestType /\ o.status = "running" /\ o.verb = "delete" /\ Known(r)
             /\ Now(r) = step /\ request \in [Requests -> RequestType]
  <2>1. step \in Takings
    BY DEF Takings
  <2> QED BY <1>1, <1>4, <2>1, Takes, AtStep, Zenon DEF CInv
<1>5. \A step \in Removals : step \notin {"readProjects", "readInventories"}
  BY DEF Removals, ByProject, ByInventory, ByOrganization, ByTemplate
<1>6. CASE /\ At(r, "readProjects")
           /\ Proceed(r, [o EXCEPT !.projects = PresentIn("project", o.id)])
  <2> DEFINE q == [o EXCEPT !.projects = PresentIn("project", o.id)]
  <2>1. /\ o \in RequestType /\ o.status = "running" /\ o.verb = "delete" /\ Known(r)
        /\ Now(r) = "readProjects" /\ request \in [Requests -> RequestType]
    BY <1>4, <1>6
  <2>2. Same(q, o) /\ q.projects = PresentIn("project", o.id)
    BY <1>3, <2>1, Zenon DEF RequestType, Same
  <2>3. request'[r] = Onward(q)
    BY <1>6, <2>1, Zenon DEF Proceed
  <2>4. /\ PresentIn("project", o.id) \subseteq q.projects
        /\ \A step \in Removals : Now(r) # step
    BY <1>5, <2>1, <2>2
  <2> HIDE DEF q, Now
  <2> QED BY <1>2, <2>1, <2>2, <2>3, <2>4, RemoverKnows
<1>7. ASSUME NEW found \in SUBSET Ids, At(r, "readInventories"),
             Proceed(r, [o EXCEPT !.inventories = found])
      PROVE  Known(r)'
  <2> DEFINE q == [o EXCEPT !.inventories = found]
  <2>1. /\ o \in RequestType /\ o.status = "running" /\ o.verb = "delete" /\ Known(r)
        /\ Now(r) = "readInventories" /\ request \in [Requests -> RequestType]
    BY <1>4, <1>7
  <2>2. Same(q, o) /\ q.projects = o.projects
    BY <2>1, Zenon DEF RequestType, Same
  <2>3. request'[r] = Onward(q)
    BY <1>7, <2>1, Zenon DEF Proceed
  <2>4. \A step \in Removals : Now(r) # step
    BY <1>5, <2>1
  <2> HIDE DEF q, Now
  <2> QED BY <1>2, <2>1, <2>2, <2>3, <2>4, RemoverKnows
<1>8. \A found \in SUBSET PresentIn("inventory", o.id) : found \in SUBSET Ids
  BY <1>3, Zenon
<1> QED BY <1>6, <1>7, <1>8, Zenon DEF ReadChildren

\* What is left after a removal, and who may have made it.
LEMMA Remained ==
    ASSUME IInv, NEW r \in Requests, NEW step \in Removals \cup {"remove"}, Removing(r, step)
    PROVE  /\ request[r] \in RequestType /\ request[r].status = "running"
           /\ request[r].verb = "delete" /\ Now(r) = step /\ At(r, step) /\ Fits(r)
           /\ request'[r] = Onward(request[r])
           /\ \A d \in Selected(request[r], step) : docs'[d] = Gone
           /\ \A d \in Ids \ Selected(request[r], step) : docs'[d] = docs[d]
           /\ \A d \in Ids : IsDoc(d)' =>
                  IsDoc(d) /\ docs'[d] = docs[d] /\ d \notin Selected(request[r], step)
<1>1. /\ At(r, step) /\ Wrote(r, request[r], Selected(request[r], step))
      /\ docs' = [d \in Ids |-> IF d \in Selected(request[r], step) THEN Gone ELSE docs[d]]
  BY Zenon DEF Removing
<1>2. /\ request[r] \in RequestType /\ request[r].status = "running" /\ Now(r) = step /\ Fits(r)
      /\ request \in [Requests -> RequestType]
  BY <1>1, AtStep, Zenon
<1>3. request[r].verb = "delete"
  BY <1>1, Takes, RemovingTakes
<1>4. request'[r] = Onward(request[r])
  BY <1>1, Zenon DEF Wrote
<1>5. Selected(request[r], step) \subseteq Ids
  BY Zenon DEF Selected
<1>6. /\ \A d \in Selected(request[r], step) : docs'[d] = Gone
      /\ \A d \in Ids \ Selected(request[r], step) : docs'[d] = docs[d]
  BY <1>1, <1>5, Zenon
<1>7. \A d \in Ids : IsDoc(d)' =>
          IsDoc(d) /\ docs'[d] = docs[d] /\ d \notin Selected(request[r], step)
  BY <1>6 DEF IsDoc
<1> QED BY <1>1, <1>2, <1>3, <1>4, <1>6, <1>7

LEMMA RemovingKnows ==
    ASSUME CInv, NEW r \in Requests, NEW step \in Removals \cup {"remove"}, Removing(r, step)
    PROVE  Known(r)'
<1> DEFINE o == request[r]
<1>1. IInv /\ Known(r)
  BY DEF CInv
<1>2. /\ o \in RequestType /\ o.status = "running" /\ o.verb = "delete" /\ Now(r) = step
      /\ request'[r] = Onward(o)
      /\ \A d \in Ids : IsDoc(d)' => IsDoc(d) /\ docs'[d] = docs[d] /\ d \notin Selected(o, step)
  BY <1>1, Remained
<1>3. step \notin {"readProjects", "readInventories"}
  BY DEF Removals, ByProject, ByInventory, ByOrganization, ByTemplate
<1>4. Same(o, o)
  BY <1>2 DEF Same
<1>5. ASSUME request'[r].status = "running" PROVE Selected(o, step)' = {}
  <2>1. /\ request'[r].id = o.id /\ request'[r].projects = o.projects
        /\ request'[r].inventories = o.inventories
    BY <1>2, <1>5, OnwardKeeps
  <2>2. ASSUME NEW d, (d \in Selected(o, step))' PROVE d \in Selected(o, step) /\ IsDoc(d)'
    <3>1. d \in Ids /\ IsDoc(d)'
      BY <2>2, Zenon DEF Selected
    <3>2. IsDoc(d) /\ docs'[d] = docs[d]
      BY <1>2, <3>1
    <3> QED BY <2>1, <2>2, <3>1, <3>2, Zenon DEF Selected
  <2>3. \A d : (d \in Selected(o, step))' => d \in Ids
    BY Zenon DEF Selected
  <2> QED BY <1>2, <2>2, <2>3
<1>6. /\ Now(r) \notin {"readProjects", "readInventories"}
      /\ Now(r) # "readProjects" /\ Now(r) # "readInventories"
  BY <1>2, <1>3
<1>7. request'[r].status = "running" => \A x \in Removals : Now(r) = x => Selected(o, x)' = {}
  BY <1>2, <1>5
<1>8. \A d \in Ids : IsDoc(d)' => IsDoc(d) /\ docs'[d] = docs[d]
  BY <1>2
<1> HIDE DEF Now
<1> QED BY <1>1, <1>2, <1>4, <1>6, <1>7, <1>8, RemoverKnows

LEMMA ActorKnows == ASSUME CInv, NEW r \in Requests, Action(r) PROVE Known(r)'
<1>1. IInv
  BY DEF CInv
<1>2. CASE Receive(r) \/ Reject(r) \/ AssociateFails(r)
  BY <1>1, <1>2, EndKnows, ReceiveKnows
<1>3. CASE \/ Load(r) \/ Permission(r) \/ Exist(r) \/ IsUnique(r) \/ OrganizationAdmin(r)
           \/ OrganizationWriteByIDCheck(r) \/ ProjectReadByIDCheck(r)
  BY <1>3, LoadKnows, PlainKnows, RefusingKnows, IsUniqueKnows, OrganizationAdminKnows
<1>4. CASE \/ Insert(r) \/ Save(r) \/ AssociateAuthor(r)
           \/ LoadGrantee(r) \/ Find(r) \/ ModifyRole(r)
  BY <1>4, InsertKnows, SaveKnows, AssociateKnows, AssigningKnows
<1>5. CASE PullRoles(r) \/ ReadChildren(r) \/ RemoveAll(r) \/ RemoveId(r)
  BY <1>5, PullRolesKnows, ReadChildrenKnows, RemovingKnows, Zenon DEF RemoveAll, RemoveId
<1> QED BY <1>2, <1>3, <1>4, <1>5, Zenon DEF Action

--------------------------------------------------------------------------------

\* The other requests are told of every write.
LEMMA ActorTells ==
    ASSUME IInv, NEW r \in Requests, Action(r)
    PROVE  \E ids : Tells(r, ids)
<1>1. request \in [Requests -> RequestType] /\ docs \in DocsType
  BY Zenon DEF IInv, TypeOK, DocsType
<1>2. CASE \/ Receive(r) \/ Reject(r) \/ Load(r) \/ Permission(r)
           \/ OrganizationWriteByIDCheck(r) \/ ProjectReadByIDCheck(r)
           \/ Exist(r) \/ IsUnique(r) \/ OrganizationAdmin(r) \/ AssociateFails(r)
           \/ LoadGrantee(r) \/ Find(r) \/ ReadChildren(r)
  <2>1. docs' = docs
    BY <1>2, Readers
  <2>2. CASE Receive(r) \/ Reject(r) \/ AssociateFails(r)
    <3>1. \E x : request' = [request EXCEPT ![r] = x]
      BY <2>2, Zenon DEF Receive, Reject, AssociateFails
    <3> QED BY <1>1, <2>1, <3>1, QuietTells
  <2>3. CASE Load(r) \/ Permission(r) \/ Exist(r) \/ IsUnique(r) \/ LoadGrantee(r)
    <3>1. \E q : Proceed(r, q)
      BY <2>3, Zenon DEF Load, Permission, Exist, IsUnique, LoadGrantee
    <3> QED BY <1>1, <2>1, <3>1, QuietTells
  <2>4. CASE OrganizationWriteByIDCheck(r) \/ ProjectReadByIDCheck(r)
    <3>1. \E q : Proceed(r, q)
      BY <2>4, Zenon DEF OrganizationWriteByIDCheck, ProjectReadByIDCheck
    <3> QED BY <1>1, <2>1, <3>1, QuietTells
  <2>5. CASE OrganizationAdmin(r) \/ Find(r) \/ ReadChildren(r)
    <3>1. \E q : Proceed(r, q)
      BY <2>5, Zenon DEF OrganizationAdmin, Find, ReadChildren
    <3> QED BY <1>1, <2>1, <3>1, QuietTells
  <2> QED BY <1>2, <2>2, <2>3, <2>4, <2>5
<1>3. CASE Insert(r)
  <2>1. PICK id, doc, q : docs' = [docs EXCEPT ![id] = doc] /\ Wrote(r, q, {id})
    BY <1>3, Zenon DEF Insert
  <2>2. \A d \in Ids \ {id} : docs'[d] = docs[d]
    BY <1>1, <2>1, Zenon DEF DocsType
  <2> QED BY <1>1, <2>1, <2>2, WroteTells
<1>4. CASE Save(r) \/ ModifyRole(r)
  <2> DEFINE id == request[r].id
  <2>1. PICK doc : docs' = [docs EXCEPT ![id] = doc] /\ Wrote(r, request[r], {id})
    BY <1>4, Zenon DEF Save, ModifyRole
  <2>2. \A d \in Ids \ {id} : docs'[d] = docs[d]
    BY <1>1, <2>1, Zenon DEF DocsType
  <2> QED BY <1>1, <2>1, <2>2, WroteTells
<1>5. CASE AssociateAuthor(r)
  <2> DEFINE id == request[r].id
  <2>1. CASE Proceed(r, request[r]) /\ docs' = docs
    BY <1>1, <2>1, QuietTells
  <2>2. ASSUME NEW doc, docs' = [docs EXCEPT ![id] = doc], Wrote(r, request[r], {id})
        PROVE  \E ids : Tells(r, ids)
    <3>1. \A d \in Ids \ {id} : docs'[d] = docs[d]
      BY <1>1, <2>2, Zenon DEF DocsType
    <3> QED BY <1>1, <2>2, <3>1, WroteTells
  <2> QED BY <1>5, <2>1, <2>2, Zenon DEF AssociateAuthor
<1>6. CASE PullRoles(r)
  <2>1. docs' = docs /\ Wrote(r, request[r], {})
    BY <1>6, PullRolesKeep
  <2>2. \A d \in Ids \ {} : docs'[d] = docs[d]
    BY <2>1
  <2> QED BY <1>1, <2>1, <2>2, WroteTells
<1>7. CASE RemoveAll(r) \/ RemoveId(r)
  <2>1. PICK step \in Removals \cup {"remove"} : Removing(r, step)
    BY <1>7, Zenon DEF RemoveAll, RemoveId
  <2>2. Wrote(r, request[r], Selected(request[r], step))
    BY <2>1, Zenon DEF Removing
  <2>3. \A d \in Ids \ Selected(request[r], step) : docs'[d] = docs[d]
    BY <2>1, Remained
  <2> QED BY <1>1, <2>2, <2>3, WroteTells
<1> QED BY <1>2, <1>3, <1>4, <1>5, <1>6, <1>7, Zenon DEF Action

\* What a create or an update stores has an owner that was looked up.
LEMMA OwnerLookedUp ==
    ASSUME CInv, NEW r \in Requests, At(r, "insert") \/ At(r, "save")
    PROVE  LET q == request[r] IN
           /\ q.body.template = None
           /\ q.body.owner # None =>
                  /\ q.kind \in DOMAIN OwnerKind /\ KindOf[q.body.owner] = OwnerKind[q.kind]
                  /\ IsDoc(q.body.owner) \/ q.body.owner \in q.touched
<1> DEFINE q == request[r]
<1>1. PICK step \in {"insert", "save"} : At(r, step)
  OBVIOUS
<1>2. /\ q \in RequestType /\ q.status = "running" /\ Known(r)
      /\ HandlerOf(q)[q.next] = step /\ Placed(q.verb, q.kind, HandlerOf(q), q.next)
  BY <1>1, AtStep, Zenon DEF CInv
<1>3. q.verb \in {"create", "update"}
  BY <1>1, <1>2, Zenon DEF Placed
<1>4. Bodied(r) /\ Checked(r)
  BY <1>2 DEF Known
<1>5. q.kind \in {"organization", "user"} \/ Past(q, {"ownerExist"})
  <2>1. CascadeShaped(q.verb, q.kind, HandlerOf(q))
    BY <1>2, Cascades
  <2>2. q.next \in DOMAIN HandlerOf(q)
    BY <1>1, Zenon DEF At
  <2> QED BY <1>1, <1>2, <2>1, <2>2, Zenon DEF CascadeShaped, Past
<1> QED BY <1>3, <1>4, <1>5, Zenon DEF Bodied, Checked

\* The document that Insert or Save stores.
LEMMA Stored ==
    ASSUME CInv, NEW r \in Requests, Insert(r) \/ Save(r)
    PROVE  /\ At(r, "insert") \/ At(r, "save")
           /\ \E id \in Of(request[r].kind) :
                  /\ docs'[id].owner = request[r].body.owner
                  /\ docs'[id].template = request[r].body.template
                  /\ \A d \in Ids \ {id} : docs'[d] = docs[d]
<1> DEFINE q == request[r]
<1>1. IInv /\ docs \in DocsType
  BY Zenon DEF CInv, IInv, TypeOK, DocsType
<1>2. CASE Insert(r)
  <2>1. At(r, "insert")
    BY <1>2, Zenon DEF Insert
  <2>2. q.body \in Doc
    BY <1>1, <2>1, AtStep, SMT DEF Placed, Fits
  <2>3. PICK id \in Of(q.kind) : docs' = [docs EXCEPT ![id] = [q.body EXCEPT !.name = StoredName(q)]]
    BY <1>2, Zenon DEF Insert
  <2>4. id \in Ids
    BY DEF Of
  <2>5. /\ docs'[id] = [q.body EXCEPT !.name = StoredName(q)]
        /\ \A d \in Ids \ {id} : docs'[d] = docs[d]
    BY <1>1, <2>3, <2>4, Zenon DEF DocsType
  <2>6. docs'[id].owner = q.body.owner /\ docs'[id].template = q.body.template
    BY <2>2, <2>5, Zenon DEF Doc
  <2> QED BY <2>1, <2>5, <2>6
<1>3. CASE Save(r)
  <2>1. /\ q.id \in Of(q.kind) /\ At(r, "save") /\ q.body \in Doc
        /\ \A d \in Ids \ {q.id} : docs'[d] = docs[d]
        /\ docs'[q.id] = [q.body EXCEPT !.name = StoredName(q), !.roles = q.old.roles]
    BY <1>1, <1>3, Saved
  <2>2. docs'[q.id].owner = q.body.owner /\ docs'[q.id].template = q.body.template
    BY <2>1, Zenon DEF Doc
  <2> QED BY <2>1, <2>2
<1> QED BY <1>2, <1>3

LEMMA SortedStep == ASSUME CInv, [Next]_vars PROVE Sorted'
<1>1. IInv /\ Sorted
  BY DEF CInv
<1>2. CASE docs' = docs
  BY <1>1, <1>2, Zenon DEF Sorted, IsDoc, Belongs
<1>3. CASE docs' # docs
  <2>1. PICK r \in Requests : Writer(r)
    BY <1>1, <1>3, OnlyWriters
  <2>2. CASE Insert(r) \/ Save(r)
    <3>1. PICK id \in Of(request[r].kind) :
              /\ docs'[id].owner = request[r].body.owner
              /\ docs'[id].template = request[r].body.template
              /\ \A d \in Ids \ {id} : docs'[d] = docs[d]
      BY <2>2, Stored
    <3>2. Belongs(KindOf[id], docs'[id])
      BY <2>2, <3>1, Stored, OwnerLookedUp, Zenon DEF Belongs, Of
    <3>3. ASSUME NEW d \in Ids, IsDoc(d)' PROVE Belongs(KindOf[d], docs'[d])
      <4>1. d # id => docs'[d] = docs[d] /\ IsDoc(d)
        BY <3>1, <3>3 DEF IsDoc
      <4> QED BY <1>1, <3>2, <4>1 DEF Sorted
    <3> QED BY <3>3, Zenon DEF Sorted, Belongs
  <2>3. CASE AssociateAuthor(r) \/ ModifyRole(r)
    <3>1. \A d \in Ids : IsDoc(d)' =>
              IsDoc(d) /\ docs'[d].owner = docs[d].owner /\ docs'[d].template = docs[d].template
      BY <1>1, <2>3, Granting
    <3>2. ASSUME NEW d \in Ids, IsDoc(d)' PROVE Belongs(KindOf[d], docs'[d])
      BY <1>1, <3>1, <3>2, Zenon DEF Sorted, Belongs
    <3> QED BY <3>2, Zenon DEF Sorted, Belongs
  <2>4. CASE RemoveAll(r) \/ RemoveId(r)
    <3>1. \A d \in Ids : IsDoc(d)' => IsDoc(d) /\ docs'[d] = docs[d]
      BY <1>1, <2>4, Remained, Zenon DEF RemoveAll, RemoveId
    <3>2. ASSUME NEW d \in Ids, IsDoc(d)' PROVE Belongs(KindOf[d], docs'[d])
      BY <1>1, <3>1, <3>2, Zenon DEF Sorted
    <3> QED BY <3>2, Zenon DEF Sorted, Belongs
  <2> QED BY <2>1, <2>2, <2>3, <2>4, Zenon DEF Writer
<1> QED BY <1>2, <1>3

LEMMA InitCInv == Init => CInv
<1> SUFFICES ASSUME Init PROVE CInv
  OBVIOUS
<1>1. IInv
  BY InitIInv
<1>2. Sorted
  <2>1. docs \in InitialDocs /\ docs \in [Ids -> Doc \cup {Unborn, Gone}]
    BY InitialAssumption DEF Init
  <2>2. ASSUME NEW d \in Ids, IsDoc(d) PROVE docs[d] \in Doc
    BY <2>1, <2>2 DEF IsDoc
  <2> QED BY <2>1, <2>2, InitialAssumption, Zenon DEF Sorted
<1>3. \A r \in Requests : Known(r)
  <2>1. Idle.status = "idle"
    BY DEF Idle
  <2> QED BY <2>1 DEF Init, Known
<1> QED BY <1>1, <1>2, <1>3, Zenon DEF CInv

LEMMA NextCInv == ASSUME CInv, [Next]_vars PROVE CInv'
<1>1. IInv'
  BY NextIInv DEF CInv
<1>2. Sorted'
  BY SortedStep
<1>3. ASSUME NEW s \in Requests PROVE Known(s)'
  <2>1. Known(s) /\ IInv
    BY <1>3 DEF CInv
  <2>2. CASE UNCHANGED vars
    <3>1. request' = request /\ docs' = docs
      BY <2>2 DEF vars
    <3>2. request[s] \in RequestType
      BY <2>1, Zenon DEF IInv, TypeOK
    <3>3. Sees(request'[s], request[s], {})
      BY <3>1, <3>2, SMT DEF Sees
    <3>4. \A d \in Ids \ {} : docs'[d] = docs[d]
      BY <3>1
    <3> QED BY <2>1, <3>3, <3>4, OthersKnow
  <2>3. CASE Next
    <3>1. PICK r \in Requests : Action(r)
      BY <2>3, Zenon DEF Next, Action
    <3>2. CASE r = s
      BY <3>1, <3>2, ActorKnows
    <3>3. CASE r # s
      <4>1. PICK ids : Tells(r, ids)
        BY <2>1, <3>1, ActorTells
      <4>2. Sees(request'[s], request[s], ids) /\ \A d \in Ids \ ids : docs'[d] = docs[d]
        BY <3>3, <4>1, Zenon DEF Tells
      <4> QED BY <2>1, <4>2, OthersKnow
    <3> QED BY <3>2, <3>3
  <2> QED BY <2>2, <2>3
<1> QED BY <1>1, <1>2, <1>3, Zenon DEF CInv

\* CInv is an invariant.
THEOREM Knowledge == Spec => []CInv
<1>1. Init => CInv
  BY InitCInv
<1>2. CInv /\ [Next]_vars => CInv'
  BY NextCInv
<1> QED BY <1>1, <1>2, PTL DEF Spec

--------------------------------------------------------------------------------

\* What the steps of removals select.
LEMMA SelectedBy ==
    ASSUME NEW q, NEW d \in Ids, IsDoc(d)
    PROVE  /\ KindOf[d] = "job" /\ docs[d].owner \in q.projects => d \in Selected(q, "removeJobs")
           /\ KindOf[d] = "jobTemplate" /\ docs[d].owner \in q.projects =>
                  d \in Selected(q, "removeJobTemplates")
           /\ KindOf[d] = "terraformJob" /\ docs[d].owner \in q.projects =>
                  d \in Selected(q, "removeTerraformJobs")
           /\ KindOf[d] = "terraformTemplate" /\ docs[d].owner \in q.projects =>
                  d \in Selected(q, "removeTerraformTemplates")
           /\ KindOf[d] = "host" /\ docs[d].owner \in q.inventories =>
                  d \in Selected(q, "removeHosts")
           /\ KindOf[d] = "group" /\ docs[d].owner \in q.inventories =>
                  d \in Selected(q, "removeGroups")
           /\ KindOf[d] = "project" /\ docs[d].owner = q.id => d \in Selected(q, "removeProjects")
           /\ KindOf[d] = "inventory" /\ docs[d].owner = q.id =>
                  d \in Selected(q, "removeInventories")
           /\ KindOf[d] = "team" /\ docs[d].owner = q.id => d \in Selected(q, "removeTeams")
           /\ KindOf[d] = "credential" /\ docs[d].owner = q.id =>
                  d \in Selected(q, "removeCredentials")
           /\ KindOf[d] = "job" /\ docs[d].template = q.id =>
                  d \in Selected(q, "removeTemplateJobs")
           /\ KindOf[d] = "terraformJob" /\ docs[d].template = q.id =>
                  d \in Selected(q, "removeTerraformTemplateJobs")
  BY SMT DEF Selected, ByProject, ByInventory, ByOrganization, ByTemplate

LEMMA RemovalSteps ==
    Removals = {"removeJobs", "removeJobTemplates", "removeTerraformJobs",
        "removeTerraformTemplates", "removeProjects", "removeHosts", "removeGroups",
        "removeInventories", "removeTeams", "removeCredentials", "removeTemplateJobs",
        "removeTerraformTemplateJobs"}
  BY DEF Removals, ByProject, ByInventory, ByOrganization, ByTemplate

\* What a removal takes, by its step.
LEMMA Taken ==
    ASSUME NEW q, NEW step \in Removals \cup {"remove"}, NEW p \in Selected(q, step)
    PROVE  /\ p \in Ids /\ IsDoc(p)
           /\ step = "removeJobs" => KindOf[p] = "job"
           /\ step = "removeTerraformJobs" => KindOf[p] = "terraformJob"
           /\ step = "removeJobTemplates" => KindOf[p] = "jobTemplate" /\ docs[p].owner \in q.projects
           /\ step = "removeTerraformTemplates" =>
                  KindOf[p] = "terraformTemplate" /\ docs[p].owner \in q.projects
           /\ step = "removeHosts" => KindOf[p] = "host"
           /\ step = "removeGroups" => KindOf[p] = "group"
           /\ step = "removeProjects" => KindOf[p] = "project" /\ docs[p].owner = q.id
           /\ step = "removeInventories" => KindOf[p] = "inventory" /\ docs[p].owner = q.id
           /\ step = "removeTeams" => KindOf[p] = "team"
           /\ step = "removeCredentials" => KindOf[p] = "credential"
           /\ step = "removeTemplateJobs" => KindOf[p] = "job"
           /\ step = "removeTerraformTemplateJobs" => KindOf[p] = "terraformJob"
           /\ step = "remove" => p = q.id
<1>1. p \in Ids /\ IsDoc(p)
  BY Zenon DEF Selected
<1> QED BY <1>1, SMT DEF Selected, ByProject, ByInventory, ByOrganization, ByTemplate

\* Which documents refer to which.
LEMMA Relatives ==
    ASSUME NEW kind, NEW doc, Belongs(kind, doc), NEW p \in Parents(doc)
    PROVE  \/ /\ doc.owner = p
              /\ \/ KindOf[p] = "organization" /\ kind \in {"team", "credential", "inventory", "project"}
                 \/ KindOf[p] = "project" /\ kind \in {"jobTemplate", "terraformTemplate", "job", "terraformJob"}
                 \/ KindOf[p] = "inventory" /\ kind \in {"host", "group"}
           \/ /\ doc.template = p
              /\ \/ KindOf[p] = "jobTemplate" /\ kind = "job"
                 \/ KindOf[p] = "terraformTemplate" /\ kind = "terraformJob"
<1>1. p # None /\ p \in {doc.owner, doc.template}
  BY DEF Parents
<1>2. CASE doc.owner = p
  <2>1. kind \in DOMAIN OwnerKind /\ KindOf[p] = OwnerKind[kind]
    BY <1>1, <1>2, Zenon DEF Belongs
  <2> QED BY <1>2, <2>1 DEF OwnerKind
<1>3. CASE doc.template = p
  <2>1. kind \in DOMAIN TemplateKind /\ KindOf[p] = TemplateKind[kind]
    BY <1>1, <1>3, Zenon DEF Belongs
  <2> QED BY <1>3, <2>1 DEF TemplateKind
<1> QED BY <1>1, <1>2, <1>3

\* What comes before a step of a removal has been done, and has left nothing.
LEMMA Prior ==
    ASSUME CInv, NEW r \in Requests, NEW step, At(r, step), request[r].verb = "delete",
           NEW x \in PreparedFor(step) \cup IF step = "remove" THEN Prepared(request[r].kind) ELSE {}
    PROVE  /\ Past(request[r], {x})
           /\ x \in Removals => Selected(request[r], x) \subseteq request[r].touched
<1> DEFINE o == request[r]
<1>1. /\ o \in RequestType /\ o.status = "running" /\ Known(r) /\ HandlerOf(o)[o.next] = step
      /\ o.next \in DOMAIN HandlerOf(o)
  BY AtStep, Zenon DEF CInv, At
<1>2. CascadeShaped(o.verb, o.kind, HandlerOf(o))
  BY <1>1, Cascades
<1>3. Past(o, {x})
  BY <1>1, <1>2, Zenon DEF CascadeShaped, Past
<1> QED BY <1>1, <1>3, Zenon DEF Known, Emptied

\* The document d outlives p, to which it refers.
Outlived(r, step, d, p) ==
    /\ r \in Requests /\ step \in Removals \cup {"remove"} /\ At(r, step)
    /\ request[r].verb = "delete" /\ Fits(r)
    /\ d \in Ids /\ IsDoc(d) /\ p \in Selected(request[r], step)
    /\ p \in Parents(docs[d]) /\ Belongs(KindOf[d], docs[d])

\* Contents that a removal has taken before were written since.
Excused(r, step, d, p) ==
    \/ {d, p} \cap request[r].touched # {}
    \/ docs[d].template = p /\ docs[d].owner # docs[p].owner
    \/ /\ KindOf[d] \in {"terraformTemplate", "terraformJob"} /\ KindOf[p] = "project"
       /\ step = "remove" /\ request[r].kind = "project"
    \/ KindOf[p] = "inventory" /\ step = "removeInventories" /\ p \notin request[r].inventories

LEMMA OutlivesTemplates ==
    ASSUME CInv, NEW r, NEW step \in {"removeJobTemplates", "removeTerraformTemplates"}, NEW d,
           NEW p, Outlived(r, step, d, p)
    PROVE  Excused(r, step, d, p)
<1> DEFINE q == request[r]
<1>1. /\ r \in Requests /\ At(r, step) /\ q.verb = "delete" /\ d \in Ids /\ IsDoc(d)
      /\ p \in Selected(q, step) /\ p \in Parents(docs[d]) /\ Belongs(KindOf[d], docs[d])
      /\ step \in Removals \cup {"remove"}
  BY Zenon DEF Outlived
<1> USE <1>1
<1>2. docs[p].owner \in q.projects
  BY Taken
<1>3. CASE step = "removeJobTemplates"
  <2>1. docs[d].template = p /\ KindOf[d] = "job"
    BY <1>3, Taken, Relatives
  <2>2. Selected(q, "removeJobs") \subseteq q.touched
    BY <1>3, Prior, RemovalSteps DEF PreparedFor
  <2> QED BY <1>2, <2>1, <2>2, SelectedBy DEF Excused
<1>4. CASE step = "removeTerraformTemplates"
  <2>1. docs[d].template = p /\ KindOf[d] = "terraformJob"
    BY <1>4, Taken, Relatives
  <2>2. Selected(q, "removeTerraformJobs") \subseteq q.touched
    BY <1>4, Prior, RemovalSteps DEF PreparedFor
  <2> QED BY <1>2, <2>1, <2>2, SelectedBy DEF Excused
<1> QED BY <1>3, <1>4

LEMMA OutlivesProjects ==
    ASSUME CInv, NEW r, NEW d, NEW p, Outlived(r, "removeProjects", d, p)
    PROVE  Excused(r, "removeProjects", d, p)
<1> DEFINE q == request[r]
<1>1. /\ r \in Requests /\ At(r, "removeProjects") /\ q.verb = "delete" /\ d \in Ids /\ IsDoc(d)
      /\ p \in Selected(q, "removeProjects") /\ p \in Parents(docs[d])
      /\ Belongs(KindOf[d], docs[d]) /\ "removeProjects" \in Removals \cup {"remove"}
  BY Zenon DEF Outlived
<1> USE <1>1
<1>2. p \in Ids /\ IsDoc(p) /\ KindOf[p] = "project" /\ docs[p].owner = q.id
  BY Taken
<1>3. docs[d].owner = p /\ KindOf[d] \in {"jobTemplate", "terraformTemplate", "job", "terraformJob"}
  BY <1>2, Relatives
<1>4. PreparedFor("removeProjects") =
          {"readProjects", "removeJobs", "removeJobTemplates", "removeTerraformJobs",
           "removeTerraformTemplates"}
  BY DEF PreparedFor
<1>5. p \in q.projects \cup q.touched
  <2>1. Past(q, {"readProjects"})
    BY <1>4, Prior
  <2>2. Known(r) /\ q.status = "running"
    BY Zenon DEF CInv, At
  <2>3. PresentIn("project", q.id) \subseteq q.projects \cup q.touched
    BY <2>1, <2>2, Zenon DEF Known, Emptied
  <2>4. p \in PresentIn("project", q.id)
    BY <1>2, Zenon DEF PresentIn, Of
  <2> QED BY <2>3, <2>4
<1>6. /\ Selected(q, "removeJobs") \subseteq q.touched
      /\ Selected(q, "removeJobTemplates") \subseteq q.touched
      /\ Selected(q, "removeTerraformJobs") \subseteq q.touched
      /\ Selected(q, "removeTerraformTemplates") \subseteq q.touched
  BY <1>4, Prior, RemovalSteps
<1> QED BY <1>3, <1>5, <1>6, SelectedBy DEF Excused

LEMMA OutlivesInventories ==
    ASSUME CInv, NEW r, NEW d, NEW p, Outlived(r, "removeInventories", d, p)
    PROVE  Excused(r, "removeInventories", d, p)
<1> DEFINE q == request[r]
<1>1. /\ r \in Requests /\ At(r, "removeInventories") /\ q.verb = "delete" /\ d \in Ids
      /\ IsDoc(d) /\ p \in Selected(q, "removeInventories") /\ p \in Parents(docs[d])
      /\ Belongs(KindOf[d], docs[d]) /\ "removeInventories" \in Removals \cup {"remove"}
  BY Zenon DEF Outlived
<1> USE <1>1
<1>2. KindOf[p] = "inventory"
  BY Taken
<1>3. docs[d].owner = p /\ KindOf[d] \in {"host", "group"}
  BY <1>2, Relatives
<1>4. /\ Selected(q, "removeHosts") \subseteq q.touched
      /\ Selected(q, "removeGroups") \subseteq q.touched
  BY Prior, RemovalSteps DEF PreparedFor
<1> QED BY <1>2, <1>3, <1>4, SelectedBy DEF Excused

LEMMA OutlivesOne ==
    ASSUME CInv, NEW r, NEW d, NEW p, Outlived(r, "remove", d, p)
    PROVE  Excused(r, "remove", d, p)
<1> DEFINE q == request[r]
<1>1. /\ r \in Requests /\ At(r, "remove") /\ q.verb = "delete" /\ d \in Ids /\ IsDoc(d)
      /\ p \in Selected(q, "remove") /\ p \in Parents(docs[d]) /\ Fits(r)
      /\ Belongs(KindOf[d], docs[d]) /\ "remove" \in Removals \cup {"remove"}
  BY Zenon DEF Outlived
<1> USE <1>1
<1>2. p = q.id /\ KindOf[p] = q.kind
  <2>1. p = q.id
    BY Taken
  <2> QED BY <2>1 DEF Fits, Of
<1>3. \A x \in Prepared(q.kind) : x \in Removals => Selected(q, x) \subseteq q.touched
  BY Prior
<1>4. Known(r) /\ q.status = "running"
  BY Zenon DEF CInv, At
<1>5. /\ q.kind = "project" => q.projects = {p}
      /\ q.kind = "inventory" => q.inventories = {p}
  BY <1>2, <1>4, Zenon DEF Known, Emptied
<1>6. CASE KindOf[p] = "organization"
  <2>1. docs[d].owner = p /\ KindOf[d] \in {"team", "credential", "inventory", "project"}
    BY <1>6, Relatives
  <2>2. /\ Selected(q, "removeTeams") \subseteq q.touched
        /\ Selected(q, "removeCredentials") \subseteq q.touched
        /\ Selected(q, "removeInventories") \subseteq q.touched
        /\ Selected(q, "removeProjects") \subseteq q.touched
    BY <1>2, <1>3, <1>6, RemovalSteps DEF Prepared
  <2> QED BY <1>2, <2>1, <2>2, SelectedBy DEF Excused
<1>7. CASE KindOf[p] = "project"
  <2>1. docs[d].owner = p /\ KindOf[d] \in {"jobTemplate", "terraformTemplate", "job", "terraformJob"}
    BY <1>7, Relatives
  <2>2. /\ Selected(q, "removeJobs") \subseteq q.touched
        /\ Selected(q, "removeJobTemplates") \subseteq q.touched
    BY <1>2, <1>3, <1>7, RemovalSteps DEF Prepared
  <2>3. docs[d].owner \in q.projects
    BY <1>2, <1>5, <1>7, <2>1
  <2> QED BY <1>2, <1>7, <2>1, <2>2, <2>3, SelectedBy DEF Excused
<1>8. CASE KindOf[p] = "inventory"
  <2>1. docs[d].owner = p /\ KindOf[d] \in {"host", "group"}
    BY <1>8, Relatives
  <2>2. /\ Selected(q, "removeHosts") \subseteq q.touched
        /\ Selected(q, "removeGroups") \subseteq q.touched
    BY <1>2, <1>3, <1>8, RemovalSteps DEF Prepared
  <2>3. docs[d].owner \in q.inventories
    BY <1>2, <1>5, <1>8, <2>1
  <2> QED BY <2>1, <2>2, <2>3, SelectedBy DEF Excused
<1>9. CASE KindOf[p] \in {"jobTemplate", "terraformTemplate"}
  <2>1. /\ docs[d].template = p
        /\ \/ KindOf[p] = "jobTemplate" /\ KindOf[d] = "job"
           \/ KindOf[p] = "terraformTemplate" /\ KindOf[d] = "terraformJob"
    BY <1>9, Relatives
  <2>2. /\ KindOf[p] = "jobTemplate" => Selected(q, "removeTemplateJobs") \subseteq q.touched
        /\ KindOf[p] = "terraformTemplate" =>
               Selected(q, "removeTerraformTemplateJobs") \subseteq q.touched
    BY <1>2, <1>3, RemovalSteps DEF Prepared
  <2> QED BY <1>2, <2>1, <2>2, SelectedBy DEF Excused
<1> QED BY <1>6, <1>7, <1>8, <1>9, Relatives

\* Whatever outlives what it refers to is excused.
LEMMA Outlives ==
    ASSUME CInv, NEW r, NEW step, NEW d, NEW p, Outlived(r, step, d, p)
    PROVE  Excused(r, step, d, p)
<1>1. step \in Removals \cup {"remove"}
  BY Zenon DEF Outlived
<1>2. KindOf[p] \in {"organization", "project", "inventory", "jobTemplate", "terraformTemplate"}
  <2>1. p \in Parents(docs[d]) /\ Belongs(KindOf[d], docs[d])
    BY Zenon DEF Outlived
  <2> QED BY <2>1, Relatives
<1>3. step \in {"removeJobTemplates", "removeTerraformTemplates", "removeProjects",
                "removeInventories", "remove"}
  <2>1. p \in Selected(request[r], step)
    BY Zenon DEF Outlived
  <2> QED BY <1>1, <1>2, <2>1, Taken, RemovalSteps
<1> QED BY <1>3, OutlivesTemplates, OutlivesProjects, OutlivesInventories, OutlivesOne

\* A request that takes a step goes on or answers.
LEMMA OnwardActs ==
    ASSUME NEW r \in Requests, request[r] \in RequestType, request[r].status = "running",
           NEW q \in RequestType, q.next = request[r].next, request'[r] = Onward(q)
    PROVE  Acts(r)
<1>1. CASE q.next < Len(HandlerOf(q))
  <2>1. request'[r] = [q EXCEPT !.next = q.next + 1]
    BY <1>1, Zenon DEF Onward
  <2>2. request'[r].next = request[r].next + 1
    BY <2>1, Zenon DEF RequestType
  <2>3. request[r].next \in Nat
    BY Zenon DEF RequestType
  <2>4. request'[r].next # request[r].next
    BY <2>2, <2>3, SMT
  <2> QED BY <2>4, Zenon DEF Acts
<1>2. CASE ~(q.next < Len(HandlerOf(q)))
  <2>1. request'[r] = Answered("refused") \/ request'[r] = Answered("done")
    BY <1>2, Zenon DEF Onward
  <2>2. Answered("refused").status # "running" /\ Answered("done").status # "running"
    BY AnsweredType
  <2>3. request'[r].status # request[r].status
    BY <2>1, <2>2
  <2> QED BY <2>3, Zenon DEF Acts
<1> QED BY <1>1, <1>2

LEMMA StorerActs ==
    ASSUME IInv, NEW r \in Requests, Insert(r) \/ Save(r)
    PROVE  Acts(r)
<1>1. PICK step \in {"insert", "save"} : At(r, step)
  BY Zenon DEF Insert, Save
<1>2. request[r] \in RequestType /\ request[r].status = "running"
  BY <1>1, AtStep, Zenon
<1>3. CASE Insert(r)
  <2>1. PICK id \in Of(request[r].kind) : Wrote(r, [request[r] EXCEPT !.id = id], {id})
    BY <1>3, Zenon DEF Insert
  <2>2. id \in Ids \cup {None}
    BY DEF Of
  <2> DEFINE q == [request[r] EXCEPT !.id = id]
  <2>3. q \in RequestType /\ q.next = request[r].next
    BY <1>2, <2>2, SetId, Zenon
  <2>4. request'[r] = Onward(q)
    BY <2>1, Zenon DEF Wrote
  <2> HIDE DEF q
  <2> QED BY <1>2, <2>3, <2>4, OnwardActs
<1>4. CASE Save(r)
  <2>1. request'[r] = Onward(request[r])
    BY <1>4, Zenon DEF Save, Wrote
  <2> QED BY <1>2, <2>1, OnwardActs
<1> QED BY <1>3, <1>4

LEMMA OrphansStep == ASSUME CInv, [Next]_vars PROVE OrphansExplained
<1> SUFFICES ASSUME NEW d \in Ids, docs' # docs, IsDoc(d)', NEW p \in Parents(docs'[d]),
                    docs'[p] = Gone, ~(IsDoc(d) /\ p \in Parents(docs[d]) /\ docs[p] = Gone)
             PROVE  \/ \E r \in Requests : Acts(r) /\ {d, p} \cap request[r].touched # {}
                    \/ docs[d].template = p /\ docs[d].owner # docs[p].owner
                    \/ /\ KindOf[d] \in {"terraformTemplate", "terraformJob"}
                       /\ KindOf[p] = "project"
                       /\ \E r \in Requests : At(r, "remove") /\ request[r].kind = "project"
                    \/ /\ KindOf[p] = "inventory"
                       /\ \E r \in Requests : At(r, "removeInventories") /\ Acts(r)
                                              /\ p \notin request[r].inventories
  BY Zenon DEF OrphansExplained
<1>1. IInv /\ docs \in DocsType /\ docs' \in DocsType
  BY NextIInv, Zenon DEF CInv, IInv, TypeOK, DocsType
<1>2. p # None /\ p \in {docs'[d].owner, docs'[d].template} /\ docs'[d] \in Doc
  BY <1>1 DEF Parents, IsDoc, DocsType
<1>3. p \in Ids
  <2>1. docs'[d].owner \in Ids \cup {None} /\ docs'[d].template \in Ids \cup {None}
    BY <1>2, Zenon DEF Doc
  <2> QED BY <1>2, <2>1
<1>4. d # p
  BY DEF IsDoc
<1>5. PICK r \in Requests : Writer(r)
  BY <1>1, OnlyWriters
<1>6. CASE Insert(r) \/ Save(r)
  <2> DEFINE q == request[r]
  <2>1. PICK id \in Of(q.kind) :
            /\ docs'[id].owner = q.body.owner /\ docs'[id].template = q.body.template
            /\ \A x \in Ids \ {id} : docs'[x] = docs[x]
    BY <1>6, Stored
  <2>2. CASE d # id
    <3>1. docs'[d] = docs[d] /\ IsDoc(d) /\ p \in Parents(docs[d])
      BY <2>1, <2>2 DEF IsDoc
    <3>2. p = id
      BY <1>3, <2>1, <3>1
    <3>3. docs'[p] \in Doc
      <4>1. CASE Save(r)
        <5>1. q.id \in Ids /\ IsDoc(q.id) /\ \A x \in Ids \ {q.id} : docs'[x] = docs[x]
          BY <1>1, <4>1, Saved
        <5>2. p = q.id
          BY <1>3, <3>1, <5>1
        <5>3. \A x \in Ids : IsDoc(x) => IsDoc(x)'
          BY <1>1, <4>1, SaveGrows, Zenon DEF Grows
        <5> QED BY <1>1, <5>1, <5>2, <5>3 DEF IsDoc, DocsType
      <4>2. CASE Insert(r)
        <5>1. PICK x \in Of(q.kind), doc \in Doc :
                  docs'[x] = doc /\ \A y \in Ids \ {x} : docs'[y] = docs[y]
          BY <1>1, <4>2, Inserted
        <5>2. p = x
          BY <1>3, <3>1, <5>1
        <5> QED BY <5>1, <5>2
      <4> QED BY <1>6, <4>1, <4>2
    <3> QED BY <3>3, StatesAssumption
  <2>3. CASE d = id
    <3>1. At(r, "insert") \/ At(r, "save")
      BY <1>6, Stored
    <3>2. p = q.body.owner /\ (IsDoc(p) \/ p \in q.touched)
      BY <1>2, <2>1, <2>3, <3>1, OwnerLookedUp
    <3>3. docs[p] = Gone
      BY <1>3, <1>4, <2>1, <2>3
    <3>4. p \in q.touched
      BY <3>2, <3>3 DEF IsDoc
    <3>5. Acts(r)
      BY <1>1, <1>6, StorerActs
    <3> QED BY <3>4, <3>5
  <2> QED BY <2>2, <2>3
<1>7. CASE AssociateAuthor(r) \/ ModifyRole(r)
  <2>1. IsDoc(d) /\ docs'[d].owner = docs[d].owner /\ docs'[d].template = docs[d].template
    BY <1>1, <1>7, Granting
  <2>2. p \in Parents(docs[d])
    BY <1>2, <2>1 DEF Parents
  <2>3. docs[p] = Gone
    BY <1>1, <1>3, <1>7, Granting DEF IsDoc
  <2> QED BY <2>1, <2>2, <2>3
<1>8. CASE RemoveAll(r) \/ RemoveId(r)
  <2>1. PICK step \in Removals \cup {"remove"} : Removing(r, step)
    BY <1>8, Zenon DEF RemoveAll, RemoveId
  <2> DEFINE q == request[r]
  <2>2. /\ q \in RequestType /\ q.status = "running" /\ q.verb = "delete" /\ At(r, step)
        /\ Fits(r) /\ request'[r] = Onward(q) /\ IsDoc(d) /\ docs'[d] = docs[d]
        /\ \A x \in Ids \ Selected(q, step) : docs'[x] = docs[x]
    BY <1>1, <2>1, Remained
  <2>3. p \in Parents(docs[d]) /\ p \in Selected(q, step)
    BY <1>3, <2>2
  <2>4. Belongs(KindOf[d], docs[d])
    BY <2>2 DEF CInv, Sorted
  <2>5. Excused(r, step, d, p)
    <3>1. Outlived(r, step, d, p)
      BY <2>2, <2>3, <2>4, Zenon DEF Outlived
    <3> QED BY <3>1, Outlives
  <2>6. Acts(r)
    BY <2>2, OnwardActs
  <2> QED BY <2>2, <2>5, <2>6, Zenon DEF Excused
<1> QED BY <1>5, <1>6, <1>7, <1>8, Zenon DEF Writer

\* OrphansNeedARace: Delete takes what a document contains before the document
\* (api/organization.go:187), and Create and Update look up the owner they
\* store, so what has lost its owner or template was written meanwhile, or is
\* one of the exceptions the property names.
THEOREM OrphansRace == Spec => OrphansNeedARace
<1>1. CInv /\ [Next]_vars => OrphansExplained
  BY OrphansStep
<1> QED BY <1>1, Knowledge, PTL DEF Spec, OrphansNeedARace

================================================================================
