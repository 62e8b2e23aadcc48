---------------------------- MODULE DocumentsProofs ----------------------------
(***************************************************************************)
(* Proofs about Documents, for any documents, grants, inputs and number of *)
(* concurrent requests.  First the table of the handlers: in every one of  *)
(* them a write comes after the check of the name, and the grant to the    *)
(* author last.  Then what a request knows of the database at each step,   *)
(* unless another one wrote there; and from it the action properties.      *)
(***************************************************************************)
EXTENDS Documents, TLAPS

Assigns == {"assignUser", "revokeUser", "assignTeam", "revokeTeam"}

\* The steps of removals.
Takings == {"pullProjects", "pullCredentials", "pullInventories", "pullJobTemplates",
    "pullTerraformTemplates", "removeJobs", "removeJobTemplates", "removeTerraformJobs",
    "removeTerraformTemplates", "removeProjects", "removeHosts", "removeGroups",
    "removeInventories", "removeTeams", "removeCredentials", "removeTemplateJobs",
    "removeTerraformTemplateJobs", "remove", "readProjects", "readInventories"}

\* Which checks a handler makes, and which step is its last.
Permitted(verb, kind, h) ==
    /\ verb = "create" /\ kind = "organization" => h[1] = "superUser" /\ Len(h) = 3
    /\ verb = "update" /\ kind = "organization" =>
           h[2] = "organizationWrite" /\ Len(h) = 4 /\ h[4] = "save"
    /\ verb = "update" /\ kind = "team" =>
           /\ h[4] = "organizationWriteByID" /\ Len(h) = 6 /\ h[6] = "save"
           /\ \A i \in DOMAIN h : h[i] \in {"organizationWriteByID", "projectReadByID"} => i = 4
    /\ verb \in {"create", "update"} /\ kind \in Resources =>
           \/ kind = "organization"
           \/ kind = "team" /\ verb = "update"
           \/ h[Len(h)] = "associate"

\* Which steps belong to which handlers.
Placed(verb, kind, h, i) ==
    /\ h[i] = "load" => i = 1 /\ verb # "create"
    /\ h[i] \in {"loadGrantee", "find", "modifyRole"} => verb \in Assigns
    /\ h[i] \in Takings => verb = "delete"
    /\ h[i] \in {"unique", "organizationAdmin"} => verb \in {"create", "update"}
    /\ h[i] = "insert" => verb = "create"
    /\ h[i] = "save" => verb = "update" /\ i > 1
    /\ h[i] = "associate" =>
           /\ verb \in {"create", "update"} /\ kind \in Resources \ {"organization"}
           /\ kind = "team" => verb = "create"
           /\ i = Len(h) /\ i > 1 /\ h[i - 1] = "organizationAdmin"

\* A write comes after the check of the name, the last step after the write.
Ordered(h, i) ==
    /\ h[i] \in {"insert", "save"} =>
           /\ \E j \in 1..(i - 1) : h[j] = "unique"
           /\ \A j \in (i + 1)..Len(h) : h[j] \notin {"insert", "save"}
    /\ h[i] = "associate" => \E j \in 1..(i - 1) : h[j] \in {"insert", "save"}

Shaped(verb, kind, h) ==
    /\ DOMAIN h = 1..Len(h) /\ Len(h) \in Nat \ {0}
    /\ verb = "update" => h[1] = "load"
    /\ \A i \in DOMAIN h : Placed(verb, kind, h, i) /\ Ordered(h, i)
    /\ Permitted(verb, kind, h)

--------------------------------------------------------------------------------

(* The handlers, one by one. *)
LEMMA CreateOrganizationShape == Shaped("create", "organization", CreateOrganization)
<1> DEFINE h == CreateOrganization
<1>1. /\ DOMAIN h = 1..3 /\ Len(h) = 3
      /\ h[1] = "superUser" /\ h[2] = "unique" /\ h[3] = "insert"
  BY SMT DEF CreateOrganization
<1>2. \A i \in 1..3 : i \in {1, 2, 3}
  BY SMT
<1> HIDE DEF h
<1>3. ASSUME NEW i \in DOMAIN h PROVE Placed("create", "organization", h, i)
  BY <1>1, <1>2, SMT DEF Placed, Takings, Assigns, Resources
<1>4. ASSUME NEW i \in DOMAIN h PROVE Ordered(h, i)
  BY <1>1, <1>2, SMT DEF Ordered
<1>5. Permitted("create", "organization", h)
  BY <1>1, SMT DEF Permitted, Resources
<1>6. Shaped("create", "organization", h)
  BY <1>1, <1>3, <1>4, <1>5, SMT DEF Shaped
<1> QED BY <1>6 DEF h

LEMMA CreateTeamShape == Shaped("create", "team", CreateTeam)
<1> DEFINE h == CreateTeam
<1>1. /\ DOMAIN h = 1..6 /\ Len(h) = 6
      /\ h[1] = "ownerExist" /\ h[2] = "organizationWriteByID" /\ h[3] = "unique"
      /\ h[4] = "insert" /\ h[5] = "organizationAdmin" /\ h[6] = "associate"
  BY SMT DEF CreateTeam
<1>2. \A i \in 1..6 : i \in {1, 2, 3, 4, 5, 6}
  BY SMT
<1> HIDE DEF h
<1>3. ASSUME NEW i \in DOMAIN h PROVE Placed("create", "team", h, i)
  BY <1>1, <1>2, SMT DEF Placed, Takings, Assigns, Resources
<1>4. ASSUME NEW i \in DOMAIN h PROVE Ordered(h, i)
  BY <1>1, <1>2, SMT DEF Ordered
<1>5. Permitted("create", "team", h)
  BY <1>1, SMT DEF Permitted, Resources
<1>6. Shaped("create", "team", h)
  BY <1>1, <1>3, <1>4, <1>5, SMT DEF Shaped
<1> QED BY <1>6 DEF h

LEMMA CreateCredentialShape == Shaped("create", "credential", CreateCredential)
<1> DEFINE h == CreateCredential
<1>1. /\ DOMAIN h = 1..6 /\ Len(h) = 6
      /\ h[1] = "ownerExist" /\ h[2] = "organizationRead" /\ h[3] = "unique"
      /\ h[4] = "insert" /\ h[5] = "organizationAdmin" /\ h[6] = "associate"
  BY SMT DEF CreateCredential
<1>2. \A i \in 1..6 : i \in {1, 2, 3, 4, 5, 6}
  BY SMT
<1> HIDE DEF h
<1>3. ASSUME NEW i \in DOMAIN h PROVE Placed("create", "credential", h, i)
  BY <1>1, <1>2, SMT DEF Placed, Takings, Assigns, Resources
<1>4. ASSUME NEW i \in DOMAIN h PROVE Ordered(h, i)
  BY <1>1, <1>2, SMT DEF Ordered
<1>5. Permitted("create", "credential", h)
  BY <1>1, SMT DEF Permitted, Resources
<1>6. Shaped("create", "credential", h)
  BY <1>1, <1>3, <1>4, <1>5, SMT DEF Shaped
<1> QED BY <1>6 DEF h

LEMMA CreateInventoryShape == Shaped("create", "inventory", CreateInventory)
<1> DEFINE h == CreateInventory
<1>1. /\ DOMAIN h = 1..6 /\ Len(h) = 6
      /\ h[1] = "ownerExist" /\ h[2] = "organizationRead" /\ h[3] = "unique"
      /\ h[4] = "insert" /\ h[5] = "organizationAdmin" /\ h[6] = "associate"
  BY SMT DEF CreateInventory
<1>2. \A i \in 1..6 : i \in {1, 2, 3, 4, 5, 6}
  BY SMT
<1> HIDE DEF h
<1>3. ASSUME NEW i \in DOMAIN h PROVE Placed("create", "inventory", h, i)
  BY <1>1, <1>2, SMT DEF Placed, Takings, Assigns, Resources
<1>4. ASSUME NEW i \in DOMAIN h PROVE Ordered(h, i)
  BY <1>1, <1>2, SMT DEF Ordered
<1>5. Permitted("create", "inventory", h)
  BY <1>1, SMT DEF Permitted, Resources
<1>6. Shaped("create", "inventory", h)
  BY <1>1, <1>3, <1>4, <1>5, SMT DEF Shaped
<1> QED BY <1>6 DEF h

LEMMA CreateProjectShape == Shaped("create", "project", CreateProject)
<1> DEFINE h == CreateProject
<1>1. /\ DOMAIN h = 1..6 /\ Len(h) = 6
      /\ h[1] = "ownerExist" /\ h[2] = "organizationRead" /\ h[3] = "unique"
      /\ h[4] = "insert" /\ h[5] = "organizationAdmin" /\ h[6] = "associate"
  BY SMT DEF CreateProject
<1>2. \A i \in 1..6 : i \in {1, 2, 3, 4, 5, 6}
  BY SMT
<1> HIDE DEF h
<1>3. ASSUME NEW i \in DOMAIN h PROVE Placed("create", "project", h, i)
  BY <1>1, <1>2, SMT DEF Placed, Takings, Assigns, Resources
<1>4. ASSUME NEW i \in DOMAIN h PROVE Ordered(h, i)
  BY <1>1, <1>2, SMT DEF Ordered
<1>5. Permitted("create", "project", h)
  BY <1>1, SMT DEF Permitted, Resources
<1>6. Shaped("create", "project", h)
  BY <1>1, <1>3, <1>4, <1>5, SMT DEF Shaped
<1> QED BY <1>6 DEF h

LEMMA CreateJobTemplateShape == Shaped("create", "jobTemplate", CreateJobTemplate)
<1> DEFINE h == CreateJobTemplate
<1>1. /\ DOMAIN h = 1..10 /\ Len(h) = 10
      /\ h[1] = "ownerExist" /\ h[2] = "projectReadByID" /\ h[3] = "unique"
      /\ h[4] = "inventoryExist" /\ h[5] = "inventoryReadByID" /\ h[6] = "credentialExist"
      /\ h[7] = "credentialReadByID" /\ h[8] = "insert" /\ h[9] = "organizationAdmin"
      /\ h[10] = "associate"
  BY SMT DEF CreateJobTemplate
<1>2. \A i \in 1..10 : i \in {1, 2, 3, 4, 5, 6, 7, 8, 9, 10}
  BY SMT
<1> HIDE DEF h
<1>3. ASSUME NEW i \in DOMAIN h PROVE Placed("create", "jobTemplate", h, i)
  BY <1>1, <1>2, SMT DEF Placed, Takings, Assigns, Resources
<1>4. ASSUME NEW i \in DOMAIN h PROVE Ordered(h, i)
  BY <1>1, <1>2, SMT DEF Ordered
<1>5. Permitted("create", "jobTemplate", h)
  BY <1>1, SMT DEF Permitted, Resources
<1>6. Shaped("create", "jobTemplate", h)
  BY <1>1, <1>3, <1>4, <1>5, SMT DEF Shaped
<1> QED BY <1>6 DEF h

LEMMA CreateTerraformTemplateShape == Shaped("create", "terraformTemplate", CreateTerraformTemplate)
<1> DEFINE h == CreateTerraformTemplate
<1>1. /\ DOMAIN h = 1..8 /\ Len(h) = 8
      /\ h[1] = "ownerExist" /\ h[2] = "projectReadByID" /\ h[3] = "unique"
      /\ h[4] = "credentialExist" /\ h[5] = "credentialReadByID" /\ h[6] = "insert"
      /\ h[7] = "organizationAdmin" /\ h[8] = "associate"
  BY SMT DEF CreateTerraformTemplate
<1>2. \A i \in 1..8 : i \in {1, 2, 3, 4, 5, 6, 7, 8}
  BY SMT
<1> HIDE DEF h
<1>3. ASSUME NEW i \in DOMAIN h PROVE Placed("create", "terraformTemplate", h, i)
  BY <1>1, <1>2, SMT DEF Placed, Takings, Assigns, Resources
<1>4. ASSUME NEW i \in DOMAIN h PROVE Ordered(h, i)
  BY <1>1, <1>2, SMT DEF Ordered
<1>5. Permitted("create", "terraformTemplate", h)
  BY <1>1, SMT DEF Permitted, Resources
<1>6. Shaped("create", "terraformTemplate", h)
  BY <1>1, <1>3, <1>4, <1>5, SMT DEF Shaped
<1> QED BY <1>6 DEF h

LEMMA CreateUserShape == Shaped("create", "user", CreateUser)
<1> DEFINE h == CreateUser
<1>1. /\ DOMAIN h = 1..3 /\ Len(h) = 3
      /\ h[1] = "superUser" /\ h[2] = "unique" /\ h[3] = "insert"
  BY SMT DEF CreateUser
<1>2. \A i \in 1..3 : i \in {1, 2, 3}
  BY SMT
<1> HIDE DEF h
<1>3. ASSUME NEW i \in DOMAIN h PROVE Placed("create", "user", h, i)
  BY <1>1, <1>2, SMT DEF Placed, Takings, Assigns, Resources
<1>4. ASSUME NEW i \in DOMAIN h PROVE Ordered(h, i)
  BY <1>1, <1>2, SMT DEF Ordered
<1>5. Permitted("create", "user", h)
  BY <1>1, SMT DEF Permitted, Resources
<1>6. Shaped("create", "user", h)
  BY <1>1, <1>3, <1>4, <1>5, SMT DEF Shaped
<1> QED BY <1>6 DEF h

LEMMA UpdateOrganizationShape == Shaped("update", "organization", UpdateOrganization)
<1> DEFINE h == UpdateOrganization
<1>1. /\ DOMAIN h = 1..4 /\ Len(h) = 4
      /\ h[1] = "load" /\ h[2] = "organizationWrite" /\ h[3] = "unique" /\ h[4] = "save"
  BY SMT DEF UpdateOrganization, OrganizationMiddleware
<1>2. \A i \in 1..4 : i \in {1, 2, 3, 4}
  BY SMT
<1> HIDE DEF h
<1>3. ASSUME NEW i \in DOMAIN h PROVE Placed("update", "organization", h, i)
  BY <1>1, <1>2, SMT DEF Placed, Takings, Assigns, Resources
<1>4. ASSUME NEW i \in DOMAIN h PROVE Ordered(h, i)
  BY <1>1, <1>2, SMT DEF Ordered
<1>5. Permitted("update", "organization", h)
  BY <1>1, SMT DEF Permitted, Resources
<1>6. Shaped("update", "organization", h)
  BY <1>1, <1>3, <1>4, <1>5, SMT DEF Shaped
<1> QED BY <1>6 DEF h

LEMMA UpdateTeamShape == Shaped("update", "team", UpdateTeam)
<1> DEFINE h == UpdateTeam
<1>1. /\ DOMAIN h = 1..6 /\ Len(h) = 6
      /\ h[1] = "load" /\ h[2] = "teamWrite" /\ h[3] = "ownerExist"
      /\ h[4] = "organizationWriteByID" /\ h[5] = "unique" /\ h[6] = "save"
  BY SMT DEF UpdateTeam, TeamMiddleware
<1>2. \A i \in 1..6 : i \in {1, 2, 3, 4, 5, 6}
  BY SMT
<1> HIDE DEF h
<1>3. ASSUME NEW i \in DOMAIN h PROVE Placed("update", "team", h, i)
  BY <1>1, <1>2, SMT DEF Placed, Takings, Assigns, Resources
<1>4. ASSUME NEW i \in DOMAIN h PROVE Ordered(h, i)
  BY <1>1, <1>2, SMT DEF Ordered
<1>5. Permitted("update", "team", h)
  BY <1>1, SMT DEF Permitted, Resources
<1>6. Shaped("update", "team", h)
  BY <1>1, <1>3, <1>4, <1>5, SMT DEF Shaped
<1> QED BY <1>6 DEF h

LEMMA UpdateCredentialShape == Shaped("update", "credential", UpdateCredential)
<1> DEFINE h == UpdateCredential
<1>1. /\ DOMAIN h = 1..8 /\ Len(h) = 8
      /\ h[1] = "load" /\ h[2] = "credentialWrite" /\ h[3] = "ownerExist"
      /\ h[4] = "organizationRead" /\ h[5] = "unique" /\ h[6] = "save"
      /\ h[7] = "organizationAdmin" /\ h[8] = "associate"
  BY SMT DEF UpdateCredential, CredentialMiddleware
<1>2. \A i \in 1..8 : i \in {1, 2, 3, 4, 5, 6, 7, 8}
  BY SMT
<1> HIDE DEF h
<1>3. ASSUME NEW i \in DOMAIN h PROVE Placed("update", "credential", h, i)
  BY <1>1, <1>2, SMT DEF Placed, Takings, Assigns, Resources
<1>4. ASSUME NEW i \in DOMAIN h PROVE Ordered(h, i)
  BY <1>1, <1>2, SMT DEF Ordered
<1>5. Permitted("update", "credential", h)
  BY <1>1, SMT DEF Permitted, Resources
<1>6. Shaped("update", "credential", h)
  BY <1>1, <1>3, <1>4, <1>5, SMT DEF Shaped
<1> QED BY <1>6 DEF h

LEMMA UpdateInventoryShape == Shaped("update", "inventory", UpdateInventory)
<1> DEFINE h == UpdateInventory
<1>1. /\ DOMAIN h = 1..8 /\ Len(h) = 8
      /\ h[1] = "load" /\ h[2] = "inventoryWrite" /\ h[3] = "ownerExist"
      /\ h[4] = "organizationRead" /\ h[5] = "unique" /\ h[6] = "save"
      /\ h[7] = "organizationAdmin" /\ h[8] = "associate"
  BY SMT DEF UpdateInventory, InventoryMiddleware
<1>2. \A i \in 1..8 : i \in {1, 2, 3, 4, 5, 6, 7, 8}
  BY SMT
<1> HIDE DEF h
<1>3. ASSUME NEW i \in DOMAIN h PROVE Placed("update", "inventory", h, i)
  BY <1>1, <1>2, SMT DEF Placed, Takings, Assigns, Resources
<1>4. ASSUME NEW i \in DOMAIN h PROVE Ordered(h, i)
  BY <1>1, <1>2, SMT DEF Ordered
<1>5. Permitted("update", "inventory", h)
  BY <1>1, SMT DEF Permitted, Resources
<1>6. Shaped("update", "inventory", h)
  BY <1>1, <1>3, <1>4, <1>5, SMT DEF Shaped
<1> QED BY <1>6 DEF h

LEMMA UpdateProjectShape == Shaped("update", "project", UpdateProject)
<1> DEFINE h == UpdateProject
<1>1. /\ DOMAIN h = 1..8 /\ Len(h) = 8
      /\ h[1] = "load" /\ h[2] = "projectWrite" /\ h[3] = "ownerExist"
      /\ h[4] = "organizationRead" /\ h[5] = "unique" /\ h[6] = "save"
      /\ h[7] = "organizationAdmin" /\ h[8] = "associate"
  BY SMT DEF UpdateProject, ProjectMiddleware
<1>2. \A i \in 1..8 : i \in {1, 2, 3, 4, 5, 6, 7, 8}
  BY SMT
<1> HIDE DEF h
<1>3. ASSUME NEW i \in DOMAIN h PROVE Placed("update", "project", h, i)
  BY <1>1, <1>2, SMT DEF Placed, Takings, Assigns, Resources
<1>4. ASSUME NEW i \in DOMAIN h PROVE Ordered(h, i)
  BY <1>1, <1>2, SMT DEF Ordered
<1>5. Permitted("update", "project", h)
  BY <1>1, SMT DEF Permitted, Resources
<1>6. Shaped("update", "project", h)
  BY <1>1, <1>3, <1>4, <1>5, SMT DEF Shaped
<1> QED BY <1>6 DEF h

LEMMA UpdateJobTemplateShape == Shaped("update", "jobTemplate", UpdateJobTemplate)
<1> DEFINE h == UpdateJobTemplate
<1>1. /\ DOMAIN h = 1..10 /\ Len(h) = 10
      /\ h[1] = "load" /\ h[2] = "jobTemplateWrite" /\ h[3] = "ownerExist"
      /\ h[4] = "projectReadByID" /\ h[5] = "unique" /\ h[6] = "credentialExist"
      /\ h[7] = "credentialReadByID" /\ h[8] = "save" /\ h[9] = "organizationAdmin"
      /\ h[10] = "associate"
  BY SMT DEF UpdateJobTemplate, JobTemplateMiddleware
<1>2. \A i \in 1..10 : i \in {1, 2, 3, 4, 5, 6, 7, 8, 9, 10}
  BY SMT
<1> HIDE DEF h
<1>3. ASSUME NEW i \in DOMAIN h PROVE Placed("update", "jobTemplate", h, i)
  BY <1>1, <1>2, SMT DEF Placed, Takings, Assigns, Resources
<1>4. ASSUME NEW i \in DOMAIN h PROVE Ordered(h, i)
  BY <1>1, <1>2, SMT DEF Ordered
<1>5. Permitted("update", "jobTemplate", h)
  BY <1>1, SMT DEF Permitted, Resources
<1>6. Shaped("update", "jobTemplate", h)
  BY <1>1, <1>3, <1>4, <1>5, SMT DEF Shaped
<1> QED BY <1>6 DEF h

LEMMA UpdateTerraformTemplateShape == Shaped("update", "terraformTemplate", UpdateTerraformTemplate)
<1> DEFINE h == UpdateTerraformTemplate
<1>1. /\ DOMAIN h = 1..9 /\ Len(h) = 9
      /\ h[1] = "load" /\ h[2] = "terraformTemplateWrite" /\ h[3] = "ownerExist"
      /\ h[4] = "unique" /\ h[5] = "credentialExist" /\ h[6] = "credentialReadByID"
      /\ h[7] = "save" /\ h[8] = "organizationAdmin" /\ h[9] = "associate"
  BY SMT DEF UpdateTerraformTemplate, TerraformTemplateMiddleware
<1>2. \A i \in 1..9 : i \in {1, 2, 3, 4, 5, 6, 7, 8, 9}
  BY SMT
<1> HIDE DEF h
<1>3. ASSUME NEW i \in DOMAIN h PROVE Placed("update", "terraformTemplate", h, i)
  BY <1>1, <1>2, SMT DEF Placed, Takings, Assigns, Resources
<1>4. ASSUME NEW i \in DOMAIN h PROVE Ordered(h, i)
  BY <1>1, <1>2, SMT DEF Ordered
<1>5. Permitted("update", "terraformTemplate", h)
  BY <1>1, SMT DEF Permitted, Resources
<1>6. Shaped("update", "terraformTemplate", h)
  BY <1>1, <1>3, <1>4, <1>5, SMT DEF Shaped
<1> QED BY <1>6 DEF h

LEMMA UpdateUserShape == Shaped("update", "user", UpdateUser)
<1> DEFINE h == UpdateUser
<1>1. /\ DOMAIN h = 1..4 /\ Len(h) = 4
      /\ h[1] = "load" /\ h[2] = "userWrite" /\ h[3] = "unique" /\ h[4] = "save"
  BY SMT DEF UpdateUser, UserMiddleware
<1>2. \A i \in 1..4 : i \in {1, 2, 3, 4}
  BY SMT
<1> HIDE DEF h
<1>3. ASSUME NEW i \in DOMAIN h PROVE Placed("update", "user", h, i)
  BY <1>1, <1>2, SMT DEF Placed, Takings, Assigns, Resources
<1>4. ASSUME NEW i \in DOMAIN h PROVE Ordered(h, i)
  BY <1>1, <1>2, SMT DEF Ordered
<1>5. Permitted("update", "user", h)
  BY <1>1, SMT DEF Permitted, Resources
<1>6. Shaped("update", "user", h)
  BY <1>1, <1>3, <1>4, <1>5, SMT DEF Shaped
<1> QED BY <1>6 DEF h

LEMMA DeleteOrganizationShape == Shaped("delete", "organization", DeleteOrganization)
<1> DEFINE h == DeleteOrganization
<1>1. /\ DOMAIN h = 1..15 /\ Len(h) = 15
      /\ h[1] = "load" /\ h[2] = "organizationWrite" /\ h[3] = "readProjects"
      /\ h[4] = "readInventories" /\ h[5] = "removeJobs" /\ h[6] = "removeJobTemplates"
      /\ h[7] = "removeTerraformJobs" /\ h[8] = "removeTerraformTemplates"
      /\ h[9] = "removeProjects" /\ h[10] = "removeHosts" /\ h[11] = "removeGroups"
      /\ h[12] = "removeInventories" /\ h[13] = "removeTeams" /\ h[14] = "removeCredentials"
      /\ h[15] = "remove"
  BY SMT DEF DeleteOrganization, OrganizationMiddleware
<1>2. \A i \in 1..15 : i \in {1, 2, 3, 4, 5, 6, 7, 8, 9, 10, 11, 12, 13, 14, 15}
  BY SMT
<1> HIDE DEF h
<1>3. ASSUME NEW i \in DOMAIN h PROVE Placed("delete", "organization", h, i)
  BY <1>1, <1>2, SMT DEF Placed, Takings, Assigns, Resources
<1>4. ASSUME NEW i \in DOMAIN h PROVE Ordered(h, i)
  BY <1>1, <1>2, SMT DEF Ordered
<1>5. Permitted("delete", "organization", h)
  BY <1>1, SMT DEF Permitted, Resources
<1>6. Shaped("delete", "organization", h)
  BY <1>1, <1>3, <1>4, <1>5, SMT DEF Shaped
<1> QED BY <1>6 DEF h

LEMMA DeleteTeamShape == Shaped("delete", "team", DeleteTeam)
<1> DEFINE h == DeleteTeam
<1>1. /\ DOMAIN h = 1..8 /\ Len(h) = 8
      /\ h[1] = "load" /\ h[2] = "teamWrite" /\ h[3] = "pullProjects"
      /\ h[4] = "pullCredentials" /\ h[5] = "pullInventories" /\ h[6] = "pullJobTemplates"
      /\ h[7] = "pullTerraformTemplates" /\ h[8] = "remove"
  BY SMT DEF DeleteTeam, TeamMiddleware
<1>2. \A i \in 1..8 : i \in {1, 2, 3, 4, 5, 6, 7, 8}
  BY SMT
<1> HIDE DEF h
<1>3. ASSUME NEW i \in DOMAIN h PROVE Placed("delete", "team", h, i)
  BY <1>1, <1>2, SMT DEF Placed, Takings, Assigns, Resources
<1>4. ASSUME NEW i \in DOMAIN h PROVE Ordered(h, i)
  BY <1>1, <1>2, SMT DEF Ordered
<1>5. Permitted("delete", "team", h)
  BY <1>1, SMT DEF Permitted, Resources
<1>6. Shaped("delete", "team", h)
  BY <1>1, <1>3, <1>4, <1>5, SMT DEF Shaped
<1> QED BY <1>6 DEF h

LEMMA DeleteCredentialShape == Shaped("delete", "credential", DeleteCredential)
<1> DEFINE h == DeleteCredential
<1>1. /\ DOMAIN h = 1..3 /\ Len(h) = 3
      /\ h[1] = "load" /\ h[2] = "credentialWrite" /\ h[3] = "remove"
  BY SMT DEF DeleteCredential, CredentialMiddleware
<1>2. \A i \in 1..3 : i \in {1, 2, 3}
  BY SMT
<1> HIDE DEF h
<1>3. ASSUME NEW i \in DOMAIN h PROVE Placed("delete", "credential", h, i)
  BY <1>1, <1>2, SMT DEF Placed, Takings, Assigns, Resources
<1>4. ASSUME NEW i \in DOMAIN h PROVE Ordered(h, i)
  BY <1>1, <1>2, SMT DEF Ordered
<1>5. Permitted("delete", "credential", h)
  BY <1>1, SMT DEF Permitted, Resources
<1>6. Shaped("delete", "credential", h)
  BY <1>1, <1>3, <1>4, <1>5, SMT DEF Shaped
<1> QED BY <1>6 DEF h

LEMMA DeleteInventoryShape == Shaped("delete", "inventory", DeleteInventory)
<1> DEFINE h == DeleteInventory
<1>1. /\ DOMAIN h = 1..5 /\ Len(h) = 5
      /\ h[1] = "load" /\ h[2] = "inventoryWrite" /\ h[3] = "removeHosts"
      /\ h[4] = "removeGroups" /\ h[5] = "remove"
  BY SMT DEF DeleteInventory, InventoryMiddleware
<1>2. \A i \in 1..5 : i \in {1, 2, 3, 4, 5}
  BY SMT
<1> HIDE DEF h
<1>3. ASSUME NEW i \in DOMAIN h PROVE Placed("delete", "inventory", h, i)
  BY <1>1, <1>2, SMT DEF Placed, Takings, Assigns, Resources
<1>4. ASSUME NEW i \in DOMAIN h PROVE Ordered(h, i)
  BY <1>1, <1>2, SMT DEF Ordered
<1>5. Permitted("delete", "inventory", h)
  BY <1>1, SMT DEF Permitted, Resources
<1>6. Shaped("delete", "inventory", h)
  BY <1>1, <1>3, <1>4, <1>5, SMT DEF Shaped
<1> QED BY <1>6 DEF h

LEMMA DeleteProjectShape == Shaped("delete", "project", DeleteProject)
<1> DEFINE h == DeleteProject
<1>1. /\ DOMAIN h = 1..5 /\ Len(h) = 5
      /\ h[1] = "load" /\ h[2] = "projectWrite" /\ h[3] = "removeJobs"
      /\ h[4] = "removeJobTemplates" /\ h[5] = "remove"
  BY SMT DEF DeleteProject, ProjectMiddleware
<1>2. \A i \in 1..5 : i \in {1, 2, 3, 4, 5}
  BY SMT
<1> HIDE DEF h
<1>3. ASSUME NEW i \in DOMAIN h PROVE Placed("delete", "project", h, i)
  BY <1>1, <1>2, SMT DEF Placed, Takings, Assigns, Resources
<1>4. ASSUME NEW i \in DOMAIN h PROVE Ordered(h, i)
  BY <1>1, <1>2, SMT DEF Ordered
<1>5. Permitted("delete", "project", h)
  BY <1>1, SMT DEF Permitted, Resources
<1>6. Shaped("delete", "project", h)
  BY <1>1, <1>3, <1>4, <1>5, SMT DEF Shaped
<1> QED BY <1>6 DEF h

LEMMA DeleteJobTemplateShape == Shaped("delete", "jobTemplate", DeleteJobTemplate)
<1> DEFINE h == DeleteJobTemplate
<1>1. /\ DOMAIN h = 1..4 /\ Len(h) = 4
      /\ h[1] = "load" /\ h[2] = "jobTemplateWrite" /\ h[3] = "removeTemplateJobs"
      /\ h[4] = "remove"
  BY SMT DEF DeleteJobTemplate, JobTemplateMiddleware
<1>2. \A i \in 1..4 : i \in {1, 2, 3, 4}
  BY SMT
<1> HIDE DEF h
<1>3. ASSUME NEW i \in DOMAIN h PROVE Placed("delete", "jobTemplate", h, i)
  BY <1>1, <1>2, SMT DEF Placed, Takings, Assigns, Resources
<1>4. ASSUME NEW i \in DOMAIN h PROVE Ordered(h, i)
  BY <1>1, <1>2, SMT DEF Ordered
<1>5. Permitted("delete", "jobTemplate", h)
  BY <1>1, SMT DEF Permitted, Resources
<1>6. Shaped("delete", "jobTemplate", h)
  BY <1>1, <1>3, <1>4, <1>5, SMT DEF Shaped
<1> QED BY <1>6 DEF h

LEMMA DeleteTerraformTemplateShape == Shaped("delete", "terraformTemplate", DeleteTerraformTemplate)
<1> DEFINE h == DeleteTerraformTemplate
<1>1. /\ DOMAIN h = 1..3 /\ Len(h) = 3
      /\ h[1] = "load" /\ h[2] = "removeTerraformTemplateJobs" /\ h[3] = "remove"
  BY SMT DEF DeleteTerraformTemplate, TerraformTemplateMiddleware
<1>2. \A i \in 1..3 : i \in {1, 2, 3}
  BY SMT
<1> HIDE DEF h
<1>3. ASSUME NEW i \in DOMAIN h PROVE Placed("delete", "terraformTemplate", h, i)
  BY <1>1, <1>2, SMT DEF Placed, Takings, Assigns, Resources
<1>4. ASSUME NEW i \in DOMAIN h PROVE Ordered(h, i)
  BY <1>1, <1>2, SMT DEF Ordered
<1>5. Permitted("delete", "terraformTemplate", h)
  BY <1>1, SMT DEF Permitted, Resources
<1>6. Shaped("delete", "terraformTemplate", h)
  BY <1>1, <1>3, <1>4, <1>5, SMT DEF Shaped
<1> QED BY <1>6 DEF h

LEMMA DeleteUserShape == Shaped("delete", "user", DeleteUser)
<1> DEFINE h == DeleteUser
<1>1. /\ DOMAIN h = 1..8 /\ Len(h) = 8
      /\ h[1] = "load" /\ h[2] = "userWrite" /\ h[3] = "pullProjects"
      /\ h[4] = "pullCredentials" /\ h[5] = "pullInventories" /\ h[6] = "pullJobTemplates"
      /\ h[7] = "pullTerraformTemplates" /\ h[8] = "remove"
  BY SMT DEF DeleteUser, UserMiddleware
<1>2. \A i \in 1..8 : i \in {1, 2, 3, 4, 5, 6, 7, 8}
  BY SMT
<1> HIDE DEF h
<1>3. ASSUME NEW i \in DOMAIN h PROVE Placed("delete", "user", h, i)
  BY <1>1, <1>2, SMT DEF Placed, Takings, Assigns, Resources
<1>4. ASSUME NEW i \in DOMAIN h PROVE Ordered(h, i)
  BY <1>1, <1>2, SMT DEF Ordered
<1>5. Permitted("delete", "user", h)
  BY <1>1, SMT DEF Permitted, Resources
<1>6. Shaped("delete", "user", h)
  BY <1>1, <1>3, <1>4, <1>5, SMT DEF Shaped
<1> QED BY <1>6 DEF h

LEMMA AssignShape ==
    ASSUME NEW verb \in Assigns, NEW kind, NEW h \in {AssignUserRole, AssignTeamRole}
    PROVE  Shaped(verb, kind, h)
<1>1. CASE h = AssignUserRole
  <2>1. /\ DOMAIN h = 1..4 /\ Len(h) = 4
        /\ h[1] = "loadGrantee" /\ h[2] = "userWriteSpecial" /\ h[3] = "find"
        /\ h[4] = "modifyRole"
    BY <1>1, SMT DEF AssignUserRole
  <2>2. \A i \in 1..4 : i \in {1, 2, 3, 4}
    BY SMT
  <2> QED BY <2>1, <2>2, SMT DEF Shaped, Placed, Ordered, Permitted, Takings, Assigns
<1>2. CASE h = AssignTeamRole
  <2>1. /\ DOMAIN h = 1..3 /\ Len(h) = 3
        /\ h[1] = "loadGrantee" /\ h[2] = "find" /\ h[3] = "modifyRole"
    BY <1>2, SMT DEF AssignTeamRole
  <2>2. \A i \in 1..3 : i \in {1, 2, 3}
    BY SMT
  <2> QED BY <2>1, <2>2, SMT DEF Shaped, Placed, Ordered, Permitted, Takings, Assigns
<1> QED BY <1>1, <1>2

LEMMA CreateShape == \A kind \in Resources \cup {"user"} : Shaped("create", kind, Create(kind))
  BY CreateOrganizationShape, CreateTeamShape, CreateCredentialShape, CreateInventoryShape,
     CreateProjectShape, CreateJobTemplateShape, CreateTerraformTemplateShape, CreateUserShape,
     SMT DEF Create, Resources

LEMMA UpdateShape == \A kind \in Resources \cup {"user"} : Shaped("update", kind, Update(kind))
  BY UpdateOrganizationShape, UpdateTeamShape, UpdateCredentialShape, UpdateInventoryShape,
     UpdateProjectShape, UpdateJobTemplateShape, UpdateTerraformTemplateShape, UpdateUserShape,
     SMT DEF Update, Resources

LEMMA DeleteShape == \A kind \in Resources \cup {"user"} : Shaped("delete", kind, Delete(kind))
  BY DeleteOrganizationShape, DeleteTeamShape, DeleteCredentialShape, DeleteInventoryShape,
     DeleteProjectShape, DeleteJobTemplateShape, DeleteTerraformTemplateShape, DeleteUserShape,
     SMT DEF Delete, Resources

LEMMA Shapes ==
    ASSUME NEW q \in RequestType
    PROVE  Shaped(q.verb, q.kind, HandlerOf(q))
<1>1. q.verb \in Verbs /\ q.kind \in Resources \cup {"user"}
  BY Zenon DEF RequestType
<1>2. HandlerOf(q) = Handler(q.verb, q.kind)
  BY <1>1, Zenon DEF HandlerOf, Handlers
<1>3. CASE q.verb = "create"
  <2>1. Handler(q.verb, q.kind) = Create(q.kind)
    BY <1>3 DEF Handler
  <2> QED BY <1>1, <1>2, <1>3, <2>1, CreateShape, Zenon
<1>4. CASE q.verb = "update"
  <2>1. Handler(q.verb, q.kind) = Update(q.kind)
    BY <1>4 DEF Handler
  <2> QED BY <1>1, <1>2, <1>4, <2>1, UpdateShape, Zenon
<1>5. CASE q.verb = "delete"
  <2>1. Handler(q.verb, q.kind) = Delete(q.kind)
    BY <1>5 DEF Handler
  <2> QED BY <1>1, <1>2, <1>5, <2>1, DeleteShape, Zenon
<1>6. CASE q.verb \in Assigns
  <2>1. Handler(q.verb, q.kind) \in {AssignUserRole, AssignTeamRole}
    BY <1>6 DEF Handler, Assigns
  <2> QED BY <1>1, <1>2, <1>6, <2>1, AssignShape, Zenon
<1> QED BY <1>1, <1>3, <1>4, <1>5, <1>6, Zenon DEF Verbs, Assigns

--------------------------------------------------------------------------------

\* Requests with the same input and the same position.
Alike(p, q) ==
    /\ p.status = q.status /\ p.verb = q.verb /\ p.kind = q.kind /\ p.user = q.user
    /\ p.body = q.body /\ p.touched = q.touched

LEMMA SetNext ==
    ASSUME NEW q \in RequestType, NEW x \in Nat \ {0}
    PROVE  LET p == [q EXCEPT !.next = x] IN
           /\ p \in RequestType /\ Alike(p, q) /\ p.next = x
           /\ p.id = q.id /\ p.grant = q.grant /\ p.old = q.old /\ p.admin = q.admin
           /\ p.refused = q.refused /\ p.blind = q.blind
  BY Zenon DEF RequestType, Alike

LEMMA SetId ==
    ASSUME NEW q \in RequestType, NEW x \in Ids \cup {None}
    PROVE  LET p == [q EXCEPT !.id = x] IN
           /\ p \in RequestType /\ Alike(p, q) /\ p.id = x
           /\ p.next = q.next /\ p.grant = q.grant /\ p.old = q.old /\ p.admin = q.admin
           /\ p.refused = q.refused /\ p.blind = q.blind
  BY Zenon DEF RequestType, Alike

LEMMA SetGrant ==
    ASSUME NEW q \in RequestType, NEW x \in Grants \cup {None}
    PROVE  LET p == [q EXCEPT !.grant = x] IN
           /\ p \in RequestType /\ Alike(p, q) /\ p.grant = x
           /\ p.next = q.next /\ p.id = q.id /\ p.old = q.old /\ p.admin = q.admin
           /\ p.refused = q.refused /\ p.blind = q.blind
  BY Zenon DEF RequestType, Alike

LEMMA SetOld ==
    ASSUME NEW q \in RequestType, NEW x \in Doc \cup {None}
    PROVE  LET p == [q EXCEPT !.old = x] IN
           /\ p \in RequestType /\ Alike(p, q) /\ p.old = x
           /\ p.next = q.next /\ p.id = q.id /\ p.grant = q.grant /\ p.admin = q.admin
           /\ p.refused = q.refused /\ p.blind = q.blind
  BY Zenon DEF RequestType, Alike

LEMMA SetAdmin ==
    ASSUME NEW q \in RequestType, NEW x \in BOOLEAN
    PROVE  LET p == [q EXCEPT !.admin = x] IN
           /\ p \in RequestType /\ Alike(p, q) /\ p.admin = x
           /\ p.next = q.next /\ p.id = q.id /\ p.grant = q.grant /\ p.old = q.old
           /\ p.refused = q.refused /\ p.blind = q.blind
  BY Zenon DEF RequestType, Alike

LEMMA SetRefused ==
    ASSUME NEW q \in RequestType, NEW x \in BOOLEAN
    PROVE  LET p == [q EXCEPT !.refused = x] IN
           /\ p \in RequestType /\ Alike(p, q) /\ p.refused = x
           /\ p.next = q.next /\ p.id = q.id /\ p.grant = q.grant /\ p.old = q.old
           /\ p.admin = q.admin /\ p.blind = q.blind
  BY Zenon DEF RequestType, Alike

LEMMA SetBlind ==
    ASSUME NEW q \in RequestType, NEW x \in BOOLEAN
    PROVE  LET p == [q EXCEPT !.blind = x] IN
           /\ p \in RequestType /\ Alike(p, q) /\ p.blind = x
           /\ p.next = q.next /\ p.id = q.id /\ p.grant = q.grant /\ p.old = q.old
           /\ p.admin = q.admin /\ p.refused = q.refused
  BY Zenon DEF RequestType, Alike

LEMMA SetProjects ==
    ASSUME NEW q \in RequestType, NEW x \in SUBSET Ids
    PROVE  LET p == [q EXCEPT !.projects = x] IN
           /\ p \in RequestType /\ Alike(p, q)
           /\ p.next = q.next /\ p.id = q.id /\ p.grant = q.grant /\ p.old = q.old
           /\ p.admin = q.admin /\ p.refused = q.refused /\ p.blind = q.blind
  BY Zenon DEF RequestType, Alike

LEMMA SetInventories ==
    ASSUME NEW q \in RequestType, NEW x \in SUBSET Ids
    PROVE  LET p == [q EXCEPT !.inventories = x] IN
           /\ p \in RequestType /\ Alike(p, q)
           /\ p.next = q.next /\ p.id = q.id /\ p.grant = q.grant /\ p.old = q.old
           /\ p.admin = q.admin /\ p.refused = q.refused /\ p.blind = q.blind
  BY Zenon DEF RequestType, Alike

\* A request that another one's step touched.
LEMMA SetTouched ==
    ASSUME NEW q \in RequestType, NEW ids \in SUBSET Ids
    PROVE  LET p == [q EXCEPT !.touched = q.touched \cup ids] IN
           /\ p \in RequestType /\ p.touched = q.touched \cup ids
           /\ p.status = q.status /\ p.verb = q.verb /\ p.kind = q.kind /\ p.user = q.user
           /\ p.body = q.body /\ p.next = q.next /\ p.id = q.id /\ p.grant = q.grant
           /\ p.old = q.old /\ p.admin = q.admin /\ p.refused = q.refused /\ p.blind = q.blind
<1>1. q.touched \cup ids \in SUBSET Ids
  BY Zenon DEF RequestType
<1> QED BY <1>1, Zenon DEF RequestType

LEMMA AnsweredType ==
    ASSUME NEW x \in {"idle", "done", "refused", "unassociated", "rejected"}
    PROVE  Answered(x) \in RequestType /\ Answered(x).status = x
<1>1. Idle \in RequestType
  BY DEF RequestType, Idle, Verbs
<1>2. x \in {"idle", "running", "done", "refused", "unassociated", "rejected"}
  OBVIOUS
<1> HIDE DEF Idle
<1> QED BY <1>1, <1>2, Zenon DEF Answered, RequestType

\* What becomes of a request whose step leaves it as q.
Follows(p, q) ==
    /\ p \in RequestType
    /\ p.status = "running" =>
           /\ q.next < Len(HandlerOf(q)) /\ p.next = q.next + 1 /\ Alike(p, q)
           /\ p.id = q.id /\ p.grant = q.grant /\ p.old = q.old
           /\ p.admin = q.admin /\ p.refused = q.refused /\ p.blind = q.blind
    /\ p.status = "done" => ~q.refused /\ ~(q.next < Len(HandlerOf(q)))

LEMMA OnwardFollows ==
    ASSUME NEW q \in RequestType, q.status = "running"
    PROVE  Follows(Onward(q), q)
<1>1. CASE q.next < Len(HandlerOf(q))
  <2> DEFINE p == [q EXCEPT !.next = q.next + 1]
  <2>1. Onward(q) = p
    BY <1>1, Zenon DEF Onward
  <2>2. q.next + 1 \in Nat \ {0}
    <3>1. q.next \in Nat
      BY Zenon DEF RequestType
    <3> QED BY <3>1, SMT
  <2>3. /\ p \in RequestType /\ Alike(p, q) /\ p.next = q.next + 1
        /\ p.id = q.id /\ p.grant = q.grant /\ p.old = q.old
        /\ p.admin = q.admin /\ p.refused = q.refused /\ p.blind = q.blind
    BY <2>2, SetNext, Zenon
  <2> HIDE DEF p
  <2>4. p.status = "running"
    BY <2>3, Zenon DEF Alike
  <2> QED BY <1>1, <2>1, <2>3, <2>4 DEF Follows
<1>2. CASE ~(q.next < Len(HandlerOf(q))) /\ q.refused
  <2>1. Onward(q) = Answered("refused")
    BY <1>2, Zenon DEF Onward
  <2>2. Answered("refused") \in RequestType /\ Answered("refused").status = "refused"
    BY AnsweredType
  <2> QED BY <2>1, <2>2 DEF Follows
<1>3. CASE ~(q.next < Len(HandlerOf(q))) /\ ~q.refused
  <2>1. Onward(q) = Answered("done")
    BY <1>3, Zenon DEF Onward
  <2>2. Answered("done") \in RequestType /\ Answered("done").status = "done"
    BY AnsweredType
  <2> QED BY <1>3, <2>1, <2>2 DEF Follows
<1> QED BY <1>1, <1>2, <1>3

\* What becomes of another request when ids are written.
Watches(p, q, ids) ==
    /\ p \in RequestType
    /\ p.status = "running" <=> q.status = "running"
    /\ p.status = "running" =>
           /\ p.verb = q.verb /\ p.kind = q.kind /\ p.user = q.user /\ p.body = q.body
           /\ p.next = q.next /\ p.id = q.id /\ p.grant = q.grant /\ p.old = q.old
           /\ p.admin = q.admin /\ p.refused = q.refused /\ p.blind = q.blind
           /\ p.touched = q.touched \cup ids

\* Every step follows this pattern: one request goes on, the others watch.
Stepping(r, q, ids) ==
    /\ request' \in [Requests -> RequestType]
    /\ Follows(request'[r], q)
    /\ \A s \in Requests \ {r} : Watches(request'[s], request[s], ids)

LEMMA ProceedSteps ==
    ASSUME request \in [Requests -> RequestType], NEW r \in Requests,
           NEW q \in RequestType, q.status = "running", Proceed(r, q)
    PROVE  Stepping(r, q, {})
<1>1. Follows(Onward(q), q)
  BY OnwardFollows
<1>2. Onward(q) \in RequestType
  BY <1>1 DEF Follows
<1>3. /\ request' \in [Requests -> RequestType] /\ request'[r] = Onward(q)
      /\ \A s \in Requests \ {r} : request'[s] = request[s]
  BY <1>2, Zenon DEF Proceed
<1>4. ASSUME NEW s \in Requests \ {r} PROVE Watches(request'[s], request[s], {})
  BY <1>3, SMT DEF Watches
<1> QED BY <1>1, <1>3, <1>4, Zenon DEF Stepping

LEMMA WroteSteps ==
    ASSUME request \in [Requests -> RequestType], NEW r \in Requests,
           NEW q \in RequestType, q.status = "running", NEW ids \in SUBSET Ids, Wrote(r, q, ids)
    PROVE  Stepping(r, q, ids)
<1>1. Follows(Onward(q), q)
  BY OnwardFollows
<1>2. Onward(q) \in RequestType
  BY <1>1 DEF Follows
<1>3. request'[r] = Onward(q)
  BY Zenon DEF Wrote
<1>4. ASSUME NEW s \in Requests \ {r} PROVE Watches(request'[s], request[s], ids)
  <2>1. CASE request[s].status = "running"
    <3> DEFINE p == [request[s] EXCEPT !.touched = request[s].touched \cup ids]
    <3>1. request'[s] = p
      BY <2>1, Zenon DEF Wrote
    <3>2. request[s] \in RequestType
      BY Zenon
    <3>3. /\ p \in RequestType /\ p.touched = request[s].touched \cup ids
          /\ p.status = request[s].status /\ p.verb = request[s].verb
          /\ p.kind = request[s].kind /\ p.user = request[s].user
          /\ p.body = request[s].body /\ p.next = request[s].next /\ p.id = request[s].id
          /\ p.grant = request[s].grant /\ p.old = request[s].old
          /\ p.admin = request[s].admin /\ p.refused = request[s].refused
          /\ p.blind = request[s].blind
      BY <3>2, SetTouched, Zenon
    <3> HIDE DEF p
    <3> QED BY <3>1, <3>3 DEF Watches
  <2>2. CASE request[s].status # "running"
    <3>1. request'[s] = request[s]
      BY <2>2, Zenon DEF Wrote
    <3> QED BY <2>2, <3>1, Zenon DEF Watches
  <2> QED BY <2>1, <2>2
<1>5. request' \in [Requests -> RequestType]
  <2>1. \A s \in Requests : request'[s] \in RequestType
    BY <1>2, <1>3, <1>4 DEF Watches
  <2>2. request' = [s \in Requests |-> request'[s]]
    BY Zenon DEF Wrote
  <2> QED BY <2>1, <2>2, Zenon
<1> QED BY <1>1, <1>3, <1>4, <1>5, Zenon DEF Stepping

--------------------------------------------------------------------------------

\* The steps of q that are done, and those to come.
Past(q, steps) == \E i \in 1..(q.next - 1) : HandlerOf(q)[i] \in steps
Ahead(q, steps) == \E i \in q.next..Len(HandlerOf(q)) : HandlerOf(q)[i] \in steps

\* A request has what its handler works with.
Fits(r) ==
    LET q == request[r] IN
    /\ q.next \in 1..Len(HandlerOf(q))
    /\ q.user \in Ids
    /\ q.verb \in {"create", "update"} => q.body \in Doc /\ q.body.roles = {}
    /\ q.verb # "create" => q.id \in Of(q.kind)
    /\ q.verb = "create" => q.id \in Of(q.kind) \cup {None}
    /\ q.verb \in Assigns => q.grant \in Grants

\* The grants an update will write back are those of the document.
OldKnown(r) ==
    LET q == request[r] IN
    q.verb = "update" /\ q.next > 1 =>
        /\ q.old \in Doc
        /\ q.id \in q.touched \/ (IsDoc(q.id) /\ docs[q.id].roles = q.old.roles)

\* A name that was found free is free.
Unclaimed(r) ==
    LET q == request[r] IN
    Past(q, {"unique"}) /\ Ahead(q, {"insert", "save"}) =>
        q.blind \/ KeepsName(q) \/ Namesakes(q.kind, q.body) \subseteq q.touched

\* What was written is there.
Written(r) ==
    LET q == request[r] IN
    Past(q, {"insert", "save"}) =>
        \/ q.id \in q.touched
        \/ IsDoc(q.id) /\ docs[q.id].owner = q.body.owner

\* Who was an administrator is one.
AdminKnown(r) ==
    LET q == request[r] IN
    HandlerOf(q)[q.next] = "associate" /\ q.admin /\ q.kind \in {"team", "inventory"} =>
        q.body.owner \in q.touched \/ IsOrganizationAdmin(q.body.owner, q.user)

\* Checks that were passed hold.
Passed(r) ==
    LET q == request[r] IN
    /\ q.kind = "organization" /\ q.verb = "create" /\ q.next > 1 => q.user \in SuperUsers
    /\ q.kind = "organization" /\ q.verb = "update" /\ q.next > 2 =>
           OrganizationWrite(q.user, q.old)
    /\ q.kind = "team" /\ q.verb = "update" /\ q.next > 4 =>
           \/ q.refused \/ q.body.owner \in q.touched
           \/ OrganizationWriteByID(q.user, q.body.owner)

Sound(r) ==
    request[r].status = "running" =>
        Fits(r) /\ OldKnown(r) /\ Unclaimed(r) /\ Written(r) /\ AdminKnown(r) /\ Passed(r)

IInv == TypeOK /\ \A r \in Requests : Sound(r)

\* Another request's writes are noticed.
LEMMA OthersSound ==
    ASSUME NEW s \in Requests, NEW ids \in SUBSET Ids, Sound(s),
           Watches(request'[s], request[s], ids),
           \A d \in Ids \ ids : docs'[d] = docs[d]
    PROVE  Sound(s)'
<1> DEFINE p == request'[s]
<1> DEFINE q == request[s]
<1> SUFFICES ASSUME p.status = "running" PROVE Sound(s)'
  BY DEF Sound
<1>1. /\ q.status = "running" /\ p.touched = q.touched \cup ids
      /\ p.verb = q.verb /\ p.kind = q.kind /\ p.user = q.user /\ p.body = q.body
      /\ p.next = q.next /\ p.id = q.id /\ p.grant = q.grant /\ p.old = q.old
      /\ p.admin = q.admin /\ p.refused = q.refused /\ p.blind = q.blind
  BY DEF Watches
<1>2. HandlerOf(p) = HandlerOf(q)
  BY <1>1, Zenon DEF HandlerOf
<1>3. Fits(s) /\ OldKnown(s) /\ Unclaimed(s) /\ Written(s) /\ AdminKnown(s) /\ Passed(s)
  BY <1>1 DEF Sound
<1>4. \A d : IsDoc(d) /\ d \notin ids => IsDoc(d)' /\ docs'[d] = docs[d]
  BY DEF IsDoc
<1>5. \A d : IsDoc(d)' /\ d \notin ids => IsDoc(d) /\ docs'[d] = docs[d]
  BY DEF IsDoc
<1>6. Fits(s)'
  BY <1>1, <1>2, <1>3, Zenon DEF Fits
<1>7. OldKnown(s)'
  BY <1>1, <1>3, <1>4, SMT DEF OldKnown
<1>8. Unclaimed(s)'
  <2> SUFFICES ASSUME Past(q, {"unique"})', Ahead(q, {"insert", "save"})',
                      (~q.blind)', (~KeepsName(q))'
               PROVE  (Namesakes(q.kind, q.body) \subseteq q.touched)'
    BY DEF Unclaimed
  <2>1. Past(q, {"unique"}) /\ Ahead(q, {"insert", "save"})
    BY <1>1, <1>2, Zenon DEF Past, Ahead
  <2>2. ~q.blind /\ ~KeepsName(q)
    BY <1>1, Zenon DEF KeepsName
  <2>3. Namesakes(q.kind, q.body) \subseteq q.touched
    BY <1>3, <2>1, <2>2 DEF Unclaimed
  <2>4. ASSUME NEW d \in Ids, d \notin ids, (d \in Namesakes(q.kind, q.body))'
        PROVE  d \in Namesakes(q.kind, q.body)
    BY <1>1, <1>5, <2>4, Zenon DEF Namesakes
  <2>5. (Namesakes(q.kind, q.body) \subseteq Ids)'
    BY Zenon DEF Namesakes, Of
  <2>6. ASSUME NEW d \in Ids, (d \in Namesakes(q.kind, q.body))'
        PROVE  (d \in q.touched)'
    <3>1. d \in ids \/ d \in q.touched
      BY <2>3, <2>4, <2>6
    <3> QED BY <1>1, <3>1, Zenon
  <2> QED BY <2>5, <2>6, Zenon
<1>9. Written(s)'
  BY <1>1, <1>2, <1>3, <1>4, SMT DEF Written, Past
<1>10. AdminKnown(s)'
  BY <1>1, <1>2, <1>3, <1>4, SMT DEF AdminKnown, IsOrganizationAdmin
<1>11. Passed(s)'
  BY <1>1, <1>3, <1>4, SMT DEF Passed, OrganizationWriteByID, OrganizationWrite, Granted,
                               HasGlobalWrite
<1> QED BY <1>6, <1>7, <1>8, <1>9, <1>10, <1>11 DEF Sound

--------------------------------------------------------------------------------

\* The step a request is at.
Now(r) == HandlerOf(request[r])[request[r].next]

\* A request that goes on keeps its handler and stays in it.
LEMMA GoesOn ==
    ASSUME NEW r \in Requests, NEW q \in RequestType, Fits(r), Alike(q, request[r]),
           q.next = request[r].next, Follows(request'[r], q), request'[r].status = "running",
           \/ q.id = request[r].id
           \/ q.verb = "create" /\ q.id \in Of(q.kind),
           q.grant = request[r].grant \/ q.grant \in Grants
    PROVE  /\ HandlerOf(request'[r]) = HandlerOf(request[r])
           /\ request'[r].next = request[r].next + 1
           /\ request[r].next \in 1..Len(HandlerOf(request[r]))
           /\ request[r].next < Len(HandlerOf(request[r]))
           /\ Fits(r)'
<1> DEFINE p == request'[r]
<1> DEFINE h == HandlerOf(request[r])
<1>1. /\ Alike(p, q) /\ p.next = q.next + 1 /\ q.next < Len(HandlerOf(q))
      /\ p.id = q.id /\ p.grant = q.grant
  BY DEF Follows
<1>2. HandlerOf(q) = h /\ HandlerOf(p) = h
  BY <1>1, Zenon DEF HandlerOf, Alike
<1>3. Shaped(q.verb, q.kind, h)
  BY <1>2, Shapes
<1>4. Len(h) \in Nat
  BY <1>3 DEF Shaped
<1>5. request[r].next \in 1..Len(h)
  BY Zenon DEF Fits
<1> HIDE DEF h
<1>6. p.next \in 1..Len(h)
  BY <1>1, <1>2, <1>4, <1>5, SMT
<1>7. Fits(r)'
  BY <1>1, <1>2, <1>6 DEF Fits, Alike, h
<1> QED BY <1>1, <1>2, <1>5, <1>7, Zenon DEF h

\* What a step that writes nothing must have found.
Finds(r, q) ==
    LET o == request[r] IN
    /\ Now(r) \notin {"insert", "save", "associate"}
    /\ IF Now(r) = "load" THEN IsDoc(o.id) /\ q.old = docs[o.id] ELSE q.old = o.old
    /\ IF Now(r) = "unique"
       THEN q.blind \/ KeepsName(o) \/ Namesakes(o.kind, o.body) = {}
       ELSE q.blind = o.blind
    /\ IF Now(r) = "organizationAdmin"
       THEN q.admin /\ o.kind \in {"team", "inventory"} => IsOrganizationAdmin(o.body.owner, o.user)
       ELSE q.admin = o.admin
    /\ Now(r) = "superUser" => o.user \in SuperUsers
    /\ Now(r) = "organizationWrite" => OrganizationWrite(o.user, o.old)
    /\ IF Now(r) = "organizationWriteByID"
       THEN q.refused \/ OrganizationWriteByID(o.user, o.body.owner)
       ELSE Now(r) = "projectReadByID" \/ q.refused = o.refused

\* The invariant of a request whose step writes nothing.
LEMMA FinderSound ==
    ASSUME TypeOK, NEW r \in Requests, NEW q \in RequestType, Sound(r),
           request[r].status = "running", Alike(q, request[r]), q.next = request[r].next,
           q.id = request[r].id, q.grant = request[r].grant \/ q.grant \in Grants,
           Follows(request'[r], q),
           q.verb \in {"create", "update"} => Finds(r, q) /\ UNCHANGED docs
    PROVE  Sound(r)'
<1> DEFINE p == request'[r]
<1> DEFINE o == request[r]
<1> DEFINE h == HandlerOf(o)
<1> DEFINE n == o.next
<1> SUFFICES ASSUME p.status = "running" PROVE Sound(r)'
  BY DEF Sound
<1>1. Fits(r) /\ OldKnown(r) /\ Unclaimed(r) /\ Written(r) /\ AdminKnown(r) /\ Passed(r)
  BY DEF Sound
<1>2. HandlerOf(p) = h /\ p.next = n + 1 /\ n \in 1..Len(h) /\ n < Len(h) /\ Fits(r)'
  BY <1>1, GoesOn, Zenon
<1>3. /\ p.verb = o.verb /\ p.kind = o.kind /\ p.user = o.user /\ p.body = o.body
      /\ p.touched = o.touched /\ p.id = o.id /\ p.old = q.old /\ p.admin = q.admin
      /\ p.refused = q.refused /\ p.blind = q.blind /\ q.verb = o.verb
  BY DEF Follows, Alike
<1>4. o \in RequestType
  BY DEF TypeOK
<1>5. Shaped(o.verb, o.kind, h)
  BY <1>4, Shapes
<1>6. CASE o.verb \notin {"create", "update"}
  <2>1. \A i \in 1..Len(h) : h[i] \notin {"unique", "insert", "save", "associate"}
    BY <1>5, <1>6, Zenon DEF Shaped, Placed
  <2>2. OldKnown(r)' /\ Passed(r)'
    BY <1>3, <1>6, Zenon DEF OldKnown, Passed
  <2>3. p.next \in 1..Len(h)
    BY <1>2, Zenon DEF Fits
  <2>4. AdminKnown(r)'
    BY <1>2, <2>1, <2>3, Zenon DEF AdminKnown
  <2>5. \A i \in 1..(p.next - 1) : i \in 1..Len(h)
    BY <1>2, <1>5, SMT DEF Shaped
  <2>6. Unclaimed(r)' /\ Written(r)'
    BY <1>2, <2>1, <2>5, Zenon DEF Unclaimed, Written, Past
  <2> QED BY <1>2, <2>2, <2>4, <2>6 DEF Sound
<1>7. CASE o.verb \in {"create", "update"}
  <2>1. Finds(r, q) /\ Now(r) = h[n] /\ docs' = docs
    BY <1>3, <1>7 DEF Now
  <2>2. Len(h) \in Nat /\ DOMAIN h = 1..Len(h) /\ Placed(o.verb, o.kind, h, n)
        /\ (o.verb = "update" => h[1] = "load")
    BY <1>2, <1>5, Zenon DEF Shaped
  <2>3. h[n] \notin {"insert", "save", "associate"}
    BY <2>1, Zenon DEF Finds
  <2>4. OldKnown(r)'
    <3>1. CASE n = 1 /\ o.verb = "update"
      <4>1. IsDoc(o.id) /\ q.old = docs[o.id]
        BY <2>1, <2>2, <3>1, Zenon DEF Finds
      <4>2. docs[o.id] \in Doc
        BY <4>1 DEF IsDoc, TypeOK
      <4>3. IsDoc(o.id)' /\ docs'[o.id] = docs[o.id]
        BY <1>3, <2>1, <4>1 DEF IsDoc
      <4> QED BY <1>3, <4>1, <4>2, <4>3, Zenon DEF OldKnown, IsDoc
    <3>2. CASE n # 1 /\ o.verb = "update"
      <4>1. q.old = o.old
        BY <2>1, <2>2, <3>2, Zenon DEF Finds, Placed
      <4>2. n > 1
        BY <1>2, <3>2, SMT
      <4> QED BY <1>1, <1>3, <2>1, <3>2, <4>1, <4>2, Zenon DEF OldKnown, IsDoc
    <3> QED BY <1>3, <3>1, <3>2, Zenon DEF OldKnown
  <2>5. Unclaimed(r)'
    <3> SUFFICES ASSUME Past(o, {"unique"})', Ahead(o, {"insert", "save"})',
                        (~o.blind)', (~KeepsName(o))'
                 PROVE  (Namesakes(o.kind, o.body) \subseteq o.touched)'
      BY DEF Unclaimed
    <3>1. Ahead(o, {"insert", "save"})
      BY <1>2, <2>2, SMT DEF Ahead
    <3>2. PICK i \in 1..n : h[i] = "unique"
      BY <1>2, SMT DEF Past
    <3>3. h[n] # "load"
      <4>1. SUFFICES ASSUME h[n] = "load" PROVE FALSE
        OBVIOUS
      <4>2. n = 1
        BY <2>2, <4>1, Zenon DEF Placed
      <4> QED BY <3>2, <4>1, <4>2, SMT
    <3>4. q.old = o.old /\ ~KeepsName(o)
      BY <1>3, <2>1, <3>3, Zenon DEF Finds, KeepsName
    <3>5. CASE h[n] = "unique"
      <4>1. Namesakes(o.kind, o.body) = {}
        BY <1>3, <2>1, <3>4, <3>5, Zenon DEF Finds
      <4> QED BY <1>3, <2>1, <4>1, Zenon DEF Namesakes, IsDoc
    <3>6. CASE h[n] # "unique"
      <4>1. Past(o, {"unique"})
        BY <1>2, <3>2, <3>6, SMT DEF Past
      <4>2. ~o.blind
        BY <1>3, <2>1, <3>6, Zenon DEF Finds
      <4>3. Namesakes(o.kind, o.body) \subseteq o.touched
        BY <1>1, <3>1, <3>4, <4>1, <4>2, Zenon DEF Unclaimed
      <4> QED BY <1>3, <2>1, <4>3, Zenon DEF Namesakes, IsDoc
    <3> QED BY <3>5, <3>6
  <2>6. Written(r)'
    <3> SUFFICES ASSUME Past(o, {"insert", "save"})'
                 PROVE  (o.id \in o.touched \/ (IsDoc(o.id) /\ docs[o.id].owner = o.body.owner))'
      BY DEF Written
    <3>1. Past(o, {"insert", "save"})
      BY <1>2, <2>3, SMT DEF Past
    <3> QED BY <1>1, <1>3, <2>1, <3>1, Zenon DEF Written, IsDoc
  <2>7. AdminKnown(r)'
    <3> SUFFICES ASSUME h[n + 1] = "associate", p.admin, p.kind \in {"team", "inventory"}
                 PROVE  IsOrganizationAdmin(o.body.owner, o.user)'
      BY <1>2, Zenon DEF AdminKnown
    <3>1. h[n] = "organizationAdmin"
      <4>1. n + 1 \in DOMAIN h /\ (n + 1) - 1 = n
        BY <1>2, <2>2, SMT
      <4>2. Placed(o.verb, o.kind, h, n + 1)
        BY <1>5, <4>1, Zenon DEF Shaped
      <4> QED BY <4>1, <4>2, Zenon DEF Placed
    <3>2. IsOrganizationAdmin(o.body.owner, o.user)
      BY <1>3, <2>1, <3>1, Zenon DEF Finds
    <3> QED BY <1>3, <2>1, <3>2, Zenon DEF IsOrganizationAdmin, IsDoc
  <2>8. Passed(r)'
    <3>1. Permitted(o.verb, o.kind, h)
      BY <1>5 DEF Shaped
    <3>2. o.kind = "organization" /\ o.verb = "create" => o.user \in SuperUsers
      <4>1. CASE n = 1
        BY <2>1, <3>1, <4>1, Zenon DEF Permitted, Finds
      <4>2. CASE n # 1
        BY <1>1, <1>2, <4>2, SMT DEF Passed
      <4> QED BY <4>1, <4>2
    <3>3. o.kind = "organization" /\ o.verb = "update" /\ n > 1 => OrganizationWrite(o.user, q.old)
      <4> SUFFICES ASSUME o.kind = "organization", o.verb = "update", n > 1
                   PROVE  OrganizationWrite(o.user, q.old)
        OBVIOUS
      <4>0. n # 1
        BY <1>2, SMT
      <4>1. q.old = o.old
        BY <2>1, <2>2, <4>0, Zenon DEF Finds, Placed
      <4>2. CASE n = 2
        BY <2>1, <3>1, <4>1, <4>2, Zenon DEF Permitted, Finds
      <4>3. CASE n > 2
        BY <1>1, <4>1, <4>3, Zenon DEF Passed
      <4> QED BY <1>2, <4>2, <4>3, SMT
    <3>4. o.kind = "team" /\ o.verb = "update" /\ n > 3 =>
              \/ q.refused \/ o.body.owner \in o.touched
              \/ OrganizationWriteByID(o.user, o.body.owner)
      <4> SUFFICES ASSUME o.kind = "team", o.verb = "update", n > 3
                   PROVE  \/ q.refused \/ o.body.owner \in o.touched
                          \/ OrganizationWriteByID(o.user, o.body.owner)
        OBVIOUS
      <4>1. CASE n = 4
        BY <2>1, <3>1, <4>1, Zenon DEF Permitted, Finds
      <4>2. CASE n > 4
        <5>1. h[n] \notin {"organizationWriteByID", "projectReadByID"}
          BY <1>2, <2>2, <3>1, <4>2, SMT DEF Permitted
        <5>2. q.refused = o.refused
          BY <2>1, <5>1, Zenon DEF Finds
        <5> QED BY <1>1, <4>2, <5>2, Zenon DEF Passed
      <4> QED BY <1>2, <4>1, <4>2, SMT
    <3>5. /\ (n + 1 > 2 => n > 1) /\ (n + 1 > 4 => n > 3)
      BY <1>2, SMT
    <3>6. \A u, org : OrganizationWriteByID(u, org) => OrganizationWriteByID(u, org)'
      BY <2>1, Zenon DEF OrganizationWriteByID, OrganizationWrite, Granted, IsDoc
    <3> HIDE DEF n
    <3> QED BY <1>2, <1>3, <3>2, <3>3, <3>4, <3>5, <3>6, Zenon
            DEF Passed, OrganizationWrite, Granted
  <2> QED BY <1>2, <2>4, <2>5, <2>6, <2>7, <2>8 DEF Sound
<1> QED BY <1>6, <1>7

\* A document that was inserted is there, and so is one that was saved.
LEMMA InsertSound ==
    ASSUME TypeOK, NEW r \in Requests, NEW id \in Of(request[r].kind), NEW doc \in Doc,
           Sound(r), At(r, "insert"), doc.owner = request[r].body.owner,
           docs' = [docs EXCEPT ![id] = doc],
           NEW q \in RequestType, Alike(q, request[r]), q.next = request[r].next, q.id = id,
           q.grant = request[r].grant, q.old = request[r].old, Follows(request'[r], q)
    PROVE  Sound(r)'
<1> DEFINE p == request'[r]
<1> DEFINE o == request[r]
<1> DEFINE h == HandlerOf(o)
<1> DEFINE n == o.next
<1> SUFFICES ASSUME p.status = "running" PROVE Sound(r)'
  BY DEF Sound
<1>1. o.status = "running" /\ n \in DOMAIN h /\ h[n] = "insert"
  BY DEF At
<1>2. Fits(r) /\ Passed(r)
  BY <1>1 DEF Sound
<1>3. o \in RequestType
  BY DEF TypeOK
<1>4. Shaped(o.verb, o.kind, h)
  BY <1>3, Shapes
<1>5. /\ DOMAIN h = 1..Len(h) /\ Len(h) \in Nat
      /\ Placed(o.verb, o.kind, h, n) /\ Ordered(h, n) /\ Permitted(o.verb, o.kind, h)
  BY <1>1, <1>4, Zenon DEF Shaped
<1>6. o.verb = "create" /\ q.verb = "create" /\ q.kind = o.kind
  BY <1>1, <1>5, Zenon DEF Placed, Alike
<1>7. HandlerOf(p) = h /\ p.next = n + 1 /\ n \in 1..Len(h) /\ n < Len(h) /\ Fits(r)'
  BY <1>2, <1>6, GoesOn, Zenon
<1>8. /\ p.verb = o.verb /\ p.kind = o.kind /\ p.user = o.user /\ p.body = o.body
      /\ p.id = id
  BY DEF Follows, Alike
<1>9. OldKnown(r)'
  BY <1>6, <1>8, Zenon DEF OldKnown
<1>10. Unclaimed(r)'
  <2>1. \A j \in (n + 1)..Len(h) : h[j] \notin {"insert", "save"}
    BY <1>1, <1>5, Zenon DEF Ordered
  <2> QED BY <1>7, <2>1, Zenon DEF Unclaimed, Ahead
<1>11. Written(r)'
  <2>1. id \in Ids
    BY DEF Of
  <2>2. docs'[id] = doc
    BY <2>1 DEF TypeOK
  <2>3. IsDoc(id)'
    BY <2>1, <2>2, StatesAssumption DEF IsDoc
  <2> QED BY <1>8, <2>2, <2>3, Zenon DEF Written
<1>12. AdminKnown(r)'
  <2>1. n + 1 \in DOMAIN h /\ (n + 1) - 1 = n
    BY <1>5, <1>7, SMT
  <2>2. Placed(o.verb, o.kind, h, n + 1)
    BY <1>4, <2>1, Zenon DEF Shaped
  <2>3. h[n + 1] # "associate"
    <3>1. h[n + 1] = "associate" => h[n] = "organizationAdmin"
      BY <2>1, <2>2, Zenon DEF Placed
    <3> QED BY <1>1, <3>1
  <2> QED BY <1>7, <2>3, Zenon DEF AdminKnown
<1>13. Passed(r)'
  <2>1. o.kind = "organization" => n # 1
    BY <1>1, <1>5, <1>6 DEF Permitted
  <2>2. o.kind = "organization" => n > 1
    BY <1>7, <2>1, SMT
  <2> QED BY <1>2, <1>6, <1>8, <2>2, Zenon DEF Passed
<1> QED BY <1>7, <1>9, <1>10, <1>11, <1>12, <1>13 DEF Sound

LEMMA SaveSound ==
    ASSUME TypeOK, NEW r \in Requests, NEW doc \in Doc, Sound(r), At(r, "save"),
           doc.owner = request[r].body.owner, doc.roles = request[r].old.roles,
           docs' = [docs EXCEPT ![request[r].id] = doc], Follows(request'[r], request[r])
    PROVE  Sound(r)'
<1> DEFINE p == request'[r]
<1> DEFINE o == request[r]
<1> DEFINE h == HandlerOf(o)
<1> DEFINE n == o.next
<1> SUFFICES ASSUME p.status = "running" PROVE Sound(r)'
  BY DEF Sound
<1>1. o.status = "running" /\ n \in DOMAIN h /\ h[n] = "save"
  BY DEF At
<1>2. Fits(r) /\ Passed(r) /\ OldKnown(r)
  BY <1>1 DEF Sound
<1>3. o \in RequestType
  BY DEF TypeOK
<1>4. Shaped(o.verb, o.kind, h)
  BY <1>3, Shapes
<1>5. /\ DOMAIN h = 1..Len(h) /\ Len(h) \in Nat
      /\ Placed(o.verb, o.kind, h, n) /\ Ordered(h, n) /\ Permitted(o.verb, o.kind, h)
  BY <1>1, <1>4, Zenon DEF Shaped
<1>6. o.verb = "update" /\ n > 1
  BY <1>1, <1>5, Zenon DEF Placed
<1>7. HandlerOf(p) = h /\ p.next = n + 1 /\ n \in 1..Len(h) /\ n < Len(h) /\ Fits(r)'
  BY <1>2, <1>3, GoesOn, Zenon DEF Alike
<1>8. /\ p.verb = o.verb /\ p.kind = o.kind /\ p.user = o.user /\ p.body = o.body
      /\ p.id = o.id /\ p.old = o.old /\ p.touched = o.touched
  BY DEF Follows, Alike
<1>9. PICK d \in Ids : d = o.id /\ docs'[d] = doc /\ IsDoc(d)'
  <2>1. PICK d \in Ids : d = o.id
    BY <1>2, <1>6 DEF Fits, Of
  <2>2. docs'[d] = doc
    BY <2>1 DEF TypeOK
  <2>3. IsDoc(d)'
    BY <2>2, StatesAssumption DEF IsDoc
  <2> QED BY <2>1, <2>2, <2>3
<1>10. OldKnown(r)'
  <2>1. o.old \in Doc
    BY <1>2, <1>6 DEF OldKnown
  <2> QED BY <1>8, <1>9, <2>1, Zenon DEF OldKnown
<1>11. Unclaimed(r)'
  <2>1. \A j \in (n + 1)..Len(h) : h[j] \notin {"insert", "save"}
    BY <1>1, <1>5, Zenon DEF Ordered
  <2> QED BY <1>7, <2>1, Zenon DEF Unclaimed, Ahead
<1>12. Written(r)'
  BY <1>8, <1>9, Zenon DEF Written
<1>13. AdminKnown(r)'
  <2>1. n + 1 \in DOMAIN h /\ (n + 1) - 1 = n
    BY <1>5, <1>7, SMT
  <2>2. Placed(o.verb, o.kind, h, n + 1)
    BY <1>4, <2>1, Zenon DEF Shaped
  <2>3. h[n + 1] # "associate"
    <3>1. h[n + 1] = "associate" => h[n] = "organizationAdmin"
      BY <2>1, <2>2, Zenon DEF Placed
    <3> QED BY <1>1, <3>1
  <2> QED BY <1>7, <2>3, Zenon DEF AdminKnown
<1>14. Passed(r)'
  <2>1. \A j \in (n + 1)..Len(h) : h[j] # "save"
    BY <1>1, <1>5, Zenon DEF Ordered
  <2>2. o.kind # "organization"
    <3>1. o.kind = "organization" => Len(h) = 4 /\ h[4] = "save"
      BY <1>5, <1>6, Zenon DEF Permitted
    <3>2. Len(h) = 4 => 4 \in (n + 1)..Len(h)
      BY <1>7, SMT
    <3> QED BY <2>1, <3>1, <3>2, Zenon
  <2>3. o.kind # "team"
    <3>1. o.kind = "team" => Len(h) = 6 /\ h[6] = "save"
      BY <1>5, <1>6, Zenon DEF Permitted
    <3>2. Len(h) = 6 => 6 \in (n + 1)..Len(h)
      BY <1>7, SMT
    <3> QED BY <2>1, <3>1, <3>2, Zenon
  <2> QED BY <1>8, <2>2, <2>3, Zenon DEF Passed
<1> QED BY <1>7, <1>10, <1>11, <1>12, <1>13, <1>14 DEF Sound

--------------------------------------------------------------------------------

DocsType == [Ids -> Doc \cup {Unborn, Gone}]

\* A step keeps the invariant if it does so for its own request.
LEMMA StepInv ==
    ASSUME IInv, NEW r \in Requests, NEW q, NEW ids \in SUBSET Ids, Stepping(r, q, ids),
           docs' \in DocsType, \A d \in Ids \ ids : docs'[d] = docs[d], Sound(r)'
    PROVE  IInv'
<1>1. ASSUME NEW s \in Requests \ {r} PROVE Sound(s)'
  <2>1. Sound(s) /\ Watches(request'[s], request[s], ids)
    BY Zenon DEF IInv, Stepping
  <2> QED BY <2>1, OthersSound
<1>2. TypeOK'
  BY Zenon DEF TypeOK, Stepping, DocsType
<1> QED BY <1>1, <1>2, Zenon DEF IInv

\* The entry of a request is one, and its step is known.
LEMMA AtStep ==
    ASSUME IInv, NEW r \in Requests, NEW step, At(r, step)
    PROVE  /\ request[r] \in RequestType /\ request[r].status = "running"
           /\ Now(r) = step /\ Sound(r) /\ Fits(r) /\ TypeOK
           /\ Placed(request[r].verb, request[r].kind, HandlerOf(request[r]), request[r].next)
           /\ HandlerOf(request[r])[request[r].next] = step
           /\ request \in [Requests -> RequestType] /\ docs \in DocsType
<1>1. request[r] \in RequestType /\ Sound(r) /\ TypeOK
  BY Zenon DEF IInv, TypeOK
<1>2. request[r].status = "running" /\ Now(r) = step
  BY Zenon DEF At, Now
<1>3. request[r].next \in DOMAIN HandlerOf(request[r])
  BY Zenon DEF At
<1>4. Shaped(request[r].verb, request[r].kind, HandlerOf(request[r]))
  BY <1>1, Shapes
<1>5. Placed(request[r].verb, request[r].kind, HandlerOf(request[r]), request[r].next)
  BY <1>3, <1>4, Zenon DEF Shaped
<1> QED BY <1>1, <1>2, <1>5, Zenon DEF Sound, TypeOK, DocsType, Now

\* A step that writes nothing and finds what it should.
LEMMA FinderInv ==
    ASSUME IInv, NEW r \in Requests, NEW q \in RequestType, request[r].status = "running",
           Alike(q, request[r]), q.next = request[r].next, q.id = request[r].id,
           q.grant = request[r].grant \/ q.grant \in Grants,
           q.verb \in {"create", "update"} => Finds(r, q),
           Proceed(r, q), UNCHANGED docs
    PROVE  IInv'
<1>1. request \in [Requests -> RequestType] /\ docs \in DocsType /\ TypeOK /\ Sound(r)
  BY Zenon DEF IInv, TypeOK, DocsType
<1>2. q.status = "running"
  BY Zenon DEF Alike
<1>3. Stepping(r, q, {})
  BY <1>1, <1>2, ProceedSteps
<1>4. Follows(request'[r], q)
  BY <1>3 DEF Stepping
<1>5. Sound(r)'
  BY <1>1, <1>4, FinderSound
<1>6. docs' \in DocsType /\ \A d \in Ids \ {} : docs'[d] = docs[d]
  BY <1>1
<1> QED BY <1>3, <1>5, <1>6, StepInv

\* The steps that set what is known of a request.
Special == {"load", "insert", "save", "associate", "unique", "organizationAdmin", "superUser",
            "organizationWrite", "organizationWriteByID", "projectReadByID"}

\* A check without consequence for the proofs.
LEMMA PlainInv ==
    ASSUME IInv, NEW r \in Requests, NEW step, At(r, step), step \notin Special,
           Proceed(r, request[r]), UNCHANGED docs
    PROVE  IInv'
<1>1. request[r] \in RequestType /\ request[r].status = "running" /\ Now(r) = step
  BY AtStep, Zenon
<1>2. Finds(r, request[r])
  BY <1>1 DEF Finds, Special
<1>3. Alike(request[r], request[r])
  BY Zenon DEF Alike
<1> QED BY <1>1, <1>2, <1>3, FinderInv

LEMMA LoadInv == ASSUME IInv, NEW r \in Requests, Load(r) PROVE IInv'
<1>1. At(r, "load") /\ IsDoc(request[r].id) /\ UNCHANGED docs
  BY Zenon DEF Load
<1>2. /\ request[r] \in RequestType /\ request[r].status = "running" /\ Now(r) = "load"
      /\ docs \in DocsType
  BY <1>1, AtStep, Zenon
<1> DEFINE x == docs[request[r].id]
<1>3. x \in Doc \cup {None}
  BY <1>1, <1>2 DEF IsDoc, DocsType
<1> DEFINE q == [request[r] EXCEPT !.old = x]
<1>4. /\ q \in RequestType /\ Alike(q, request[r]) /\ q.old = x /\ q.next = request[r].next
      /\ q.id = request[r].id /\ q.grant = request[r].grant /\ q.admin = request[r].admin
      /\ q.refused = request[r].refused /\ q.blind = request[r].blind
  BY <1>2, <1>3, SetOld, Zenon
<1>5. Proceed(r, q)
  BY Zenon DEF Load
<1> HIDE DEF q
<1>6. Finds(r, q)
  BY <1>1, <1>2, <1>4 DEF Finds
<1> QED BY <1>1, <1>2, <1>4, <1>5, <1>6, FinderInv

LEMMA PermissionInv == ASSUME IInv, NEW r \in Requests, Permission(r) PROVE IInv'
<1>1. PICK check \in Permissions : /\ At(r, check) /\ Allowed(request[r], check)
                                   /\ Proceed(r, request[r]) /\ UNCHANGED docs
  BY Zenon DEF Permission
<1>2. request[r] \in RequestType /\ request[r].status = "running" /\ Now(r) = check
  BY <1>1, AtStep, Zenon
<1>3. check \notin Special \ {"superUser", "organizationWrite"}
  BY DEF Permissions, Special
<1>4. check = "superUser" => request[r].user \in SuperUsers
  BY <1>1 DEF Allowed, HasGlobalWrite
<1>5. check = "organizationWrite" => OrganizationWrite(request[r].user, request[r].old)
  BY <1>1 DEF Allowed
<1>6. Finds(r, request[r])
  BY <1>2, <1>3, <1>4, <1>5 DEF Finds, Special
<1>7. Alike(request[r], request[r])
  BY Zenon DEF Alike
<1> QED BY <1>1, <1>2, <1>6, <1>7, FinderInv

\* A check that answers and goes on.
LEMMA RefusingInv ==
    ASSUME IInv, NEW r \in Requests, NEW step \in {"organizationWriteByID", "projectReadByID"},
           At(r, step), NEW x \in BOOLEAN, Proceed(r, [request[r] EXCEPT !.refused = x]),
           step = "organizationWriteByID" =>
               x \/ OrganizationWriteByID(request[r].user, request[r].body.owner),
           UNCHANGED docs
    PROVE  IInv'
<1>1. request[r] \in RequestType /\ request[r].status = "running" /\ Now(r) = step
  BY AtStep, Zenon
<1> DEFINE q == [request[r] EXCEPT !.refused = x]
<1>2. /\ q \in RequestType /\ Alike(q, request[r]) /\ q.refused = x
      /\ q.next = request[r].next /\ q.id = request[r].id /\ q.grant = request[r].grant
      /\ q.old = request[r].old /\ q.admin = request[r].admin /\ q.blind = request[r].blind
  BY <1>1, SetRefused, Zenon
<1>3. Proceed(r, q)
  OBVIOUS
<1> HIDE DEF q
<1>4. Finds(r, q)
  BY <1>1, <1>2 DEF Finds
<1> QED BY <1>1, <1>2, <1>3, <1>4, FinderInv

LEMMA WriteByIDInv ==
    ASSUME IInv, NEW r \in Requests, OrganizationWriteByIDCheck(r) PROVE IInv'
<1> DEFINE passes == OrganizationWriteByID(request[r].user, request[r].body.owner)
<1>1. PICK x \in {TRUE, ~passes} : Proceed(r, [request[r] EXCEPT !.refused = x])
  BY Zenon DEF OrganizationWriteByIDCheck
<1>2. At(r, "organizationWriteByID") /\ UNCHANGED docs
  BY Zenon DEF OrganizationWriteByIDCheck
<1>3. x \in BOOLEAN /\ (x \/ passes)
  BY Zenon
<1> HIDE DEF passes
<1> QED BY <1>1, <1>2, <1>3, RefusingInv, Zenon DEF passes

LEMMA ReadByIDInv ==
    ASSUME IInv, NEW r \in Requests, ProjectReadByIDCheck(r) PROVE IInv'
<1> DEFINE passes == ProjectReadByID(request[r].user, request[r].body.owner)
<1>1. PICK x \in {TRUE, ~passes} : Proceed(r, [request[r] EXCEPT !.refused = x])
  BY Zenon DEF ProjectReadByIDCheck
<1>2. At(r, "projectReadByID") /\ UNCHANGED docs
  BY Zenon DEF ProjectReadByIDCheck
<1>3. x \in BOOLEAN
  BY Zenon
<1> HIDE DEF passes
<1> QED BY <1>1, <1>2, <1>3, RefusingInv

LEMMA ExistInv == ASSUME IInv, NEW r \in Requests, Exist(r) PROVE IInv'
<1>1. PICK step \in {"ownerExist", "inventoryExist", "credentialExist"} : At(r, step)
  BY Zenon DEF Exist
<1>2. Proceed(r, request[r]) /\ UNCHANGED docs /\ step \notin Special
  BY <1>1 DEF Exist, Special
<1> QED BY <1>1, <1>2, PlainInv

LEMMA IsUniqueInv == ASSUME IInv, NEW r \in Requests, IsUnique(r) PROVE IInv'
<1>1. At(r, "unique") /\ UNCHANGED docs
  BY Zenon DEF IsUnique
<1>2. request[r] \in RequestType /\ request[r].status = "running" /\ Now(r) = "unique"
  BY <1>1, AtStep, Zenon
<1> DEFINE free == KeepsName(request[r]) \/ Namesakes(request[r].kind, request[r].body) = {}
<1>3. CASE free /\ Proceed(r, request[r])
  <2>1. Finds(r, request[r])
    BY <1>2, <1>3 DEF Finds
  <2>2. Alike(request[r], request[r])
    BY Zenon DEF Alike
  <2> QED BY <1>1, <1>2, <1>3, <2>1, <2>2, FinderInv
<1>4. CASE Proceed(r, [request[r] EXCEPT !.blind = TRUE])
  <2> DEFINE q == [request[r] EXCEPT !.blind = TRUE]
  <2>1. TRUE \in BOOLEAN
    OBVIOUS
  <2>2. /\ q \in RequestType /\ Alike(q, request[r]) /\ q.blind = TRUE
        /\ q.next = request[r].next /\ q.id = request[r].id /\ q.grant = request[r].grant
        /\ q.old = request[r].old /\ q.admin = request[r].admin
        /\ q.refused = request[r].refused
    BY <1>2, <2>1, SetBlind, Zenon
  <2>3. Proceed(r, q)
    BY <1>4
  <2> HIDE DEF q
  <2>4. Finds(r, q)
    BY <1>2, <2>2 DEF Finds
  <2> QED BY <1>1, <1>2, <2>2, <2>3, <2>4, FinderInv
<1> QED BY <1>3, <1>4, Zenon DEF IsUnique

LEMMA OrganizationAdminInv == ASSUME IInv, NEW r \in Requests, OrganizationAdmin(r) PROVE IInv'
<1> DEFINE org == IF request[r].kind \in {"jobTemplate", "terraformTemplate"}
                  THEN GetOrganizationID(request[r].body) ELSE request[r].body.owner
<1> DEFINE is == IsOrganizationAdmin(org, request[r].user)
<1>1. PICK x \in {FALSE, is} : Proceed(r, [request[r] EXCEPT !.admin = x])
  BY Zenon DEF OrganizationAdmin
<1>2. At(r, "organizationAdmin") /\ UNCHANGED docs
  BY Zenon DEF OrganizationAdmin
<1>3. request[r] \in RequestType /\ request[r].status = "running" /\ Now(r) = "organizationAdmin"
  BY <1>2, AtStep, Zenon
<1>4. x \in BOOLEAN
  BY Zenon DEF IsOrganizationAdmin
<1>5. x /\ request[r].kind \in {"team", "inventory"} =>
          IsOrganizationAdmin(request[r].body.owner, request[r].user)
  BY Zenon
<1> DEFINE q == [request[r] EXCEPT !.admin = x]
<1>6. /\ q \in RequestType /\ Alike(q, request[r]) /\ q.admin = x
      /\ q.next = request[r].next /\ q.id = request[r].id /\ q.grant = request[r].grant
      /\ q.old = request[r].old /\ q.refused = request[r].refused
      /\ q.blind = request[r].blind
  BY <1>3, <1>4, SetAdmin, Zenon
<1>7. Proceed(r, q)
  BY <1>1
<1> HIDE DEF q, is, org
<1>8. Finds(r, q)
  BY <1>3, <1>5, <1>6 DEF Finds
<1> QED BY <1>2, <1>3, <1>6, <1>7, <1>8, FinderInv

LEMMA LoadGranteeInv == ASSUME IInv, NEW r \in Requests, LoadGrantee(r) PROVE IInv'
<1>1. At(r, "loadGrantee") /\ Proceed(r, request[r]) /\ UNCHANGED docs
  BY Zenon DEF LoadGrantee
<1>2. "loadGrantee" \notin Special
  BY DEF Special
<1> QED BY <1>1, <1>2, PlainInv

LEMMA FindInv == ASSUME IInv, NEW r \in Requests, Find(r) PROVE IInv'
<1>1. At(r, "find") /\ IsDoc(request[r].id) /\ UNCHANGED docs
  BY Zenon DEF Find
<1>2. /\ request[r] \in RequestType /\ request[r].status = "running" /\ Fits(r)
      /\ Placed(request[r].verb, request[r].kind, HandlerOf(request[r]), request[r].next)
      /\ HandlerOf(request[r])[request[r].next] = "find"
  BY <1>1, AtStep, Zenon
<1>3. request[r].verb \in Assigns /\ request[r].grant \in Grants
  BY <1>2, Zenon DEF Placed, Fits
<1>4. PICK g \in Ids :
          Proceed(r, [request[r] EXCEPT !.grant = [request[r].grant EXCEPT !.grantee = g]])
  <2>1. request[r].id \in Ids
    BY <1>1 DEF IsDoc
  <2>2. request[r].grant.grantee \in Ids
    BY <1>3 DEF Grants
  <2> QED BY <2>1, <2>2, Zenon DEF Find
<1> DEFINE x == [request[r].grant EXCEPT !.grantee = g]
<1>5. x \in Grants
  BY <1>3, Zenon DEF Grants
<1> HIDE DEF x
<1>6. x \in Grants \cup {None}
  BY <1>5
<1> DEFINE q == [request[r] EXCEPT !.grant = x]
<1>7. /\ q \in RequestType /\ Alike(q, request[r]) /\ q.grant = x
      /\ q.next = request[r].next /\ q.id = request[r].id
  BY <1>2, <1>6, SetGrant, Zenon
<1>8. Proceed(r, q)
  BY <1>4 DEF x
<1> HIDE DEF q
<1>9. q.verb \notin {"create", "update"}
  BY <1>3, <1>7 DEF Alike, Assigns
<1> QED BY <1>1, <1>2, <1>5, <1>7, <1>8, <1>9, FinderInv

LEMMA ReadChildrenInv == ASSUME IInv, NEW r \in Requests, ReadChildren(r) PROVE IInv'
<1>1. PICK step \in {"readProjects", "readInventories"} : At(r, step)
  BY Zenon DEF ReadChildren
<1>2. /\ request[r] \in RequestType /\ request[r].status = "running"
      /\ Now(r) = step /\ UNCHANGED docs
  BY <1>1, AtStep, Zenon DEF ReadChildren
<1>3. ASSUME NEW q \in RequestType, Proceed(r, q), Alike(q, request[r]),
             q.next = request[r].next, q.id = request[r].id, q.grant = request[r].grant,
             q.old = request[r].old, q.admin = request[r].admin,
             q.refused = request[r].refused, q.blind = request[r].blind
      PROVE  IInv'
  <2>1. Finds(r, q)
    BY <1>2, <1>3 DEF Finds
  <2> QED BY <1>2, <1>3, <2>1, FinderInv
<1>4. ASSUME NEW found \in SUBSET Ids, Proceed(r, [request[r] EXCEPT !.projects = found])
      PROVE  IInv'
  BY <1>2, <1>3, <1>4, SetProjects, Zenon
<1>5. ASSUME NEW found \in SUBSET Ids, Proceed(r, [request[r] EXCEPT !.inventories = found])
      PROVE  IInv'
  BY <1>2, <1>3, <1>5, SetInventories, Zenon
<1>6. \A kind, owner : PresentIn(kind, owner) \in SUBSET Ids
  BY Zenon DEF PresentIn, Of
<1> QED BY <1>4, <1>5, <1>6 DEF ReadChildren

\* A request that ends without success.
LEMMA EndInv ==
    ASSUME IInv, NEW r \in Requests, NEW x \in {"rejected", "unassociated"},
           request[r].status = "running",
           request' = [request EXCEPT ![r] = Answered(x)], UNCHANGED docs
    PROVE  IInv'
<1>1. request \in [Requests -> RequestType] /\ docs \in DocsType
  BY Zenon DEF IInv, TypeOK, DocsType
<1>2. Answered(x) \in RequestType /\ Answered(x).status = x
  BY AnsweredType
<1>3. /\ request' \in [Requests -> RequestType] /\ request'[r] = Answered(x)
      /\ \A s \in Requests \ {r} : request'[s] = request[s]
  BY <1>1, <1>2, Zenon
<1>4. Follows(request'[r], request[r])
  BY <1>2, <1>3 DEF Follows
<1>5. ASSUME NEW s \in Requests \ {r} PROVE Watches(request'[s], request[s], {})
  BY <1>1, <1>3, SMT DEF Watches
<1>6. Stepping(r, request[r], {})
  BY <1>3, <1>4, <1>5, Zenon DEF Stepping
<1>7. Sound(r)'
  BY <1>2, <1>3 DEF Sound
<1>8. docs' \in DocsType /\ \A d \in Ids \ {} : docs'[d] = docs[d]
  BY <1>1
<1> QED BY <1>6, <1>7, <1>8, StepInv

LEMMA RejectInv == ASSUME IInv, NEW r \in Requests, Reject(r) PROVE IInv'
  BY EndInv, Zenon DEF Reject

LEMMA AssociateFailsInv == ASSUME IInv, NEW r \in Requests, AssociateFails(r) PROVE IInv'
<1>1. At(r, "associate") /\ UNCHANGED docs
  BY Zenon DEF AssociateFails
<1>2. request[r].status = "running"
  BY <1>1, Zenon DEF At
<1> QED BY <1>1, <1>2, EndInv, Zenon DEF AssociateFails

LEMMA ReceiveInv == ASSUME IInv, NEW r \in Requests, Receive(r) PROVE IInv'
<1> DEFINE New(i) == [Idle EXCEPT !.status = "running", !.verb = i.verb, !.kind = i.kind,
                          !.user = i.user, !.id = i.id, !.body = i.body, !.grant = i.grant,
                          !.projects = {i.id} \ {None}, !.inventories = {i.id} \ {None}]
<1>1. PICK i \in Inputs : /\ IsDoc(i.user) /\ UNCHANGED docs
                          /\ request' = [request EXCEPT ![r] = New(i)]
  BY Zenon DEF Receive
<1>2. i \in InputType /\ WellFormed(i)
  BY InputsAssumption
<1>3. request \in [Requests -> RequestType] /\ docs \in DocsType
  BY Zenon DEF IInv, TypeOK, DocsType
<1>4. /\ i.verb \in Verbs /\ i.kind \in Resources \cup {"user"} /\ i.user \in Ids
      /\ i.id \in Ids \cup {None} /\ i.body \in Doc \cup {None} /\ i.grant \in Grants \cup {None}
      /\ {i.id} \ {None} \in SUBSET Ids
  BY <1>2 DEF InputType
<1>5. Idle \in RequestType
  BY DEF RequestType, Idle, Verbs
<1>6. /\ Idle.next = 1 /\ Idle.admin = FALSE
  BY DEF Idle
<1> HIDE DEF New
<1>7. /\ New(i) \in RequestType /\ New(i).status = "running" /\ New(i).verb = i.verb
      /\ New(i).kind = i.kind /\ New(i).user = i.user /\ New(i).id = i.id
      /\ New(i).body = i.body /\ New(i).grant = i.grant /\ New(i).next = 1
  BY <1>4, <1>5, <1>6, Zenon DEF New, RequestType
<1>8. /\ request' \in [Requests -> RequestType] /\ request'[r] = New(i)
      /\ \A s \in Requests \ {r} : request'[s] = request[s]
  BY <1>1, <1>3, <1>7, Zenon
<1>9. ASSUME NEW s \in Requests \ {r} PROVE Sound(s)'
  <2>1. Watches(request'[s], request[s], {})
    BY <1>3, <1>8, SMT DEF Watches
  <2>2. Sound(s)
    BY DEF IInv
  <2>3. \A d \in Ids \ {} : docs'[d] = docs[d]
    BY <1>1
  <2> QED BY <2>1, <2>2, <2>3, OthersSound
<1>10. Sound(r)'
  <2> DEFINE p == request'[r]
  <2> DEFINE h == HandlerOf(p)
  <2>1. p \in RequestType /\ p.next = 1 /\ p.verb = i.verb /\ p.kind = i.kind
        /\ p.user = i.user /\ p.id = i.id /\ p.body = i.body /\ p.grant = i.grant
    BY <1>7, <1>8
  <2>2. Shaped(p.verb, p.kind, h)
    BY <2>1, Shapes
  <2>3. 1 \in 1..Len(h) /\ Placed(p.verb, p.kind, h, 1)
    <3>1. DOMAIN h = 1..Len(h) /\ Len(h) \in Nat \ {0}
      BY <2>2, Zenon DEF Shaped
    <3>2. 1 \in 1..Len(h)
      BY <3>1, SMT
    <3> QED BY <2>2, <3>1, <3>2, Zenon DEF Shaped
  <2>4. Fits(r)'
    <3>1. i.verb \in {"create", "update"} => i.body \in Doc /\ i.body.roles = {}
      BY <1>2, Zenon DEF WellFormed, NoRoles
    <3>2. i.verb # "create" => i.id \in Of(i.kind)
      BY <1>2, <1>4 DEF WellFormed, Of
    <3>3. i.verb = "create" => i.id = None
      BY <1>2, Zenon DEF WellFormed
    <3>4. i.verb \in Assigns => i.grant \in Grants
      BY <1>2, Zenon DEF WellFormed, Assigns
    <3> QED BY <1>4, <2>1, <2>3, <3>1, <3>2, <3>3, <3>4, Zenon DEF Fits
  <2>5. h[1] # "associate"
    BY <2>3, SMT DEF Placed
  <2>6. ~(1 > 1) /\ ~(1 > 2) /\ ~(1 > 4) /\ 1..(1 - 1) = {}
    BY SMT
  <2>7. OldKnown(r)' /\ Passed(r)' /\ AdminKnown(r)'
    BY <2>1, <2>5, <2>6, Zenon DEF OldKnown, Passed, AdminKnown
  <2>8. Unclaimed(r)' /\ Written(r)'
    BY <2>1, <2>6, Zenon DEF Unclaimed, Written, Past
  <2> QED BY <2>4, <2>7, <2>8 DEF Sound
<1>11. TypeOK'
  BY <1>1, <1>3, <1>8 DEF TypeOK, DocsType
<1> QED BY <1>9, <1>10, <1>11, Zenon DEF IInv

LEMMA StoredNameType ==
    ASSUME NEW q, q.body \in Doc
    PROVE  StoredName(q) \in Names
<1>1. q.body.name \in Names
  BY DEF Doc
<1>2. Trim[q.body.name] \in Names
  BY <1>1, TrimAssumption
<1> QED BY <1>1, <1>2, Zenon DEF StoredName

LEMMA InsertInv == ASSUME IInv, NEW r \in Requests, Insert(r) PROVE IInv'
<1> DEFINE o == request[r]
<1> DEFINE doc == [o.body EXCEPT !.name = StoredName(o)]
<1>1. At(r, "insert")
  BY Zenon DEF Insert
<1>2. PICK id \in Of(o.kind) : /\ docs' = [docs EXCEPT ![id] = doc]
                               /\ Wrote(r, [o EXCEPT !.id = id], {id})
  BY Zenon DEF Insert
<1>3. /\ o \in RequestType /\ o.status = "running" /\ Sound(r) /\ Fits(r) /\ TypeOK
      /\ Placed(o.verb, o.kind, HandlerOf(o), o.next) /\ HandlerOf(o)[o.next] = "insert"
      /\ request \in [Requests -> RequestType] /\ docs \in DocsType
  BY <1>1, AtStep, Zenon
<1>4. o.verb = "create" /\ o.body \in Doc
  BY <1>3, Zenon DEF Placed, Fits
<1>5. doc \in Doc /\ doc.owner = o.body.owner
  <2>1. StoredName(o) \in Names
    BY <1>4, StoredNameType
  <2> QED BY <1>4, <2>1, Zenon DEF Doc
<1>6. id \in Ids /\ id \in Ids \cup {None} /\ {id} \in SUBSET Ids
  BY DEF Of
<1> DEFINE q == [o EXCEPT !.id = id]
<1>7. /\ q \in RequestType /\ Alike(q, o) /\ q.id = id /\ q.next = o.next
      /\ q.grant = o.grant /\ q.old = o.old
  BY <1>3, <1>6, SetId, Zenon
<1>8. Wrote(r, q, {id})
  BY <1>2
<1> HIDE DEF q, doc
<1>9. q.status = "running"
  BY <1>3, <1>7 DEF Alike
<1>10. Stepping(r, q, {id})
  BY <1>3, <1>6, <1>7, <1>8, <1>9, WroteSteps
<1>11. Follows(request'[r], q)
  BY <1>10 DEF Stepping
<1>12. Sound(r)'
  BY <1>1, <1>2, <1>3, <1>5, <1>7, <1>11, InsertSound
<1>13. docs' \in DocsType /\ \A d \in Ids \ {id} : docs'[d] = docs[d]
  BY <1>2, <1>3, <1>5, <1>6 DEF DocsType
<1> QED BY <1>6, <1>10, <1>12, <1>13, StepInv

LEMMA SaveInv == ASSUME IInv, NEW r \in Requests, Save(r) PROVE IInv'
<1> DEFINE o == request[r]
<1> DEFINE doc == [o.body EXCEPT !.name = StoredName(o), !.roles = o.old.roles]
<1>1. At(r, "save") /\ docs' = [docs EXCEPT ![o.id] = doc] /\ Wrote(r, o, {o.id})
  BY Zenon DEF Save
<1>2. /\ o \in RequestType /\ o.status = "running" /\ Sound(r) /\ Fits(r) /\ TypeOK
      /\ Placed(o.verb, o.kind, HandlerOf(o), o.next) /\ HandlerOf(o)[o.next] = "save"
      /\ request \in [Requests -> RequestType] /\ docs \in DocsType
  BY <1>1, AtStep, Zenon
<1>3. o.verb = "update" /\ o.next > 1
  BY <1>2, Zenon DEF Placed
<1>4. o.body \in Doc /\ o.id \in Ids
  BY <1>2, <1>3 DEF Fits, Of
<1>5. o.old \in Doc
  BY <1>2, <1>3 DEF Sound, OldKnown
<1>6. doc \in Doc /\ doc.owner = o.body.owner /\ doc.roles = o.old.roles
  <2>1. StoredName(o) \in Names
    BY <1>4, StoredNameType
  <2>2. o.old.roles \in SUBSET Grants
    BY <1>5, Zenon DEF Doc
  <2> QED BY <1>4, <2>1, <2>2, Zenon DEF Doc
<1> HIDE DEF doc
<1>7. Stepping(r, o, {o.id})
  BY <1>1, <1>2, <1>4, WroteSteps
<1>8. Follows(request'[r], o)
  BY <1>7 DEF Stepping
<1>9. Sound(r)'
  BY <1>1, <1>2, <1>6, <1>8, SaveSound
<1>10. docs' \in DocsType /\ \A d \in Ids \ {o.id} : docs'[d] = docs[d]
  BY <1>1, <1>2, <1>4, <1>6 DEF DocsType
<1> QED BY <1>4, <1>7, <1>9, <1>10, StepInv

LEMMA AssociateType ==
    ASSUME NEW doc \in Doc, NEW g \in Grants
    PROVE  Associate(doc, g) \in Doc
  BY Zenon DEF Associate, Doc

LEMMA DisassociateType ==
    ASSUME NEW doc \in Doc, NEW g
    PROVE  Disassociate(doc, g) \in Doc
  BY Zenon DEF Disassociate, Doc

LEMMA AdminGrantType ==
    ASSUME NEW u \in Ids
    PROVE  AdminGrant(u) \in Grants
  BY DEF AdminGrant, Grants, RoleNames

\* The last step of a handler ends the request.
LEMMA AssociateEnds ==
    ASSUME IInv, NEW r \in Requests, At(r, "associate"), Follows(request'[r], request[r])
    PROVE  request'[r].status # "running"
<1>1. /\ Placed(request[r].verb, request[r].kind, HandlerOf(request[r]), request[r].next)
      /\ HandlerOf(request[r])[request[r].next] = "associate" /\ request[r] \in RequestType
  BY AtStep, Zenon
<1>2. request[r].next = Len(HandlerOf(request[r]))
  BY <1>1, Zenon DEF Placed
<1>3. Len(HandlerOf(request[r])) \in Nat
  BY <1>1, Shapes, Zenon DEF Shaped
<1> QED BY <1>2, <1>3, SMT DEF Follows

LEMMA AssociateAuthorInv == ASSUME IInv, NEW r \in Requests, AssociateAuthor(r) PROVE IInv'
<1> DEFINE o == request[r]
<1>1. At(r, "associate")
  BY Zenon DEF AssociateAuthor
<1>2. /\ o \in RequestType /\ o.status = "running" /\ Fits(r)
      /\ request \in [Requests -> RequestType] /\ docs \in DocsType
  BY <1>1, AtStep, Zenon
<1>3. ASSUME NEW ids \in SUBSET Ids, Stepping(r, o, ids), docs' \in DocsType,
             \A d \in Ids \ ids : docs'[d] = docs[d]
      PROVE  IInv'
  <2>1. Follows(request'[r], o)
    BY <1>3 DEF Stepping
  <2>2. request'[r].status # "running"
    BY <1>1, <2>1, AssociateEnds
  <2>3. Sound(r)'
    BY <2>2 DEF Sound
  <2> QED BY <1>3, <2>3, StepInv
<1>4. CASE /\ IsDoc(o.id) /\ Wrote(r, o, {o.id})
           /\ docs' = [docs EXCEPT ![o.id] = Associate(@, AdminGrant(o.user))]
  <2>1. o.id \in Ids /\ docs[o.id] \in Doc
    BY <1>2, <1>4 DEF IsDoc, DocsType
  <2>2. AdminGrant(o.user) \in Grants
    BY <1>2, AdminGrantType DEF Fits
  <2>3. Associate(docs[o.id], AdminGrant(o.user)) \in Doc
    BY <2>1, <2>2, AssociateType
  <2>4. docs' \in DocsType /\ \A d \in Ids \ {o.id} : docs'[d] = docs[d]
    BY <1>2, <1>4, <2>1, <2>3 DEF DocsType
  <2>5. Stepping(r, o, {o.id})
    BY <1>2, <1>4, <2>1, WroteSteps
  <2> QED BY <1>3, <2>1, <2>4, <2>5
<1>5. CASE Proceed(r, o) /\ UNCHANGED docs
  <2>1. Stepping(r, o, {})
    BY <1>2, <1>5, ProceedSteps
  <2>2. docs' \in DocsType /\ \A d \in Ids \ {} : docs'[d] = docs[d]
    BY <1>2, <1>5
  <2> QED BY <1>3, <2>1, <2>2
<1> QED BY <1>4, <1>5, Zenon DEF AssociateAuthor

\* Writes of requests that neither create nor update.
LEMMA WriterInv ==
    ASSUME IInv, NEW r \in Requests, NEW step, At(r, step), NEW ids \in SUBSET Ids,
           request[r].verb \notin {"create", "update"},
           Wrote(r, request[r], ids), docs' \in DocsType,
           \A d \in Ids \ ids : docs'[d] = docs[d]
    PROVE  IInv'
<1>1. /\ request[r] \in RequestType /\ request[r].status = "running" /\ Sound(r) /\ TypeOK
      /\ request \in [Requests -> RequestType]
  BY AtStep, Zenon
<1>2. Stepping(r, request[r], ids)
  BY <1>1, WroteSteps
<1>3. Follows(request'[r], request[r])
  BY <1>2 DEF Stepping
<1>4. Alike(request[r], request[r])
  BY Zenon DEF Alike
<1>5. Sound(r)'
  BY <1>1, <1>3, <1>4, FinderSound, Zenon
<1> QED BY <1>2, <1>5, StepInv

LEMMA ModifyRoleInv == ASSUME IInv, NEW r \in Requests, ModifyRole(r) PROVE IInv'
<1> DEFINE o == request[r]
<1>1. At(r, "modifyRole") /\ IsDoc(o.id) /\ Wrote(r, o, {o.id})
  BY Zenon DEF ModifyRole
<1>2. /\ Fits(r) /\ docs \in DocsType
      /\ Placed(o.verb, o.kind, HandlerOf(o), o.next) /\ HandlerOf(o)[o.next] = "modifyRole"
  BY <1>1, AtStep, Zenon
<1>3. o.verb \in Assigns /\ o.grant \in Grants
  BY <1>2, SMT DEF Placed, Fits
<1>4. o.verb \notin {"create", "update"}
  BY <1>3 DEF Assigns
<1>5. o.id \in Ids /\ docs[o.id] \in Doc
  BY <1>1, <1>2 DEF IsDoc, DocsType
<1>6. PICK doc \in Doc : docs' = [docs EXCEPT ![o.id] = doc]
  <2>1. Associate(docs[o.id], o.grant) \in Doc /\ Disassociate(docs[o.id], o.grant) \in Doc
    BY <1>3, <1>5, AssociateType, DisassociateType
  <2> QED BY <2>1, Zenon DEF ModifyRole
<1>7. docs' \in DocsType /\ \A d \in Ids \ {o.id} : docs'[d] = docs[d]
  BY <1>2, <1>5, <1>6 DEF DocsType
<1>8. {o.id} \in SUBSET Ids
  BY <1>5
<1> HIDE DEF o
<1> QED BY <1>1, <1>4, <1>7, <1>8, WriterInv DEF o

\* A step of a removal.
LEMMA Takes ==
    ASSUME IInv, NEW r \in Requests, NEW step \in Takings, At(r, step)
    PROVE  request[r].verb = "delete" /\ docs \in DocsType
<1>1. /\ docs \in DocsType
      /\ Placed(request[r].verb, request[r].kind, HandlerOf(request[r]), request[r].next)
      /\ HandlerOf(request[r])[request[r].next] = step
  BY AtStep, Zenon
<1> QED BY <1>1, Zenon DEF Placed

LEMMA PullingTakes == DOMAIN Pulled \subseteq Takings
  BY DEF Pulled, Takings

LEMMA RemovingTakes == Removals \cup {"remove"} \subseteq Takings
  BY DEF Removals, Takings, ByProject, ByInventory, ByOrganization, ByTemplate

\* No document has the grant that is pulled: the pulls of Delete change nothing.
LEMMA NothingPulled ==
    ASSUME docs \in DocsType, NEW d \in Ids, IsDoc(d), NEW u
    PROVE  [grantee |-> u, type |-> "", role |-> ""] \notin docs[d].roles
<1>1. docs[d].roles \subseteq Grants
  <2>1. docs[d] \in Doc
    BY DEF IsDoc, DocsType
  <2> QED BY <2>1, Zenon DEF Doc
<1>2. \A g \in Grants : g.role # ""
  BY DEF Grants, RoleNames
<1> QED BY <1>1, <1>2

LEMMA PullRolesKeep ==
    ASSUME IInv, NEW r \in Requests, PullRoles(r)
    PROVE  /\ docs' = docs /\ Wrote(r, request[r], {})
           /\ \E step \in DOMAIN Pulled : At(r, step)
<1>1. PICK pull \in DOMAIN Pulled :
          LET grant == [grantee |-> request[r].id, type |-> "", role |-> ""]
              holders == {d \in Of(Pulled[pull]) : IsDoc(d) /\ grant \in docs[d].roles}
          IN  /\ At(r, pull)
              /\ docs' = [d \in Ids |->
                     IF d \in holders THEN Disassociate(docs[d], grant) ELSE docs[d]]
              /\ Wrote(r, request[r], holders)
  BY Zenon DEF PullRoles
<1> DEFINE grant == [grantee |-> request[r].id, type |-> "", role |-> ""]
<1> DEFINE holders == {d \in Of(Pulled[pull]) : IsDoc(d) /\ grant \in docs[d].roles}
<1>2. docs \in DocsType
  BY Zenon DEF IInv, TypeOK, DocsType
<1>3. holders = {}
  BY <1>2, NothingPulled, Zenon DEF Of
<1>4. /\ At(r, pull) /\ Wrote(r, request[r], holders)
      /\ docs' = [d \in Ids |-> IF d \in holders THEN Disassociate(docs[d], grant) ELSE docs[d]]
  BY <1>1
<1> HIDE DEF holders
<1>5. docs' = [d \in Ids |-> docs[d]]
  BY <1>3, <1>4, Zenon
<1> QED BY <1>2, <1>3, <1>4, <1>5, Zenon DEF DocsType

LEMMA PullRolesInv == ASSUME IInv, NEW r \in Requests, PullRoles(r) PROVE IInv'
<1>1. docs' = docs /\ Wrote(r, request[r], {})
  BY PullRolesKeep
<1>2. PICK step \in DOMAIN Pulled : At(r, step)
  BY PullRolesKeep
<1>3. request[r].verb = "delete" /\ docs \in DocsType
  BY <1>2, Takes, PullingTakes
<1>4. docs' \in DocsType /\ \A d \in Ids \ {} : docs'[d] = docs[d]
  BY <1>1, <1>3
<1>5. request[r].verb \notin {"create", "update"} /\ {} \in SUBSET Ids
  BY <1>3
<1> QED BY <1>1, <1>2, <1>4, <1>5, WriterInv

LEMMA RemovingInv ==
    ASSUME IInv, NEW r \in Requests, NEW step \in Removals \cup {"remove"}, Removing(r, step)
    PROVE  IInv'
<1> DEFINE ids == Selected(request[r], step)
<1>1. /\ At(r, step) /\ Wrote(r, request[r], ids)
      /\ docs' = [d \in Ids |-> IF d \in ids THEN Gone ELSE docs[d]]
  BY Zenon DEF Removing
<1>2. request[r].verb = "delete" /\ docs \in DocsType
  BY <1>1, Takes, RemovingTakes
<1>3. ids \in SUBSET Ids
  BY Zenon DEF Selected
<1> HIDE DEF ids
<1>4. docs' \in DocsType /\ \A d \in Ids \ ids : docs'[d] = docs[d]
  BY <1>1, <1>2, <1>3 DEF DocsType
<1>5. request[r].verb \notin {"create", "update"}
  BY <1>2
<1> QED BY <1>1, <1>3, <1>4, <1>5, WriterInv

LEMMA InitIInv == Init => IInv
<1> SUFFICES ASSUME Init PROVE IInv
  OBVIOUS
<1>1. Idle \in RequestType /\ Idle.status = "idle"
  BY DEF RequestType, Idle, Verbs
<1>2. TypeOK
  BY <1>1, InitialAssumption, Zenon DEF Init, TypeOK
<1>3. \A r \in Requests : Sound(r)
  BY <1>1 DEF Init, Sound
<1> QED BY <1>2, <1>3 DEF IInv

LEMMA NextIInv == ASSUME IInv, [Next]_vars PROVE IInv'
<1>1. CASE UNCHANGED vars
  <2>1. request' = request /\ docs' = docs /\ TypeOK
    BY <1>1, Zenon DEF vars, IInv
  <2>2. ASSUME NEW s \in Requests PROVE Sound(s)'
    <3>1. Watches(request'[s], request[s], {})
      BY <2>1, SMT DEF Watches, TypeOK
    <3>2. Sound(s) /\ \A d \in Ids \ {} : docs'[d] = docs[d]
      BY <2>1 DEF IInv
    <3> QED BY <3>1, <3>2, OthersSound
  <2>3. TypeOK'
    BY <2>1 DEF TypeOK
  <2> QED BY <2>2, <2>3, Zenon DEF IInv
<1>2. ASSUME NEW r \in Requests, Receive(r) \/ Reject(r) \/ Load(r) \/ Permission(r)
      PROVE  IInv'
  BY <1>2, ReceiveInv, RejectInv, LoadInv, PermissionInv, Zenon
<1>3. ASSUME NEW r \in Requests,
             \/ OrganizationWriteByIDCheck(r) \/ ProjectReadByIDCheck(r)
             \/ Exist(r) \/ IsUnique(r) \/ Insert(r) \/ Save(r)
      PROVE  IInv'
  BY <1>3, WriteByIDInv, ReadByIDInv, ExistInv, IsUniqueInv, InsertInv, SaveInv, Zenon
<1>4. ASSUME NEW r \in Requests,
             \/ OrganizationAdmin(r) \/ AssociateAuthor(r) \/ AssociateFails(r)
             \/ LoadGrantee(r) \/ Find(r) \/ ModifyRole(r) \/ PullRoles(r)
      PROVE  IInv'
  BY <1>4, OrganizationAdminInv, AssociateAuthorInv, AssociateFailsInv, LoadGranteeInv, FindInv,
     ModifyRoleInv, PullRolesInv, Zenon
<1>5. ASSUME NEW r \in Requests, ReadChildren(r) \/ RemoveAll(r) \/ RemoveId(r)
      PROVE  IInv'
  BY <1>5, ReadChildrenInv, RemovingInv, Zenon DEF RemoveAll, RemoveId
<1> QED BY <1>1, <1>2, <1>3, <1>4, <1>5, Zenon DEF Next

\* The invariant that the action properties rest on (see the README).
THEOREM Invariance == Spec => []IInv
  BY InitIInv, NextIInv, PTL DEF Spec

\* Variables keep their types, whatever handlers store.
THEOREM TypeCorrect == Spec => []TypeOK
<1>1. IInv => TypeOK
  BY DEF IInv
<1> QED BY <1>1, Invariance, PTL

--------------------------------------------------------------------------------

LEMMA GrantedMore ==
    ASSUME NEW u, NEW doc, NEW some, NEW more, some \subseteq more, Granted(u, doc, some)
    PROVE  Granted(u, doc, more)
  BY DEF Granted

LEMMA TeamsMore ==
    ASSUME NEW u, NEW doc, NEW some, NEW more, some \subseteq more,
           IsInTeams(u, GrantedTeams(doc, some))
    PROVE  IsInTeams(u, GrantedTeams(doc, more))
  BY DEF IsInTeams, GrantedTeams

\* Any database: it is a matter of the two checks of each kind alone.
LEMMA WriterReads ==
    ASSUME NEW u, NEW kind \in Resources, NEW doc, doc.credential = None, Writes(u, kind, doc)
    PROVE  Reads(u, kind, doc)
<1>1. ASSUME NEW roles \in {{"admin"}, {"admin", "update"}, {"admin", "execute"}}
      PROVE  /\ Granted(u, doc, roles) => Granted(u, doc, RoleNames)
             /\ IsInTeams(u, GrantedTeams(doc, roles)) => IsInTeams(u, GrantedTeams(doc, RoleNames))
  <2>1. roles \subseteq RoleNames
    BY DEF RoleNames
  <2> QED BY <2>1, GrantedMore, TeamsMore
<1>2. HasGlobalWrite(u) => HasGlobalRead(u)
  BY DEF HasGlobalWrite, HasGlobalRead
<1>3. CASE kind = "organization"
  <2>1. OrganizationWrite(u, doc)
    BY <1>3 DEF Writes
  <2>2. OrganizationRead(u, doc)
    BY <1>1, <1>2, <2>1, Zenon DEF OrganizationWrite, OrganizationRead
  <2> QED BY <1>3, <2>2 DEF Reads
<1>4. CASE kind = "team"
  <2>1. TeamWrite(u, doc)
    BY <1>4 DEF Writes
  <2>2. IsOrganizationAdmin(doc.owner, u) => HasOrganizationRead(doc.owner, u)
    BY Zenon DEF IsOrganizationAdmin, HasOrganizationRead
  <2>3. TeamRead(u, doc)
    BY <1>1, <1>2, <2>1, <2>2, Zenon DEF TeamWrite, TeamRead
  <2> QED BY <1>4, <2>3 DEF Reads
<1>5. CASE kind = "credential"
  <2>1. CredentialWrite(u, doc)
    BY <1>5 DEF Writes
  <2>2. CredentialRead(u, doc)
    BY <1>1, <1>2, <2>1, Zenon DEF CredentialWrite, CredentialRead
  <2> QED BY <1>5, <2>2 DEF Reads
<1>6. CASE kind = "inventory"
  <2>1. InventoryWrite(u, doc)
    BY <1>6 DEF Writes
  <2>2. InventoryRead(u, doc)
    BY <1>1, <1>2, <2>1, Zenon DEF InventoryWrite, InventoryRead
  <2> QED BY <1>6, <2>2 DEF Reads
<1>7. CASE kind = "project"
  <2>1. ProjectWrite(u, doc)
    BY <1>7 DEF Writes
  <2>2. ProjectRead(u, doc)
    BY <1>1, <1>2, <2>1, Zenon DEF ProjectWrite, ProjectRead
  <2> QED BY <1>7, <2>2 DEF Reads
<1>8. CASE kind = "jobTemplate"
  <2>1. JobTemplateWrite(u, doc)
    BY <1>8 DEF Writes
  <2>2. JobTemplateRead(u, doc)
    BY <1>1, <1>2, <2>1, Zenon DEF JobTemplateWrite, JobTemplateRead
  <2> QED BY <1>8, <2>2 DEF Reads
<1>9. CASE kind = "terraformTemplate"
  <2>1. TerraformTemplateWrite(u, doc)
    BY <1>9 DEF Writes
  <2>2. TerraformTemplateRead(u, doc)
    BY <1>1, <1>2, <2>1, Zenon
       DEF TerraformTemplateWrite, TerraformTemplateRead
  <2> QED BY <1>9, <2>2 DEF Reads
<1> QED BY <1>3, <1>4, <1>5, <1>6, <1>7, <1>8, <1>9 DEF Resources

\* Whoever may write a document without a credential may read it.
THEOREM WritersRead == Spec => []WriterCanRead
<1>1. WriterCanRead
  BY WriterReads, Zenon DEF WriterCanRead
<1> QED BY <1>1, PTL

--------------------------------------------------------------------------------

\* Steps that leave the documents as they are.
LEMMA Readers ==
    ASSUME NEW r \in Requests,
           \/ Receive(r) \/ Reject(r) \/ Load(r) \/ Permission(r)
           \/ OrganizationWriteByIDCheck(r) \/ ProjectReadByIDCheck(r)
           \/ Exist(r) \/ IsUnique(r) \/ OrganizationAdmin(r) \/ AssociateFails(r)
           \/ LoadGrantee(r) \/ Find(r) \/ ReadChildren(r)
    PROVE  docs' = docs
  BY Zenon DEF Receive, Reject, Load, Permission, OrganizationWriteByIDCheck,
     ProjectReadByIDCheck, Exist, IsUnique, OrganizationAdmin, AssociateFails, LoadGrantee, Find,
     ReadChildren

\* Steps that change documents.
Writer(r) ==
    \/ Insert(r) \/ Save(r) \/ AssociateAuthor(r) \/ ModifyRole(r)
    \/ RemoveAll(r) \/ RemoveId(r)

LEMMA OnlyWriters ==
    ASSUME IInv, [Next]_vars, docs' # docs
    PROVE  \E r \in Requests : Writer(r)
<1>1. Next
  BY DEF vars
<1>2. PICK r \in Requests :
        \/ Receive(r) \/ Reject(r) \/ Load(r) \/ Permission(r)
        \/ OrganizationWriteByIDCheck(r) \/ ProjectReadByIDCheck(r)
        \/ Exist(r) \/ IsUnique(r) \/ Insert(r) \/ Save(r)
        \/ OrganizationAdmin(r) \/ AssociateAuthor(r) \/ AssociateFails(r)
        \/ LoadGrantee(r) \/ Find(r) \/ ModifyRole(r) \/ PullRoles(r)
        \/ ReadChildren(r) \/ RemoveAll(r) \/ RemoveId(r)
  BY <1>1, Zenon DEF Next
<1>3. ~PullRoles(r)
  BY PullRolesKeep
<1> QED BY <1>2, <1>3, Readers, Zenon DEF Writer

\* A removal leaves nothing where it changes anything.
LEMMA RemovedIsGone ==
    ASSUME NEW r \in Requests, RemoveAll(r) \/ RemoveId(r), NEW d \in Ids, docs'[d] # docs[d]
    PROVE  docs'[d] = Gone /\ ~IsDoc(d)'
<1>1. PICK step : Removing(r, step)
  BY Zenon DEF RemoveAll, RemoveId
<1>2. docs' = [x \in Ids |-> IF x \in Selected(request[r], step) THEN Gone ELSE docs[x]]
  BY <1>1, Zenon DEF Removing
<1>3. docs'[d] = Gone
  BY <1>2, Zenon
<1> QED BY <1>3 DEF IsDoc

\* What Save leaves.
LEMMA Saved ==
    ASSUME IInv, NEW r \in Requests, Save(r)
    PROVE  /\ request[r].id \in Ids /\ At(r, "save") /\ IsDoc(request[r].id)
           /\ request[r].id \in Of(request[r].kind) /\ request[r].body \in Doc
           /\ request[r].verb = "update" /\ request[r].next > 1
           /\ \A d \in Ids \ {request[r].id} : docs'[d] = docs[d]
           /\ docs'[request[r].id] = [request[r].body EXCEPT !.name = StoredName(request[r]),
                                                             !.roles = request[r].old.roles]
           /\ docs'[request[r].id].roles = request[r].old.roles
           /\ docs'[request[r].id].name = StoredName(request[r])
           /\ docs'[request[r].id].owner = request[r].body.owner
           /\ \E doc : doc = docs'[request[r].id]
                       /\ UniqueIndex(request[r].kind, doc, request[r].id)
<1> DEFINE o == request[r]
<1> DEFINE doc == [o.body EXCEPT !.name = StoredName(o), !.roles = o.old.roles]
<1>1. /\ At(r, "save") /\ docs' = [docs EXCEPT ![o.id] = doc] /\ IsDoc(o.id)
      /\ UniqueIndex(o.kind, doc, o.id)
  BY Zenon DEF Save
<1>2. /\ Fits(r) /\ docs \in DocsType
      /\ Placed(o.verb, o.kind, HandlerOf(o), o.next) /\ HandlerOf(o)[o.next] = "save"
  BY <1>1, AtStep, Zenon
<1>3. o.verb = "update" /\ o.next > 1
  BY <1>2, Zenon DEF Placed
<1>4. o.id \in Of(o.kind) /\ o.body \in Doc
  BY <1>2, <1>3, SMT DEF Fits
<1>5. o.id \in Ids
  BY <1>4 DEF Of
<1>6. doc.roles = o.old.roles /\ doc.name = StoredName(o) /\ doc.owner = o.body.owner
  BY <1>4, Zenon DEF Doc
<1> HIDE DEF doc
<1>7. docs'[o.id] = doc /\ \A d \in Ids \ {o.id} : docs'[d] = docs[d]
  BY <1>1, <1>2, <1>5 DEF DocsType
<1> QED BY <1>1, <1>3, <1>4, <1>5, <1>6, <1>7 DEF doc

\* What AssociateAuthor leaves.
LEMMA Associated ==
    ASSUME IInv, NEW r \in Requests, AssociateAuthor(r), docs' # docs
    PROVE  /\ At(r, "associate") /\ request[r].id \in Ids /\ docs[request[r].id] \in Doc
           /\ \A d \in Ids \ {request[r].id} : docs'[d] = docs[d]
           /\ docs'[request[r].id] =
                  Associate(docs[request[r].id], AdminGrant(request[r].user))
           /\ docs'[request[r].id].roles =
                  docs[request[r].id].roles \cup {AdminGrant(request[r].user)}
           /\ docs'[request[r].id].name = docs[request[r].id].name
           /\ docs'[request[r].id].owner = docs[request[r].id].owner
<1> DEFINE o == request[r]
<1>1. /\ At(r, "associate") /\ IsDoc(o.id)
      /\ docs' = [docs EXCEPT ![o.id] = Associate(docs[o.id], AdminGrant(o.user))]
  BY Zenon DEF AssociateAuthor
<1>2. docs \in DocsType
  BY <1>1, AtStep, Zenon
<1>3. o.id \in Ids /\ docs[o.id] \in Doc
  BY <1>1, <1>2 DEF IsDoc, DocsType
<1>4. /\ docs'[o.id] = Associate(docs[o.id], AdminGrant(o.user))
      /\ \A d \in Ids \ {o.id} : docs'[d] = docs[d]
  BY <1>1, <1>2, <1>3, Zenon DEF DocsType
<1>5. ASSUME NEW doc \in Doc, NEW g
      PROVE  /\ Associate(doc, g).roles = doc.roles \cup {g}
             /\ Associate(doc, g).name = doc.name /\ Associate(doc, g).owner = doc.owner
  BY Zenon DEF Associate, Doc
<1>6. /\ Associate(docs[o.id], AdminGrant(o.user)).roles =
             docs[o.id].roles \cup {AdminGrant(o.user)}
      /\ Associate(docs[o.id], AdminGrant(o.user)).name = docs[o.id].name
      /\ Associate(docs[o.id], AdminGrant(o.user)).owner = docs[o.id].owner
  BY <1>3, <1>5
<1> QED BY <1>1, <1>3, <1>4, <1>6

\* What ModifyRole leaves.
LEMMA Modified ==
    ASSUME IInv, NEW r \in Requests, ModifyRole(r)
    PROVE  /\ At(r, "modifyRole") /\ request[r].id \in Ids /\ docs[request[r].id] \in Doc
           /\ \A d \in Ids \ {request[r].id} : docs'[d] = docs[d]
           /\ docs'[request[r].id].name = docs[request[r].id].name
           /\ docs'[request[r].id].owner = docs[request[r].id].owner
           /\ \/ /\ request[r].verb \in {"assignUser", "assignTeam"}
                 /\ docs'[request[r].id].roles = docs[request[r].id].roles \cup {request[r].grant}
              \/ /\ request[r].verb \in {"revokeUser", "revokeTeam"}
                 /\ docs'[request[r].id].roles = docs[request[r].id].roles \ {request[r].grant}
<1> DEFINE o == request[r]
<1>1. At(r, "modifyRole") /\ IsDoc(o.id)
  BY Zenon DEF ModifyRole
<1>2. /\ docs \in DocsType
      /\ Placed(o.verb, o.kind, HandlerOf(o), o.next) /\ HandlerOf(o)[o.next] = "modifyRole"
  BY <1>1, AtStep, Zenon
<1>3. o.verb \in Assigns
  BY <1>2, SMT DEF Placed
<1>4. o.id \in Ids /\ docs[o.id] \in Doc
  BY <1>1, <1>2 DEF IsDoc, DocsType
<1>5. ASSUME NEW doc \in Doc, NEW g
      PROVE  /\ Associate(doc, g).roles = doc.roles \cup {g}
             /\ Associate(doc, g).name = doc.name /\ Associate(doc, g).owner = doc.owner
             /\ Disassociate(doc, g).roles = doc.roles \ {g}
             /\ Disassociate(doc, g).name = doc.name /\ Disassociate(doc, g).owner = doc.owner
  BY Zenon DEF Associate, Disassociate, Doc
<1>6. CASE o.verb \in {"assignUser", "assignTeam"}
  <2>1. docs' = [docs EXCEPT ![o.id] = Associate(docs[o.id], o.grant)]
    BY <1>6, Zenon DEF ModifyRole
  <2>2. /\ docs'[o.id] = Associate(docs[o.id], o.grant)
        /\ \A d \in Ids \ {o.id} : docs'[d] = docs[d]
    BY <1>2, <1>4, <2>1, Zenon DEF DocsType
  <2>3. /\ Associate(docs[o.id], o.grant).roles = docs[o.id].roles \cup {o.grant}
        /\ Associate(docs[o.id], o.grant).name = docs[o.id].name
        /\ Associate(docs[o.id], o.grant).owner = docs[o.id].owner
    BY <1>4, <1>5
  <2> QED BY <1>1, <1>4, <1>6, <2>2, <2>3
<1>7. CASE o.verb \in {"revokeUser", "revokeTeam"}
  <2>1. o.verb \notin {"assignUser", "assignTeam"}
    BY <1>7
  <2>2. docs' = [docs EXCEPT ![o.id] = Disassociate(docs[o.id], o.grant)]
    BY <2>1, Zenon DEF ModifyRole
  <2>3. /\ docs'[o.id] = Disassociate(docs[o.id], o.grant)
        /\ \A d \in Ids \ {o.id} : docs'[d] = docs[d]
    BY <1>2, <1>4, <2>2, Zenon DEF DocsType
  <2>4. /\ Disassociate(docs[o.id], o.grant).roles = docs[o.id].roles \ {o.grant}
        /\ Disassociate(docs[o.id], o.grant).name = docs[o.id].name
        /\ Disassociate(docs[o.id], o.grant).owner = docs[o.id].owner
    BY <1>4, <1>5
  <2> QED BY <1>1, <1>4, <1>7, <2>3, <2>4
<1> QED BY <1>3, <1>6, <1>7 DEF Assigns

--------------------------------------------------------------------------------

LEMMA RolesStep == ASSUME IInv, [Next]_vars PROVE RolesExplained
<1> SUFFICES ASSUME NEW d \in Ids, docs'[d] # docs[d], IsDoc(d), IsDoc(d)',
                    NEW g, g \in (docs[d].roles \ docs'[d].roles)
                                     \cup (docs'[d].roles \ docs[d].roles)
             PROVE  \E r \in Requests : Explains(r, d, g)
  BY Zenon DEF RolesExplained
<1>1. PICK r \in Requests : Writer(r)
  BY OnlyWriters
<1>2. CASE Insert(r)
  <2>1. PICK id \in Of(request[r].kind) :
            docs[id] = Unborn /\ \E doc : docs' = [docs EXCEPT ![id] = doc]
    BY <1>2, Zenon DEF Insert
  <2>2. d # id
    BY <2>1 DEF IsDoc
  <2>3. docs \in DocsType
    BY Zenon DEF IInv, TypeOK, DocsType
  <2>4. docs'[d] = docs[d]
    BY <2>1, <2>2, <2>3, Zenon DEF DocsType
  <2> QED BY <2>4
<1>3. CASE Save(r)
  <2>1. d = request[r].id /\ At(r, "save") /\ docs'[d].roles = request[r].old.roles
        /\ request[r].verb = "update" /\ request[r].next > 1
    BY <1>3, Saved, Zenon
  <2>2. OldKnown(r)
    BY <2>1, AtStep, Zenon DEF Sound
  <2>3. d \in request[r].touched
    <3>1. docs'[d].roles # docs[d].roles
      OBVIOUS
    <3> QED BY <2>1, <2>2, <3>1, Zenon DEF OldKnown
  <2> QED BY <2>1, <2>3, Zenon DEF Explains
<1>4. CASE AssociateAuthor(r)
  <2>1. /\ At(r, "associate") /\ d = request[r].id
        /\ docs'[d].roles = docs[d].roles \cup {AdminGrant(request[r].user)}
    BY <1>4, Associated, Zenon
  <2>2. g = AdminGrant(request[r].user) /\ g \notin docs[d].roles
    BY <2>1
  <2> QED BY <2>1, <2>2, Zenon DEF Explains
<1>5. CASE ModifyRole(r)
  <2>1. /\ At(r, "modifyRole") /\ d = request[r].id
        /\ \/ /\ request[r].verb \in {"assignUser", "assignTeam"}
              /\ docs'[d].roles = docs[d].roles \cup {request[r].grant}
           \/ /\ request[r].verb \in {"revokeUser", "revokeTeam"}
              /\ docs'[d].roles = docs[d].roles \ {request[r].grant}
    BY <1>5, Modified, Zenon
  <2>2. /\ g = request[r].grant
        /\ g \in docs[d].roles <=> request[r].verb \in {"revokeUser", "revokeTeam"}
    BY <2>1, SMT
  <2> QED BY <2>1, <2>2, Zenon DEF Explains
<1>6. CASE RemoveAll(r) \/ RemoveId(r)
  BY <1>6, RemovedIsGone
<1> QED BY <1>1, <1>2, <1>3, <1>4, <1>5, <1>6 DEF Writer

\* Grants come and go as requests name them, or with an update that lost a race.
THEOREM RolesOnPurpose == Spec => RolesChangeOnPurpose
<1>1. IInv /\ [Next]_vars => RolesExplained
  BY RolesStep
<1> QED BY <1>1, Invariance, PTL DEF Spec, RolesChangeOnPurpose

--------------------------------------------------------------------------------

\* What Insert leaves.
LEMMA Inserted ==
    ASSUME IInv, NEW r \in Requests, Insert(r)
    PROVE  \E id \in Of(request[r].kind), doc \in Doc :
               /\ At(r, "insert") /\ ~IsDoc(id) /\ docs'[id] = doc
               /\ \A d \in Ids \ {id} : docs'[d] = docs[d]
               /\ doc.name = StoredName(request[r]) /\ doc.owner = request[r].body.owner
               /\ UniqueIndex(request[r].kind, doc, id)
<1> DEFINE o == request[r]
<1> DEFINE doc == [o.body EXCEPT !.name = StoredName(o)]
<1>1. PICK id \in Of(o.kind) : /\ docs[id] = Unborn /\ docs' = [docs EXCEPT ![id] = doc]
                               /\ UniqueIndex(o.kind, doc, id)
  BY Zenon DEF Insert
<1>2. At(r, "insert")
  BY Zenon DEF Insert
<1>3. /\ Fits(r) /\ docs \in DocsType
      /\ Placed(o.verb, o.kind, HandlerOf(o), o.next) /\ HandlerOf(o)[o.next] = "insert"
  BY <1>2, AtStep, Zenon
<1>4. o.body \in Doc
  BY <1>3, Zenon DEF Placed, Fits
<1>5. doc \in Doc /\ doc.name = StoredName(o) /\ doc.owner = o.body.owner
  <2>1. StoredName(o) \in Names
    BY <1>4, StoredNameType
  <2> QED BY <1>4, <2>1, Zenon DEF Doc
<1> HIDE DEF doc
<1>6. id \in Ids
  BY DEF Of
<1>7. docs'[id] = doc /\ \A d \in Ids \ {id} : docs'[d] = docs[d]
  BY <1>1, <1>3, <1>6 DEF DocsType
<1>8. ~IsDoc(id)
  BY <1>1 DEF IsDoc
<1> QED BY <1>1, <1>2, <1>5, <1>7, <1>8

\* A request that stores a name another document has.
LEMMA StoresTaken ==
    ASSUME IInv, NEW r \in Requests, At(r, "insert") \/ At(r, "save"),
           NEW d, NEW e \in Of(request[r].kind), e # d, IsDoc(e),
           NEW doc, doc.name = StoredName(request[r]), doc.owner = request[r].body.owner,
           UniqueIndex(request[r].kind, doc, d), SameKey(request[r].kind, doc, docs[e])
    PROVE  request[r].kind # "user" /\ Overlooks(r, d, e)
<1> DEFINE o == request[r]
<1> DEFINE h == HandlerOf(o)
<1>1. SameKey(o.kind, docs[e], doc)
  BY Zenon DEF SameKey
<1>2. o.kind # "user"
  <2> SUFFICES ASSUME o.kind = "user" PROVE FALSE
    OBVIOUS
  <2>1. Namesakes(o.kind, doc) \subseteq {d}
    BY DEF UniqueIndex
  <2>2. e \in Namesakes(o.kind, doc)
    BY <1>1, Zenon DEF Namesakes
  <2> QED BY <2>1, <2>2
<1>3. ASSUME ~KeepsName(o), ~o.blind, StoredName(o) = o.body.name
      PROVE  e \in o.touched
  <2>1. PICK step \in {"insert", "save"} : At(r, step)
    OBVIOUS
  <2>2. o \in RequestType /\ Unclaimed(r) /\ h[o.next] = step /\ o.next \in DOMAIN h
    <3>1. o \in RequestType /\ Sound(r) /\ o.status = "running" /\ h[o.next] = step
      BY <2>1, AtStep, Zenon
    <3> QED BY <2>1, <3>1, Zenon DEF Sound, At
  <2>3. Ordered(h, o.next) /\ DOMAIN h = 1..Len(h) /\ Len(h) \in Nat
    BY <2>2, Shapes, Zenon DEF Shaped
  <2>4. Past(o, {"unique"})
    BY <2>2, <2>3, Zenon DEF Ordered, Past
  <2>5. o.next \in o.next..Len(h)
    BY <2>2, <2>3, SMT
  <2>6. Ahead(o, {"insert", "save"})
    BY <2>2, <2>5, Zenon DEF Ahead
  <2>7. Namesakes(o.kind, o.body) \subseteq o.touched
    BY <1>3, <2>2, <2>4, <2>6, Zenon DEF Unclaimed
  <2>8. e \in Namesakes(o.kind, o.body)
    BY <1>1, <1>3, Zenon DEF Namesakes, SameKey
  <2> QED BY <2>7, <2>8
<1> QED BY <1>2, <1>3, Zenon DEF Overlooks

LEMMA NamesStep == ASSUME IInv, [Next]_vars PROVE NamesakesExplained
<1> SUFFICES ASSUME NEW d \in Ids, docs'[d] # docs[d], NEW e \in Of(KindOf[d]) \ {d},
                    IsDoc(d)', IsDoc(e)', SameKey(KindOf[d], docs'[d], docs'[e]),
                    ~(IsDoc(d) /\ IsDoc(e) /\ SameKey(KindOf[d], docs[d], docs[e]))
             PROVE  KindOf[d] # "user" /\ \E r \in Requests : Overlooks(r, d, e)
  BY Zenon DEF NamesakesExplained
<1>1. PICK r \in Requests : Writer(r)
  BY OnlyWriters
<1>2. e \in Ids /\ e # d
  BY DEF Of
<1>3. docs'[e] = docs[e] => IsDoc(e)
  BY DEF IsDoc
<1>4. ASSUME docs[d] \in Doc, docs'[d].name = docs[d].name, docs'[d].owner = docs[d].owner,
             docs'[e] = docs[e]
      PROVE  FALSE
  <2>1. IsDoc(d)
    BY <1>4, StatesAssumption DEF IsDoc
  <2>2. SameKey(KindOf[d], docs[d], docs[e])
    BY <1>4, Zenon DEF SameKey
  <2> QED BY <1>3, <1>4, <2>1, <2>2
<1>5. CASE Insert(r)
  <2>1. PICK id \in Of(request[r].kind), doc \in Doc :
               /\ At(r, "insert") /\ docs'[id] = doc
               /\ \A x \in Ids \ {id} : docs'[x] = docs[x]
               /\ doc.name = StoredName(request[r]) /\ doc.owner = request[r].body.owner
               /\ UniqueIndex(request[r].kind, doc, id)
    BY <1>5, Inserted, Zenon
  <2>2. id = d /\ docs'[e] = docs[e]
    BY <1>2, <2>1
  <2>3. KindOf[d] = request[r].kind
    BY <2>2 DEF Of
  <2> QED BY <1>2, <1>3, <2>1, <2>2, <2>3, StoresTaken
<1>6. CASE Save(r)
  <2>1. PICK doc : /\ doc = docs'[request[r].id]
                   /\ UniqueIndex(request[r].kind, doc, request[r].id)
    BY <1>6, Saved, Zenon
  <2>2. /\ At(r, "save") /\ request[r].id \in Of(request[r].kind)
        /\ \A x \in Ids \ {request[r].id} : docs'[x] = docs[x]
        /\ doc.name = StoredName(request[r]) /\ doc.owner = request[r].body.owner
    BY <1>6, <2>1, Saved, Zenon
  <2>3. request[r].id = d /\ docs'[e] = docs[e]
    BY <1>2, <2>2
  <2>4. KindOf[d] = request[r].kind
    BY <2>2, <2>3 DEF Of
  <2> QED BY <1>2, <1>3, <2>1, <2>2, <2>3, <2>4, StoresTaken
<1>7. CASE AssociateAuthor(r)
  <2>1. /\ docs[request[r].id] \in Doc /\ request[r].id \in Ids
        /\ \A x \in Ids \ {request[r].id} : docs'[x] = docs[x]
        /\ docs'[request[r].id].name = docs[request[r].id].name
        /\ docs'[request[r].id].owner = docs[request[r].id].owner
    BY <1>7, Associated, Zenon
  <2>2. request[r].id = d /\ docs'[e] = docs[e]
    BY <1>2, <2>1
  <2> QED BY <1>4, <2>1, <2>2
<1>8. CASE ModifyRole(r)
  <2>1. /\ docs[request[r].id] \in Doc /\ request[r].id \in Ids
        /\ \A x \in Ids \ {request[r].id} : docs'[x] = docs[x]
        /\ docs'[request[r].id].name = docs[request[r].id].name
        /\ docs'[request[r].id].owner = docs[request[r].id].owner
    BY <1>8, Modified, Zenon
  <2>2. request[r].id = d /\ docs'[e] = docs[e]
    BY <1>2, <2>1
  <2> QED BY <1>4, <2>1, <2>2
<1>9. CASE RemoveAll(r) \/ RemoveId(r)
  BY <1>9, RemovedIsGone
<1> QED BY <1>1, <1>5, <1>6, <1>7, <1>8, <1>9 DEF Writer

\* A name comes to be there twice only past the check: by a race, a failed query or an
\* update that does not look for the name it stores; and never among users.
THEOREM NamesRace == Spec => NamesakesNeedARace
<1>1. IInv /\ [Next]_vars => NamesakesExplained
  BY NamesStep
<1> QED BY <1>1, Invariance, PTL DEF Spec, NamesakesNeedARace

--------------------------------------------------------------------------------

\* What becomes of the other requests.
LEMMA OthersGoOn ==
    ASSUME request \in [Requests -> RequestType], NEW s \in Requests, NEW t \in Requests \ {s},
           \/ \E q : Proceed(s, q)
           \/ \E q, ids : Wrote(s, q, ids)
           \/ \E x : request' = [request EXCEPT ![s] = x]
    PROVE  request'[t].status = request[t].status
<1>1. CASE \E q : Proceed(s, q)
  BY <1>1, Zenon DEF Proceed
<1>2. ASSUME NEW q, NEW ids, Wrote(s, q, ids) PROVE request'[t].status = request[t].status
  <2>1. CASE request[t].status = "running"
    <3>1. request'[t] = [request[t] EXCEPT !.touched = request[t].touched \cup ids]
      BY <1>2, <2>1, Zenon DEF Wrote
    <3>2. request[t] \in RequestType
      BY Zenon
    <3> QED BY <3>1, <3>2, Zenon DEF RequestType
  <2>2. CASE request[t].status # "running"
    BY <1>2, <2>2, Zenon DEF Wrote
  <2> QED BY <2>1, <2>2
<1>3. CASE \E x : request' = [request EXCEPT ![s] = x]
  BY <1>3, Zenon
<1> QED BY <1>1, <1>2, <1>3

\* The three forms of a step.
Form(s) ==
    \/ \E q : Proceed(s, q)
    \/ \E q, ids : Wrote(s, q, ids)
    \/ \E x : request' = [request EXCEPT ![s] = x]

\* One of the steps of Next.
Action(s) ==
    \/ Receive(s) \/ Reject(s) \/ Load(s) \/ Permission(s)
    \/ OrganizationWriteByIDCheck(s) \/ ProjectReadByIDCheck(s)
    \/ Exist(s) \/ IsUnique(s) \/ Insert(s) \/ Save(s)
    \/ OrganizationAdmin(s) \/ AssociateAuthor(s) \/ AssociateFails(s)
    \/ LoadGrantee(s) \/ Find(s) \/ ModifyRole(s) \/ PullRoles(s)
    \/ ReadChildren(s) \/ RemoveAll(s) \/ RemoveId(s)

LEMMA ActionForm == ASSUME NEW s \in Requests, Action(s) PROVE Form(s)
<1>1. CASE Receive(s) \/ Reject(s) \/ AssociateFails(s)
  BY <1>1, Zenon DEF Receive, Reject, AssociateFails, Form
<1>2. CASE Load(s)
  BY <1>2, Zenon DEF Load, Form
<1>3. CASE Permission(s)
  BY <1>3, Zenon DEF Permission, Form
<1>4. CASE OrganizationWriteByIDCheck(s)
  BY <1>4, Zenon DEF OrganizationWriteByIDCheck, Form
<1>5. CASE ProjectReadByIDCheck(s)
  BY <1>5, Zenon DEF ProjectReadByIDCheck, Form
<1>6. CASE Exist(s)
  BY <1>6, Zenon DEF Exist, Form
<1>7. CASE IsUnique(s)
  BY <1>7, Zenon DEF IsUnique, Form
<1>8. CASE Insert(s)
  BY <1>8, Zenon DEF Insert, Form
<1>9. CASE Save(s)
  BY <1>9, Zenon DEF Save, Form
<1>10. CASE OrganizationAdmin(s)
  BY <1>10, Zenon DEF OrganizationAdmin, Form
<1>11. CASE AssociateAuthor(s)
  BY <1>11, Zenon DEF AssociateAuthor, Form
<1>12. CASE LoadGrantee(s)
  BY <1>12, Zenon DEF LoadGrantee, Form
<1>13. CASE Find(s)
  BY <1>13, Zenon DEF Find, Form
<1>14. CASE ModifyRole(s)
  BY <1>14, Zenon DEF ModifyRole, Form
<1>15. CASE PullRoles(s)
  BY <1>15, Zenon DEF PullRoles, Form
<1>16. CASE ReadChildren(s)
  BY <1>16, Zenon DEF ReadChildren, Form
<1>17. CASE RemoveAll(s) \/ RemoveId(s)
  BY <1>17, Zenon DEF RemoveAll, RemoveId, Removing, Form
<1> QED BY <1>1, <1>2, <1>3, <1>4, <1>5, <1>6, <1>7, <1>8, <1>9, <1>10, <1>11, <1>12, <1>13,
           <1>14, <1>15, <1>16, <1>17, Zenon DEF Action

\* The action is that of the request whose status changes.
LEMMA OwnAction ==
    ASSUME IInv, [Next]_vars, NEW r \in Requests, request'[r].status # request[r].status
    PROVE  Action(r)
<1>1. Next
  BY DEF vars
<1>2. PICK s \in Requests : Action(s)
  BY <1>1, Zenon DEF Next, Action
<1>3. request \in [Requests -> RequestType]
  BY Zenon DEF IInv, TypeOK
<1>4. s = r
  BY <1>2, <1>3, ActionForm, OthersGoOn DEF Form
<1> QED BY <1>2, <1>4

\* A step of a create or update goes on from where the request is.
Moves(r) ==
    \E q \in RequestType :
        Alike(q, request[r]) /\ q.next = request[r].next /\ Follows(request'[r], q)

LEMMA PlainMoves ==
    ASSUME IInv, NEW r \in Requests, request[r].status = "running",
           Proceed(r, request[r]) \/ \E ids \in SUBSET Ids : Wrote(r, request[r], ids)
    PROVE  Moves(r) /\ Follows(request'[r], request[r])
<1>1. request \in [Requests -> RequestType] /\ request[r] \in RequestType
  BY Zenon DEF IInv, TypeOK
<1>2. Follows(request'[r], request[r])
  BY <1>1, ProceedSteps, WroteSteps DEF Stepping
<1>3. Alike(request[r], request[r])
  BY Zenon DEF Alike
<1> QED BY <1>1, <1>2, <1>3, Zenon DEF Moves

LEMMA SetMoves ==
    ASSUME IInv, NEW r \in Requests, request[r].status = "running", NEW q \in RequestType,
           Alike(q, request[r]), q.next = request[r].next,
           Proceed(r, q) \/ \E ids \in SUBSET Ids : Wrote(r, q, ids)
    PROVE  Moves(r)
<1>1. request \in [Requests -> RequestType] /\ q.status = "running"
  BY Zenon DEF IInv, TypeOK, Alike
<1>2. Follows(request'[r], q)
  BY <1>1, ProceedSteps, WroteSteps DEF Stepping
<1> QED BY <1>2, Zenon DEF Moves

LEMMA LoadMoves == ASSUME IInv, NEW r \in Requests, Load(r) PROVE Moves(r)
<1>1. At(r, "load") /\ IsDoc(request[r].id)
  BY Zenon DEF Load
<1>2. request[r] \in RequestType /\ request[r].status = "running" /\ docs \in DocsType
  BY <1>1, AtStep, Zenon
<1> DEFINE x == docs[request[r].id]
<1> DEFINE q == [request[r] EXCEPT !.old = x]
<1>3. x \in Doc \cup {None}
  BY <1>1, <1>2 DEF IsDoc, DocsType
<1>4. q \in RequestType /\ Alike(q, request[r]) /\ q.next = request[r].next
  BY <1>2, <1>3, SetOld, Zenon
<1>5. Proceed(r, q)
  BY Zenon DEF Load
<1> HIDE DEF q
<1> QED BY <1>2, <1>4, <1>5, SetMoves

LEMMA RefusingMoves ==
    ASSUME IInv, NEW r \in Requests, OrganizationWriteByIDCheck(r) \/ ProjectReadByIDCheck(r)
    PROVE  Moves(r)
<1>1. \/ At(r, "organizationWriteByID")
      \/ At(r, "projectReadByID")
  BY Zenon DEF OrganizationWriteByIDCheck, ProjectReadByIDCheck
<1>2. request[r] \in RequestType /\ request[r].status = "running"
  BY <1>1, AtStep, Zenon
<1>3. PICK x \in BOOLEAN : Proceed(r, [request[r] EXCEPT !.refused = x])
  BY Zenon DEF OrganizationWriteByIDCheck, ProjectReadByIDCheck
<1> DEFINE q == [request[r] EXCEPT !.refused = x]
<1>4. q \in RequestType /\ Alike(q, request[r]) /\ q.next = request[r].next
  BY <1>2, SetRefused, Zenon
<1>5. Proceed(r, q)
  BY <1>3
<1> HIDE DEF q
<1> QED BY <1>2, <1>4, <1>5, SetMoves

LEMMA IsUniqueMoves == ASSUME IInv, NEW r \in Requests, IsUnique(r) PROVE Moves(r)
<1>1. At(r, "unique")
  BY Zenon DEF IsUnique
<1>2. request[r] \in RequestType /\ request[r].status = "running"
  BY <1>1, AtStep, Zenon
<1> DEFINE q == [request[r] EXCEPT !.blind = TRUE]
<1>3. TRUE \in BOOLEAN
  OBVIOUS
<1>4. q \in RequestType /\ Alike(q, request[r]) /\ q.next = request[r].next
  BY <1>2, <1>3, SetBlind, Zenon
<1>5. Proceed(r, request[r]) \/ Proceed(r, q)
  BY Zenon DEF IsUnique
<1> HIDE DEF q
<1> QED BY <1>2, <1>4, <1>5, SetMoves, PlainMoves

LEMMA OrganizationAdminMoves ==
    ASSUME IInv, NEW r \in Requests, OrganizationAdmin(r) PROVE Moves(r)
<1>1. At(r, "organizationAdmin")
  BY Zenon DEF OrganizationAdmin
<1>2. request[r] \in RequestType /\ request[r].status = "running"
  BY <1>1, AtStep, Zenon
<1>3. PICK x \in BOOLEAN : Proceed(r, [request[r] EXCEPT !.admin = x])
  BY Zenon DEF OrganizationAdmin, IsOrganizationAdmin
<1> DEFINE q == [request[r] EXCEPT !.admin = x]
<1>4. q \in RequestType /\ Alike(q, request[r]) /\ q.next = request[r].next
  BY <1>2, SetAdmin, Zenon
<1>5. Proceed(r, q)
  BY <1>3
<1> HIDE DEF q
<1> QED BY <1>2, <1>4, <1>5, SetMoves

LEMMA InsertMoves == ASSUME IInv, NEW r \in Requests, Insert(r) PROVE Moves(r)
<1>1. At(r, "insert")
  BY Zenon DEF Insert
<1>2. request[r] \in RequestType /\ request[r].status = "running"
  BY <1>1, AtStep, Zenon
<1>3. PICK id \in Of(request[r].kind) : Wrote(r, [request[r] EXCEPT !.id = id], {id})
  BY Zenon DEF Insert
<1>4. id \in Ids \cup {None} /\ {id} \in SUBSET Ids
  BY DEF Of
<1> DEFINE q == [request[r] EXCEPT !.id = id]
<1>5. q \in RequestType /\ Alike(q, request[r]) /\ q.next = request[r].next
  BY <1>2, <1>4, SetId, Zenon
<1>6. Wrote(r, q, {id})
  BY <1>3
<1> HIDE DEF q
<1> QED BY <1>2, <1>4, <1>5, <1>6, SetMoves

LEMMA PlainStepMoves ==
    ASSUME IInv, NEW r \in Requests, Permission(r) \/ Exist(r)
    PROVE  Moves(r)
<1>1. Proceed(r, request[r]) /\ \E step : At(r, step)
  BY Zenon DEF Permission, Exist
<1>2. request[r].status = "running"
  BY <1>1, Zenon DEF At
<1> QED BY <1>1, <1>2, PlainMoves

LEMMA SaveMoves ==
    ASSUME IInv, NEW r \in Requests, Save(r) PROVE Moves(r) /\ Follows(request'[r], request[r])
<1>1. At(r, "save") /\ Wrote(r, request[r], {request[r].id})
  BY Zenon DEF Save
<1>2. request[r].status = "running" /\ request[r].id \in Ids
  BY <1>1, Saved, Zenon DEF At
<1> QED BY <1>1, <1>2, PlainMoves

LEMMA AssociateMoves == ASSUME IInv, NEW r \in Requests, AssociateAuthor(r) PROVE Moves(r)
<1>1. At(r, "associate")
  BY Zenon DEF AssociateAuthor
<1>2. \/ Proceed(r, request[r])
      \/ IsDoc(request[r].id) /\ Wrote(r, request[r], {request[r].id})
  BY Zenon DEF AssociateAuthor
<1>3. request[r].status = "running"
  BY <1>1, Zenon DEF At
<1> QED BY <1>2, <1>3, PlainMoves DEF IsDoc

\* The steps of the other verbs.
LEMMA OtherVerbs ==
    ASSUME IInv, NEW r \in Requests,
           \/ LoadGrantee(r) \/ Find(r) \/ ModifyRole(r) \/ PullRoles(r) \/ ReadChildren(r)
           \/ RemoveAll(r) \/ RemoveId(r)
    PROVE  request[r].verb \notin {"create", "update"}
<1>1. CASE LoadGrantee(r) \/ Find(r) \/ ModifyRole(r)
  <2>1. PICK step \in {"loadGrantee", "find", "modifyRole"} : At(r, step)
    BY <1>1, Zenon DEF LoadGrantee, Find, ModifyRole
  <2>2. request[r].verb \in Assigns
    BY <2>1, AtStep, Zenon DEF Placed
  <2> QED BY <2>2 DEF Assigns
<1>2. CASE PullRoles(r)
  <2>1. PICK step \in DOMAIN Pulled : At(r, step)
    BY <1>2, Zenon DEF PullRoles
  <2> QED BY <2>1, PullingTakes, Takes
<1>3. CASE RemoveAll(r) \/ RemoveId(r)
  <2>1. PICK step \in Removals \cup {"remove"} : At(r, step)
    BY <1>3, Zenon DEF RemoveAll, RemoveId, Removing
  <2> QED BY <2>1, RemovingTakes, Takes
<1>4. CASE ReadChildren(r)
  <2>1. PICK step \in {"readProjects", "readInventories"} : At(r, step)
    BY <1>4, Zenon DEF ReadChildren
  <2> QED BY <2>1, Takes DEF Takings
<1> QED BY <1>1, <1>2, <1>3, <1>4

\* A create or an update is answered with success by the last step of its handler.
LEMMA Finishing ==
    ASSUME IInv, [Next]_vars, NEW r \in Requests,
           request[r].status = "running", request'[r].status = "done",
           request[r].verb \in {"create", "update"}
    PROVE  /\ request[r].next = Len(HandlerOf(request[r]))
           /\ At(r, "save") => Save(r) /\ ~request[r].refused
           /\ At(r, "associate") => AssociateAuthor(r)
<1> DEFINE o == request[r]
<1>1. Action(r)
  BY OwnAction
<1>2. request \in [Requests -> RequestType] /\ o \in RequestType /\ Fits(r)
  BY Zenon DEF IInv, TypeOK, Sound
<1>3. ~Receive(r)
  BY Zenon DEF Receive
<1>4. ASSUME NEW x \in {"rejected", "unassociated"}, request' = [request EXCEPT ![r] = Answered(x)]
      PROVE  FALSE
  <2>1. request'[r] = Answered(x)
    BY <1>2, <1>4, Zenon
  <2>2. Answered(x).status = x
    BY AnsweredType
  <2> QED BY <2>1, <2>2
<1>5. ~Reject(r) /\ ~AssociateFails(r)
  BY <1>4, Zenon DEF Reject, AssociateFails
<1>6. \/ Load(r) \/ Permission(r) \/ OrganizationWriteByIDCheck(r) \/ ProjectReadByIDCheck(r)
      \/ Exist(r) \/ IsUnique(r) \/ Insert(r) \/ Save(r) \/ OrganizationAdmin(r)
      \/ AssociateAuthor(r)
  BY <1>1, <1>3, <1>5, OtherVerbs, Zenon DEF Action
<1>7. Moves(r)
  BY <1>6, LoadMoves, PlainStepMoves, RefusingMoves, IsUniqueMoves, InsertMoves, SaveMoves,
     OrganizationAdminMoves, AssociateMoves
<1>8. o.next = Len(HandlerOf(o))
  <2>1. PICK q \in RequestType : Alike(q, o) /\ q.next = o.next /\ Follows(request'[r], q)
    BY <1>7 DEF Moves
  <2>2. HandlerOf(q) = HandlerOf(o)
    BY <2>1, Zenon DEF HandlerOf, Alike
  <2>3. ~(o.next < Len(HandlerOf(o)))
    BY <2>1, <2>2, Zenon DEF Follows
  <2>4. Len(HandlerOf(o)) \in Nat
    BY <1>2, Shapes DEF Shaped
  <2>5. o.next \in 1..Len(HandlerOf(o))
    BY <1>2, Zenon DEF Fits
  <2> QED BY <2>3, <2>4, <2>5, SMT
<1>9. PICK step :
          /\ At(r, step)
          /\ step = "save" => Save(r)
          /\ step = "associate" => AssociateAuthor(r)
  <2>1. CASE Save(r)
    <3>1. At(r, "save") /\ "save" # "associate"
      BY <2>1, Zenon DEF Save
    <3> QED BY <2>1, <3>1
  <2>2. CASE AssociateAuthor(r)
    BY <2>2, Zenon DEF AssociateAuthor
  <2>3. CASE Permission(r)
    <3>1. PICK check \in Permissions : At(r, check)
      BY <2>3, Zenon DEF Permission
    <3> QED BY <3>1 DEF Permissions
  <2>4. CASE \/ Load(r) \/ OrganizationWriteByIDCheck(r) \/ ProjectReadByIDCheck(r)
             \/ Exist(r) \/ IsUnique(r) \/ Insert(r) \/ OrganizationAdmin(r)
    <3>1. PICK step \in {"load", "organizationWriteByID", "projectReadByID", "ownerExist",
                        "inventoryExist", "credentialExist", "unique", "insert",
                        "organizationAdmin"} : At(r, step)
      BY <2>4, Zenon DEF Load, OrganizationWriteByIDCheck, ProjectReadByIDCheck, Exist, IsUnique,
         Insert, OrganizationAdmin
    <3> QED BY <3>1
  <2> QED BY <1>6, <2>1, <2>2, <2>3, <2>4
<1>10. \A other : At(r, other) => other = step
  BY <1>9, Zenon DEF At
<1>11. Save(r) => ~o.refused
  <2>1. Save(r) => Follows(request'[r], o)
    BY SaveMoves
  <2> QED BY <2>1, Zenon DEF Follows
<1> QED BY <1>8, <1>9, <1>10, <1>11

\* Who has the role of an administrator may write.
LEMMA AdminsWrite ==
    ASSUME NEW u, NEW kind \in Resources, NEW d,
           \/ Granted(u, docs'[d], {"admin"})
           \/ HasGlobalWrite(u)
           \/ kind \in {"team", "inventory"} /\ IsOrganizationAdmin(docs[d].owner, u)'
    PROVE  Writes(u, kind, docs[d])'
<1>1. ASSUME NEW roles \in {{"admin"}, {"admin", "update"}, {"admin", "execute"}},
             Granted(u, docs'[d], {"admin"})
      PROVE  Granted(u, docs'[d], roles)
  <2>1. {"admin"} \subseteq roles
    OBVIOUS
  <2> QED BY <1>1, <2>1, Zenon DEF Granted
<1> QED BY <1>1 DEF Writes, Resources, OrganizationWrite, TeamWrite, CredentialWrite,
           InventoryWrite, ProjectWrite, JobTemplateWrite, TerraformTemplateWrite

\* The end of a create or update, its organization and its document untouched by others.
Finishes(r) ==
    LET q == request[r] IN
    /\ q.status = "running" /\ request'[r].status = "done"
    /\ q.verb \in {"create", "update"} /\ q.kind \in Resources
    /\ {q.id, q.body.owner} \cap q.touched = {}

LEMMA FinishesAt ==
    ASSUME IInv, [Next]_vars, NEW r \in Requests, Finishes(r)
    PROVE  LET o == request[r]
               h == HandlerOf(o)
           IN  /\ o.next = Len(h)
               /\ h[o.next] = "save" => Save(r) /\ ~o.refused
               /\ h[o.next] = "associate" => At(r, "associate") /\ AssociateAuthor(r)
               /\ OldKnown(r) /\ Written(r) /\ AdminKnown(r) /\ Passed(r) /\ Fits(r)
               /\ Permitted(o.verb, o.kind, h) /\ Placed(o.verb, o.kind, h, o.next)
               /\ Ordered(h, o.next)
<1> DEFINE o == request[r]
<1> DEFINE h == HandlerOf(o)
<1>1. /\ o.next = Len(h)
      /\ At(r, "save") => Save(r) /\ ~o.refused
      /\ At(r, "associate") => AssociateAuthor(r)
  BY Finishing DEF Finishes
<1>2. o \in RequestType /\ Sound(r)
  BY Zenon DEF IInv, TypeOK
<1>3. Fits(r) /\ OldKnown(r) /\ Written(r) /\ AdminKnown(r) /\ Passed(r)
  BY <1>2, Zenon DEF Sound, Finishes
<1>4. Shaped(o.verb, o.kind, h)
  BY <1>2, Shapes
<1>5. o.next \in DOMAIN h /\ o.next \in Nat \ {0}
  BY <1>1, <1>4, SMT DEF Shaped
<1>6. \A step : h[o.next] = step => At(r, step)
  BY <1>5, Zenon DEF At, Finishes
<1> QED BY <1>1, <1>3, <1>4, <1>5, <1>6, Zenon DEF Shaped

LEMMA OrganizationEnds ==
    ASSUME IInv, [Next]_vars, NEW r \in Requests, Finishes(r), request[r].kind = "organization",
           NEW d, d = request[r].id, NEW u, u = request[r].user
    PROVE  Granted(u, docs'[d], {"admin"}) \/ HasGlobalWrite(u)
<1> DEFINE o == request[r]
<1> DEFINE h == HandlerOf(o)
<1>0. u = o.user
  OBVIOUS
<1>1. /\ o.next = Len(h) /\ Permitted(o.verb, o.kind, h) /\ Passed(r)
      /\ h[o.next] = "save" => Save(r)
  BY FinishesAt
<1>2. CASE o.verb = "create"
  <2>1. Len(h) = 3
    BY <1>1, <1>2, Zenon DEF Permitted
  <2>2. o.next > 1
    BY <1>1, <2>1, SMT
  <2> QED BY <1>1, <1>2, <2>2, Zenon DEF Passed, HasGlobalWrite
<1>3. CASE o.verb = "update"
  <2>1. Len(h) = 4 /\ h[4] = "save"
    BY <1>1, <1>3, Zenon DEF Permitted
  <2>2. o.next > 2
    BY <1>1, <2>1, SMT
  <2>3. OrganizationWrite(u, o.old)
    BY <1>1, <1>3, <2>2, Zenon DEF Passed
  <2>4. docs'[d].roles = o.old.roles
    BY <1>1, <2>1, Saved, Zenon
  <2> QED BY <2>3, <2>4, Zenon DEF OrganizationWrite, Granted
<1> QED BY <1>2, <1>3 DEF Finishes

LEMMA TeamUpdateEnds ==
    ASSUME IInv, [Next]_vars, NEW r \in Requests, Finishes(r), request[r].kind = "team",
           request[r].verb = "update", NEW d, d = request[r].id, NEW u, u = request[r].user
    PROVE  \/ HasGlobalWrite(u)
           \/ IsOrganizationAdmin(docs[d].owner, u)'
<1> DEFINE o == request[r]
<1> DEFINE h == HandlerOf(o)
<1>0. u = o.user
  OBVIOUS
<1>1. /\ o.next = Len(h) /\ Permitted(o.verb, o.kind, h) /\ Passed(r) /\ OldKnown(r)
      /\ h[o.next] = "save" => Save(r) /\ ~o.refused
  BY FinishesAt
<1>2. Len(h) = 6 /\ h[6] = "save"
  BY <1>1, Zenon DEF Permitted
<1>3. o.next > 4 /\ o.next > 1
  BY <1>1, <1>2, SMT
<1>4. Save(r) /\ ~o.refused
  BY <1>1, <1>2
<1>5. OrganizationWriteByID(u, o.body.owner)
  BY <1>1, <1>3, <1>4, Zenon DEF Passed, Finishes
<1>6. /\ IsDoc(d) /\ docs[d].roles = o.old.roles
  BY <1>1, <1>3, Zenon DEF OldKnown, Finishes
<1>7. /\ d \in Ids /\ \A x \in Ids \ {d} : docs'[x] = docs[x]
      /\ docs'[d].roles = o.old.roles /\ docs'[d].owner = o.body.owner
  BY <1>4, Saved, Zenon
<1>8. IsDoc(d)'
  <2>1. docs'[d] = [o.body EXCEPT !.name = StoredName(o), !.roles = o.old.roles]
    BY <1>4, Saved, Zenon
  <2>2. docs'[d] \in Doc
    <3>1. o.body \in Doc /\ StoredName(o) \in Names
      BY <1>4, Saved, StoredNameType, Zenon
    <3>2. o.old \in Doc
      BY <1>1, <1>3, Zenon DEF OldKnown
    <3>3. o.old.roles \in SUBSET Grants
      BY <3>2 DEF Doc
    <3> QED BY <2>1, <3>1, <3>3, Zenon DEF Doc
  <2> QED BY <1>7, <2>2, StatesAssumption DEF IsDoc
<1>9. PICK org : org = o.body.owner
  OBVIOUS
<1>10. IsDoc(org) /\ (HasGlobalWrite(u) \/ Granted(u, docs[org], {"admin"}))
  BY <1>5, <1>9, Zenon DEF OrganizationWriteByID, OrganizationWrite
<1>11. IsDoc(org)' /\ docs'[org].roles = docs[org].roles
  <2>1. CASE org = d
    BY <1>6, <1>7, <1>8, <2>1
  <2>2. CASE org # d
    BY <1>7, <1>10, <2>2 DEF IsDoc
  <2> QED BY <2>1, <2>2
<1>12. Granted(u, docs[org], {"admin"}) => IsOrganizationAdmin(org, u)'
  BY <1>11, Zenon DEF Granted, IsOrganizationAdmin
<1> QED BY <1>7, <1>9, <1>10, <1>12

LEMMA AssociateEndsWrite ==
    ASSUME IInv, [Next]_vars, NEW r \in Requests, Finishes(r),
           LET h == HandlerOf(request[r]) IN h[Len(h)] = "associate",
           request[r].kind # "organization", NEW d, d = request[r].id, NEW u, u = request[r].user
    PROVE  \/ Granted(u, docs'[d], {"admin"})
           \/ HasGlobalWrite(u)
           \/ /\ request[r].kind \in {"team", "inventory"}
              /\ IsOrganizationAdmin(docs[d].owner, u)'
<1> DEFINE o == request[r]
<1> DEFINE h == HandlerOf(o)
<1>0. u = o.user
  OBVIOUS
<1>1. /\ o.next = Len(h) /\ h[o.next] = "associate" /\ At(r, "associate") /\ AssociateAuthor(r)
      /\ Written(r) /\ AdminKnown(r) /\ Ordered(h, o.next)
  BY FinishesAt
<1>2. Past(o, {"insert", "save"})
  BY <1>1, Zenon DEF Ordered, Past
<1>3. IsDoc(d) /\ docs[d].owner = o.body.owner
  BY <1>1, <1>2, Zenon DEF Written, Finishes
<1>4. CASE BecomesAdmin(o)
  <2>1. docs' = [docs EXCEPT ![o.id] = Associate(docs[o.id], AdminGrant(u))]
    BY <1>1, <1>3, <1>4, Zenon DEF AssociateAuthor
  <2>2. docs \in DocsType
    BY <1>1, AtStep, Zenon
  <2>3. docs'[d] = Associate(docs[d], AdminGrant(u)) /\ docs[d] \in Doc
    BY <1>3, <2>1, <2>2 DEF IsDoc, DocsType
  <2>4. docs'[d].roles = docs[d].roles \cup {AdminGrant(u)}
    BY <2>3, Zenon DEF Associate, Doc
  <2>5. AdminGrant(u) \in docs'[d].roles
    BY <2>4
  <2>6. /\ AdminGrant(u).type = "user" /\ AdminGrant(u).grantee = u
        /\ AdminGrant(u).role \in {"admin"}
    BY DEF AdminGrant
  <2> QED BY <2>5, <2>6, Zenon DEF Granted
<1>5. CASE ~BecomesAdmin(o)
  <2>1. docs' = docs
    BY <1>1, <1>5, Zenon DEF AssociateAuthor
  <2>2. CASE o.kind \in {"team", "inventory"}
    <3>1. HasGlobalWrite(u) \/ o.admin
      BY <1>5, <2>2 DEF BecomesAdmin
    <3>2. o.admin => IsOrganizationAdmin(docs[d].owner, u)
      BY <1>1, <1>3, <2>2, Zenon DEF AdminKnown, Finishes
    <3> QED BY <2>1, <2>2, <3>1, <3>2, Zenon DEF IsOrganizationAdmin, IsDoc
  <2>3. CASE o.kind \notin {"team", "inventory"}
    BY <1>5, <2>3, <1>1 DEF BecomesAdmin, Finishes, Resources
  <2> QED BY <2>2, <2>3
<1> QED BY <1>4, <1>5

LEMMA FinisherStep == ASSUME IInv, [Next]_vars PROVE AuthorsCanWrite
<1> SUFFICES ASSUME NEW r \in Requests, Finishes(r), NEW u, u = request[r].user,
                    NEW d, d = request[r].id, NEW kind, kind = request[r].kind
             PROVE  Writes(u, kind, docs[d])'
  <2> SUFFICES ASSUME NEW r \in Requests, Finishes(r),
                      NEW u \in {request[r].user}, NEW d \in {request[r].id},
                      NEW kind \in {request[r].kind}
               PROVE  Writes(u, kind, docs[d])'
    <3>1. \A r \in Requests :
              Finishes(r) => \A u \in {request[r].user}, d \in {request[r].id},
                                kind \in {request[r].kind} : Writes(u, kind, docs[d])'
      OBVIOUS
    <3> QED BY <3>1, SMT DEF AuthorsCanWrite, Finishes
  <2> QED OBVIOUS
<1> DEFINE o == request[r]
<1> DEFINE h == HandlerOf(o)
<1>1. Permitted(o.verb, o.kind, h) /\ o.kind \in Resources
  BY FinishesAt DEF Finishes
<1>2. \/ o.kind = "organization"
      \/ o.kind = "team" /\ o.verb = "update"
      \/ o.kind # "organization" /\ h[Len(h)] = "associate"
  BY <1>1, Zenon DEF Permitted, Finishes
<1>3. \/ Granted(u, docs'[d], {"admin"})
      \/ HasGlobalWrite(u)
      \/ kind \in {"team", "inventory"} /\ IsOrganizationAdmin(docs[d].owner, u)'
  BY <1>2, OrganizationEnds, TeamUpdateEnds, AssociateEndsWrite
<1> QED BY <1>1, <1>3, AdminsWrite

\* Whoever's create or update was answered with success may write the document.
THEOREM FinishersWrite == Spec => FinisherCanWrite
<1>1. IInv /\ [Next]_vars => AuthorsCanWrite
  BY FinisherStep
<1> QED BY <1>1, Invariance, PTL DEF Spec, FinisherCanWrite

================================================================================
