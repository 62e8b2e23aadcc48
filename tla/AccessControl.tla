---------------------------- MODULE AccessControl ----------------------------
(***************************************************************************)
(* The documents of tensor other than running jobs, and who may read and   *)
(* write them (package rbac).  Every document carries its grants in the    *)
(* array "roles"; a check reads the document it was handed, and for the    *)
(* rest the database as it is at that moment.                              *)
(***************************************************************************)
EXTENDS Naturals, FiniteSets

CONSTANTS
    Ids,            \* ids of documents, of all collections
    KindOf,         \* the collection of an id
    Names,
    SuperUsers, Auditors,   \* flags of users, which no request changes
    None, Unborn, Gone      \* no id; not yet inserted; removed

Resources == {"organization", "team", "credential", "inventory", "project",
              "jobTemplate", "terraformTemplate"}
Kinds == Resources \cup {"user", "host", "group", "job", "terraformJob"}

ASSUME KindsAssumption ==
    /\ KindOf \in [Ids -> Kinds]
    /\ None \notin Ids
    /\ SuperUsers \subseteq Ids /\ Auditors \subseteq Ids

Of(kind) == {i \in Ids : KindOf[i] = kind}
Users == Of("user")

RoleNames == {"admin", "member", "auditor", "use", "update", "execute"}

Grants == [grantee : Ids, type : {"user", "team"}, role : RoleNames]

(* owner: the organization, of a template or job the project, of a host or *)
(* group the inventory.  credential: the first of the machine, cloud and   *)
(* network credentials of a template that is set.                          *)
Doc == [name : Names, owner : Ids \cup {None}, inventory : Ids \cup {None},
        credential : Ids \cup {None}, template : Ids \cup {None},
        roles : SUBSET Grants]

(* The collections that the references of a document are ids of. *)
OwnerKind ==
    [team |-> "organization", credential |-> "organization", inventory |-> "organization",
     project |-> "organization", jobTemplate |-> "project", terraformTemplate |-> "project",
     job |-> "project", terraformJob |-> "project", host |-> "inventory", group |-> "inventory"]
TemplateKind == [job |-> "jobTemplate", terraformJob |-> "terraformTemplate"]

Belongs(kind, doc) ==
    /\ doc.owner # None => kind \in DOMAIN OwnerKind /\ KindOf[doc.owner] = OwnerKind[kind]
    /\ doc.template # None => kind \in DOMAIN TemplateKind /\ KindOf[doc.template] = TemplateKind[kind]

ASSUME StatesAssumption == Unborn \notin Doc /\ Gone \notin Doc /\ Unborn # Gone

VARIABLE docs       \* every collection: what is stored under an id

IsDoc(id) == id \in Ids /\ docs[id] \notin {Unborn, Gone}

--------------------------------------------------------------------------------

HasGlobalRead(u) == u \in SuperUsers \cup Auditors
HasGlobalWrite(u) == u \in SuperUsers

(* The two conditions of the query may hold of two different grants, and   *)
(* neither asks for the type of the grant.                                 *)
IsOrganizationAdmin(org, u) ==
    /\ IsDoc(org)
    /\ \E g \in docs[org].roles : g.grantee = u
    /\ \E g \in docs[org].roles : g.role = "admin"

HasOrganizationRead(org, u) ==
    IsDoc(org) /\ \E g \in docs[org].roles : g.grantee = u

(* The grants of a document itself. *)
Granted(u, doc, roles) ==
    \E g \in doc.roles : g.type = "user" /\ g.grantee = u /\ g.role \in roles

GrantedTeams(doc, roles) ==
    {g.grantee : g \in {h \in doc.roles : h.type = "team" /\ h.role \in roles}}

(* The query asks for a field called "_id:", with a colon: no team has it, *)
(* so a role granted to a team opens nothing to its members.               *)
FieldsOfTeam == {"_id", "name", "organization_id", "roles"}

IsInTeams(u, teams) ==
    /\ "_id:" \in FieldsOfTeam
    /\ \E t \in teams : IsDoc(t) /\ \E g \in docs[t].roles : g.grantee = u

--------------------------------------------------------------------------------

OrganizationRead(u, doc) == HasGlobalRead(u) \/ Granted(u, doc, RoleNames)

OrganizationWrite(u, doc) == HasGlobalWrite(u) \/ Granted(u, doc, {"admin"})

OrganizationWriteByID(u, org) == IsDoc(org) /\ OrganizationWrite(u, docs[org])

TeamRead(u, doc) ==
    \/ HasGlobalRead(u)
    \/ HasOrganizationRead(doc.owner, u)
    \/ Granted(u, doc, RoleNames)

TeamWrite(u, doc) ==
    \/ HasGlobalWrite(u)
    \/ IsOrganizationAdmin(doc.owner, u)
    \/ Granted(u, doc, {"admin"})

(* A credential need not have an organization. *)
CredentialRead(u, doc) ==
    \/ HasGlobalRead(u)
    \/ doc.owner # None /\ IsOrganizationAdmin(doc.owner, u)
    \/ Granted(u, doc, RoleNames)
    \/ IsInTeams(u, GrantedTeams(doc, RoleNames))

CredentialWrite(u, doc) ==
    \/ HasGlobalWrite(u)
    \/ doc.owner # None /\ IsOrganizationAdmin(doc.owner, u)
    \/ Granted(u, doc, {"admin"})
    \/ IsInTeams(u, GrantedTeams(doc, {"admin"}))

CredentialReadByID(u, id) == IsDoc(id) /\ CredentialRead(u, docs[id])

(* Wrong: the role of those who update is missing. *)
InventoryReadByUse(u, doc) ==
    \/ HasGlobalRead(u)
    \/ IsOrganizationAdmin(doc.owner, u)
    \/ Granted(u, doc, {"admin", "use"})

InventoryRead(u, doc) ==
    \/ HasGlobalRead(u)
    \/ IsOrganizationAdmin(doc.owner, u)
    \/ Granted(u, doc, RoleNames)
    \/ IsInTeams(u, GrantedTeams(doc, RoleNames))

InventoryWrite(u, doc) ==
    \/ HasGlobalWrite(u)
    \/ IsOrganizationAdmin(doc.owner, u)
    \/ Granted(u, doc, {"admin", "update"})
    \/ IsInTeams(u, GrantedTeams(doc, {"admin", "update"}))

InventoryReadByID(u, id) == IsDoc(id) /\ InventoryRead(u, docs[id])

ProjectRead(u, doc) ==
    \/ HasGlobalRead(u)
    \/ IsOrganizationAdmin(doc.owner, u)
    \/ Granted(u, doc, RoleNames)
    \/ IsInTeams(u, GrantedTeams(doc, RoleNames))

ProjectWrite(u, doc) ==
    \/ HasGlobalWrite(u)
    \/ IsOrganizationAdmin(doc.owner, u)
    \/ Granted(u, doc, {"admin"})
    \/ IsInTeams(u, GrantedTeams(doc, {"admin"}))

ProjectReadByID(u, id) == IsDoc(id) /\ ProjectRead(u, docs[id])

(* A template's GetOrganizationID looks the id of its project up among the *)
(* organizations, and the checks go on only when that fails.               *)
GetOrganizationID(doc) ==
    IF IsDoc(doc.owner) /\ KindOf[doc.owner] = "organization" THEN doc.owner ELSE None

IsTemplateAdmin(u, doc) ==
    GetOrganizationID(doc) = None /\ IsOrganizationAdmin(None, u)

(* A credential alone decides, if the template has one. *)
JobTemplateRead(u, doc) ==
    \/ HasGlobalRead(u)
    \/ doc.credential # None /\ CredentialReadByID(u, doc.credential)
    \/ /\ doc.credential = None
       /\ \/ InventoryReadByID(u, doc.inventory)
          \/ ProjectReadByID(u, doc.owner)
          \/ IsTemplateAdmin(u, doc)
          \/ Granted(u, doc, RoleNames)
          \/ IsInTeams(u, GrantedTeams(doc, RoleNames))

JobTemplateWrite(u, doc) ==
    \/ HasGlobalWrite(u)
    \/ IsTemplateAdmin(u, doc)
    \/ Granted(u, doc, {"admin", "execute"})
    \/ IsInTeams(u, GrantedTeams(doc, {"admin", "execute"}))

TerraformTemplateRead(u, doc) ==
    \/ HasGlobalRead(u)
    \/ doc.credential # None /\ CredentialReadByID(u, doc.credential)
    \/ /\ doc.credential = None
       /\ \/ ProjectReadByID(u, doc.owner)
          \/ IsTemplateAdmin(u, doc)
          \/ Granted(u, doc, RoleNames)
          \/ IsInTeams(u, GrantedTeams(doc, RoleNames))

TerraformTemplateWrite(u, doc) ==
    \/ HasGlobalWrite(u)
    \/ IsTemplateAdmin(u, doc)
    \/ Granted(u, doc, {"admin", "execute"})
    \/ IsInTeams(u, GrantedTeams(doc, {"admin", "execute"}))

UserWrite(u, id) == HasGlobalRead(u) \/ u = id
UserWriteSpecial(u) == HasGlobalRead(u)

Reads(u, kind, doc) ==
    CASE kind = "organization" -> OrganizationRead(u, doc)
      [] kind = "team" -> TeamRead(u, doc)
      [] kind = "credential" -> CredentialRead(u, doc)
      [] kind = "inventory" -> InventoryRead(u, doc)
      [] kind = "project" -> ProjectRead(u, doc)
      [] kind = "jobTemplate" -> JobTemplateRead(u, doc)
      [] kind = "terraformTemplate" -> TerraformTemplateRead(u, doc)

Writes(u, kind, doc) ==
    CASE kind = "organization" -> OrganizationWrite(u, doc)
      [] kind = "team" -> TeamWrite(u, doc)
      [] kind = "credential" -> CredentialWrite(u, doc)
      [] kind = "inventory" -> InventoryWrite(u, doc)
      [] kind = "project" -> ProjectWrite(u, doc)
      [] kind = "jobTemplate" -> JobTemplateWrite(u, doc)
      [] kind = "terraformTemplate" -> TerraformTemplateWrite(u, doc)

================================================================================
