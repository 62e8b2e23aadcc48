------------------------------ MODULE AccessLists ------------------------------
(***************************************************************************)
(* The access lists of documents (api/acl.go): which users have a role in  *)
(* a document or in its organization.  A handler reads the organization,   *)
(* collects the grants it knows in a map and loads the users of the map.   *)
(***************************************************************************)
EXTENDS AccessControl

UsersWith(roles, known) ==
    {g.grantee : g \in {h \in roles : h.type = "user" /\ h.role \in known}}

(* The users who get an entry. *)
AllAccess(org, doc, known) ==
    UsersWith(docs[org].roles, {"admin", "member", "auditor"}) \cup UsersWith(doc.roles, known)

(* The map is declared and never made: the entry of a user is a nil        *)
(* pointer, and the first grant found dereferences it.                     *)
Answer(org, doc, known) ==
    CASE ~IsDoc(org) -> "error"
      [] IsDoc(org) /\ AllAccess(org, doc, known) # {} -> "panic"
      [] IsDoc(org) /\ AllAccess(org, doc, known) = {} -> "empty list"

(* No route leads here: the router answers 501. *)
CredentialAccessList(doc) == Answer(doc.owner, doc, {"admin", "use"})

(* The roles of a template are looked for. *)
ProjectAccessList(doc) == Answer(doc.owner, doc, {"admin", "execute"})

TeamAccessList(doc) == Answer(doc.owner, doc, {"admin", "member"})

InventoryAccessList(doc) == Answer(doc.owner, doc, {"admin", "use", "update"})

(* The lists of templates ask for the project by a field "project_id",     *)
(* which templates have and projects have not: they always answer an error.*)
FieldsOfProject == {"_id", "name", "scm_type", "organization_id", "roles"}

FindsProject(doc) == "project_id" \in FieldsOfProject /\ IsDoc(doc.owner)

JobTemplateAccessList(doc) ==
    IF FindsProject(doc) THEN Answer(docs[doc.owner].owner, doc, {"admin", "execute"}) ELSE "error"

TerraformTemplateAccessList(doc) ==
    IF FindsProject(doc) THEN Answer(docs[doc.owner].owner, doc, {"admin", "execute"}) ELSE "error"

AccessList(kind, doc) ==
    CASE kind = "credential" -> CredentialAccessList(doc)
      [] kind = "project" -> ProjectAccessList(doc)
      [] kind = "team" -> TeamAccessList(doc)
      [] kind = "inventory" -> InventoryAccessList(doc)
      [] kind = "jobTemplate" -> JobTemplateAccessList(doc)
      [] kind = "terraformTemplate" -> TerraformTemplateAccessList(doc)

(* "AccessList returns the list of teams and users that is able to access   *)
(* current project object" (api/acl.go:194): the list of a project, and of  *)
(* a team or inventory, whose handlers are alike, is answered.  These are   *)
(* the kinds with a route to a handler that gets as far as the grants.      *)
AccessListAnswers ==
    \A d \in Ids :
        IsDoc(d) /\ KindOf[d] \in {"project", "team", "inventory"} =>
            AccessList(KindOf[d], docs[d]) # "panic"

================================================================================
