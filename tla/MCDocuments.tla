----------------------------- MODULE MCDocuments -----------------------------
(***************************************************************************)
(* Small instances of Documents: an organization with one document of each *)
(* kind, a second organization, and for each kind an id to create.         *)
(***************************************************************************)
EXTENDS Documents, AccessLists

CONSTANTS o1, o2, t1, t2, c1, c2, i1, i2, p1, p2, j1, j2, k1, k2,
          root, ann, bob, new, h1, g1, b1, b2

Kind(sets) == [id \in Ids |-> CHOOSE k \in DOMAIN sets : id \in sets[k]]

MCKindOf == Kind([organization |-> {o1, o2}, team |-> {t1, t2}, credential |-> {c1, c2},
    inventory |-> {i1, i2}, project |-> {p1, p2}, jobTemplate |-> {j1, j2},
    terraformTemplate |-> {k1, k2}, user |-> {root, ann, bob, new},
    host |-> {h1}, group |-> {g1}, job |-> {b1}, terraformJob |-> {b2}])

MCNames == {"a", "a ", "b"}
MCTrim == [n \in MCNames |-> IF n = "a " THEN "a" ELSE n]

Plain(name, owner) == [name |-> name, owner |-> owner, inventory |-> None,
                       credential |-> None, template |-> None, roles |-> {}]
User(u, role) == [grantee |-> u, type |-> "user", role |-> role]
Team(t, role) == [grantee |-> t, type |-> "team", role |-> role]

(* ann administers o1, bob is a member; some documents have grants.        *)
Base == [id \in Ids |->
    CASE id = o1 -> [Plain("a", None) EXCEPT !.roles = {User(ann, "admin"), User(bob, "member")}]
      [] id = o2 -> Plain("b", None)
      [] id \in {t1, c1, i1, p1} -> Plain("a", o1)
      [] id = j1 -> [Plain("a", p1) EXCEPT !.inventory = i1]
      [] id = k1 -> [Plain("a", p1) EXCEPT !.credential = c1]
      [] id \in {root, ann, bob} -> Plain(IF id = ann THEN "a" ELSE "b", None)
      [] OTHER -> Unborn]

WithRoles(grants) == [id \in Ids |->
    IF id \in DOMAIN grants THEN [Base[id] EXCEPT !.roles = grants[id]] ELSE Base[id]]

Request(verb, u, kind, id, body, grant) ==
    [verb |-> verb, kind |-> kind, user |-> u, id |-> id, body |-> body, grant |-> grant]

AskCreate(u, kind, body) == Request("create", u, kind, None, body, None)
AskUpdate(u, id, body) == Request("update", u, MCKindOf[id], id, body, None)
AskDelete(u, id) == Request("delete", u, MCKindOf[id], id, None, None)
AskAssign(verb, u, id, grant) == Request(verb, u, MCKindOf[id], id, None, grant)

Template(name, p, i, c) == [Plain(name, p) EXCEPT !.inventory = i, !.credential = c]

--------------------------------------------------------------------------------
(* Who may do what: a super user, the administrator of an organization and *)
(* a member of it, who also has the grants of the second database.         *)

AccessInputs ==
    {AskCreate(u, kind, Plain("b", o1)) : u \in {root, bob},
        kind \in {"team", "credential", "inventory", "project"}}
    \cup {AskCreate(ann, kind, Plain("b", o1)) : kind \in {"inventory", "project"}}
    \cup {AskCreate(bob, "credential", Plain("b", None)),
          AskCreate(root, "organization", Plain("a ", None)), AskCreate(root, "user", Plain("a ", None))}
    \cup {AskCreate(u, "jobTemplate", Template("b", p1, i1, c1)) : u \in {ann}}
    \cup {AskCreate(u, "terraformTemplate", Template("b", p1, None, None)) : u \in {root}}
    \cup {AskUpdate(bob, id, Plain("b", o1)) : id \in {t1, c1, i1, p1}}
    \cup {AskUpdate(root, p1, Plain("a ", o2))}
    \cup {AskUpdate(bob, j1, Template("b", p1, i1, None)), AskUpdate(bob, k1, Template("b", p1, None, c1)),
          AskUpdate(ann, o1, Plain("b", None)), AskUpdate(bob, bob, Plain("a ", None))}
    \cup {AskAssign("assignUser", root, i1, User(bob, "use"))}
    \cup {AskAssign("assignUser", root, t1, User(bob, "member")),
          AskAssign("assignUser", root, k1, User(bob, "execute"))}
    \cup {AskAssign("revokeUser", root, id, User(bob, "admin")) : id \in {p1, k1}}
    \cup {AskAssign("revokeUser", root, o1, User(ann, "admin"))}
    \cup {AskAssign("assignTeam", ann, id, Team(t2, "admin")) : id \in {o1, t1, p1}}
    \cup {AskDelete(root, bob)}

AccessDocs ==
    {Base, WithRoles([d \in {t1, c1, i1, p1, j1, k1} |->
        IF d = i1 THEN {User(bob, "update"), Team(t1, "admin")}
        ELSE IF d = j1 THEN {User(bob, "execute")} ELSE {User(bob, "admin")}])}
--------------------------------------------------------------------------------
(* What removals take with them: o1 has a document of each kind, its        *)
(* project and its inventory have contents; o2 has a project with a         *)
(* template, and ids remain to create documents in o1 and its project.      *)

CascadeDocs ==
    {[id \in Ids |->
        CASE id = o1 -> Plain("a", None)
          [] id \in {h1, g1} -> Plain("a", i1)
          [] id = b1 -> [Plain("a", p1) EXCEPT !.template = j1]
          [] id = b2 -> [Plain("a", p1) EXCEPT !.template = k1]
          [] id = p2 -> Plain("b", o2)
          [] id = j2 -> [Plain("b", p2) EXCEPT !.inventory = i1]
          [] OTHER -> Base[id]]}

CascadeInputs ==
    {AskCreate(root, kind, Plain("b", o1)) : kind \in {"team", "inventory"}}
    \cup {AskCreate(root, "terraformTemplate", Template("b", p1, None, None)),
          AskUpdate(root, p1, Plain("a", o2)), AskUpdate(root, p2, Plain("b", o1)),
          AskUpdate(root, i1, Plain("b", o2)), AskUpdate(root, t1, Plain("a", o2)),
          AskUpdate(root, j1, Template("a", p2, i1, None)),
          AskUpdate(root, j2, Template("b", p1, i1, None)),
          AskUpdate(root, k1, Template("a", p2, None, None))}
    \cup {AskDelete(root, id) : id \in {o1, o2, t1, c1, i1, p1, p2, j1, k1}}
--------------------------------------------------------------------------------
(* A user with grants is removed; the first role in an organization.        *)

DeletionInputs == {AskDelete(root, bob)}
DeletionDocs == {WithRoles([d \in {p1} |-> {User(bob, "admin")}])}

ListInputs == {AskAssign("assignUser", root, o1, User(bob, "member"))}
ListDocs == {[Base EXCEPT ![o1] = Plain("a", None)]}

================================================================================
