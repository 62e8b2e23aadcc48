----------------------------- MODULE InventoryTree -----------------------------
(***************************************************************************)
(* Inventories, their groups and their hosts (api/group.go, api/host.go,   *)
(* api/inventory.go, models/ansible).  Every request of the REST API is    *)
(* served by a goroutine of its own and works with several operations on   *)
(* the database: it reads what it checks, one query after the other, and   *)
(* then writes.  An action is one such operation, so requests interleave   *)
(* between a check and the write it allows, and between the steps of a     *)
(* removal.  Reject ends a request early: a check that fails, a missing    *)
(* permission (AccessControl) or a database error.                         *)
(***************************************************************************)
EXTENDS Naturals, FiniteSets

CONSTANTS
    Groups, Hosts, Inventories,     \* document ids
    Names,                          \* strings that name groups and hosts
    Trim,                           \* strings.Trim(name, " "), on Names
    Requests,                       \* requests, each of which is served once
    None, Unborn, Gone,             \* no id; not yet inserted; removed
    GroupInputs, HostInputs,        \* bodies of requests
    InitialGroups, InitialHosts     \* stores to begin with

GroupDoc == [name : Names, inventory : Inventories, parent : Groups \cup {None}]
HostDoc == [name : Names, inventory : Inventories, group : Groups \cup {None}]

ASSUME ConstantsAssumption ==
    /\ Groups \cap Hosts = {}
    /\ None \notin Groups \cup Hosts \cup Inventories
    /\ {Unborn, Gone} \cap (GroupDoc \cup HostDoc) = {} /\ Unborn # Gone
    /\ Trim \in [Names -> Names]
    /\ GroupInputs \subseteq GroupDoc
    /\ HostInputs \subseteq HostDoc

(* A group of an initial store has no parent that was never inserted. *)
ASSUME InitialAssumption ==
    /\ InitialGroups \subseteq [Groups -> GroupDoc \cup {Unborn, Gone}]
    /\ InitialHosts \subseteq [Hosts -> HostDoc \cup {Unborn, Gone}]
    /\ \A store \in InitialGroups, g, p \in Groups :
           store[g] \in GroupDoc /\ store[g].parent = p => store[p] # Unborn

VARIABLES
    inventories,    \* the inventories that exist
    group,          \* the groups collection
    host,           \* the hosts collection
    request         \* what each request is about to do

store == <<inventories, group, host>>
vars == <<inventories, group, host, request>>

--------------------------------------------------------------------------------

(* The last three fields are for the properties only: taken says that      *)
(* another request stored the name since this one found it free, or that   *)
(* it was taken and the query failed, moved                                *)
(* that another one gave a group a new parent, and late is what was        *)
(* written since this removal last looked for it.                          *)
Idle == [op |-> "none", step |-> "idle", id |-> None, doc |-> None, old |-> None,
         via |-> None, ids |-> {}, taken |-> FALSE, moved |-> FALSE, late |-> {}]

Saves == {"createGroup", "updateGroup", "createHost", "updateHost"}
Removals == {"deleteGroup", "deleteHost", "deleteInventory"}

IsGroup(g) == group[g] \in GroupDoc
IsHost(h) == host[h] \in HostDoc

GroupsOf(i) == {g \in Groups : IsGroup(g) /\ group[g].inventory = i}
HostsOf(i) == {h \in Hosts : IsHost(h) /\ host[h].inventory = i}

At(r, step) == request[r].step = step
Goto(r, step) == request' = [request EXCEPT ![r].step = step]

Begin(r, op, step, id, doc, old) ==
    /\ At(r, "idle")
    /\ request' = [request EXCEPT ![r] =
           [Idle EXCEPT !.op = op, !.step = step, !.id = id, !.doc = doc, !.old = old]]
    /\ UNCHANGED store

(* Middlewares load the document and leave it in the context. *)
LoadGroup(r) ==
    \E g \in Groups :
        /\ IsGroup(g)
        /\ \/ \E doc \in GroupInputs :
                  Begin(r, "updateGroup", "inventory", g, doc, group[g])
           \/ Begin(r, "deleteGroup", "readIds", g, None, group[g])

LoadHost(r) ==
    \E h \in Hosts :
        /\ IsHost(h)
        /\ \/ \E doc \in HostInputs :
                  Begin(r, "updateHost", "inventory", h, doc, host[h])
           \/ Begin(r, "deleteHost", "removeHost", h, None, host[h])

LoadInventory(r) ==
    \E i \in inventories : Begin(r, "deleteInventory", "removeHosts", i, None, None)

Post(r) ==
    \/ \E doc \in GroupInputs : Begin(r, "createGroup", "inventory", None, doc, None)
    \/ \E doc \in HostInputs : Begin(r, "createHost", "inventory", None, doc, None)

--------------------------------------------------------------------------------

InventoryExist(r) ==
    /\ At(r, "inventory")
    /\ request[r].doc.inventory \in inventories
    /\ Goto(r, "name")
    /\ UNCHANGED store

SameKey(a, b) == a.name = b.name /\ a.inventory = b.inventory

GroupNamed(doc) == \E g \in Groups : IsGroup(g) /\ SameKey(group[g], doc)
HostNamed(doc) == \E h \in Hosts : IsHost(h) /\ SameKey(host[h], doc)

(* Updates look for a name only when it is a new one. *)
KeepsName(q) ==
    q.op \in {"updateGroup", "updateHost"} /\ q.doc.name = q.old.name

Overlook(r, next) ==
    request' = [request EXCEPT ![r] = [@ EXCEPT !.step = next, !.taken = TRUE]]

(* A name is free when the query finds no namesake, and also when the      *)
(* query fails: the error is dropped.                                      *)
FindsFree(r, isNamed, next) ==
    \/ /\ ~KeepsName(request[r]) => ~isNamed
       /\ Goto(r, next)
    \/ ~KeepsName(request[r]) /\ isNamed /\ Overlook(r, next)

(* Wrong: an update may take any name. *)
IsUniqueGroupOnCreate(r) ==
    /\ At(r, "name") /\ request[r].op \in {"createGroup", "updateGroup"}
    /\ request[r].op = "createGroup" => ~GroupNamed(request[r].doc)
    /\ Goto(r, "parent")
    /\ UNCHANGED store

IsUniqueGroup(r) ==
    /\ At(r, "name") /\ request[r].op \in {"createGroup", "updateGroup"}
    /\ FindsFree(r, GroupNamed(request[r].doc), "parent")
    /\ UNCHANGED store

IsUniqueHost(r) ==
    /\ At(r, "name") /\ request[r].op \in {"createHost", "updateHost"}
    /\ FindsFree(r, HostNamed(request[r].doc), "group")
    /\ UNCHANGED store

(* Create follows two parents: Maximum level of nesting is 3. *)
GetParent(r) ==
    LET p == request[r].doc.parent IN
    /\ At(r, "parent") /\ request[r].op = "createGroup"
    /\ \/ p = None /\ Goto(r, "write")
       \/ /\ p # None /\ IsGroup(p)
          /\ IF group[p].parent = None
             THEN Goto(r, "write")
             ELSE request' = [request EXCEPT ![r] =
                     [@ EXCEPT !.step = "grandparent", !.via = group[p].parent]]
    /\ UNCHANGED store

(* Wrong: the grandparent need only exist. *)
GetGrandparentOnly(r) ==
    /\ At(r, "grandparent")
    /\ IsGroup(request[r].via)
    /\ Goto(r, "write")
    /\ UNCHANGED store

GetGrandparent(r) ==
    LET p == request[r].via IN
    /\ At(r, "grandparent")
    /\ IsGroup(p) /\ group[p].parent = None
    /\ Goto(r, "write")
    /\ UNCHANGED store

(* Update only asks whether the parent exists. *)
ParentExist(r) ==
    LET p == request[r].doc.parent IN
    /\ At(r, "parent") /\ request[r].op = "updateGroup"
    /\ p \notin {None, request[r].id} => IsGroup(p)
    /\ Goto(r, "write")
    /\ UNCHANGED store

GroupExist(r) ==
    LET g == request[r].doc.group IN
    /\ At(r, "group")
    /\ g # None => IsGroup(g)
    /\ Goto(r, "write")
    /\ UNCHANGED store

--------------------------------------------------------------------------------

(* Request r is done and stored doc under id; the others learn of it. *)
Named(q, ops, doc) ==
    q.op \in ops /\ q.step \in {"parent", "group", "grandparent", "write"} /\ SameKey(q.doc, doc)

Stored(r, ops, id, doc, reparents) ==
    request' = [s \in Requests |->
        IF s = r THEN [Idle EXCEPT !.step = "done"]
        ELSE [request[s] EXCEPT !.taken = @ \/ Named(request[s], ops, doc),
                                !.moved = @ \/ reparents,
                                !.late = @ \cup {id}]]

Done(r) == request' = [request EXCEPT ![r] = [Idle EXCEPT !.step = "done"]]

GroupOps == {"createGroup", "updateGroup"}
HostOps == {"createHost", "updateHost"}

InsertGroup(r) ==
    LET doc == request[r].doc IN
    /\ At(r, "write") /\ request[r].op = "createGroup"
    /\ \E g \in Groups :
           /\ group[g] = Unborn
           /\ group' = [group EXCEPT ![g] = doc]
           /\ Stored(r, GroupOps, g, doc, FALSE)
    /\ UNCHANGED <<inventories, host>>

(* The whole document is written back, with the name trimmed. *)
UpdateGroup(r) ==
    LET id == request[r].id
        doc == [request[r].doc EXCEPT !.name = Trim[@]]
    IN  /\ At(r, "write") /\ request[r].op = "updateGroup"
        /\ IsGroup(id)
        /\ group' = [group EXCEPT ![id] = doc]
        /\ Stored(r, GroupOps, id, doc, doc.parent # group[id].parent)
        /\ UNCHANGED <<inventories, host>>

InsertHost(r) ==
    LET doc == request[r].doc IN
    /\ At(r, "write") /\ request[r].op = "createHost"
    /\ \E h \in Hosts :
           /\ host[h] = Unborn
           /\ host' = [host EXCEPT ![h] = doc]
           /\ Stored(r, HostOps, h, doc, FALSE)
    /\ UNCHANGED <<inventories, group>>

UpdateHost(r) ==
    LET id == request[r].id
        doc == [request[r].doc EXCEPT !.name = Trim[@]]
    IN  /\ At(r, "write") /\ request[r].op = "updateHost"
        /\ IsHost(id)
        /\ host' = [host EXCEPT ![id] = doc]
        /\ Stored(r, HostOps, id, doc, FALSE)
        /\ UNCHANGED <<inventories, group>>

--------------------------------------------------------------------------------

RemoveHost(r) ==
    /\ At(r, "removeHost") /\ IsHost(request[r].id)
    /\ host' = [host EXCEPT ![request[r].id] = Gone]
    /\ Done(r)
    /\ UNCHANGED <<inventories, group>>

(* Wrong: the ids of the parents are collected. *)
ReadIdsOfParents(r) ==
    LET id == request[r].id IN
    /\ At(r, "readIds")
    /\ request' = [request EXCEPT ![r] = [@ EXCEPT
           !.ids = {group[g].parent : g \in {h \in Groups : IsGroup(h)}} \cup {id},
           !.step = "removeHosts", !.late = {}]]
    /\ UNCHANGED store

(* A group's Delete takes its children with it, and their hosts. *)
ReadIds(r) ==
    LET id == request[r].id IN
    /\ At(r, "readIds")
    /\ request' = [request EXCEPT ![r] = [@ EXCEPT
           !.ids = {g \in Groups : IsGroup(g) /\ group[g].parent = id} \cup {id},
           !.step = "removeHosts", !.late = {}]]
    /\ UNCHANGED store

(* Wrong: the hosts of children stay. *)
HostsOfGroupItself(q) ==
    {h \in Hosts : IsHost(h) /\ IF q.op = "deleteGroup" THEN host[h].group = q.id
                                ELSE host[h].inventory = q.id}

HostsToRemove(q) ==
    {h \in Hosts : IsHost(h) /\ IF q.op = "deleteGroup" THEN host[h].group \in q.ids
                                ELSE host[h].inventory = q.id}

(* Wrong: the children stay. *)
GroupItself(q) ==
    {g \in Groups : IsGroup(g) /\ IF q.op = "deleteGroup" THEN g = q.id
                                  ELSE group[g].inventory = q.id}

GroupsToRemove(q) ==
    {g \in Groups : IsGroup(g) /\ IF q.op = "deleteGroup" THEN g \in q.ids
                                  ELSE group[g].inventory = q.id}

RemoveHosts(r) ==
    /\ At(r, "removeHosts")
    /\ host' = [h \in Hosts |-> IF h \in HostsToRemove(request[r]) THEN Gone ELSE host[h]]
    /\ request' = [request EXCEPT ![r] =
           [@ EXCEPT !.step = "removeGroups", !.late = request[r].late \ Hosts]]
    /\ UNCHANGED <<inventories, group>>

RemoveGroups(r) ==
    /\ At(r, "removeGroups")
    /\ group' = [g \in Groups |-> IF g \in GroupsToRemove(request[r]) THEN Gone ELSE group[g]]
    /\ IF request[r].op = "deleteGroup" THEN Done(r) ELSE Goto(r, "removeInventory")
    /\ UNCHANGED <<inventories, host>>

RemoveInventory(r) ==
    /\ At(r, "removeInventory") /\ request[r].id \in inventories
    /\ inventories' = inventories \ {request[r].id}
    /\ Done(r)
    /\ UNCHANGED <<group, host>>

Reject(r) ==
    /\ request[r].step \notin {"idle", "done"}
    /\ Done(r)
    /\ UNCHANGED store

--------------------------------------------------------------------------------

Init ==
    /\ inventories = Inventories
    /\ group \in InitialGroups
    /\ host \in InitialHosts
    /\ request = [r \in Requests |-> Idle]

Next ==
    \E r \in Requests :
        \/ Post(r) \/ LoadGroup(r) \/ LoadHost(r) \/ LoadInventory(r)
        \/ InventoryExist(r) \/ IsUniqueGroup(r) \/ IsUniqueHost(r)
        \/ GetParent(r) \/ GetGrandparent(r) \/ ParentExist(r) \/ GroupExist(r)
        \/ InsertGroup(r) \/ UpdateGroup(r) \/ InsertHost(r) \/ UpdateHost(r)
        \/ RemoveHost(r) \/ ReadIds(r) \/ RemoveHosts(r) \/ RemoveGroups(r)
        \/ RemoveInventory(r) \/ Reject(r)

Spec == Init /\ [][Next]_vars

--------------------------------------------------------------------------------

(* What the readers answer, on one state of the database. *)

RootGroups(i) == {g \in GroupsOf(i) : group[g].parent = None}

Children(g) == {c \in Groups : IsGroup(c) /\ group[c].parent = g}

(* Wrong: two nested loops. *)
TreeOfTwoLevels(i) == RootGroups(i) \cup UNION {Children(g) : g \in RootGroups(i)}

(* Three nested loops; children are found by their parent alone. *)
Tree(i) ==
    LET roots == RootGroups(i)
        second == UNION {Children(g) : g \in roots}
    IN  roots \cup second \cup UNION {Children(g) : g \in second}

(* The script is a map from group names: of the groups with one name the   *)
(* last one wins, whichever that is.                                       *)
Winners(i) ==
    LET names == {group[g].name : g \in GroupsOf(i)} IN
    {w \in [names -> GroupsOf(i)] : \A n \in names : group[w[n]].name = n}

(* Entries set after those of the groups, which they replace: "all", and   *)
(* "_meta" for a request with ?hostvars.                                   *)
Overwritten(hostvars) == {"all"} \cup IF hostvars THEN {"_meta"} ELSE {}

(* Groups, their hosts and the hosts without a group are read; variables   *)
(* that are not JSON end the request.  bad is the first document with such *)
(* variables, or None: no handler that stores variables looks at them.     *)
ScriptFails(i, bad) ==
    \/ bad \in GroupsOf(i)
    \/ bad \in HostsOf(i) /\ host[bad].group \in GroupsOf(i) \cup {None}

(* Wrong: nothing for hosts without a group. *)
ScriptOfGroups(i, w, hostvars, bad) ==
    IF ScriptFails(i, bad) THEN None
    ELSE [n \in DOMAIN w \cup Overwritten(hostvars) |->
            {h \in HostsOf(i) : n \in DOMAIN w \ Overwritten(hostvars) /\ host[h].group = w[n]}]

(* The hosts of each entry, or None for an error. *)
Script(i, w, hostvars, bad) ==
    IF ScriptFails(i, bad) THEN None
    ELSE [n \in DOMAIN w \cup Overwritten(hostvars) |->
            {h \in HostsOf(i) :
                \/ n \in DOMAIN w \ Overwritten(hostvars) /\ host[h].group = w[n]
                \/ n = "all" /\ host[h].group = None}]

--------------------------------------------------------------------------------

Steps == {"idle", "inventory", "name", "parent", "grandparent", "group", "write",
          "readIds", "removeHosts", "removeGroups", "removeInventory", "removeHost", "done"}

(* Variables have their types; a request has the fields its operation uses. *)
RequestType ==
    [op : Saves \cup Removals \cup {"none"}, step : Steps,
     id : Groups \cup Hosts \cup Inventories \cup {None},
     doc : GroupDoc \cup HostDoc \cup {None}, old : GroupDoc \cup HostDoc \cup {None},
     via : Groups \cup {None}, ids : SUBSET Groups,
     taken : BOOLEAN, moved : BOOLEAN, late : SUBSET (Groups \cup Hosts)]

TypeOK ==
    /\ inventories \subseteq Inventories
    /\ group \in [Groups -> GroupDoc \cup {Unborn, Gone}]
    /\ host \in [Hosts -> HostDoc \cup {Unborn, Gone}]
    /\ request \in [Requests -> RequestType]

(* An update that stores a name it did not look for: it keeps the name it   *)
(* read, perhaps in another inventory, or trims the one it looked for.      *)
Unchecked(q) ==
    /\ q.op \in {"updateGroup", "updateHost"}
    /\ KeepsName(q) \/ Trim[q.doc.name] # q.doc.name

(* Requests that are about to store a name of which they do not know that   *)
(* it is free.                                                              *)
Careless(q) == q.step = "write" /\ (q.taken \/ Unchecked(q))

DuplicatesExplained ==
    /\ \A g, h \in Groups :
           /\ g # h /\ IsGroup(g)' /\ IsGroup(h)' /\ SameKey(group'[g], group'[h])
           /\ ~(IsGroup(g) /\ IsGroup(h) /\ SameKey(group[g], group[h]))
           => \E r \in Requests : Careless(request[r])
    /\ \A g, h \in Hosts :
           /\ g # h /\ IsHost(g)' /\ IsHost(h)' /\ SameKey(host'[g], host'[h])
           /\ ~(IsHost(g) /\ IsHost(h) /\ SameKey(host[g], host[h]))
           => \E r \in Requests : Careless(request[r])

(* IsUnique and the write it allows are two operations.  Two groups of an   *)
(* inventory, or two hosts, come to share a name only when a request stores *)
(* a name that another one stored since it found it free, that it failed to *)
(* look for, or never did (api/group.go:169, 243, 258;                      *)
(* models/ansible/group.go:57).                                             *)
DuplicatesNeedARace == [][DuplicatesExplained]_vars

(* A group three parents below another one (or in a cycle). *)
Up(groups, g) ==
    IF g \in Groups /\ groups[g] \in GroupDoc THEN groups[g].parent ELSE None

TooDeep(groups, g) ==
    LET top == Up(groups, Up(groups, Up(groups, g)))
    IN  top \in Groups /\ groups[top] \in GroupDoc

NestingExplained ==
    \A g \in Groups :
        TooDeep(group', g) /\ ~TooDeep(group, g) =>
            \E r \in Requests :
                /\ At(r, "write")
                /\ \/ request[r].op = "createGroup" /\ request[r].moved
                   \/ /\ request[r].op = "updateGroup"
                      /\ request[r].doc.parent # group[request[r].id].parent

(* Create promises "Maximum level of nesting is 3." (api/group.go:194).     *)
(* The promise is kept against concurrent creations and removals: only an   *)
(* update that moves a group makes one too deep, or a creation during which *)
(* a group was moved.                                                       *)
NestingGrowsByMoves == [][NestingExplained]_vars

LostGroupsExplained ==
    \A h \in Hosts, g \in Groups :
        /\ IsHost(h) /\ host[h].group = g /\ IsGroup(g)
        /\ IsHost(h)' /\ group'[g] = Gone
        => \E r \in Requests :
               /\ At(r, "removeGroups")
               /\ \/ h \in request[r].late
                  \/ /\ request[r].op = "deleteInventory"
                     /\ host[h].inventory # request[r].id

(* A removal takes the hosts before their groups (api/group.go:300).  A     *)
(* host is left with a group that is gone only when it was written between  *)
(* the two, or is a host of another inventory than the one removed.         *)
HostsKeepTheirGroups == [][LostGroupsExplained]_vars

LostParentsExplained ==
    \A g, p \in Groups :
        /\ IsGroup(g) /\ group[g].parent = p /\ IsGroup(p)
        /\ IsGroup(g)' /\ group'[p] = Gone
        => \E r \in Requests :
               /\ At(r, "removeGroups")
               /\ \/ /\ request[r].op = "deleteGroup"
                     /\ p # request[r].id \/ g \in request[r].late
                  \/ /\ request[r].op = "deleteInventory"
                     /\ group[g].inventory # request[r].id

(* Delete of a group reads the ids of its children first (api/group.go:283).*)
(* A group loses its parent only as a grandchild of the group removed, when *)
(* it became a child after the ids were read, or when it is in another      *)
(* inventory than the one removed.                                          *)
GroupsKeepTheirParents == [][LostParentsExplained]_vars

(* Up to three groups above g, itself too if it is in a cycle. *)
Ancestors(g) ==
    LET parent == Up(group, g)
        grandparent == Up(group, parent)
    IN  {parent, grandparent, Up(group, grandparent)}

(* The tree of an inventory (api/inventory.go:639) shows every group but    *)
(* those too deep or in a cycle, those with an ancestor that is gone and    *)
(* those below a root of another inventory.                                 *)
TreeIsHierarchy ==
    \A i \in inventories : \A g \in GroupsOf(i) :
        \/ g \in Tree(i)
        \/ TooDeep(group, g)
        \/ \E a \in Ancestors(g) \cap Groups :
               ~IsGroup(a) \/ (group[a].parent = None /\ group[a].inventory # i)

(* The script of an inventory (api/inventory.go:301), if it is answered at  *)
(* all, lists every host, once, unless the group it names is gone or of     *)
(* another inventory, or the entry of the group may be overwritten by one   *)
(* of the same name, by "all", or by "_meta" when ?hostvars asks for it.    *)
ScriptListsHosts ==
    \A i \in inventories : \A w \in Winners(i) :
    \A hostvars \in BOOLEAN, bad \in Groups \cup Hosts \cup {None} :
        LET script == Script(i, w, hostvars, bad) IN
        script # None =>
            \A h \in HostsOf(i) :
                LET g == host[h].group IN
                \/ Cardinality({n \in DOMAIN script : h \in script[n]}) = 1
                \/ /\ g # None
                   /\ \/ g \notin GroupsOf(i)
                      \/ group[g].name \in Overwritten(hostvars)
                      \/ \E k \in GroupsOf(i) : k # g /\ SameKey(group[k], group[g])

================================================================================
