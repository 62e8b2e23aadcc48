------------------------- MODULE InventoryTreeProofs -------------------------
(***************************************************************************)
(* Proofs about InventoryTree, for any documents, any names and any number *)
(* of concurrent requests.                                                 *)
(***************************************************************************)
EXTENDS InventoryTree, TLAPS

\* The steps between the check of a name and the end of the write.
Checked == {"parent", "grandparent", "group", "write"}

\* A request has what its operation works with.
Fits(r) ==
    LET q == request[r] IN
    /\ q.step \in {"inventory", "name"} => q.op \in GroupOps \cup HostOps
    /\ q.step \in {"parent", "grandparent"} => q.op \in GroupOps
    /\ q.step = "grandparent" => q.op = "createGroup" /\ q.via \in Groups
    /\ q.step = "group" => q.op \in HostOps
    /\ q.step = "readIds" => q.op = "deleteGroup"
    /\ q.step \in {"removeHosts", "removeGroups"} => q.op \in {"deleteGroup", "deleteInventory"}
    /\ q.step = "removeHost" => q.op = "deleteHost"
    /\ q.op \in GroupOps => q.doc \in GroupDoc
    /\ q.op \in HostOps => q.doc \in HostDoc
    /\ q.op = "updateGroup" => q.id \in Groups
    /\ q.op = "updateHost" => q.id \in Hosts
    /\ q.op = "deleteGroup" => q.id \in Groups

\* A name that was free is free, or it is known that it was taken since.
NameFree(r) ==
    LET q == request[r] IN
    q.step \in Checked /\ ~KeepsName(q) /\ ~q.taken =>
        /\ q.op \in GroupOps => ~GroupNamed(q.doc)
        /\ q.op \in HostOps => ~HostNamed(q.doc)

\* No group that was never inserted is named as a parent.
Born(g) == g \in Groups => group[g] # Unborn

ParentSeen(r) ==
    LET q == request[r] IN
    /\ q.op = "updateGroup" => Born(q.id)
    /\ q.step = "grandparent" => Born(q.via)
    /\ q.op \in GroupOps /\ q.step \in {"grandparent", "write"} => Born(q.doc.parent)

NoUnbornParent == \A g \in Groups : IsGroup(g) => Born(group[g].parent)

\* The parent of a new group has no grandparent, unless groups were moved.
Present(g) == g \in Groups /\ IsGroup(g)

Shallow(r) ==
    LET q == request[r] IN
    q.op = "createGroup" /\ ~q.moved =>
        /\ q.step = "grandparent" /\ Present(q.doc.parent) => group[q.doc.parent].parent = q.via
        /\ q.step = "write" => ~Present(Up(group, Up(group, q.doc.parent)))

\* What a removal has yet to remove was found, or came late.
RemovalSafe(r) ==
    LET q == request[r] IN
    /\ q.op = "deleteGroup" /\ q.step \in {"removeHosts", "removeGroups"} =>
           \A g \in Groups : IsGroup(g) /\ group[g].parent = q.id => g \in q.ids \cup q.late
    /\ q.op = "deleteGroup" /\ q.step = "removeGroups" =>
           \A h \in Hosts : IsHost(h) /\ host[h].group \in q.ids => h \in q.late
    /\ q.op = "deleteInventory" /\ q.step = "removeGroups" =>
           \A h \in Hosts : IsHost(h) /\ host[h].inventory = q.id => h \in q.late

About(r) == Fits(r) /\ NameFree(r) /\ ParentSeen(r) /\ Shallow(r) /\ RemovalSafe(r)

IInv ==
    /\ TypeOK
    /\ NoUnbornParent
    /\ \A r \in Requests : About(r)


\* The actions of a request: checks, which leave the store as it is, and writes.
Check(r) ==
    \/ Post(r) \/ LoadGroup(r) \/ LoadHost(r) \/ LoadInventory(r)
    \/ InventoryExist(r) \/ IsUniqueGroup(r) \/ IsUniqueHost(r)
    \/ GetParent(r) \/ GetGrandparent(r) \/ ParentExist(r) \/ GroupExist(r)
    \/ ReadIds(r) \/ Reject(r)

Write(r) ==
    \/ InsertGroup(r) \/ UpdateGroup(r) \/ InsertHost(r) \/ UpdateHost(r)
    \/ RemoveHost(r) \/ RemoveHosts(r) \/ RemoveGroups(r) \/ RemoveInventory(r)

LEMMA NextIsAct == Next <=> \E r \in Requests : Check(r) \/ Write(r)
  BY Zenon DEF Next, Check, Write

USE ConstantsAssumption

LEMMA InitIInv == Init => IInv
  <1> SUFFICES ASSUME Init PROVE IInv
    OBVIOUS
  <1>1. TypeOK
    BY InitialAssumption DEF Init, TypeOK, RequestType, Idle, Steps
  <1>2. NoUnbornParent
    BY InitialAssumption DEF Init, NoUnbornParent, Born, IsGroup
  <1>3. ASSUME NEW r \in Requests PROVE About(r)
    BY DEF Init, Idle, About, Fits, NameFree, ParentSeen, Shallow, RemovalSafe, Checked,
           GroupOps, HostOps
  <1> QED BY <1>1, <1>2, <1>3 DEF IInv

--------------------------------------------------------------------------------

\* An operation of a request changes its own entry only.
LEMMA ChangeEntry ==
    ASSUME TypeOK, NEW r \in Requests, NEW q \in RequestType,
           request' = [request EXCEPT ![r] = q], UNCHANGED store
    PROVE  /\ TypeOK'
           /\ \A s \in Requests \ {r} : request'[s] = request[s]
           /\ request'[r] = q
  BY DEF TypeOK, store

\* A request that begins has the fields it is given.
LEMMA BeginType ==
    ASSUME TypeOK, NEW r \in Requests,
           NEW op \in Saves \cup Removals, NEW step \in Steps,
           NEW id \in Groups \cup Hosts \cup Inventories \cup {None},
           NEW doc \in GroupDoc \cup HostDoc \cup {None},
           NEW old \in GroupDoc \cup HostDoc \cup {None},
           Begin(r, op, step, id, doc, old)
    PROVE  /\ TypeOK'
           /\ UNCHANGED store
           /\ \A s \in Requests \ {r} : request'[s] = request[s]
           /\ request'[r] = [Idle EXCEPT !.op = op, !.step = step, !.id = id,
                                         !.doc = doc, !.old = old]
  <1> DEFINE q == [Idle EXCEPT !.op = op, !.step = step, !.id = id, !.doc = doc, !.old = old]
  <1>1. q \in RequestType
    BY DEF RequestType, Idle
  <1>2. request' = [request EXCEPT ![r] = q] /\ UNCHANGED store
    BY DEF Begin
  <1> HIDE DEF q
  <1>3. TypeOK' /\ (\A s \in Requests \ {r} : request'[s] = request[s]) /\ request'[r] = q
    BY <1>1, <1>2, ChangeEntry
  <1> QED BY <1>2, <1>3 DEF q

\* A request moves to another step, perhaps as one that missed a namesake.
LEMMA GotoType ==
    ASSUME TypeOK, NEW r \in Requests, NEW step \in Steps, UNCHANGED store,
           \/ Goto(r, step)
           \/ Overlook(r, step)
    PROVE  /\ TypeOK'
           /\ \A s \in Requests \ {r} : request'[s] = request[s]
           /\ \/ request'[r] = [request[r] EXCEPT !.step = step]
              \/ request'[r] = [request[r] EXCEPT !.step = step, !.taken = TRUE]
  <1>1. /\ [request[r] EXCEPT !.step = step] \in RequestType
        /\ [request[r] EXCEPT !.step = step, !.taken = TRUE] \in RequestType
    <2>1. request[r] \in RequestType
      BY DEF TypeOK
    <2> QED BY <2>1 DEF RequestType
  <1>2. \/ request' = [request EXCEPT ![r] = [request[r] EXCEPT !.step = step]]
        \/ request' = [request EXCEPT ![r] = [request[r] EXCEPT !.step = step, !.taken = TRUE]]
    BY DEF Goto, Overlook
  <1> QED BY <1>1, <1>2, ChangeEntry

\* A check changes the entry of its own request only.
LEMMA CheckType ==
    ASSUME TypeOK, NEW r \in Requests, Fits(r), Check(r)
    PROVE  /\ TypeOK'
           /\ UNCHANGED store
           /\ \A s \in Requests \ {r} : request'[s] = request[s]
  <1> USE DEF Steps, store
  <1>1. CASE Post(r)
    BY <1>1, BeginType DEF Post, Saves
  <1>2. CASE LoadGroup(r)
    BY <1>2, BeginType DEF LoadGroup, Saves, Removals, IsGroup
  <1>3. CASE LoadHost(r)
    BY <1>3, BeginType DEF LoadHost, Saves, Removals, IsHost
  <1>4. CASE LoadInventory(r)
    BY <1>4, BeginType DEF LoadInventory, Removals, TypeOK
  <1>5. CASE IsUniqueGroup(r)
    BY <1>5, GotoType DEF IsUniqueGroup, FindsFree
  <1>6. CASE IsUniqueHost(r)
    BY <1>6, GotoType DEF IsUniqueHost, FindsFree
  <1>7. CASE InventoryExist(r)
    BY <1>7, GotoType DEF InventoryExist
  <1>8. CASE GetParent(r)
    <2> DEFINE p == request[r].doc.parent
               q == [request[r] EXCEPT !.step = "grandparent", !.via = group[p].parent]
    <2>1. CASE Goto(r, "write")
      BY <1>8, <2>1, GotoType DEF GetParent
    <2>2. CASE ~Goto(r, "write")
      <3>1. /\ IsGroup(p) /\ group[p].parent # None
            /\ request[r].doc \in GroupDoc /\ p # None
            /\ request' = [request EXCEPT ![r] = q] /\ UNCHANGED store
        BY <1>8, <2>2 DEF GetParent, Fits, GroupOps
      <3>2. p \in Groups
        BY <3>1 DEF GroupDoc
      <3>3. group[p].parent \in Groups
        BY <3>1, <3>2 DEF IsGroup, GroupDoc
      <3>4. q \in RequestType
        <4>1. request[r] \in RequestType BY DEF TypeOK
        <4> QED BY <4>1, <3>3 DEF RequestType
      <3> HIDE DEF q
      <3> QED BY <3>1, <3>4, ChangeEntry
    <2> QED BY <2>1, <2>2
  <1>9. CASE GetGrandparent(r)
    BY <1>9, GotoType DEF GetGrandparent
  <1>10. CASE ParentExist(r)
    BY <1>10, GotoType DEF ParentExist
  <1>11. CASE GroupExist(r)
    BY <1>11, GotoType DEF GroupExist
  <1>12. CASE ReadIds(r)
    <2> DEFINE id == request[r].id
               q == [request[r] EXCEPT
                       !.ids = {g \in Groups : IsGroup(g) /\ group[g].parent = id} \cup {id},
                       !.step = "removeHosts", !.late = {}]
    <2>1. request' = [request EXCEPT ![r] = q] /\ UNCHANGED store /\ id \in Groups
      BY <1>12 DEF ReadIds, Fits, At
    <2>2. q \in RequestType
      <3>1. request[r] \in RequestType BY DEF TypeOK
      <3> QED BY <3>1, <2>1 DEF RequestType
    <2> HIDE DEF q
    <2> QED BY <2>1, <2>2, ChangeEntry
  <1>13. CASE Reject(r)
    <2>1. [Idle EXCEPT !.step = "done"] \in RequestType
      BY DEF RequestType, Idle
    <2> QED BY <1>13, <2>1, ChangeEntry DEF Reject, Done
  <1> QED
    BY <1>1, <1>2, <1>3, <1>4, <1>5, <1>6, <1>7, <1>8, <1>9, <1>10, <1>11, <1>12, <1>13
    DEF Check

\* What is known of a request depends on its entry and on the store.
LEMMA AboutSame ==
    ASSUME NEW s \in Requests, request'[s] = request[s], UNCHANGED store, About(s)
    PROVE  About(s)'
  <1> USE DEF store, About
  <1>1. Fits(s)' BY DEF Fits
  <1>2. NameFree(s)' BY DEF NameFree, GroupNamed, HostNamed, IsGroup, IsHost
  <1>3. ParentSeen(s)' BY DEF ParentSeen, Born
  <1>4. Shallow(s)' BY DEF Shallow, Present, IsGroup
  <1>5. RemovalSafe(s)' BY DEF RemovalSafe, IsGroup, IsHost
  <1> QED BY <1>1, <1>2, <1>3, <1>4, <1>5

\* A request at its beginning: little is to be known.
LEMMA AboutBeginning ==
    ASSUME NEW r \in Requests, Fits(r)', request'[r].step \in {"inventory", "name"} \cup
               {"removeHost", "readIds", "removeInventory", "done"},
           (request[r].op = "updateGroup" => Born(request[r].id))'
    PROVE  About(r)'
  <1>1. NameFree(r)' BY DEF NameFree, Checked
  <1>2. ParentSeen(r)' BY DEF ParentSeen
  <1>3. Shallow(r)' BY DEF Shallow
  <1>4. RemovalSafe(r)' BY DEF RemovalSafe
  <1> QED BY <1>1, <1>2, <1>3, <1>4 DEF About

\* The entry of a request that has begun.
LEMMA BeginEntry ==
    ASSUME TypeOK, NEW r \in Requests, NEW op, NEW step, NEW id, NEW doc, NEW old,
           Begin(r, op, step, id, doc, old)
    PROVE  /\ request'[r].op = op /\ request'[r].step = step /\ request'[r].id = id
           /\ request'[r].doc = doc
           /\ UNCHANGED <<group, host>>
  BY DEF Begin, Idle, TypeOK, store

LEMMA BeginAbout ==
    ASSUME TypeOK, NEW r \in Requests,
           Post(r) \/ LoadGroup(r) \/ LoadHost(r) \/ LoadInventory(r)
    PROVE  About(r)'
  <1> USE DEF Fits, GroupOps, HostOps
  <1>1. CASE Post(r)
    <2>1. CASE \E doc \in GroupInputs : Begin(r, "createGroup", "inventory", None, doc, None)
      BY <2>1, BeginEntry, AboutBeginning
    <2>2. CASE \E doc \in HostInputs : Begin(r, "createHost", "inventory", None, doc, None)
      BY <2>2, BeginEntry, AboutBeginning
    <2> QED BY <1>1, <2>1, <2>2 DEF Post
  <1>2. CASE LoadGroup(r)
    <2>1. PICK g \in Groups :
            /\ IsGroup(g)
            /\ \/ \E doc \in GroupInputs :
                      Begin(r, "updateGroup", "inventory", g, doc, group[g])
               \/ Begin(r, "deleteGroup", "readIds", g, None, group[g])
      BY <1>2 DEF LoadGroup
    <2>2. group[g] # Unborn
      BY <2>1 DEF IsGroup
    <2>3. CASE \E doc \in GroupInputs : Begin(r, "updateGroup", "inventory", g, doc, group[g])
      <3>1. PICK doc \in GroupInputs : Begin(r, "updateGroup", "inventory", g, doc, group[g])
        BY <2>3
      <3>2. /\ request'[r].op = "updateGroup" /\ request'[r].step = "inventory"
            /\ request'[r].id = g /\ request'[r].doc = doc /\ group' = group
        BY <3>1, BeginEntry
      <3>3. (request[r].op = "updateGroup" => Born(request[r].id))'
        BY <2>2, <3>2 DEF Born
      <3> QED BY <3>2, <3>3, AboutBeginning
    <2>4. CASE Begin(r, "deleteGroup", "readIds", g, None, group[g])
      BY <2>4, BeginEntry, AboutBeginning
    <2> QED BY <2>1, <2>3, <2>4
  <1>3. CASE LoadHost(r)
    <2>1. PICK h \in Hosts :
            \/ \E doc \in HostInputs : Begin(r, "updateHost", "inventory", h, doc, host[h])
            \/ Begin(r, "deleteHost", "removeHost", h, None, host[h])
      BY <1>3 DEF LoadHost
    <2>2. CASE \E doc \in HostInputs : Begin(r, "updateHost", "inventory", h, doc, host[h])
      BY <2>2, BeginEntry, AboutBeginning
    <2>3. CASE Begin(r, "deleteHost", "removeHost", h, None, host[h])
      BY <2>3, BeginEntry, AboutBeginning
    <2> QED BY <2>1, <2>2, <2>3
  <1>4. CASE LoadInventory(r)
    <2>1. request'[r].op = "deleteInventory" /\ request'[r].step = "removeHosts"
      BY <1>4, BeginEntry DEF LoadInventory
    <2> QED BY <2>1 DEF About, NameFree, Checked, ParentSeen, Shallow, RemovalSafe
  <1> QED BY <1>1, <1>2, <1>3, <1>4

\* The entry of a request that has passed a check.
LEMMA GotoEntry ==
    ASSUME TypeOK, NEW r \in Requests, NEW step,
           \/ Goto(r, step)
           \/ Overlook(r, step)
    PROVE  /\ request'[r].step = step
           /\ request'[r].op = request[r].op /\ request'[r].id = request[r].id
           /\ request'[r].doc = request[r].doc /\ request'[r].old = request[r].old
           /\ request'[r].via = request[r].via /\ request'[r].ids = request[r].ids
           /\ request'[r].moved = request[r].moved /\ request'[r].late = request[r].late
           /\ Goto(r, step) => request'[r].taken = request[r].taken
           /\ Overlook(r, step) => request'[r].taken = TRUE
  <1>1. request[r] \in RequestType BY DEF TypeOK
  <1> DEFINE Same ==
               /\ request'[r].step = step
               /\ request'[r].op = request[r].op /\ request'[r].id = request[r].id
               /\ request'[r].doc = request[r].doc /\ request'[r].old = request[r].old
               /\ request'[r].via = request[r].via /\ request'[r].ids = request[r].ids
               /\ request'[r].moved = request[r].moved /\ request'[r].late = request[r].late
  <1>2. ASSUME Goto(r, step)
        PROVE  Same /\ request'[r].taken = request[r].taken
    <2>1. request'[r] = [request[r] EXCEPT !.step = step] BY <1>2 DEF Goto, TypeOK
    <2> QED BY <1>1, <2>1 DEF RequestType
  <1>3. ASSUME Overlook(r, step)
        PROVE  Same /\ request'[r].taken = TRUE
    <2>1. request'[r] = [request[r] EXCEPT !.step = step, !.taken = TRUE]
      BY <1>3 DEF Overlook, TypeOK
    <2> QED BY <1>1, <2>1 DEF RequestType
  <1> QED BY <1>2, <1>3

\* What a check of a name or of a parent finds out.
LEMMA CheckAbout ==
    ASSUME IInv, NEW r \in Requests, Check(r)
    PROVE  About(r)'
  <1> DEFINE q == request[r]
             p == request[r].doc.parent
  <1>1. /\ TypeOK /\ NoUnbornParent /\ q \in RequestType
        /\ Fits(r) /\ NameFree(r) /\ ParentSeen(r) /\ Shallow(r) /\ RemovalSafe(r)
        /\ group' = group /\ host' = host
    BY CheckType DEF IInv, About, TypeOK, store
  <1>2. CASE InventoryExist(r)
    <2>1. /\ request'[r].op = q.op /\ request'[r].id = q.id /\ request'[r].doc = q.doc
          /\ request'[r].step = "name" /\ q.step = "inventory"
      BY <1>1, <1>2, GotoEntry DEF InventoryExist, At
    <2>2. (request[r].op = "updateGroup" => Born(request[r].id))'
      BY <1>1, <2>1 DEF ParentSeen, Born
    <2>3. Fits(r)'
      BY <1>1, <2>1 DEF Fits, GroupOps, HostOps
    <2> QED BY <2>1, <2>2, <2>3, AboutBeginning
  <1>3. CASE IsUniqueGroup(r)
    <2>1. /\ request'[r].op = q.op /\ request'[r].id = q.id /\ request'[r].doc = q.doc
          /\ request'[r].old = q.old /\ request'[r].step = "parent"
          /\ q.op \in GroupOps
          /\ ~GroupNamed(q.doc) \/ KeepsName(q) \/ request'[r].taken = TRUE
      <3>1. /\ q.op \in GroupOps
            /\ \/ Goto(r, "parent") /\ (~GroupNamed(q.doc) \/ KeepsName(q))
               \/ Overlook(r, "parent")
        BY <1>3 DEF IsUniqueGroup, FindsFree, GroupOps
      <3>2. CASE Goto(r, "parent") /\ (~GroupNamed(q.doc) \/ KeepsName(q))
        BY <1>1, <3>1, <3>2, GotoEntry
      <3>3. CASE Overlook(r, "parent")
        BY <1>1, <3>1, <3>3, GotoEntry
      <3> QED BY <3>1, <3>2, <3>3
    <2>2. Fits(r)' BY <1>1, <2>1 DEF Fits, GroupOps, HostOps
    <2>3. NameFree(r)'
      BY <1>1, <2>1 DEF NameFree, GroupOps, HostOps, KeepsName, GroupNamed, IsGroup
    <2>4. ParentSeen(r)' BY <1>1, <2>1 DEF ParentSeen, Born
    <2>5. Shallow(r)' BY <2>1 DEF Shallow
    <2>6. RemovalSafe(r)' BY <2>1 DEF RemovalSafe
    <2> QED BY <2>2, <2>3, <2>4, <2>5, <2>6 DEF About
  <1>4. CASE IsUniqueHost(r)
    <2>1. /\ request'[r].op = q.op /\ request'[r].id = q.id /\ request'[r].doc = q.doc
          /\ request'[r].old = q.old /\ request'[r].step = "group"
          /\ q.op \in HostOps
          /\ ~HostNamed(q.doc) \/ KeepsName(q) \/ request'[r].taken = TRUE
      <3>1. /\ q.op \in HostOps
            /\ \/ Goto(r, "group") /\ (~HostNamed(q.doc) \/ KeepsName(q))
               \/ Overlook(r, "group")
        BY <1>4 DEF IsUniqueHost, FindsFree, HostOps
      <3>2. CASE Goto(r, "group") /\ (~HostNamed(q.doc) \/ KeepsName(q))
        BY <1>1, <3>1, <3>2, GotoEntry
      <3>3. CASE Overlook(r, "group")
        BY <1>1, <3>1, <3>3, GotoEntry
      <3> QED BY <3>1, <3>2, <3>3
    <2>2. Fits(r)' BY <1>1, <2>1 DEF Fits, GroupOps, HostOps
    <2>3. NameFree(r)'
      BY <1>1, <2>1 DEF NameFree, GroupOps, HostOps, KeepsName, HostNamed, IsHost
    <2>4. ParentSeen(r)' BY <1>1, <2>1 DEF ParentSeen, Born, GroupOps, HostOps
    <2>5. Shallow(r)' BY <2>1 DEF Shallow
    <2>6. RemovalSafe(r)' BY <2>1 DEF RemovalSafe
    <2> QED BY <2>2, <2>3, <2>4, <2>5, <2>6 DEF About
  <1>5. CASE GroupExist(r)
    <2>1. /\ request'[r].op = q.op /\ request'[r].id = q.id /\ request'[r].doc = q.doc
          /\ request'[r].old = q.old /\ request'[r].step = "write" /\ q.step = "group"
          /\ request'[r].taken = q.taken
      BY <1>1, <1>5, GotoEntry DEF GroupExist, At
    <2>2. q.op \in HostOps /\ q.op \notin GroupOps
      BY <1>1, <2>1 DEF Fits, HostOps, GroupOps
    <2>3. Fits(r)' BY <1>1, <2>1 DEF Fits, GroupOps, HostOps
    <2>4. NameFree(r)'
      BY <1>1, <2>1, <2>2 DEF NameFree, Checked, KeepsName, HostNamed, IsHost
    <2>5. ParentSeen(r)' BY <2>1, <2>2 DEF ParentSeen, HostOps
    <2>6. Shallow(r)' BY <2>1, <2>2 DEF Shallow, HostOps
    <2>7. RemovalSafe(r)' BY <2>1 DEF RemovalSafe
    <2> QED BY <2>3, <2>4, <2>5, <2>6, <2>7 DEF About
  <1>6. CASE ParentExist(r)
    <2>1. /\ request'[r].op = q.op /\ request'[r].id = q.id /\ request'[r].doc = q.doc
          /\ request'[r].old = q.old /\ request'[r].step = "write" /\ q.step = "parent"
          /\ request'[r].taken = q.taken /\ q.op = "updateGroup"
          /\ p \notin {None, q.id} => IsGroup(p)
      BY <1>1, <1>6, GotoEntry DEF ParentExist, At
    <2>2. Born(p)
      BY <1>1, <2>1 DEF ParentSeen, Born, IsGroup
    <2>3. Fits(r)' BY <1>1, <2>1 DEF Fits, GroupOps, HostOps
    <2>4. NameFree(r)'
      BY <1>1, <2>1 DEF NameFree, Checked, KeepsName, GroupNamed, IsGroup, GroupOps, HostOps
    <2>5. ParentSeen(r)' BY <1>1, <2>1, <2>2 DEF ParentSeen, Born
    <2>6. Shallow(r)' BY <2>1 DEF Shallow
    <2>7. RemovalSafe(r)' BY <2>1 DEF RemovalSafe
    <2> QED BY <2>3, <2>4, <2>5, <2>6, <2>7 DEF About
  <1>7. CASE GetParent(r) /\ (p = None \/ group[p].parent = None)
    <2>1. /\ request'[r].op = q.op /\ request'[r].id = q.id /\ request'[r].doc = q.doc
          /\ request'[r].old = q.old /\ request'[r].step = "write" /\ q.step = "parent"
          /\ request'[r].taken = q.taken /\ q.op = "createGroup"
          /\ p = None \/ (IsGroup(p) /\ group[p].parent = None)
      BY <1>1, <1>7, GotoEntry DEF GetParent, At
    <2>2. Fits(r)' BY <1>1, <2>1 DEF Fits, GroupOps, HostOps
    <2>3. NameFree(r)'
      BY <1>1, <2>1 DEF NameFree, Checked, KeepsName, GroupNamed, IsGroup, GroupOps, HostOps
    <2>4. ParentSeen(r)' BY <1>1, <2>1 DEF ParentSeen, Born, IsGroup
    <2>5. Shallow(r)' BY <1>1, <2>1 DEF Shallow, Present, Up, IsGroup
    <2>6. RemovalSafe(r)' BY <2>1 DEF RemovalSafe
    <2> QED BY <2>2, <2>3, <2>4, <2>5, <2>6 DEF About
  <1>8. CASE GetParent(r) /\ ~(p = None \/ group[p].parent = None)
    <2>1. /\ q.step = "parent" /\ q.op = "createGroup" /\ q.doc \in GroupDoc
          /\ p # None /\ IsGroup(p) /\ group[p].parent # None
          /\ request' = [request EXCEPT ![r] =
                 [q EXCEPT !.step = "grandparent", !.via = group[p].parent]]
      BY <1>1, <1>8 DEF GetParent, At, Fits, GroupOps
    <2>2. p \in Groups /\ group[p].parent \in Groups
      BY <2>1 DEF GroupDoc, IsGroup
    <2>3. request'[r] = [q EXCEPT !.step = "grandparent", !.via = group[p].parent]
      BY <1>1, <2>1 DEF TypeOK
    <2>4. /\ request'[r].op = q.op /\ request'[r].id = q.id /\ request'[r].doc = q.doc
          /\ request'[r].old = q.old /\ request'[r].step = "grandparent"
          /\ request'[r].taken = q.taken /\ request'[r].via = group[p].parent
      BY <1>1, <2>3 DEF RequestType
    <2>5. Fits(r)' BY <1>1, <2>1, <2>2, <2>4 DEF Fits, GroupOps, HostOps
    <2>6. NameFree(r)'
      BY <1>1, <2>1, <2>4
      DEF NameFree, Checked, KeepsName, GroupNamed, IsGroup, GroupOps, HostOps
    <2>7. ParentSeen(r)'
      BY <1>1, <2>1, <2>2, <2>4 DEF ParentSeen, NoUnbornParent, Born, IsGroup
    <2>8. Shallow(r)' BY <1>1, <2>4 DEF Shallow, Present, IsGroup
    <2>9. RemovalSafe(r)' BY <2>1, <2>4 DEF RemovalSafe
    <2> QED BY <2>5, <2>6, <2>7, <2>8, <2>9 DEF About
  <1>9. CASE GetGrandparent(r)
    <2>1. /\ request'[r].op = q.op /\ request'[r].id = q.id /\ request'[r].doc = q.doc
          /\ request'[r].old = q.old /\ request'[r].step = "write" /\ q.step = "grandparent"
          /\ request'[r].taken = q.taken /\ request'[r].moved = q.moved
          /\ group[q.via].parent = None
      BY <1>1, <1>9, GotoEntry DEF GetGrandparent, At
    <2>2. q.op = "createGroup"
      BY <1>1, <2>1 DEF Fits
    <2>3. Fits(r)' BY <1>1, <2>1 DEF Fits, GroupOps, HostOps
    <2>4. NameFree(r)'
      BY <1>1, <2>1, <2>2
      DEF NameFree, Checked, KeepsName, GroupNamed, IsGroup, GroupOps, HostOps
    <2>5. ParentSeen(r)' BY <1>1, <2>1, <2>2 DEF ParentSeen, Born, GroupOps
    <2>6. Shallow(r)' BY <1>1, <2>1, <2>2 DEF Shallow, Present, Up, IsGroup
    <2>7. RemovalSafe(r)' BY <2>1, <2>2 DEF RemovalSafe
    <2> QED BY <2>3, <2>4, <2>5, <2>6, <2>7 DEF About
  <1>10. CASE ReadIds(r)
    <2> DEFINE family == {g \in Groups : IsGroup(g) /\ group[g].parent = q.id} \cup {q.id}
    <2>1. /\ q.op = "deleteGroup"
          /\ request' = [request EXCEPT ![r] =
                 [q EXCEPT !.ids = family, !.step = "removeHosts", !.late = {}]]
      BY <1>1, <1>10 DEF ReadIds, At, Fits
    <2> HIDE DEF family
    <2>2. request'[r] = [q EXCEPT !.ids = family, !.step = "removeHosts", !.late = {}]
      BY <1>1, <2>1 DEF TypeOK
    <2>3. /\ request'[r].op = "deleteGroup" /\ request'[r].step = "removeHosts"
          /\ request'[r].id = q.id /\ request'[r].ids = family
      <3>1. q \in RequestType BY <1>1
      <3>2. /\ request'[r].op = q.op /\ request'[r].step = "removeHosts"
            /\ request'[r].id = q.id /\ request'[r].ids = family
        BY <2>2, <3>1, Zenon DEF RequestType
      <3> QED BY <2>1, <3>2
    <2>4. Fits(r)' BY <1>1, <2>1, <2>3 DEF Fits, GroupOps, HostOps
    <2>5. NameFree(r)' /\ ParentSeen(r)' /\ Shallow(r)'
      BY <2>3 DEF NameFree, Checked, ParentSeen, Shallow, GroupOps
    <2>6. RemovalSafe(r)' BY <1>1, <2>3 DEF RemovalSafe, IsGroup, family
    <2> QED BY <2>4, <2>5, <2>6 DEF About
  <1>11. CASE Reject(r)
    <2>1. request'[r].step = "done" /\ request'[r].op = "none"
      BY <1>1, <1>11 DEF Reject, Done, Idle, TypeOK
    <2> QED BY <2>1, AboutBeginning DEF Fits, GroupOps, HostOps
  <1> QED
    BY <1>1, <1>2, <1>3, <1>4, <1>5, <1>6, <1>7, <1>8, <1>9, <1>10, <1>11, BeginAbout DEF Check

--------------------------------------------------------------------------------

\* What stays of a request when another one writes.
Untouched(s) ==
    /\ request'[s].op = request[s].op /\ request'[s].step = request[s].step
    /\ request'[s].id = request[s].id /\ request'[s].doc = request[s].doc
    /\ request'[s].old = request[s].old /\ request'[s].via = request[s].via
    /\ request'[s].ids = request[s].ids

\* A request that stored a document is done, and the others have learnt of it.
LEMMA StoredEntries ==
    ASSUME TypeOK, NEW r \in Requests, NEW ops, NEW id \in Groups \cup Hosts, NEW doc,
           NEW moves \in BOOLEAN, Stored(r, ops, id, doc, moves)
    PROVE  /\ request' \in [Requests -> RequestType]
           /\ request'[r].op = "none" /\ request'[r].step = "done"
           /\ \A s \in Requests \ {r} :
                /\ Untouched(s)
                /\ request'[s].taken = (request[s].taken \/ Named(request[s], ops, doc))
                /\ request'[s].moved = (request[s].moved \/ moves)
                /\ request'[s].late = request[s].late \cup {id}
  <1>1. request'[r] = [Idle EXCEPT !.step = "done"]
    BY DEF Stored
  <1>2. request'[r] \in RequestType /\ request'[r].op = "none" /\ request'[r].step = "done"
    BY <1>1 DEF Idle, RequestType, Steps
  <1>3. ASSUME NEW s \in Requests \ {r}
        PROVE  /\ request'[s] \in RequestType
               /\ Untouched(s)
               /\ request'[s].taken = (request[s].taken \/ Named(request[s], ops, doc))
               /\ request'[s].moved = (request[s].moved \/ moves)
               /\ request'[s].late = request[s].late \cup {id}
    <2> DEFINE q == request[s]
               taken == q.taken \/ Named(q, ops, doc)
               moved == q.moved \/ moves
               late == q.late \cup {id}
    <2>1. q \in RequestType
      BY DEF TypeOK
    <2>2. taken \in BOOLEAN /\ moved \in BOOLEAN /\ late \in SUBSET (Groups \cup Hosts)
      BY <2>1 DEF RequestType
    <2>3. request'[s] = [q EXCEPT !.taken = taken, !.moved = moved, !.late = late]
      BY Zenon DEF Stored
    <2> HIDE DEF taken, moved, late
    <2>4. request'[s] \in RequestType
      BY <2>1, <2>2, <2>3, Zenon DEF RequestType
    <2>5. /\ Untouched(s)
          /\ request'[s].taken = taken /\ request'[s].moved = moved /\ request'[s].late = late
      BY <2>1, <2>3, Zenon DEF RequestType, Untouched
    <2> QED BY <2>4, <2>5 DEF taken, moved, late
  <1>4. request' \in [Requests -> RequestType]
    BY <1>2, <1>3 DEF Stored
  <1> QED BY <1>2, <1>3, <1>4

\* Group id is written: a new one, or one that is there, perhaps with a new parent.
Writes(id, doc, moves) ==
    /\ group' = [group EXCEPT ![id] = doc]
    /\ Born(doc.parent)
    /\ \/ group[id] = Unborn
       \/ IsGroup(id) /\ (moves <=> doc.parent # group[id].parent)

\* The way up from a group that is there stays, unless a parent is changed.
LEMMA UpSame ==
    ASSUME TypeOK, NoUnbornParent, NEW id \in Groups, NEW doc \in GroupDoc,
           Writes(id, doc, FALSE), NEW x, Born(x)
    PROVE  /\ Up(group', x) = Up(group, x)
           /\ Born(Up(group, x))
           /\ x \in Groups /\ group'[x] \in GroupDoc => Present(x)
  <1>1. CASE x = id
    <2>1. IsGroup(id) /\ doc.parent = group[id].parent
      BY <1>1 DEF Writes, Born
    <2>2. Up(group, x) = doc.parent /\ Up(group', x) = doc.parent
      BY <1>1, <2>1 DEF Up, IsGroup, Writes, TypeOK
    <2>3. Present(x)
      BY <1>1, <2>1 DEF Present
    <2> QED BY <2>2, <2>3 DEF Writes
  <1>2. CASE x # id
    <2>1. x \in Groups => group'[x] = group[x]
      BY <1>2 DEF Writes, TypeOK
    <2>2. Up(group', x) = Up(group, x)
      BY <2>1 DEF Up
    <2>3. Born(Up(group, x))
      BY DEF Up, NoUnbornParent, IsGroup, Born
    <2> QED BY <2>1, <2>2, <2>3 DEF Present, IsGroup
  <1> QED BY <1>1, <1>2

LEMMA GroupWritten ==
    ASSUME IInv, NEW r \in Requests, NEW id \in Groups, NEW doc \in GroupDoc,
           NEW moves \in BOOLEAN, Writes(id, doc, moves),
           Stored(r, GroupOps, id, doc, moves), UNCHANGED <<inventories, host>>
    PROVE  IInv'
  <1>1. /\ TypeOK /\ NoUnbornParent
        /\ group' \in [Groups -> GroupDoc \cup {Unborn, Gone}]
        /\ group'[id] = doc /\ host' = host
        /\ \A g \in Groups \ {id} : group'[g] = group[g]
    BY DEF IInv, TypeOK, Writes
  <1>2. /\ request' \in [Requests -> RequestType]
        /\ request'[r].op = "none" /\ request'[r].step = "done"
        /\ \A s \in Requests \ {r} :
             /\ Untouched(s)
             /\ request'[s].taken = (request[s].taken \/ Named(request[s], GroupOps, doc))
             /\ request'[s].moved = (request[s].moved \/ moves)
             /\ request'[s].late = request[s].late \cup {id}
    BY <1>1, StoredEntries
  <1>3. TypeOK'
    BY <1>1, <1>2 DEF TypeOK
  <1>4. \A x : Born(x) => (x \in Groups => group'[x] # Unborn)
    BY <1>1 DEF Born
  <1>5. NoUnbornParent'
    <2>1. ASSUME NEW g \in Groups, group'[g] \in GroupDoc
          PROVE  group'[g].parent \in Groups => group'[group'[g].parent] # Unborn
      <3>1. Born(group'[g].parent)
        BY <1>1, <2>1 DEF Writes, NoUnbornParent, IsGroup
      <3> QED BY <1>4, <3>1
    <2> QED BY <2>1 DEF NoUnbornParent, IsGroup, Born
  <1>6. ASSUME NEW s \in Requests \ {r}
        PROVE  About(s)'
    <2> DEFINE q == request[s]
    <2>1. /\ q \in RequestType
          /\ Fits(s) /\ NameFree(s) /\ ParentSeen(s) /\ Shallow(s) /\ RemovalSafe(s)
      BY DEF IInv, TypeOK, About
    <2>2. /\ request'[s].op = q.op /\ request'[s].step = q.step
          /\ request'[s].id = q.id /\ request'[s].doc = q.doc
          /\ request'[s].old = q.old /\ request'[s].via = q.via
          /\ request'[s].ids = q.ids
      BY <1>2 DEF Untouched
    <2>3. Fits(s)'
      BY <2>1, <2>2 DEF Fits
    <2>4. NameFree(s)'
      <3>1. ASSUME q.step \in Checked, ~KeepsName(q), ~request'[s].taken, q.op \in GroupOps,
                   NEW g \in Groups, group'[g] \in GroupDoc, SameKey(group'[g], q.doc)
            PROVE  FALSE
        <4>1. ~q.taken /\ ~Named(q, GroupOps, doc)
          BY <1>2, <3>1
        <4>2. g # id
          BY <1>1, <3>1, <4>1 DEF Named, Checked, SameKey
        <4>3. GroupNamed(q.doc)
          BY <1>1, <3>1, <4>2 DEF GroupNamed, IsGroup
        <4> QED BY <2>1, <3>1, <4>1, <4>3 DEF NameFree
      <3>2. ~request'[s].taken => ~q.taken
        BY <1>2
      <3>3. KeepsName(request'[s]) <=> KeepsName(q)
        BY <2>2 DEF KeepsName
      <3>4. ASSUME q.step \in Checked, ~KeepsName(q), ~request'[s].taken
            PROVE  /\ q.op \in GroupOps => ~\E g \in Groups :
                          group'[g] \in GroupDoc /\ SameKey(group'[g], q.doc)
                   /\ q.op \in HostOps => ~HostNamed(q.doc)
        BY <2>1, <3>1, <3>2, <3>4 DEF NameFree
      <3> QED BY <1>1, <2>2, <3>3, <3>4 DEF NameFree, GroupNamed, HostNamed, IsGroup, IsHost
    <2>5. ParentSeen(s)'
      BY <1>4, <2>1, <2>2 DEF ParentSeen, Born
    <2>6. Shallow(s)'
      <3>1. CASE q.op # "createGroup" \/ q.step \notin {"grandparent", "write"} \/ q.moved \/ moves
        BY <1>2, <2>2, <3>1 DEF Shallow
      <3>2. CASE /\ q.op = "createGroup" /\ q.step \in {"grandparent", "write"}
                 /\ ~q.moved /\ ~moves
        <4> DEFINE p == q.doc.parent
        <4>1. Writes(id, doc, FALSE)
          BY <3>2 DEF Writes
        <4>2. Born(p)
          BY <2>1, <3>2 DEF ParentSeen, GroupOps
        <4>3. /\ Up(group', p) = Up(group, p)
              /\ Born(Up(group, p))
              /\ p \in Groups /\ group'[p] \in GroupDoc => Present(p)
          BY <1>1, <4>1, <4>2, UpSame
        <4>4. CASE q.step = "grandparent"
          <5>1. ASSUME p \in Groups, group'[p] \in GroupDoc
                PROVE  group'[p].parent = q.via
            BY <2>1, <3>2, <4>3, <4>4, <5>1 DEF Shallow, Up, Present, IsGroup
          <5> QED BY <2>2, <4>4, <5>1 DEF Shallow, Present, IsGroup
        <4>5. CASE q.step = "write"
          <5> DEFINE u == Up(group, p)
                     top == Up(group, u)
          <5>1. /\ Up(group', Up(group', p)) = top
                /\ Born(top)
            <6>1. Up(group', p) = u /\ Born(u)
              BY <4>3
            <6> HIDE DEF u
            <6> QED BY <1>1, <4>1, <6>1, UpSame
          <5>2. top \in Groups /\ group'[top] \in GroupDoc => Present(top)
            BY <1>1, <4>1, <5>1, UpSame
          <5>3. ~Present(top)
            BY <2>1, <3>2, <4>5 DEF Shallow
          <5> QED BY <2>2, <4>5, <5>1, <5>2, <5>3 DEF Shallow, Present, IsGroup
        <4> QED BY <3>2, <4>4, <4>5
      <3> QED BY <3>1, <3>2
    <2>7. RemovalSafe(s)'
      BY <1>1, <1>2, <2>1, <2>2 DEF RemovalSafe, IsGroup, IsHost
    <2> QED BY <2>3, <2>4, <2>5, <2>6, <2>7 DEF About
  <1>7. About(r)'
    BY <1>2, AboutBeginning DEF Fits, GroupOps, HostOps
  <1> QED BY <1>3, <1>5, <1>6, <1>7 DEF IInv

LEMMA InsertGroupIInv ==
    ASSUME IInv, NEW r \in Requests, InsertGroup(r)
    PROVE  IInv'
  <1> DEFINE doc == request[r].doc
  <1>1. PICK g \in Groups :
          /\ group[g] = Unborn
          /\ group' = [group EXCEPT ![g] = doc]
          /\ Stored(r, GroupOps, g, doc, FALSE)
    BY DEF InsertGroup
  <1>2. request[r].op = "createGroup" /\ request[r].step = "write"
        /\ UNCHANGED <<inventories, host>>
    BY DEF InsertGroup, At
  <1>3. doc \in GroupDoc /\ Born(doc.parent)
    BY <1>2 DEF IInv, About, Fits, ParentSeen, GroupOps
  <1>4. Writes(g, doc, FALSE)
    BY <1>1, <1>3 DEF Writes
  <1> HIDE DEF doc
  <1> QED BY <1>1, <1>2, <1>3, <1>4, GroupWritten

LEMMA UpdateGroupIInv ==
    ASSUME IInv, NEW r \in Requests, UpdateGroup(r)
    PROVE  IInv'
  <1> DEFINE id == request[r].id
             doc == [request[r].doc EXCEPT !.name = Trim[@]]
             moves == doc.parent # group[id].parent
  <1>1. /\ request[r].op = "updateGroup" /\ request[r].step = "write"
        /\ IsGroup(id) /\ UNCHANGED <<inventories, host>>
        /\ group' = [group EXCEPT ![id] = doc]
        /\ Stored(r, GroupOps, id, doc, moves)
    BY DEF UpdateGroup, At
  <1>2. request[r].doc \in GroupDoc /\ Born(request[r].doc.parent) /\ id \in Groups
    BY <1>1 DEF IInv, About, Fits, ParentSeen, GroupOps
  <1>3. doc \in GroupDoc /\ doc.parent = request[r].doc.parent
    BY <1>2 DEF GroupDoc
  <1>4. moves \in BOOLEAN
    OBVIOUS
  <1>5. Writes(id, doc, moves)
    BY <1>1, <1>2, <1>3 DEF Writes
  <1> HIDE DEF id, doc, moves
  <1> QED BY <1>1, <1>2, <1>3, <1>4, <1>5, GroupWritten

\* A host is written.
LEMMA HostWritten ==
    ASSUME IInv, NEW r \in Requests, NEW id \in Hosts, NEW doc \in HostDoc,
           host' = [host EXCEPT ![id] = doc],
           NEW moves \in BOOLEAN,
           Stored(r, HostOps, id, doc, moves), UNCHANGED <<inventories, group>>
    PROVE  IInv'
  <1>1. /\ TypeOK /\ NoUnbornParent
        /\ host' \in [Hosts -> HostDoc \cup {Unborn, Gone}]
        /\ host'[id] = doc /\ group' = group
        /\ \A h \in Hosts \ {id} : host'[h] = host[h]
    BY DEF IInv, TypeOK
  <1>2. /\ request' \in [Requests -> RequestType]
        /\ request'[r].op = "none" /\ request'[r].step = "done"
        /\ \A s \in Requests \ {r} :
             /\ Untouched(s)
             /\ request'[s].taken = (request[s].taken \/ Named(request[s], HostOps, doc))
             /\ request'[s].moved = (request[s].moved \/ moves)
             /\ request'[s].late = request[s].late \cup {id}
    <2>1. TypeOK /\ id \in Groups \cup Hosts
      BY <1>1
    <2> QED BY <2>1, StoredEntries
  <1>3. TypeOK'
    BY <1>1, <1>2 DEF TypeOK
  <1>4. NoUnbornParent'
    BY <1>1 DEF NoUnbornParent, IsGroup, Born
  <1>5. ASSUME NEW s \in Requests \ {r}
        PROVE  About(s)'
    <2> DEFINE q == request[s]
    <2>1. /\ q \in RequestType
          /\ Fits(s) /\ NameFree(s) /\ ParentSeen(s) /\ Shallow(s) /\ RemovalSafe(s)
      BY DEF IInv, TypeOK, About
    <2>2. /\ request'[s].op = q.op /\ request'[s].step = q.step
          /\ request'[s].id = q.id /\ request'[s].doc = q.doc
          /\ request'[s].old = q.old /\ request'[s].via = q.via
          /\ request'[s].ids = q.ids
      BY <1>2 DEF Untouched
    <2>3. Fits(s)'
      BY <2>1, <2>2 DEF Fits
    <2>4. NameFree(s)'
      <3>1. ASSUME q.step \in Checked, ~KeepsName(q), ~request'[s].taken, q.op \in HostOps,
                   NEW h \in Hosts, host'[h] \in HostDoc, SameKey(host'[h], q.doc)
            PROVE  FALSE
        <4>1. ~q.taken /\ ~Named(q, HostOps, doc)
          BY <1>2, <3>1
        <4>2. h # id
          BY <1>1, <3>1, <4>1 DEF Named, Checked, SameKey
        <4>3. HostNamed(q.doc)
          BY <1>1, <3>1, <4>2 DEF HostNamed, IsHost
        <4> QED BY <2>1, <3>1, <4>1, <4>3 DEF NameFree
      <3>2. ~request'[s].taken => ~q.taken
        BY <1>2
      <3>3. KeepsName(request'[s]) <=> KeepsName(q)
        BY <2>2 DEF KeepsName
      <3>4. ASSUME q.step \in Checked, ~KeepsName(q), ~request'[s].taken
            PROVE  /\ q.op \in HostOps => ~\E h \in Hosts :
                          host'[h] \in HostDoc /\ SameKey(host'[h], q.doc)
                   /\ q.op \in GroupOps => ~GroupNamed(q.doc)
        BY <2>1, <3>1, <3>2, <3>4 DEF NameFree
      <3> QED BY <1>1, <2>2, <3>3, <3>4 DEF NameFree, GroupNamed, HostNamed, IsGroup, IsHost
    <2>5. ParentSeen(s)'
      BY <1>1, <2>1, <2>2 DEF ParentSeen, Born
    <2>6. Shallow(s)'
      BY <1>1, <1>2, <2>1, <2>2 DEF Shallow, Present, IsGroup
    <2>7. RemovalSafe(s)'
      BY <1>1, <1>2, <2>1, <2>2 DEF RemovalSafe, IsGroup, IsHost
    <2> QED BY <2>3, <2>4, <2>5, <2>6, <2>7 DEF About
  <1>6. About(r)'
    BY <1>2, AboutBeginning DEF Fits, GroupOps, HostOps
  <1> QED BY <1>3, <1>4, <1>5, <1>6 DEF IInv

LEMMA InsertHostIInv ==
    ASSUME IInv, NEW r \in Requests, InsertHost(r)
    PROVE  IInv'
  <1> DEFINE doc == request[r].doc
  <1>1. PICK h \in Hosts :
          host' = [host EXCEPT ![h] = doc] /\ Stored(r, HostOps, h, doc, FALSE)
    BY DEF InsertHost
  <1>2. doc \in HostDoc /\ UNCHANGED <<inventories, group>>
    BY DEF InsertHost, IInv, About, Fits, HostOps
  <1> HIDE DEF doc
  <1> QED BY <1>1, <1>2, HostWritten

LEMMA UpdateHostIInv ==
    ASSUME IInv, NEW r \in Requests, UpdateHost(r)
    PROVE  IInv'
  <1> DEFINE id == request[r].id
             doc == [request[r].doc EXCEPT !.name = Trim[@]]
  <1>1. /\ request[r].op = "updateHost" /\ UNCHANGED <<inventories, group>>
        /\ host' = [host EXCEPT ![id] = doc]
        /\ Stored(r, HostOps, id, doc, FALSE)
    BY DEF UpdateHost
  <1>2. request[r].doc \in HostDoc /\ id \in Hosts
    BY <1>1 DEF IInv, About, Fits, HostOps
  <1>3. doc \in HostDoc
    BY <1>2 DEF HostDoc
  <1> HIDE DEF id, doc
  <1> QED BY <1>1, <1>2, <1>3, HostWritten

\* Documents are removed, and the other requests do not know.
Shrinks ==
    /\ \A g \in Groups : group'[g] = group[g] \/ (IsGroup(g) /\ group'[g] = Gone)
    /\ \A h \in Hosts : host'[h] = host[h] \/ (IsHost(h) /\ host'[h] = Gone)

LEMMA ShrinksAbout ==
    ASSUME Shrinks, NEW s \in Requests, request'[s] = request[s], About(s)
    PROVE  About(s)'
  <1> USE DEF About
  <1>1. /\ \A g \in Groups : group'[g] \in GroupDoc => IsGroup(g) /\ group'[g] = group[g]
        /\ \A h \in Hosts : host'[h] \in HostDoc => IsHost(h) /\ host'[h] = host[h]
        /\ \A g \in Groups : group[g] # Unborn => group'[g] # Unborn
    BY DEF Shrinks, IsGroup, IsHost
  <1>2. Fits(s)' BY DEF Fits
  <1>3. NameFree(s)' BY <1>1 DEF NameFree, GroupNamed, HostNamed, IsGroup, IsHost
  <1>4. ParentSeen(s)' BY <1>1 DEF ParentSeen, Born
  <1>5. Shallow(s)'
    <2> DEFINE q == request[s]
               p == q.doc.parent
    <2>1. CASE q.op # "createGroup" \/ q.moved \/ q.step \notin {"grandparent", "write"}
      BY <2>1 DEF Shallow
    <2>2. CASE q.op = "createGroup" /\ ~q.moved /\ q.step = "grandparent"
      BY <1>1, <2>2 DEF Shallow, Present, IsGroup
    <2>3. CASE q.op = "createGroup" /\ ~q.moved /\ q.step = "write"
      <3>1. Up(group', p) \in {Up(group, p), None}
        BY <1>1 DEF Up, IsGroup
      <3>2. Up(group', Up(group', p)) \in {Up(group, Up(group, p)), None}
        BY <1>1, <3>1 DEF Up, IsGroup
      <3>3. ~Present(Up(group, Up(group, p)))
        BY <2>3 DEF Shallow
      <3>4. None \notin Groups
        OBVIOUS
      <3> QED BY <1>1, <2>3, <3>2, <3>3, <3>4 DEF Shallow, Present, IsGroup
    <2> QED BY <2>1, <2>2, <2>3
  <1>6. RemovalSafe(s)' BY <1>1 DEF RemovalSafe, IsGroup, IsHost
  <1> QED BY <1>2, <1>3, <1>4, <1>5, <1>6

LEMMA ShrinksIInv ==
    ASSUME IInv, NEW r \in Requests, Shrinks,
           group' \in [Groups -> GroupDoc \cup {Unborn, Gone}],
           host' \in [Hosts -> HostDoc \cup {Unborn, Gone}],
           inventories' \subseteq inventories,
           NEW q \in RequestType, request' = [request EXCEPT ![r] = q], About(r)'
    PROVE  IInv'
  <1>1. TypeOK'
    BY DEF IInv, TypeOK
  <1>2. NoUnbornParent'
    BY DEF IInv, NoUnbornParent, Shrinks, IsGroup, Born
  <1>3. ASSUME NEW s \in Requests \ {r} PROVE About(s)'
    BY ShrinksAbout DEF IInv, TypeOK
  <1> QED BY <1>1, <1>2, <1>3 DEF IInv

LEMMA RemovalIInv ==
    ASSUME IInv, NEW r \in Requests,
           RemoveHost(r) \/ RemoveHosts(r) \/ RemoveGroups(r) \/ RemoveInventory(r)
    PROVE  IInv'
  <1> DEFINE q == request[r]
             finished == [Idle EXCEPT !.step = "done"]
  <1>1. /\ TypeOK /\ q \in RequestType /\ About(r)
    BY DEF IInv, TypeOK
  <1>2. finished \in RequestType
    BY DEF RequestType, Idle, Steps
  <1>3. Done(r) => request' = [request EXCEPT ![r] = finished] /\ About(r)'
    <2>1. ASSUME Done(r)
          PROVE  request'[r].step = "done" /\ request'[r].op = "none"
      BY <1>1, <2>1 DEF Done, Idle, TypeOK
    <2>2. ASSUME Done(r)
          PROVE  About(r)'
      BY <2>1, <2>2, AboutBeginning DEF Fits, GroupOps, HostOps
    <2> QED BY <2>2 DEF Done
  <1> HIDE DEF finished
  <1>4. CASE RemoveHost(r)
    <2>1. /\ IsHost(q.id) /\ host' = [host EXCEPT ![q.id] = Gone] /\ Done(r)
          /\ UNCHANGED <<inventories, group>>
      BY <1>4 DEF RemoveHost
    <2>2. Shrinks
      BY <1>1, <2>1 DEF Shrinks, TypeOK
    <2>3. /\ host' \in [Hosts -> HostDoc \cup {Unborn, Gone}]
          /\ group' \in [Groups -> GroupDoc \cup {Unborn, Gone}]
      BY <1>1, <2>1 DEF TypeOK
    <2> QED BY <1>2, <1>3, <2>1, <2>2, <2>3, ShrinksIInv
  <1>5. CASE RemoveInventory(r)
    <2>1. Shrinks
      BY <1>5 DEF RemoveInventory, Shrinks
    <2>2. /\ host' \in [Hosts -> HostDoc \cup {Unborn, Gone}]
          /\ group' \in [Groups -> GroupDoc \cup {Unborn, Gone}]
          /\ inventories' \subseteq inventories
          /\ Done(r)
      BY <1>1, <1>5 DEF RemoveInventory, TypeOK
    <2> QED BY <1>2, <1>3, <2>1, <2>2, ShrinksIInv
  <1>6. CASE RemoveHosts(r)
    <2> DEFINE late == q.late \ Hosts
               next == [q EXCEPT !.step = "removeGroups", !.late = late]
    <2>1. /\ q.step = "removeHosts"
          /\ host' = [h \in Hosts |-> IF h \in HostsToRemove(q) THEN Gone ELSE host[h]]
          /\ request' = [request EXCEPT ![r] = next]
          /\ UNCHANGED <<inventories, group>>
      BY <1>6 DEF RemoveHosts, At
    <2>2. Shrinks
      BY <1>1, <2>1 DEF Shrinks, HostsToRemove, TypeOK
    <2>3. /\ host' \in [Hosts -> HostDoc \cup {Unborn, Gone}]
          /\ group' \in [Groups -> GroupDoc \cup {Unborn, Gone}]
      BY <1>1, <2>1 DEF TypeOK
    <2>4. late \in SUBSET (Groups \cup Hosts) /\ late = q.late \ Hosts
      BY <1>1 DEF RequestType
    <2> HIDE DEF late
    <2>5. next \in RequestType
      BY <1>1, <2>4 DEF RequestType, Steps
    <2>6. request'[r] = [q EXCEPT !.step = "removeGroups", !.late = late]
      BY <1>1, <2>1 DEF TypeOK
    <2>7. /\ request'[r].op = q.op /\ request'[r].step = "removeGroups"
          /\ request'[r].id = q.id /\ request'[r].ids = q.ids /\ request'[r].late = late
      <3>1. q \in RequestType BY <1>1
      <3> QED BY <2>6, <3>1, Zenon DEF RequestType
    <2>8. Fits(r)'
      BY <1>1, <2>1, <2>7 DEF About, Fits, GroupOps, HostOps
    <2>9. NameFree(r)' /\ ParentSeen(r)' /\ Shallow(r)'
      BY <2>7, <2>8 DEF Fits, NameFree, Checked, ParentSeen, Shallow, GroupOps
    <2>10. RemovalSafe(r)'
      <3>1. /\ \A g \in Groups : g \in q.late => g \in late
            /\ \A h \in Hosts : host'[h] \in HostDoc => h \notin HostsToRemove(q)
                                                        /\ host'[h] = host[h] /\ IsHost(h)
        BY <2>1, <2>4 DEF IsHost
      <3>2. q.op = "deleteGroup" =>
              \A g \in Groups : IsGroup(g) /\ group[g].parent = q.id => g \in q.ids \cup late
        BY <1>1, <2>1, <3>1 DEF About, RemovalSafe
      <3>3. /\ q.op = "deleteGroup" =>
                  \A h \in Hosts : host'[h] \in HostDoc => host'[h].group \notin q.ids
            /\ q.op = "deleteInventory" =>
                  \A h \in Hosts : host'[h] \in HostDoc => host'[h].inventory # q.id
        BY <3>1 DEF HostsToRemove
      <3> QED BY <2>1, <2>7, <3>2, <3>3 DEF RemovalSafe, IsGroup, IsHost
    <2>11. About(r)'
      BY <2>8, <2>9, <2>10 DEF About
    <2> HIDE DEF next
    <2> QED BY <2>1, <2>2, <2>3, <2>5, <2>11, ShrinksIInv
  <1>7. CASE RemoveGroups(r)
    <2>1. /\ q.step = "removeGroups"
          /\ group' = [g \in Groups |-> IF g \in GroupsToRemove(q) THEN Gone ELSE group[g]]
          /\ IF q.op = "deleteGroup" THEN Done(r) ELSE Goto(r, "removeInventory")
          /\ UNCHANGED <<inventories, host>>
      BY <1>7 DEF RemoveGroups, At
    <2>2. Shrinks
      BY <1>1, <2>1 DEF Shrinks, GroupsToRemove, TypeOK
    <2>3. /\ host' \in [Hosts -> HostDoc \cup {Unborn, Gone}]
          /\ group' \in [Groups -> GroupDoc \cup {Unborn, Gone}]
      BY <1>1, <2>1 DEF TypeOK
    <2>4. CASE q.op = "deleteGroup"
      BY <1>2, <1>3, <2>1, <2>2, <2>3, <2>4, ShrinksIInv
    <2>5. CASE q.op # "deleteGroup"
      <3> DEFINE next == [q EXCEPT !.step = "removeInventory"]
      <3>1. request' = [request EXCEPT ![r] = next] /\ Goto(r, "removeInventory")
        BY <2>1, <2>5 DEF Goto
      <3>2. next \in RequestType
        BY <1>1 DEF RequestType, Steps
      <3>3. request'[r].op = q.op /\ request'[r].step = "removeInventory"
        BY <1>1, <3>1, GotoEntry
      <3>4. q.op = "deleteInventory"
        BY <1>1, <2>1, <2>5 DEF About, Fits
      <3>5. About(r)'
        BY <3>3, <3>4, AboutBeginning DEF Fits, GroupOps, HostOps
      <3> HIDE DEF next
      <3> QED BY <2>1, <2>2, <2>3, <3>1, <3>2, <3>5, ShrinksIInv
    <2> QED BY <2>4, <2>5
  <1> QED BY <1>4, <1>5, <1>6, <1>7

LEMMA NextIInv == IInv /\ [Next]_vars => IInv'
  <1> SUFFICES ASSUME IInv, [Next]_vars PROVE IInv'
    OBVIOUS
  <1>1. ASSUME NEW r \in Requests, Check(r) PROVE IInv'
    <2>1. TypeOK' /\ UNCHANGED store /\ \A s \in Requests \ {r} : request'[s] = request[s]
      BY <1>1, CheckType DEF IInv, About
    <2>2. NoUnbornParent'
      BY <2>1 DEF IInv, NoUnbornParent, IsGroup, Born, store
    <2>3. \A s \in Requests : About(s)'
      BY <1>1, <2>1, CheckAbout, AboutSame DEF IInv
    <2> QED BY <2>1, <2>2, <2>3 DEF IInv
  <1>2. ASSUME NEW r \in Requests, Write(r) PROVE IInv'
    BY <1>2, InsertGroupIInv, UpdateGroupIInv, InsertHostIInv, UpdateHostIInv, RemovalIInv
    DEF Write
  <1>3. CASE UNCHANGED vars
    <2>1. TypeOK' BY <1>3 DEF vars, store, IInv, TypeOK
    <2>2. NoUnbornParent' BY <1>3 DEF vars, store, IInv, NoUnbornParent, IsGroup, Born
    <2>3. \A s \in Requests : About(s)' BY <1>3, AboutSame DEF vars, store, IInv
    <2> QED BY <2>1, <2>2, <2>3 DEF IInv
  <1> QED BY <1>1, <1>2, <1>3, NextIsAct

THEOREM Invariance == Spec => []IInv
  BY InitIInv, NextIInv, PTL DEF Spec

\* A request has the fields its operation works with, whatever the others do.
THEOREM TypeCorrect == Spec => []TypeOK
<1>1. IInv => TypeOK
  BY DEF IInv
<1> QED BY <1>1, Invariance, PTL

--------------------------------------------------------------------------------

\* Documents come by the four writes, and groups go by RemoveGroups.
LEMMA OnlyWrites ==
    ASSUME IInv, NEW r \in Requests, Check(r) \/ Write(r)
    PROVE  /\ \/ InsertGroup(r) \/ UpdateGroup(r)
              \/ \A g \in Groups : group'[g] \in GroupDoc => group'[g] = group[g]
           /\ \/ InsertHost(r) \/ UpdateHost(r)
              \/ \A h \in Hosts : host'[h] \in HostDoc => host'[h] = host[h]
           /\ \A g \in Groups : IsGroup(g) /\ group'[g] = Gone =>
                 RemoveGroups(r) /\ g \in GroupsToRemove(request[r])
  <1>1. /\ TypeOK /\ Fits(r)
        /\ Gone \notin GroupDoc /\ Gone \notin HostDoc
    BY DEF IInv, About
  <1>2. CASE Check(r)
    BY <1>1, <1>2, CheckType DEF store, IsGroup
  <1>3. CASE InsertGroup(r)
    BY <1>1, <1>3 DEF InsertGroup, TypeOK, IsGroup, Fits, At, GroupOps
  <1>4. CASE UpdateGroup(r)
    <2> DEFINE doc == [request[r].doc EXCEPT !.name = Trim[@]]
    <2>1. doc \in GroupDoc
      BY <1>1, <1>4 DEF UpdateGroup, Fits, GroupOps, GroupDoc
    <2>2. group' = [group EXCEPT ![request[r].id] = doc] /\ host' = host
      BY <1>4 DEF UpdateGroup
    <2> HIDE DEF doc
    <2> QED BY <1>1, <1>4, <2>1, <2>2 DEF TypeOK, IsGroup
  <1>5. CASE InsertHost(r) \/ UpdateHost(r)
    BY <1>1, <1>5 DEF InsertHost, UpdateHost, IsGroup
  <1>6. CASE RemoveHost(r) \/ RemoveHosts(r) \/ RemoveInventory(r)
    <2>1. group' = group
      BY <1>6 DEF RemoveHost, RemoveHosts, RemoveInventory
    <2>2. \A h \in Hosts : host'[h] = host[h] \/ host'[h] = Gone
      BY <1>1, <1>6 DEF RemoveHost, RemoveHosts, RemoveInventory, TypeOK
    <2> QED BY <1>1, <2>1, <2>2 DEF IsGroup
  <1>7. CASE RemoveGroups(r)
    <2>1. /\ group' = [g \in Groups |->
                 IF g \in GroupsToRemove(request[r]) THEN Gone ELSE group[g]]
          /\ host' = host
      BY <1>7 DEF RemoveGroups
    <2> QED BY <1>1, <1>7, <2>1 DEF IsGroup
  <1> QED BY <1>2, <1>3, <1>4, <1>5, <1>6, <1>7 DEF Write

\* A group that takes a name which another one has was stored carelessly.
LEMMA GroupDuplicate ==
    ASSUME IInv, NEW r \in Requests, InsertGroup(r) \/ UpdateGroup(r),
           NEW g \in Groups, NEW h \in Groups, g # h,
           group'[g] \in GroupDoc, group'[h] \in GroupDoc, SameKey(group'[g], group'[h]),
           ~(IsGroup(g) /\ IsGroup(h) /\ SameKey(group[g], group[h]))
    PROVE  Careless(request[r])
  <1> DEFINE q == request[r]
  <1>1. /\ TypeOK /\ Fits(r) /\ NameFree(r) /\ q.step = "write" /\ q.op \in GroupOps
    BY DEF IInv, About, InsertGroup, UpdateGroup, At, GroupOps
  <1>2. q.doc \in GroupDoc
    BY <1>1 DEF Fits
  <1>3. SUFFICES ASSUME ~Careless(q) PROVE FALSE
    OBVIOUS
  <1>4. /\ ~q.taken
        /\ ~KeepsName(q)
        /\ q.op = "updateGroup" => Trim[q.doc.name] = q.doc.name
    BY <1>1, <1>3 DEF Careless, Unchecked, KeepsName
  <1>5. PICK id \in Groups, doc \in GroupDoc :
          /\ group' = [group EXCEPT ![id] = doc]
          /\ doc.name = q.doc.name /\ doc.inventory = q.doc.inventory
    <2>1. CASE InsertGroup(r)
      BY <1>2, <2>1 DEF InsertGroup
    <2>2. CASE UpdateGroup(r)
      <3> DEFINE doc == [q.doc EXCEPT !.name = Trim[@]]
      <3>1. /\ group' = [group EXCEPT ![q.id] = doc] /\ q.op = "updateGroup"
            /\ q.id \in Groups
        BY <1>1, <2>2 DEF UpdateGroup, Fits
      <3>2. doc \in GroupDoc /\ doc.name = q.doc.name /\ doc.inventory = q.doc.inventory
        BY <1>2, <1>4, <3>1 DEF GroupDoc
      <3> HIDE DEF doc
      <3> QED BY <3>1, <3>2
    <2> QED BY <2>1, <2>2
  <1>6. group'[id] = doc /\ \A k \in Groups \ {id} : group'[k] = group[k]
    BY <1>1, <1>5 DEF TypeOK
  <1>7. g = id \/ h = id
    BY <1>6 DEF IsGroup
  <1>8. GroupNamed(q.doc)
    BY <1>5, <1>6, <1>7 DEF GroupNamed, SameKey, IsGroup
  <1> QED BY <1>1, <1>4, <1>8 DEF NameFree, Checked

LEMMA HostDuplicate ==
    ASSUME IInv, NEW r \in Requests, InsertHost(r) \/ UpdateHost(r),
           NEW g \in Hosts, NEW h \in Hosts, g # h,
           host'[g] \in HostDoc, host'[h] \in HostDoc, SameKey(host'[g], host'[h]),
           ~(IsHost(g) /\ IsHost(h) /\ SameKey(host[g], host[h]))
    PROVE  Careless(request[r])
  <1> DEFINE q == request[r]
  <1>1. /\ TypeOK /\ Fits(r) /\ NameFree(r) /\ q.step = "write" /\ q.op \in HostOps
    BY DEF IInv, About, InsertHost, UpdateHost, At, HostOps
  <1>2. q.doc \in HostDoc
    BY <1>1 DEF Fits
  <1>3. SUFFICES ASSUME ~Careless(q) PROVE FALSE
    OBVIOUS
  <1>4. /\ ~q.taken
        /\ ~KeepsName(q)
        /\ q.op = "updateHost" => Trim[q.doc.name] = q.doc.name
    BY <1>1, <1>3 DEF Careless, Unchecked, KeepsName
  <1>5. PICK id \in Hosts, doc \in HostDoc :
          /\ host' = [host EXCEPT ![id] = doc]
          /\ doc.name = q.doc.name /\ doc.inventory = q.doc.inventory
    <2>1. CASE InsertHost(r)
      BY <1>2, <2>1 DEF InsertHost
    <2>2. CASE UpdateHost(r)
      <3> DEFINE doc == [q.doc EXCEPT !.name = Trim[@]]
      <3>1. /\ host' = [host EXCEPT ![q.id] = doc] /\ q.op = "updateHost"
            /\ q.id \in Hosts
        BY <1>1, <2>2 DEF UpdateHost, Fits
      <3>2. doc \in HostDoc /\ doc.name = q.doc.name /\ doc.inventory = q.doc.inventory
        BY <1>2, <1>4, <3>1 DEF HostDoc
      <3> HIDE DEF doc
      <3> QED BY <3>1, <3>2
    <2> QED BY <2>1, <2>2
  <1>6. host'[id] = doc /\ \A k \in Hosts \ {id} : host'[k] = host[k]
    BY <1>1, <1>5 DEF TypeOK
  <1>7. g = id \/ h = id
    BY <1>6 DEF IsHost
  <1>8. HostNamed(q.doc)
    BY <1>5, <1>6, <1>7 DEF HostNamed, SameKey, IsHost
  <1> QED BY <1>1, <1>4, <1>8 DEF NameFree, Checked

\* IsUnique and the write are two operations, but only a request that was overtaken,
\* failed to look or never looked duplicates a name (api/group.go:169, 243, 258).
THEOREM Duplicates == Spec => DuplicatesNeedARace
<1>1. IInv /\ [Next]_vars => [DuplicatesExplained]_vars
  <2> SUFFICES ASSUME IInv, Next PROVE DuplicatesExplained
    OBVIOUS
  <2>1. PICK r \in Requests : Check(r) \/ Write(r)
    BY NextIsAct
  <2>2. ASSUME NEW g \in Groups, NEW h \in Groups, g # h,
               group'[g] \in GroupDoc, group'[h] \in GroupDoc, SameKey(group'[g], group'[h]),
               ~(IsGroup(g) /\ IsGroup(h) /\ SameKey(group[g], group[h]))
        PROVE  Careless(request[r])
    BY <2>1, <2>2, OnlyWrites, GroupDuplicate DEF IsGroup
  <2>3. ASSUME NEW g \in Hosts, NEW h \in Hosts, g # h,
               host'[g] \in HostDoc, host'[h] \in HostDoc, SameKey(host'[g], host'[h]),
               ~(IsHost(g) /\ IsHost(h) /\ SameKey(host[g], host[h]))
        PROVE  Careless(request[r])
    BY <2>1, <2>3, OnlyWrites, HostDuplicate DEF IsHost
  <2> QED BY <2>2, <2>3 DEF DuplicatesExplained, IsGroup, IsHost
<1> QED BY <1>1, Invariance, PTL DEF Spec, DuplicatesNeedARace

--------------------------------------------------------------------------------

\* What a removal leaves behind came late, or belongs to another inventory.
LEMMA RemovedGroup ==
    ASSUME IInv, NEW r \in Requests, RemoveGroups(r)
    PROVE  /\ At(r, "removeGroups") /\ UNCHANGED host
           /\ request[r].op \in {"deleteGroup", "deleteInventory"}
           /\ RemovalSafe(r)
           /\ group' = [g \in Groups |->
                  IF g \in GroupsToRemove(request[r]) THEN Gone ELSE group[g]]
  BY DEF IInv, About, Fits, RemoveGroups, At

\* A removal takes the hosts before their groups (api/group.go:300).
THEOREM HostsFirst == Spec => HostsKeepTheirGroups
<1>1. IInv /\ [Next]_vars => [LostGroupsExplained]_vars
  <2> SUFFICES ASSUME IInv, Next,
                      NEW h \in Hosts, NEW g \in Groups,
                      IsHost(h), host[h].group = g, IsGroup(g), IsHost(h)', group'[g] = Gone
               PROVE  \E r \in Requests :
                          /\ At(r, "removeGroups")
                          /\ \/ h \in request[r].late
                             \/ /\ request[r].op = "deleteInventory"
                                /\ host[h].inventory # request[r].id
    BY DEF LostGroupsExplained
  <2>1. PICK r \in Requests : RemoveGroups(r) /\ g \in GroupsToRemove(request[r])
    BY NextIsAct, OnlyWrites
  <2>2. CASE request[r].op = "deleteGroup"
    <3>1. g \in request[r].ids
      BY <2>1, <2>2 DEF GroupsToRemove
    <3> QED BY <2>1, <2>2, <3>1, RemovedGroup DEF RemovalSafe, At
  <2>3. CASE request[r].op = "deleteInventory"
    BY <2>1, <2>3, RemovedGroup DEF RemovalSafe, At
  <2> QED BY <2>1, <2>2, <2>3, RemovedGroup
<1> QED BY <1>1, Invariance, PTL DEF Spec, HostsKeepTheirGroups

\* The children of a removed group are found before it goes (api/group.go:283).
THEOREM ChildrenToo == Spec => GroupsKeepTheirParents
<1>1. IInv /\ [Next]_vars => [LostParentsExplained]_vars
  <2> SUFFICES ASSUME IInv, Next,
                      NEW g \in Groups, NEW p \in Groups,
                      IsGroup(g), group[g].parent = p, IsGroup(p), IsGroup(g)', group'[p] = Gone
               PROVE  \E r \in Requests :
                          /\ At(r, "removeGroups")
                          /\ \/ /\ request[r].op = "deleteGroup"
                                /\ p # request[r].id \/ g \in request[r].late
                             \/ /\ request[r].op = "deleteInventory"
                                /\ group[g].inventory # request[r].id
    BY DEF LostParentsExplained
  <2>1. PICK r \in Requests : RemoveGroups(r) /\ p \in GroupsToRemove(request[r])
    BY NextIsAct, OnlyWrites
  <2>2. g \notin GroupsToRemove(request[r])
    BY <2>1, RemovedGroup DEF IsGroup
  <2>3. CASE request[r].op = "deleteGroup"
    <3>1. g \notin request[r].ids
      BY <2>2, <2>3 DEF GroupsToRemove
    <3> QED BY <2>1, <2>3, <3>1, RemovedGroup DEF RemovalSafe, At
  <2>4. CASE request[r].op = "deleteInventory"
    BY <2>1, <2>2, <2>4, RemovedGroup DEF GroupsToRemove
  <2> QED BY <2>1, <2>3, <2>4, RemovedGroup
<1> QED BY <1>1, Invariance, PTL DEF Spec, GroupsKeepTheirParents

--------------------------------------------------------------------------------

\* Without a move no group that was not too deep becomes so.
LEMMA Deeper ==
    ASSUME IInv, NEW r \in Requests, InsertGroup(r) \/ UpdateGroup(r),
           NEW g \in Groups, TooDeep(group', g), ~TooDeep(group, g)
    PROVE  \/ request[r].op = "createGroup" /\ request[r].moved
           \/ /\ request[r].op = "updateGroup"
              /\ request[r].doc.parent # group[request[r].id].parent
  <1> DEFINE q == request[r]
  <1>1. /\ TypeOK /\ NoUnbornParent /\ q.step = "write" /\ q.op \in GroupOps
        /\ Fits(r) /\ ParentSeen(r) /\ Shallow(r)
    BY DEF IInv, About, InsertGroup, UpdateGroup, At, GroupOps
  <1>2. SUFFICES ASSUME /\ q.op = "createGroup" => ~q.moved
                        /\ q.op = "updateGroup" => q.doc.parent = group[q.id].parent
                 PROVE  FALSE
    BY <1>1 DEF GroupOps
  <1>3. PICK id \in Groups, doc \in GroupDoc :
          /\ Writes(id, doc, FALSE)
          /\ doc.parent = q.doc.parent
          /\ group[id] = Unborn => q.op = "createGroup"
    <2>0. q.doc \in GroupDoc /\ Born(q.doc.parent)
      BY <1>1 DEF Fits, ParentSeen
    <2>1. CASE InsertGroup(r)
      BY <2>0, <2>1 DEF InsertGroup, Writes
    <2>2. CASE UpdateGroup(r)
      <3> DEFINE doc == [q.doc EXCEPT !.name = Trim[@]]
      <3>1. /\ group' = [group EXCEPT ![q.id] = doc] /\ q.op = "updateGroup"
            /\ q.id \in Groups /\ IsGroup(q.id)
        BY <1>1, <2>2 DEF UpdateGroup, Fits
      <3>2. doc \in GroupDoc /\ doc.parent = q.doc.parent
        BY <2>0 DEF GroupDoc
      <3>3. group[q.id] # Unborn
        BY <3>1 DEF IsGroup
      <3> HIDE DEF doc
      <3> QED BY <1>2, <2>0, <3>1, <3>2, <3>3 DEF Writes
    <2> QED BY <2>1, <2>2
  <1> DEFINE u1 == Up(group', g)
             u2 == Up(group', u1)
             top == Up(group', u2)
  <1>4. top \in Groups /\ group'[top] \in GroupDoc
    BY DEF TooDeep
  <1>5. \A x : Born(x) => /\ Up(group', x) = Up(group, x)
                          /\ Born(Up(group, x))
                          /\ x \in Groups /\ group'[x] \in GroupDoc => Present(x)
    BY <1>1, <1>3, UpSame
  <1>6. ASSUME Born(u1) PROVE u2 = Up(group, u1) /\ top = Up(group, u2) /\ Present(top)
    <2> HIDE DEF u1
    <2>1. u2 = Up(group, u1) /\ Born(u2)
      BY <1>5, <1>6
    <2> HIDE DEF u2
    <2>2. top = Up(group, u2) /\ Born(top)
      BY <1>5, <2>1
    <2> HIDE DEF top
    <2> QED BY <1>4, <1>5, <2>1, <2>2
  <1>7. CASE Born(g)
    <2>1. u1 = Up(group, g) /\ Born(u1)
      BY <1>5, <1>7
    <2> HIDE DEF u1, u2, top
    <2>2. TooDeep(group, g)
      BY <1>6, <2>1 DEF TooDeep, Present, IsGroup
    <2> QED BY <2>2
  <1>8. CASE ~Born(g)
    <2>1. g = id /\ q.op = "createGroup"
      BY <1>1, <1>3, <1>4, <1>8 DEF Born, Writes, TypeOK, Up
    <2>2. u1 = q.doc.parent /\ Born(u1)
      BY <1>1, <1>3, <2>1 DEF Up, Writes, TypeOK
    <2> HIDE DEF u1, u2, top
    <2>3. ~Present(Up(group, Up(group, u1)))
      BY <1>1, <1>2, <2>1, <2>2 DEF Shallow
    <2> QED BY <1>6, <2>2, <2>3
  <1> QED BY <1>7, <1>8

\* "Maximum level of nesting is 3." (api/group.go:194) holds but for moves.
THEOREM Nesting == Spec => NestingGrowsByMoves
<1>1. IInv /\ [Next]_vars => [NestingExplained]_vars
  <2> SUFFICES ASSUME IInv, Next, NEW g \in Groups, TooDeep(group', g), ~TooDeep(group, g)
               PROVE  \E r \in Requests :
                          /\ At(r, "write")
                          /\ \/ request[r].op = "createGroup" /\ request[r].moved
                             \/ /\ request[r].op = "updateGroup"
                                /\ request[r].doc.parent # group[request[r].id].parent
    BY DEF NestingExplained
  <2>1. PICK r \in Requests : Check(r) \/ Write(r)
    BY NextIsAct
  <2>2. InsertGroup(r) \/ UpdateGroup(r)
    <3> SUFFICES ASSUME \A k \in Groups : group'[k] \in GroupDoc => group'[k] = group[k]
                 PROVE  FALSE
      BY <2>1, OnlyWrites
    <3>1. \A k : Up(group', k) # None => Up(group', k) = Up(group, k)
      BY DEF Up
    <3>2. Up(group', None) = None
      BY DEF Up
    <3> DEFINE u1 == Up(group', g)
               u2 == Up(group', u1)
               top == Up(group', u2)
    <3>3. top \in Groups /\ group'[top] \in GroupDoc
      BY DEF TooDeep
    <3>4. top # None /\ u2 # None /\ u1 # None
      BY <3>2, <3>3
    <3>5. u1 = Up(group, g) /\ u2 = Up(group, u1) /\ top = Up(group, u2)
      BY <3>1, <3>4
    <3> HIDE DEF u1, u2, top
    <3> QED BY <3>3, <3>5 DEF TooDeep
  <2>3. At(r, "write")
    BY <2>2 DEF InsertGroup, UpdateGroup
  <2> QED BY <2>2, <2>3, Deeper
<1> QED BY <1>1, Invariance, PTL DEF Spec, NestingGrowsByMoves

=============================================================================
