------------------------- MODULE InventoryPagesProofs -------------------------
(***************************************************************************)
(* Proofs about what the readers of an inventory answer: its tree, its     *)
(* script and the pages of its lists, for any documents, names and         *)
(* requests, and for ints of any width.                                    *)
(***************************************************************************)
EXTENDS InventoryPages, InventoryTreeProofs, FiniteSetTheorems

-----------------------------------------------------------------------------
(* Integers.                                                               *)

\* The quotient and what is left.
LEMMA Quotient ==
    ASSUME NEW a \in Nat, NEW b \in Nat \ {0}
    PROVE  /\ a \div b \in Nat
           /\ b * (a \div b) <= a
           /\ a < b * (a \div b) + b
  OBVIOUS

\* A number is in one interval of a row.
LEMMA OneInterval ==
    ASSUME NEW b \in Nat \ {0}, NEW p \in Int, NEW o \in Int, NEW i \in Int,
           b * p <= i, i < b * p + b, b * o <= i, i < b * o + b
    PROVE  p = o
<1>1. ASSUME NEW x \in Int, NEW y \in Int, x < y, b * y <= i, i < b * x + b PROVE FALSE
  <2>1. y = x + (y - x) /\ y - x >= 1
    BY <1>1
  <2>2. b * y = b * x + b * (y - x)
    BY <2>1
  <2>3. b * (y - x) >= b
    BY <2>1
  <2> QED BY <1>1, <2>2, <2>3
<1> QED BY <1>1

\* An int that is in the range of ints does not wrap.
LEMMA NoWrap ==
    ASSUME NEW i \in Int, MinInt <= i, i <= MaxInt
    PROVE  Wrap(i) = i
<1> DEFINE M == 2 * (MaxInt + 1)
<1>1. MaxInt \in Nat
  BY PaginationAssumption
<1>2. i - MinInt \in 0 .. (M - 1) /\ M \in Nat \ {0}
  BY <1>1 DEF MinInt
<1>3. (i - MinInt) % M = i - MinInt
  <2> HIDE DEF M
  <2> QED BY <1>2
<1> QED BY <1>1, <1>3 DEF Wrap, MinInt

-----------------------------------------------------------------------------
(* The tree.                                                               *)

\* The groups of the second and the third level are below a root.
LEMMA OnTheTree ==
    ASSUME NEW i, NEW g \in Groups, IsGroup(g), group[g].parent \in Groups,
           IsGroup(group[g].parent),
           LET p == group[g].parent IN
             \/ p \in RootGroups(i)
             \/ group[p].parent \in RootGroups(i)
    PROVE  g \in Tree(i)
<1> DEFINE p == group[g].parent
           second == UNION {Children(c) : c \in RootGroups(i)}
<1>1. Tree(i) = RootGroups(i) \cup second \cup UNION {Children(c) : c \in second}
  BY DEF Tree
<1>2. g \in Children(p)
  BY DEF Children
<1>3. CASE p \in RootGroups(i)
  BY <1>1, <1>2, <1>3
<1>4. CASE group[p].parent \in RootGroups(i)
  <2>1. p \in Children(group[p].parent)
    BY DEF Children
  <2>2. p \in second
    BY <2>1, <1>4
  <2> QED BY <1>1, <1>2, <2>2
<1> QED BY <1>3, <1>4

LEMMA TreeOfState ==
    ASSUME TypeOK
    PROVE  TreeIsHierarchy
<1> SUFFICES ASSUME NEW i \in inventories, NEW g \in GroupsOf(i), g \notin Tree(i),
                    ~TooDeep(group, g),
                    \A a \in Ancestors(g) \cap Groups :
                        IsGroup(a) /\ (group[a].parent = None => group[a].inventory = i)
             PROVE  FALSE
  BY DEF TreeIsHierarchy
<1>n. None \notin Groups
  BY ConstantsAssumption
<1>t. \A a \in Groups : IsGroup(a) => group[a].parent \in Groups \cup {None}
  BY DEF IsGroup, GroupDoc
<1>g. g \in Groups /\ IsGroup(g) /\ group[g].inventory = i
  BY DEF GroupsOf
<1> DEFINE p == group[g].parent
           q == group[p].parent
<1>1. p \in Groups
  <2>1. CASE p = None
    <3>1. g \in RootGroups(i)
      BY <2>1, <1>g DEF RootGroups
    <3> QED BY <3>1 DEF Tree
  <2> QED BY <2>1, <1>g, <1>t
<1>2. Up(group, g) = p /\ IsGroup(p)
  <2>1. Up(group, g) = p
    BY <1>g DEF Up, IsGroup
  <2> QED BY <2>1, <1>1 DEF Ancestors
<1>3. q \in Groups
  <2>1. CASE q = None
    <3>1. group[p].inventory = i
      BY <2>1, <1>1, <1>2 DEF Ancestors
    <3>2. p \in RootGroups(i)
      BY <2>1, <3>1, <1>1, <1>2 DEF RootGroups, GroupsOf
    <3> QED BY <3>2, <1>g, <1>1, <1>2, OnTheTree
  <2> QED BY <2>1, <1>1, <1>2, <1>t
<1>4. Up(group, p) = q /\ IsGroup(q)
  <2>1. Up(group, p) = q
    BY <1>1, <1>2 DEF Up, IsGroup
  <2> QED BY <2>1, <1>2, <1>3 DEF Ancestors
<1>5. group[q].parent = None
  <2>1. Up(group, q) = group[q].parent
    BY <1>3, <1>4 DEF Up, IsGroup
  <2>2. group[q].parent \in Groups => IsGroup(group[q].parent)
    BY <2>1, <1>2, <1>4 DEF Ancestors
  <2>3. ~(group[q].parent \in Groups /\ IsGroup(group[q].parent))
    BY <2>1, <1>2, <1>4 DEF TooDeep, IsGroup
  <2> QED BY <2>2, <2>3, <1>3, <1>4, <1>t
<1>6. group[q].inventory = i
  BY <1>2, <1>3, <1>4, <1>5 DEF Ancestors
<1>7. q \in RootGroups(i)
  BY <1>3, <1>4, <1>5, <1>6 DEF RootGroups, GroupsOf
<1> QED BY <1>7, <1>g, <1>1, <1>2, OnTheTree

\* The tree of an inventory leaves out no group but those four levels down or in
\* a cycle, those with a removed ancestor, and those below a root of another
\* inventory (Tree in api/inventory.go).
THEOREM TreeShowsGroups == Spec => []TreeIsHierarchy
<1>1. TypeOK => TreeIsHierarchy
  BY TreeOfState
<1> QED BY <1>1, TypeCorrect, PTL

-----------------------------------------------------------------------------
(* The script.                                                             *)

LEMMA ScriptOfState ==
    ASSUME TypeOK
    PROVE  ScriptListsHosts
<1> SUFFICES ASSUME NEW i \in inventories, NEW w \in Winners(i),
                    NEW hostvars \in BOOLEAN, NEW bad \in Groups \cup Hosts \cup {None},
                    Script(i, w, hostvars, bad) # None,
                    NEW h \in HostsOf(i),
                    LET g == host[h].group IN
                    g # None => /\ g \in GroupsOf(i)
                                /\ group[g].name \notin Overwritten(hostvars)
                                /\ \A k \in GroupsOf(i) : k = g \/ ~SameKey(group[k], group[g])
             PROVE  Cardinality({n \in DOMAIN Script(i, w, hostvars, bad) :
                                    h \in Script(i, w, hostvars, bad)[n]}) = 1
  BY DEF ScriptListsHosts
<1> DEFINE g == host[h].group
           script == Script(i, w, hostvars, bad)
           late == Overwritten(hostvars)
           names == {group[k].name : k \in GroupsOf(i)}
           listed == {n \in DOMAIN script : h \in script[n]}
<1>n. None \notin Groups
  BY ConstantsAssumption
<1>a. "all" \in late
  BY DEF Overwritten
<1>1. /\ w \in [names -> GroupsOf(i)]
      /\ \A n \in names : group[w[n]].name = n
  BY DEF Winners
<1>2. /\ DOMAIN script = names \cup late
      /\ \A n \in names \cup late :
           h \in script[n] <=> \/ n \in names \ late /\ g = w[n]
                               \/ n = "all" /\ g = None
  <2>1. script = [n \in DOMAIN w \cup late |->
            {k \in HostsOf(i) : \/ n \in DOMAIN w \ late /\ host[k].group = w[n]
                                \/ n = "all" /\ host[k].group = None}]
    BY DEF Script
  <2> HIDE DEF script, late, names
  <2>2. DOMAIN w = names
    BY <1>1
  <2> QED BY <2>1, <2>2
<1>3. PICK x : listed = {x}
  <2>1. CASE g = None
    <3>1. \A n \in names : w[n] # None
      BY <1>1, <1>n DEF GroupsOf
    <3>2. listed = {"all"}
      BY <2>1, <3>1, <1>2, <1>a
    <3> QED BY <3>2
  <2>2. CASE g # None
    <3>1. g \in GroupsOf(i) /\ group[g].name \in names \ late
      BY <2>2
    <3>2. w[group[g].name] = g
      <4>1. w[group[g].name] \in GroupsOf(i) /\ group[w[group[g].name]].name = group[g].name
        BY <3>1, <1>1
      <4>2. SameKey(group[w[group[g].name]], group[g])
        BY <3>1, <4>1 DEF SameKey, GroupsOf
      <4> QED BY <2>2, <4>1, <4>2
    <3>3. \A n \in names : w[n] = g => n = group[g].name
      BY <1>1
    <3>4. listed = {group[g].name}
      BY <2>2, <3>1, <3>2, <3>3, <1>2
    <3> QED BY <3>4
  <2> QED BY <2>1, <2>2
<1> QED BY <1>3, FS_Singleton

\* A script that is answered lists every host once, unless its group is gone, of
\* another inventory, or may have its entry replaced by that of a namesake, by "all"
\* or, with ?hostvars, by "_meta" (Script in api/inventory.go).
THEOREM ScriptIsComplete == Spec => []ScriptListsHosts
<1>1. TypeOK => ScriptListsHosts
  BY ScriptOfState
<1> QED BY <1>1, TypeCorrect, PTL

-----------------------------------------------------------------------------
(* The pages.                                                              *)

LEMMA LimitFacts ==
    /\ MaxInt \in Nat \ {0} /\ MinInt \in Int /\ MinInt = -MaxInt - 1
    /\ \A limit \in Limits : limit \in Nat \ {0}
    /\ \A page \in Pages : page \in Int
  BY PaginationAssumption DEF MinInt, Limits, Pages

\* A page that exists begins within the list, at a multiple of the limit.
LEMMA PageBegins ==
    ASSUME NEW count \in 0 .. MaxInt, NEW limit \in Nat \ {0}, NEW page \in Int,
           1 <= page, page <= TotalPages(limit, count)
    PROVE  /\ limit * (page - 1) \in Nat
           /\ limit * (page - 1) < count
           /\ Offset(limit, page) = limit * (page - 1)
<1> USE LimitFacts
<1> DEFINE total == TotalPages(limit, count)
<1>1. total \in Nat /\ page <= total /\ limit * total <= count + limit - 1
  <2>1. count + limit - 1 \in Nat
    OBVIOUS
  <2> QED BY <2>1, Quotient DEF TotalPages
<1>2. limit * (page - 1) <= limit * (total - 1)
  <2> HIDE DEF total
  <2>1. total - 1 = (page - 1) + (total - page) /\ total - page \in Nat
    BY <1>1
  <2>2. limit * (total - 1) = limit * (page - 1) + limit * (total - page)
    BY <2>1, <1>1
  <2>3. limit * (total - page) \in Nat
    BY <2>1
  <2> QED BY <2>2, <2>3
<1>3. limit * (total - 1) = limit * total - limit
  BY <1>1
<1>4. limit * (page - 1) \in Nat
  OBVIOUS
<1>5. limit * (page - 1) < count
  BY <1>1, <1>2, <1>3, <1>4
<1>6. Offset(limit, page) = limit * (page - 1)
  <2>1. CASE page <= 1
    BY <2>1 DEF Offset
  <2>2. CASE page > 1
    <3>1. Wrap(limit * (page - 1)) = limit * (page - 1)
      BY <1>4, <1>5, NoWrap
    <3> QED BY <2>2, <3>1 DEF Offset
  <2> QED BY <2>1, <2>2
<1> QED BY <1>4, <1>5, <1>6

LEMMA PageInBounds ==
    ASSUME NEW count \in 0 .. MaxInt
    PROVE  InBounds(count)
<1> USE LimitFacts
<1> SUFFICES ASSUME NEW limit \in Limits, NEW page \in Pages, ~HasPage(limit, page, count)
             PROVE  \/ /\ 0 <= Skip(limit, page, count)
                       /\ Skip(limit, page, count) <= End(limit, page, count)
                       /\ End(limit, page, count) <= count
                    \/ count = 0 /\ Offset(limit, page) # limit * (page - 1)
  BY DEF InBounds
<1> DEFINE total == TotalPages(limit, count)
           offset == Offset(limit, page)
<1>1. ASSUME offset \in Nat
      PROVE  /\ 0 <= Skip(limit, page, count)
             /\ Skip(limit, page, count) <= End(limit, page, count)
             /\ End(limit, page, count) <= count
  <2> HIDE DEF offset
  <2>1. Skip(limit, page, count) = IF offset > count THEN count ELSE offset
    BY DEF Skip, AtMost, offset
  <2>2. End(limit, page, count) =
          LET e == Skip(limit, page, count) + limit IN IF e > count THEN count ELSE e
    BY DEF End, AtMost
  <2> QED BY <1>1, <2>1, <2>2
<1>2. CASE count = 0
  <2>1. CASE page <= 1
    BY <2>1, <1>1 DEF Offset
  <2>2. CASE page > 1 /\ offset = limit * (page - 1)
    BY <2>2, <1>1
  <2>3. CASE page > 1 /\ offset # limit * (page - 1)
    BY <1>2, <2>3
  <2> QED BY <2>1, <2>2, <2>3
<1>3. CASE count # 0
  <2>1. total \in Nat /\ count + limit - 1 < limit * total + limit
    <3>1. count + limit - 1 \in Nat
      OBVIOUS
    <3> QED BY <3>1, Quotient DEF TotalPages
  <2>2. total > 0
    <3>1. CASE total = 0
      BY <3>1, <2>1, <1>3
    <3> QED BY <3>1, <2>1
  <2>3. 1 <= page /\ page <= total
    BY <2>1, <2>2 DEF HasPage
  <2>4. offset \in Nat
    BY <2>3, PageBegins
  <2> QED BY <2>4, <1>1
<1> QED BY <1>2, <1>3

LEMMA EveryItemShown ==
    ASSUME NEW count \in 0 .. MaxInt
    PROVE  ShowsAll(count)
<1> USE LimitFacts
<1> SUFFICES ASSUME NEW limit \in Limits, NEW item \in 0 .. (count - 1)
             PROVE  \E page \in 1 .. TotalPages(limit, count) :
                      /\ ~HasPage(limit, page, count)
                      /\ item \in Shown(limit, page, count)
                      /\ \A other \in (1 .. TotalPages(limit, count)) \ {page} :
                             item \notin Shown(limit, other, count)
  BY DEF ShowsAll
<1> DEFINE total == TotalPages(limit, count)
           page == item \div limit + 1
<1>1. total \in Nat /\ limit * total <= count + limit - 1 /\ count + limit - 1 < limit * total + limit
  <2>1. count + limit - 1 \in Nat
    OBVIOUS
  <2> QED BY <2>1, Quotient DEF TotalPages
<1>2. /\ page \in Nat /\ 1 <= page
      /\ limit * (page - 1) <= item /\ item < limit * (page - 1) + limit
  <2>1. item \in Nat /\ limit \in Nat \ {0}
    OBVIOUS
  <2>2. /\ item \div limit \in Nat
        /\ limit * (item \div limit) <= item /\ item < limit * (item \div limit) + limit
    BY <2>1, Quotient
  <2>3. page - 1 = item \div limit
    BY <2>2
  <2> QED BY <2>2, <2>3
<1> HIDE DEF total, page
<1>3. page <= total
  <2> SUFFICES ASSUME total + 1 <= page PROVE FALSE
    BY <1>1, <1>2
  <2>1. page - 1 = total + (page - 1 - total) /\ page - 1 - total \in Nat
    BY <1>1, <1>2
  <2>2. limit * (page - 1) = limit * total + limit * (page - 1 - total)
    BY <2>1, <1>1
  <2>3. limit * (page - 1 - total) \in Nat
    BY <2>1
  <2>4. limit * total <= item /\ limit * total \in Nat
    BY <2>2, <2>3, <1>1, <1>2
  <2> QED BY <2>4, <1>1
\* What a page shows.
<1>4. ASSUME NEW o \in 1 .. total
      PROVE  item \in Shown(limit, o, count) <=>
               limit * (o - 1) <= item /\ item < limit * (o - 1) + limit
  <2> DEFINE first == limit * (o - 1)
  <2>0. o \in Int /\ 1 <= o /\ o <= total /\ limit \in Nat \ {0}
    BY <1>1
  <2>1. first \in Nat /\ first < count /\ Offset(limit, o) = first
    BY <2>0, PageBegins DEF total
  <2> HIDE DEF first
  <2>2. Skip(limit, o, count) = first
    BY <2>1 DEF Skip, AtMost
  <2>3. End(limit, o, count) = IF first + limit > count THEN count ELSE first + limit
    BY <2>2 DEF End, AtMost
  <2>4. item \in Shown(limit, o, count) <=> first <= item /\ item < first + limit
    BY <2>1, <2>2, <2>3 DEF Shown
  <2> QED BY <2>4 DEF first
<1>5. page \in 1 .. total /\ ~HasPage(limit, page, count)
  BY <1>1, <1>2, <1>3 DEF HasPage, total
<1>6. item \in Shown(limit, page, count)
  BY <1>2, <1>4, <1>5
<1>7. ASSUME NEW o \in (1 .. total) \ {page}, item \in Shown(limit, o, count)
      PROVE  FALSE
  <2>1. limit * (o - 1) <= item /\ item < limit * (o - 1) + limit
    BY <1>4, <1>7
  <2>2. o - 1 \in Int /\ page - 1 \in Int
    BY <1>1, <1>2
  <2>3. o - 1 = page - 1
    BY <2>1, <2>2, <1>2, OneInterval
  <2> QED BY <2>3, <1>1, <1>2
<1> QED BY <1>5, <1>6, <1>7 DEF total

\* The lists of an inventory are no longer than their collections.
LEMMA CountsFit ==
    ASSUME NEW i, NEW count \in Counts(i)
    PROVE  count \in 0 .. MaxInt
<1>1. ASSUME NEW S, NEW T, T \subseteq S, IsFiniteSet(S), Cardinality(S) <= MaxInt
      PROVE  Cardinality(T) \in 0 .. MaxInt
  <2>1. /\ IsFiniteSet(T) /\ Cardinality(T) <= Cardinality(S)
        /\ Cardinality(S) \in Nat
    BY <1>1, FS_Subset, FS_CardinalityType
  <2>2. Cardinality(T) \in Nat
    BY <2>1, FS_CardinalityType
  <2> QED BY <1>1, <2>1, <2>2, LimitFacts
<1>2. RootGroups(i) \subseteq Groups /\ GroupsOf(i) \subseteq Groups /\ HostsOf(i) \subseteq Hosts
  BY DEF RootGroups, GroupsOf, HostsOf
<1>3. /\ Cardinality(RootGroups(i)) \in 0 .. MaxInt
      /\ Cardinality(GroupsOf(i)) \in 0 .. MaxInt
      /\ Cardinality(HostsOf(i)) \in 0 .. MaxInt
  BY <1>1, <1>2, ListAssumption
<1> QED BY <1>3 DEF Counts

\* Whatever page of whatever size is asked for, the bounds of the slice are bounds
\* of the list, but for the pages of an empty list whose offset wraps around
\* (Pagination.Skip and End, RootGroups, Groups and Hosts in api/inventory.go).
THEOREM SlicesAreSafe == Spec => []PagesAreInBounds
<1>1. TypeOK => PagesAreInBounds
  BY CountsFit, PageInBounds DEF PagesAreInBounds
<1> QED BY <1>1, TypeCorrect, PTL

\* The pages of a list show each of its items once, for any list an int can count,
\* any limit and any width of an int.
THEOREM PagesAreComplete == Spec => []PagesShowEverything
<1>1. TypeOK => PagesShowEverything
  BY CountsFit, EveryItemShown DEF PagesShowEverything
<1> QED BY <1>1, TypeCorrect, PTL

=============================================================================
