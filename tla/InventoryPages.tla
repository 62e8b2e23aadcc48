----------------------------- MODULE InventoryPages -----------------------------
(* The lists of an inventory, page by page. *)
EXTENDS InventoryTree, Pagination

(* A list in memory is no longer than an int counts. *)
ASSUME ListAssumption ==
    /\ IsFiniteSet(Groups) /\ Cardinality(Groups) <= MaxInt
    /\ IsFiniteSet(Hosts) /\ Cardinality(Hosts) <= MaxInt

(* What RootGroups, Groups and Hosts of an inventory count. *)
Counts(i) == {Cardinality(RootGroups(i)), Cardinality(GroupsOf(i)), Cardinality(HostsOf(i))}

(* A page of the groups or hosts of an inventory is within the list         *)
(* (api/inventory.go:522, 558, 595).                                        *)
PagesAreInBounds == \A i \in inventories : \A count \in Counts(i) : InBounds(count)

(* A client that reads every page of a list gets every group and host once, *)
(* as long as nothing is written meanwhile.                                 *)
PagesShowEverything == \A i \in inventories : \A count \in Counts(i) : ShowsAll(count)

================================================================================
