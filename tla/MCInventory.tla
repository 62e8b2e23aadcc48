----------------------------- MODULE MCInventory -----------------------------
(***************************************************************************)
(* A small instance of InventoryTree: a chain of three groups with a host  *)
(* at its end, or a chain of two beside a group of another inventory.      *)
(***************************************************************************)
EXTENDS InventoryPages

CONSTANTS g1, g2, g3, g4, h1, h2, i1, i2

MCNames == {"web", "web ", "all", "_meta"}
MCTrim == [n \in MCNames |-> IF n = "web " THEN "web" ELSE n]

MCGroupInputs ==
    {d \in [name : MCNames \ {"_meta"}, inventory : {i1, i2}, parent : {None, g1, g3, g4}] :
        d.name = "web" \/ (d.inventory = i1 /\ d.parent \in {None, g3})}

MCHostInputs ==
    {d \in [name : {"web", "web "}, inventory : {i1, i2}, group : {None, g2, g3}] :
        d.inventory = i1 \/ (d.group = g2 /\ d.name = "web")}

Group(n, i, p) == [name |-> n, inventory |-> i, parent |-> p]

MCInitialGroups ==
    {[g \in Groups |->
        CASE g = g1 -> Group("all", i1, None) [] g = g2 -> Group("web", i1, g1)
          [] g = g3 -> Group("_meta", i1, g2) [] OTHER -> Unborn],
     [g \in Groups |->
        CASE g = g1 -> Group("web", i1, None) [] g = g2 -> Group("all", i1, g1)
          [] g = g3 -> Group("web", i2, None) [] OTHER -> Unborn]}

MCInitialHosts ==
    {[h \in Hosts |-> IF h = h1 THEN [name |-> "web", inventory |-> i1, group |-> g3]
                      ELSE Unborn]}

================================================================================
