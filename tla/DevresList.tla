----------------------------- MODULE DevresList -----------------------------
(* The list of a device's managed resources, drivers/base/devres.c, as a   *)
(* sequence, and the operations of the file on it as operators.  A node is *)
(* a resource or one of the two markers of a group.                        *)
EXTENDS FiniteSetsExt, Lists

CONSTANT NULL

Res(r) == [release |-> "res", id |-> r]
Open(g) == [release |-> "open", id |-> g]
Close(g) == [release |-> "close", id |-> g]

IsRes(node) == node.release = "res"

Listed(list, node) == \E j \in 1 .. Len(list) : list[j] = node

-----------------------------------------------------------------------------
(* The latest resource of the set rs, 0 for none.                          *)
find_dr(list, rs) ==
  LET J == {j \in 1 .. Len(list) : IsRes(list[j]) /\ list[j].id \in rs}
  IN IF J = {} THEN 0 ELSE Max(J)

(* The latest group with the given id, the latest open group for NULL, 0   *)
(* for none.                                                               *)
find_group(list, id) ==
  LET J == {j \in 1 .. Len(list) :
              /\ list[j].release = "open"
              /\ IF id = NULL THEN ~Listed(list, Close(list[j].id))
                 ELSE list[j].id = id}
  IN IF J = {} THEN 0 ELSE Max(J)

(* replace_dr(): new takes the place of the node at index j.               *)
replace_dr_AtTail(list, j, new) == Append(Without(list, {j}), new)

replace_dr(list, j, new) == [list EXCEPT ![j] = new]

-----------------------------------------------------------------------------
(* remove_nodes(): what the range first .. last gives to the todo list and *)
(* what stays.  The first pass takes the resources.  The second adds one   *)
(* to the color of a group at each of its markers in the range and one     *)
(* more if it is open; the group goes when its color is two.               *)
Marker(list, j, g) == ~IsRes(list[j]) /\ list[j].id = g

color(list, first, last, g) ==
  Cardinality({j \in first .. last : Marker(list, j, g)})
    * (IF Listed(list, Close(g)) THEN 1 ELSE 2)

Removed(list, first, last) ==
  {g \in {list[j].id : j \in {k \in first .. last : ~IsRes(list[k])}} :
     color(list, first, last, g) = 2}

remove_nodes(list, first, last) ==
  LET resources == {j \in first .. last : IsRes(list[j])}
      groups == Removed(list, first, last)
      markers == {j \in first .. last : ~IsRes(list[j]) /\ list[j].id \in groups}
      completing == {j \in markers : \A k \in markers : list[k].id = list[j].id => k <= j}
      opens == [k \in 1 .. Cardinality(completing) |-> Open(Pick(list, completing)[k].id)]
  IN [todo |-> Pick(list, resources) \o opens,
      head |-> Without(list, resources \cup markers)]

(* The range of devres_release_group() for the group opened at index j.    *)
group_last(list, j) ==
  IF Listed(list, Close(list[j].id))
  THEN CHOOSE k \in 1 .. Len(list) : list[k] = Close(list[j].id)
  ELSE Len(list)

release_group(list, j) == remove_nodes(list, j, group_last(list, j))

(* devres_remove_group() takes both markers and nothing else.              *)
remove_group(list, j) ==
  Without(list, {k \in 1 .. Len(list) : Marker(list, k, list[j].id)})

=============================================================================
