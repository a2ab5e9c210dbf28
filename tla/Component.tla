----------------------------- MODULE Component ------------------------------
(* The component helper, drivers/base/component.c: aggregate devices that  *)
(* are bound when all the components they match are there, composed with   *)
(* the resource lists of the devices (DevresList).  Everything happens     *)
(* under component_mutex, so there is one call at a time; its steps are    *)
(* those between which a callback of a driver runs or may fail.            *)
EXTENDS DevresList

CONSTANTS
  Components, Masters, Devices,
  Dev,           \* component->dev
  Parent,        \* adev->parent
  Match,         \* adev->match: for each entry, the components it accepts
  ANON           \* The id of a group that was opened with a null id

ASSUME ComponentAssumption ==
  /\ Dev \in [Components -> Devices] /\ Parent \in [Masters -> Devices]
  /\ Match \in [Masters -> Seq(SUBSET Components)]
  /\ NULL \notin Components \cup Masters

VARIABLES
  component_list, aggregate_devices,
  c_adev, c_bound,   \* component->adev, component->bound
  m_bound,           \* adev->bound
  compare,           \* adev->match->compare: the component and duplicate fields
  devres,            \* The devres_head of each device
  call               \* The call that holds component_mutex

vars == <<component_list, aggregate_devices, c_adev, c_bound, m_bound,
          compare, devres, call>>

state == <<component_list, aggregate_devices, c_adev, c_bound, m_bound, compare>>

Num(m) == Len(Match[m])
Registered(c) == \E k \in 1 .. Len(component_list) : component_list[k] = c
MasterListed(m) == \E k \in 1 .. Len(aggregate_devices) : aggregate_devices[k] = m

(* list_del(), and list_for_each_entry() that looks for an element of the  *)
(* set S.                                                                  *)
list_del(list, x) ==
  LET j == CHOOSE k \in 1 .. Len(list) : list[k] = x
  IN [k \in 1 .. Len(list) - 1 |-> IF k < j THEN list[k] ELSE list[k + 1]]

list_find(list, S) ==
  LET K == {k \in 1 .. Len(list) : list[k] \in S /\ \A j \in 1 .. k - 1 : list[j] \notin S}
  IN IF K = {} THEN NULL ELSE list[CHOOSE k \in K : TRUE]

NoCall == [op |-> "none", comp |-> NULL, adev |-> NULL, step |-> "idle",
           k |-> 0, i |-> 0, target |-> NULL]

Empty(m) == [i \in 1 .. Num(m) |-> [component |-> NULL, duplicate |-> FALSE]]

Init ==
  /\ component_list = <<>> /\ aggregate_devices = <<>>
  /\ c_adev = [c \in Components |-> NULL]
  /\ c_bound = [c \in Components |-> FALSE]
  /\ m_bound = [m \in Masters |-> FALSE]
  /\ compare = [m \in Masters |-> Empty(m)]
  /\ devres = [d \in Devices |-> <<>>]
  /\ call = NoCall

Goto(step) == call' = [call EXCEPT !.step = step]

-----------------------------------------------------------------------------
(* The operations of devres.c on the list of device d.                     *)
devres_add(dr, d, node) == [dr EXCEPT ![d] = Append(@, node)]

devres_close_group(dr, d) ==
  [dr EXCEPT ![d] = Append(@, Close(@[find_group(@, NULL)].id))]

devres_remove_group(dr, d) == [dr EXCEPT ![d] = remove_group(@, find_group(@, NULL))]

devres_release_group(dr, d, id) ==
  [dr EXCEPT ![d] = release_group(@, find_group(@, id)).head]

-----------------------------------------------------------------------------
(* __aggregate_find() with ops null: the first aggregate of the parent.    *)
__aggregate_find(parent) ==
  list_find(aggregate_devices, {m \in Masters : Parent[m] = parent})

find_component_IgnoresOwner(m, i) == list_find(component_list, Match[m][i])

find_component(m, i) ==
  list_find(component_list, {c \in Match[m][i] : c_adev[c] \in {NULL, m}})

(* The caller gives up this aggregate: component_add() tries the next one, *)
(* component_master_add_with_match() is done.                              *)
NotReady ==
  call' = IF call.op = "add" THEN [call EXCEPT !.step = "masters", !.k = @ + 1] ELSE NoCall

Attach_NeverDuplicate(m, i, c) ==
  /\ compare' = [compare EXCEPT ![m][i] = [component |-> c, duplicate |-> FALSE]]
  /\ c_adev' = [c_adev EXCEPT ![c] = m]

Attach(m, i, c) ==
  /\ compare' = [compare EXCEPT ![m][i] = [component |-> c, duplicate |-> c_adev[c] # NULL]]
  /\ c_adev' = [c_adev EXCEPT ![c] = m]

(* find_components(), one match entry.                                     *)
find_components ==
  LET m == call.adev
      c == find_component(m, call.i)
  IN /\ call.step = "find" /\ call.i <= Num(m)
     /\ \/ /\ compare[m][call.i].component # NULL
           /\ call' = [call EXCEPT !.i = @ + 1]
           /\ UNCHANGED <<compare, c_adev>>
        \/ /\ compare[m][call.i].component = NULL /\ c = NULL
           /\ NotReady
           /\ UNCHANGED <<compare, c_adev>>
        \/ /\ compare[m][call.i].component = NULL /\ c # NULL
           /\ Attach(m, call.i, c)
           /\ call' = [call EXCEPT !.i = @ + 1]
     /\ UNCHANGED <<component_list, aggregate_devices, c_bound, m_bound, devres>>

(* try_to_bring_up_aggregate_device() once the components are found.       *)
try_to_bring_up_aggregate_device ==
  LET m == call.adev
  IN /\ call.step = "find" /\ call.i > Num(m)
     /\ \/ /\ call.comp # NULL /\ c_adev[call.comp] # m
           /\ NotReady
           /\ UNCHANGED devres
        \/ /\ call.comp # NULL => c_adev[call.comp] = m
           /\ \/ devres' = devres_add(devres, Parent[m], Open(m)) /\ Goto("bind")
              \/ devres' = devres /\ Goto("failed")
     /\ UNCHANGED state

(* try_to_bring_up_masters(), one aggregate.                               *)
try_to_bring_up_masters ==
  /\ call.step = "masters"
  /\ IF call.k > Len(aggregate_devices)
     THEN call' = NoCall
     ELSE LET m == aggregate_devices[call.k]
          IN call' = IF m_bound[m] THEN [call EXCEPT !.k = @ + 1]
                     ELSE [call EXCEPT !.step = "find", !.adev = m, !.i = 1]
  /\ UNCHANGED <<state, devres>>

-----------------------------------------------------------------------------
(* ops->bind() of an aggregate driver: it acquires a resource, calls       *)
(* component_bind_all(), and fails before that, because of it, or after    *)
(* it, with component_unbind_all().                                        *)
master_bind ==
  /\ call.step = "bind"
  /\ devres' = devres_add(devres, Parent[call.adev], Res(call.adev))
  /\ \/ Goto("bind_failed")
     \/ call' = [call EXCEPT !.step = "bind_all", !.i = 1,
                             !.target = __aggregate_find(Parent[call.adev])]
  /\ UNCHANGED state

(* component_bind(): the groups on the parent and on the component's       *)
(* device, and ops->bind() of the component, which acquires a resource on  *)
(* each.                                                                   *)
Bound_KeepsParentGroup(dr, c, d, p) == devres_close_group(dr, d)

Bound(dr, c, d, p) == devres_remove_group(devres_close_group(dr, d), p)

component_bind(c, m) ==
  LET d == Dev[c]
      p == Parent[m]
      opened1 == devres_add(devres, p, Open(ANON))
      opened2 == devres_add(opened1, d, Open(c))
      acquired == devres_add(devres_add(opened2, d, Res(c)), p, Res(c))
  IN \/ /\ devres' = Bound(acquired, c, d, p)
        /\ c_bound' = [c_bound EXCEPT ![c] = TRUE]
        /\ call' = [call EXCEPT !.i = @ + 1]
     \/ /\ \/ devres' = devres
           \/ devres' = devres_release_group(opened1, p, NULL)
           \/ devres' = devres_release_group(devres_release_group(acquired, d, NULL), p, NULL)
        /\ c_bound' = c_bound
        /\ call' = [call EXCEPT !.step = "undo", !.i = @ - 1]

component_bind_all ==
  LET m == call.target
  IN /\ call.step = "bind_all" /\ call.i <= Num(m)
     /\ IF compare[m][call.i].duplicate
        THEN call' = [call EXCEPT !.i = @ + 1] /\ UNCHANGED <<devres, c_bound>>
        ELSE component_bind(compare[m][call.i].component, m)
     /\ UNCHANGED <<component_list, aggregate_devices, c_adev, m_bound, compare>>

master_bound ==
  LET m == call.adev
  IN /\ call.step = "bind_all" /\ call.i > Num(call.target)
     /\ \/ /\ devres' = devres_close_group(devres, Parent[m])
           /\ m_bound' = [m_bound EXCEPT ![m] = TRUE]
           /\ call' = NoCall
        \/ /\ call' = [call EXCEPT !.step = "undo", !.i = @ - 1]
           /\ UNCHANGED <<devres, m_bound>>
     /\ UNCHANGED <<component_list, aggregate_devices, c_adev, c_bound, compare>>

(* component_unbind().                                                     *)
component_unbind(c) ==
  /\ c_bound' = [c_bound EXCEPT ![c] = FALSE]
  /\ devres' = devres_release_group(devres, Dev[c], c)

(* The loops of component_unbind_all() and of the undoing in               *)
(* component_bind_all(), one entry, from the last to the first.            *)
component_unbind_all_Forward ==
  LET m == call.target
      e == compare[m][IF call.step = "undo" THEN call.i ELSE Num(m) + 1 - call.i]
  IN /\ call.step \in {"undo", "unbind_all"} /\ call.i > 0
     /\ IF e.duplicate THEN UNCHANGED <<devres, c_bound>> ELSE component_unbind(e.component)
     /\ call' = [call EXCEPT !.i = @ - 1]
     /\ UNCHANGED <<component_list, aggregate_devices, c_adev, m_bound, compare>>

component_unbind_all ==
  LET m == call.target
  IN /\ call.step \in {"undo", "unbind_all"} /\ call.i > 0
     /\ IF compare[m][call.i].duplicate
        THEN UNCHANGED <<devres, c_bound>>
        ELSE component_unbind(compare[m][call.i].component)
     /\ call' = [call EXCEPT !.i = @ - 1]
     /\ UNCHANGED <<component_list, aggregate_devices, c_adev, m_bound, compare>>

bind_undone ==
  /\ call.step = "undo" /\ call.i = 0
  /\ Goto("bind_failed")
  /\ UNCHANGED <<state, devres>>

(* try_to_bring_up_aggregate_device() after ops->bind() has failed.        *)
bind_failed ==
  /\ call.step = "bind_failed"
  /\ devres' = devres_release_group(devres, Parent[call.adev], NULL)
  /\ Goto("failed")
  /\ UNCHANGED state

-----------------------------------------------------------------------------
(* remove_component().                                                     *)
Detached(m, c) ==
  [compare EXCEPT ![m] = [i \in 1 .. Num(m) |->
     IF @[i].component = c THEN [@[i] EXCEPT !.component = NULL] ELSE @[i]]]

FreeComponent(c) ==
  /\ compare' = IF c_adev[c] # NULL THEN Detached(c_adev[c], c) ELSE compare
  /\ c_adev' = [c_adev EXCEPT ![c] = NULL]
  /\ call' = NoCall

(* free_aggregate_device().  The match is the parent's and is built anew   *)
(* for the next registration.                                              *)
free_aggregate_device(m) ==
  /\ aggregate_devices' = list_del(aggregate_devices, m)
  /\ c_adev' = [c \in Components |->
                  IF \E i \in 1 .. Num(m) : compare[m][i].component = c THEN NULL ELSE c_adev[c]]
  /\ compare' = [compare EXCEPT ![m] = Empty(m)]
  /\ call' = NoCall

(* The failure paths of __component_add() and                              *)
(* component_master_add_with_match().                                      *)
add_failed ==
  /\ call.step = "failed"
  /\ \/ /\ call.op = "add"
        /\ component_list' = list_del(component_list, call.comp)
        /\ FreeComponent(call.comp)
        /\ UNCHANGED aggregate_devices
     \/ /\ call.op = "master_add"
        /\ free_aggregate_device(call.adev)
        /\ UNCHANGED component_list
  /\ UNCHANGED <<c_bound, m_bound, devres>>

-----------------------------------------------------------------------------
(* The calls.                                                              *)
component_add(c) ==
  /\ call = NoCall /\ ~Registered(c)
  /\ component_list' = Append(component_list, c)
  /\ call' = [NoCall EXCEPT !.op = "add", !.comp = c, !.step = "masters", !.k = 1]
  /\ UNCHANGED <<aggregate_devices, c_adev, c_bound, m_bound, compare, devres>>

component_master_add_with_match(m) ==
  /\ call = NoCall /\ ~MasterListed(m)
  /\ aggregate_devices' = <<m>> \o aggregate_devices
  /\ call' = [NoCall EXCEPT !.op = "master_add", !.adev = m, !.step = "find", !.i = 1]
  /\ UNCHANGED <<component_list, c_adev, c_bound, m_bound, compare, devres>>

(* take_down_aggregate_device(): ops->unbind() of the aggregate driver     *)
(* calls component_unbind_all().                                           *)
TakeDown(op, c, m) ==
  call' = IF m # NULL /\ m_bound[m]
          THEN LET target == __aggregate_find(Parent[m])
               IN [NoCall EXCEPT !.op = op, !.comp = c, !.adev = m, !.step = "unbind_all",
                                 !.target = target, !.i = Num(target)]
          ELSE [NoCall EXCEPT !.op = op, !.comp = c, !.adev = m, !.step = "down"]

component_del(c) ==
  /\ call = NoCall /\ Registered(c)
  /\ component_list' = list_del(component_list, c)
  /\ TakeDown("del", c, c_adev[c])
  /\ UNCHANGED <<aggregate_devices, c_adev, c_bound, m_bound, compare, devres>>

component_master_del(m) ==
  /\ call = NoCall /\ MasterListed(m)
  /\ TakeDown("master_del", NULL, m)
  /\ UNCHANGED <<state, devres>>

take_down_aggregate_device ==
  LET m == call.adev
  IN /\ call.step = "unbind_all" /\ call.i = 0
     /\ devres' = devres_release_group(devres, Parent[m], m)
     /\ m_bound' = [m_bound EXCEPT ![m] = FALSE]
     /\ Goto("down")
     /\ UNCHANGED <<component_list, aggregate_devices, c_adev, c_bound, compare>>

del_done ==
  /\ call.step = "down"
  /\ \/ /\ call.op = "del"
        /\ FreeComponent(call.comp)
        /\ UNCHANGED aggregate_devices
     \/ /\ call.op = "master_del"
        /\ free_aggregate_device(call.adev)
  /\ UNCHANGED <<component_list, c_bound, m_bound, devres>>

-----------------------------------------------------------------------------
Call ==
  \/ \E c \in Components : component_add(c) \/ component_del(c)
  \/ \E m \in Masters : component_master_add_with_match(m) \/ component_master_del(m)

Step ==
  \/ find_components
  \/ try_to_bring_up_aggregate_device
  \/ try_to_bring_up_masters
  \/ master_bind
  \/ component_bind_all
  \/ master_bound
  \/ component_unbind_all
  \/ bind_undone
  \/ bind_failed
  \/ add_failed
  \/ take_down_aggregate_device
  \/ del_done

Next == Call \/ Step

Spec == Init /\ [][Next]_vars

-----------------------------------------------------------------------------
Entry == [component : Components \cup {NULL}, duplicate : BOOLEAN]

TypeOK ==
  /\ component_list \in Seq(Components) /\ aggregate_devices \in Seq(Masters)
  /\ c_adev \in [Components -> Masters \cup {NULL}]
  /\ c_bound \in [Components -> BOOLEAN] /\ m_bound \in [Masters -> BOOLEAN]
  /\ \A m \in Masters : compare[m] \in Seq(Entry) /\ Len(compare[m]) = Num(m)
  /\ call.op \in {"none", "add", "del", "master_add", "master_del"}
  /\ call.comp \in Components \cup {NULL} /\ {call.adev, call.target} \subseteq Masters \cup {NULL}
  /\ call.step \in {"idle", "masters", "find", "bind", "bind_all", "undo", "bind_failed",
                    "failed", "unbind_all", "down"}
  /\ call.i \in Nat /\ call.k \in Nat

Present(c) == Registered(c) \/ (call.op = "del" /\ call.comp = c)

EntriesOf(m, c) == {i \in 1 .. Num(m) : compare[m][i].component = c}

(* A match entry points to a component that is registered and points back, *)
(* a component points to an aggregate that is registered and has it in     *)
(* exactly one entry that is not a duplicate: no pointer is left to what   *)
(* component_del(), component_master_del() or a failed registration frees. *)
(* (Every variable has its type.)                                          *)
AttachedBothWays ==
  /\ TypeOK
  /\ \A c \in Components :
       /\ \A m \in Masters : EntriesOf(m, c) # {} => Present(c) /\ c_adev[c] = m
       /\ c_adev[c] # NULL =>
            /\ Present(c) /\ MasterListed(c_adev[c])
            /\ \E j \in EntriesOf(c_adev[c], c) :
                 {i \in EntriesOf(c_adev[c], c) : ~compare[c_adev[c]][i].duplicate} = {j}

BoundWhole ==
  /\ \A m \in Masters : m_bound[m] =>
       MasterListed(m) /\ \A i \in 1 .. Num(m) : /\ compare[m][i].component # NULL
                                                 /\ c_bound[compare[m][i].component]
  /\ \A c \in Components : c_bound[c] => c_adev[c] # NULL /\ m_bound[c_adev[c]]

(* "Bind components in match order", "Unbind components in reverse order"  *)
(* (component.c:692, 608): a component is bound only while those of the    *)
(* earlier entries are.                                                    *)
BoundInMatchOrder ==
  \A m \in Masters : \A j \in 1 .. Num(m) : \A i \in 1 .. j - 1 :
    LET e == compare[m][i]
        f == compare[m][j]
    IN ~e.duplicate /\ ~f.duplicate /\ f.component # NULL /\ c_bound[f.component]
       => e.component # NULL /\ c_bound[e.component]

Callee == compare[call.target][call.i]

(* component_bind() is called for a component that is there and unbound,   *)
(* and component_unbind() for one that is bound: its WARN_ON               *)
(* (component.c:577) is silent and nothing is bound twice.                 *)
CallbacksPaired ==
  /\ call.step = "bind_all" /\ call.i <= Num(call.target) /\ ~Callee.duplicate =>
       Callee.component # NULL /\ ~c_bound[Callee.component]
  /\ call.step \in {"undo", "unbind_all"} /\ call.i > 0 /\ ~Callee.duplicate =>
       Callee.component # NULL /\ c_bound[Callee.component]

Acquired(d) ==
  UNION ({{Open(m), Res(m), Close(m)} : m \in {n \in Masters : m_bound[n] /\ Parent[n] = d}}
    \cup {{Open(c), Res(c), Close(c)} : c \in {b \in Components : c_bound[b] /\ Dev[b] = d}}
    \cup {{Res(c)} : c \in {b \in Components : c_bound[b] /\ Parent[c_adev[b]] = d}})

(* Between calls an aggregate is bound with all its components or has none *)
(* bound, and the resource lists hold what the bound drivers have          *)
(* acquired, in closed groups, and nothing of those that failed or were    *)
(* unbound.                                                                *)
ResourcesMatchBindings ==
  call = NoCall =>
    /\ BoundWhole
    /\ \A d \in Devices : {devres[d][j] : j \in 1 .. Len(devres[d])} = Acquired(d)

(* "Binds all components of the aggregate" (component.c:675): the ones of  *)
(* the aggregate that is being bound.                                      *)
BindsOwnComponents == call.step = "bind_all" => call.target = call.adev

(* "Once all components in @match are available, it will be assembled"     *)
(* (component.c:509).                                                      *)
AvailableIsAssembled ==
  call = NoCall =>
    \A m \in Masters : MasterListed(m) /\ ~m_bound[m] =>
      \E i \in 1 .. Num(m) : compare[m][i].component = NULL /\ find_component(m, i) = NULL

=============================================================================
