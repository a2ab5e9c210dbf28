------------------------------- MODULE Devres -------------------------------
(* Managed device resources: drivers/base/devres.c for one device.  Every  *)
(* operation changes the list under devres_lock and calls the release      *)
(* functions and frees the memory after the unlock, so a thread that       *)
(* releases carries a todo list through steps of its own.                  *)
EXTENDS DevresList

CONSTANTS
  Resources,     \* The addresses of devres allocations
  Groups,        \* The ids of groups
  Threads,
  Matches        \* What a (release, match) pair selects: sets of resources

ASSUME DevresAssumption ==
  /\ NULL \notin Resources \cup Groups
  /\ Matches \subseteq SUBSET Resources

VARIABLES
  devres_head,   \* dev->devres_head
  todo,          \* The todo list of each thread
  pending,       \* The [old, new] of a thread in devm_krealloc(), or NULL
  live,          \* The resources that are allocated
  held,          \* Of these, the ones that the driver has and no list
  earlier,       \* History: the listed resources when this one was added
  member         \* History: the listed resources added while a group was open

vars == <<devres_head, todo, pending, live, held, earlier, member>>

OnList == {r \in Resources : Listed(devres_head, Res(r))}

GroupListed(g) == Listed(devres_head, Open(g))
Closed(g) == Listed(devres_head, Close(g))

Idle(t) == todo[t] = <<>> /\ pending[t] = NULL

Init ==
  /\ devres_head = <<>>
  /\ todo = [t \in Threads |-> <<>>]
  /\ pending = [t \in Threads |-> NULL]
  /\ live = {} /\ held = {}
  /\ earlier = [r \in Resources |-> {}]
  /\ member = [g \in Groups |-> {}]

(* The histories when rs leave the list, and when they leave altogether.   *)
Leave(rs) == member' = [g \in Groups |-> member[g] \ rs]

Forget(rs) ==
  earlier' = [r \in Resources |-> IF r \in rs THEN {} ELSE earlier[r] \ rs]

-----------------------------------------------------------------------------
devres_alloc(r) ==
  /\ r \notin live
  /\ live' = live \cup {r} /\ held' = held \cup {r}
  /\ UNCHANGED <<devres_head, todo, pending, earlier, member>>

devres_free(r) ==
  /\ r \in held
  /\ live' = live \ {r} /\ held' = held \ {r}
  /\ UNCHANGED <<devres_head, todo, pending, earlier, member>>

add_dr(r) ==
  /\ devres_head' = Append(devres_head, Res(r))
  /\ held' = held \ {r}
  /\ earlier' = [earlier EXCEPT ![r] = OnList]
  /\ member' = [g \in Groups |->
                  IF GroupListed(g) /\ ~Closed(g) THEN member[g] \cup {r} ELSE member[g]]

devres_add(r) ==
  /\ r \in held
  /\ add_dr(r)
  /\ UNCHANGED <<todo, pending, live>>

(* devres_get() frees the new resource when there is one already.          *)
devres_get(r, rs) ==
  /\ r \in held /\ r \in rs
  /\ IF find_dr(devres_head, rs) = 0
     THEN add_dr(r) /\ UNCHANGED live
     ELSE /\ live' = live \ {r} /\ held' = held \ {r}
          /\ UNCHANGED <<devres_head, earlier, member>>
  /\ UNCHANGED <<todo, pending>>

(* devres_remove() gives the resource back to the driver; devres_destroy() *)
(* frees it; devres_release() calls its release function first.            *)
Unlink(rs) ==
  LET j == find_dr(devres_head, rs)
  IN /\ j # 0
     /\ devres_head' = Without(devres_head, {j})
     /\ Leave({devres_head[j].id})

devres_remove(rs) ==
  /\ Unlink(rs)
  /\ LET r == devres_head[find_dr(devres_head, rs)].id
     IN held' = held \cup {r} /\ Forget({r})
  /\ UNCHANGED <<todo, pending, live>>

devres_destroy(rs) ==
  /\ Unlink(rs)
  /\ LET r == devres_head[find_dr(devres_head, rs)].id
     IN live' = live \ {r} /\ Forget({r})
  /\ UNCHANGED <<todo, pending, held>>

devres_release(t, rs) ==
  /\ Idle(t)
  /\ Unlink(rs)
  /\ todo' = [todo EXCEPT ![t] = <<devres_head[find_dr(devres_head, rs)]>>]
  /\ UNCHANGED <<pending, live, held, earlier>>

-----------------------------------------------------------------------------
(* release_nodes(), one node: call the release function and free.          *)
LastNode_First(s) == Head(s)
LastNode(s) == s[Len(s)]

release_nodes(t) ==
  /\ todo[t] # <<>>
  /\ LET node == LastNode(todo[t])
         rs == IF IsRes(node) THEN {node.id} ELSE {}
     IN /\ todo' = [todo EXCEPT ![t] = SelectSeq(@, LAMBDA n : n # node)]
        /\ live' = live \ rs
        /\ Forget(rs)
  /\ UNCHANGED <<devres_head, pending, held, member>>

(* The critical section of devres_release_all() and devres_release_group() *)
Detach(t, removal) ==
  /\ devres_head' = removal.head
  /\ todo' = [todo EXCEPT ![t] = removal.todo]
  /\ Leave({n.id : n \in {removal.todo[k] : k \in {j \in 1 .. Len(removal.todo) :
                                                     IsRes(removal.todo[j])}}})
  /\ UNCHANGED <<pending, live, held, earlier>>

devres_release_all(t) ==
  /\ Idle(t) /\ devres_head # <<>>
  /\ Detach(t, remove_nodes(devres_head, 1, Len(devres_head)))

devres_release_group(t, id) ==
  LET j == find_group(devres_head, id)
  IN /\ Idle(t) /\ j # 0
     /\ Detach(t, release_group(devres_head, j))

-----------------------------------------------------------------------------
(* A group's id is unique among the listed groups.                         *)
devres_open_group(g) ==
  /\ ~GroupListed(g)
  /\ devres_head' = Append(devres_head, Open(g))
  /\ member' = [member EXCEPT ![g] = {}]
  /\ UNCHANGED <<todo, pending, live, held, earlier>>

(* An id is given only for a group that is not closed.                     *)
devres_close_group(id) ==
  LET j == find_group(devres_head, id)
  IN /\ j # 0
     /\ id # NULL => ~Closed(id)
     /\ devres_head' = Append(devres_head, Close(devres_head[j].id))
     /\ UNCHANGED <<todo, pending, live, held, earlier, member>>

devres_remove_group(id) ==
  LET j == find_group(devres_head, id)
  IN /\ j # 0
     /\ devres_head' = remove_group(devres_head, j)
     /\ UNCHANGED <<todo, pending, live, held, earlier, member>>

-----------------------------------------------------------------------------
(* devm_krealloc() allocates the new chunk, then looks for the old one     *)
(* under the lock: it may be gone.                                         *)
devm_krealloc(t, old, new) ==
  /\ Idle(t)
  /\ old \in OnList /\ new \notin live
  /\ live' = live \cup {new}
  /\ pending' = [pending EXCEPT ![t] = [old |-> old, new |-> new]]
  /\ UNCHANGED <<devres_head, todo, held, earlier, member>>

Swap(S, old, new) == IF old \in S THEN (S \ {old}) \cup {new} ELSE S

Replaced(t) ==
  LET old == pending[t].old
      new == pending[t].new
      j == find_dr(devres_head, {old})
  IN /\ devres_head' = replace_dr(devres_head, j, Res(new))
     /\ live' = live \ {old}
     /\ earlier' = [r \in Resources |->
                      IF r = old THEN {}
                      ELSE IF r = new THEN earlier[old]
                      ELSE IF r \in OnList THEN Swap(earlier[r], old, new)
                      ELSE earlier[r] \ {old}]
     /\ member' = [g \in Groups |-> Swap(member[g], old, new)]

devm_krealloc_locked_KeepsNew(t) ==
  /\ pending[t] # NULL
  /\ IF find_dr(devres_head, {pending[t].old}) # 0
     THEN Replaced(t)
     ELSE UNCHANGED <<devres_head, live, earlier, member>>
  /\ pending' = [pending EXCEPT ![t] = NULL]
  /\ UNCHANGED <<todo, held>>

devm_krealloc_locked(t) ==
  /\ pending[t] # NULL
  /\ IF find_dr(devres_head, {pending[t].old}) # 0
     THEN Replaced(t)
     ELSE /\ live' = live \ {pending[t].new}
          /\ UNCHANGED <<devres_head, earlier, member>>
  /\ pending' = [pending EXCEPT ![t] = NULL]
  /\ UNCHANGED <<todo, held>>

-----------------------------------------------------------------------------
Driver ==
  \/ \E r \in Resources : devres_alloc(r) \/ devres_free(r) \/ devres_add(r)
  \/ \E rs \in Matches : \E r \in rs : devres_get(r, rs)
  \/ \E rs \in Matches : devres_remove(rs) \/ devres_destroy(rs)
  \/ \E g \in Groups : devres_open_group(g)
  \/ \E id \in Groups \cup {NULL} : devres_close_group(id) \/ devres_remove_group(id)

Release(t) ==
  \/ \E rs \in Matches : devres_release(t, rs)
  \/ devres_release_all(t)
  \/ \E id \in Groups \cup {NULL} : devres_release_group(t, id)
  \/ \E old, new \in Resources : devm_krealloc(t, old, new)

Proceed(t) ==
  \/ release_nodes(t)
  \/ devm_krealloc_locked(t)

Next ==
  \/ Driver
  \/ \E t \in Threads : Release(t) \/ Proceed(t)

Spec == Init /\ [][Next]_vars

-----------------------------------------------------------------------------
Node == {Res(r) : r \in Resources}
          \cup {Open(g) : g \in Groups} \cup {Close(g) : g \in Groups}

TypeOK ==
  /\ devres_head \in Seq(Node)
  /\ todo \in [Threads -> Seq(Node)]
  /\ pending \in [Threads -> {NULL} \cup [old : Resources, new : Resources]]
  /\ live \subseteq Resources /\ held \subseteq live
  /\ earlier \in [Resources -> SUBSET Resources]
  /\ member \in [Groups -> SUBSET Resources]

Places(list, r) == Cardinality({j \in 1 .. Len(list) : list[j] = Res(r)})

(* Every allocation is in one place: with the driver, on the list, on the  *)
(* todo list of one thread or in one devm_krealloc(); what is freed is in  *)
(* none.  So a release function runs at most once for it, before it is     *)
(* freed, and nothing leaks.  (Every variable has its type.)               *)
OnePlace ==
  /\ TypeOK
  /\ \A r \in Resources :
       Places(devres_head, r)
         + (IF r \in held THEN 1 ELSE 0)
         + FoldSet(LAMBDA t, n : n + Places(todo[t], r)
                                   + (IF pending[t] # NULL /\ pending[t].new = r THEN 1 ELSE 0),
                   0, Threads)
       = IF r \in live THEN 1 ELSE 0

MarkersPaired ==
  \A j, k \in 1 .. Len(devres_head) :
    /\ devres_head[j] = devres_head[k] => j = k
    /\ devres_head[k].release = "close" =>
         \E i \in 1 .. k - 1 : devres_head[i] = Open(devres_head[k].id)

Between(g) ==
  LET j == find_group(devres_head, g)
  IN {devres_head[k].id :
        k \in {i \in j .. group_last(devres_head, j) : IsRes(devres_head[i])}}

(* A group has its open marker once, and a close marker at most once and   *)
(* after it, so no BUG_ON of add_dr() and remove_nodes() fires             *)
(* (devres.c:125, 467, 473), and the resources between its markers are     *)
(* those added while it was open and still managed, whatever other groups  *)
(* were opened, closed, removed and released meanwhile and whatever was    *)
(* reallocated.                                                            *)
GroupHasItsMembers ==
  /\ MarkersPaired
  /\ \A g \in Groups : GroupListed(g) => Between(g) = member[g]

OnTodo(t) == {r \in Resources : Listed(todo[t], Res(r))}

(* Resources are released in the reverse order of their addition, and      *)
(* devm_krealloc() "doesn't change the order in which the release callback *)
(* for the re-alloc'ed devres will be called" (devres.c:842).              *)
ReverseOrder ==
  [][\A t \in Threads : \A r \in OnTodo(t) \ OnTodo(t)' :
       \A s \in OnTodo(t)' : r \notin earlier[s]]_vars

=============================================================================
