-------------------------------- MODULE Klist --------------------------------
(***************************************************************************)
(* The klist of lib/src/linux/klist.c: one list, the owners that add and   *)
(* delete its nodes and the iterators that walk it meanwhile.              *)
(*                                                                         *)
(* A step is one critical section of k_lock.  Adding a node takes two      *)
(* steps, since klist_node_init() runs before the lock is taken, and the   *)
(* put() call for the object that embeds a node follows the unlock.        *)
(***************************************************************************)
EXTENDS Integers, Sequences, FiniteSets, FiniteSetsExt

CONSTANTS
  Nodes,        \* the klist_node structures; each has one owner
  Iters,        \* the klist_iter structures; each has a thread of its own
  NULL,
  StartAtDead   \* whether an iteration may start at a node that is deleted

Contexts == Nodes \cup Iters

ASSUME KlistAssumption ==
  /\ IsFiniteSet(Nodes) /\ IsFiniteSet(Iters)
  /\ NULL \notin Contexts /\ Nodes \cap Iters = {}
  /\ StartAtDead \in BOOLEAN

VARIABLES
  k_list,   \* the nodes on the list, first to last
  n_klist,  \* of each node: "null", or its klist with KNODE_DEAD clear or set
  n_ref,    \* the reference count of each node
  i_cur,    \* the current node of each iterator
  adding,   \* the nodes between klist_node_init() and list_add()
  object,   \* get() calls less put() calls for the object of each node
  puts,     \* the node a context still has to call put() for
  i_dir,    \* what each iterator's thread has called so far
  stayed,   \* nodes ahead of each iterator when it set off, and live since
  seen,     \* nodes that each iterator has returned
  removed   \* nodes whose last klist_remove() has returned

list == <<k_list, n_klist, n_ref>>
history == <<i_dir, stayed, seen, removed>>
vars == <<list, i_cur, adding, object, puts, history>>

Init ==
  /\ k_list = <<>>
  /\ n_klist = [n \in Nodes |-> "null"]
  /\ n_ref = [n \in Nodes |-> 0]
  /\ i_cur = [i \in Iters |-> NULL]
  /\ adding = {}
  /\ object = [n \in Nodes |-> 0]
  /\ puts = [x \in Contexts |-> NULL]
  /\ i_dir = [i \in Iters |-> "idle"]
  /\ stayed = [i \in Iters |-> {}]
  /\ seen = [i \in Iters |-> {}]
  /\ removed = {}

OnList == {k_list[j] : j \in 1 .. Len(k_list)}
Index(n) == CHOOSE j \in 1 .. Len(k_list) : k_list[j] = n
Live(n) == n_klist[n] = "live"

(* list_add() and list_add_tail() put a node before the j-th of the list,  *)
(* list_del() takes the j-th one out.                                      *)
list_add(nodes, j, n) == SubSeq(nodes, 1, j - 1) \o <<n>> \o SubSeq(nodes, j, Len(nodes))
list_del(nodes, j) == SubSeq(nodes, 1, j - 1) \o SubSeq(nodes, j + 1, Len(nodes))

-----------------------------------------------------------------------------
(* Adding a node.                                                          *)
klist_node_init(n) ==
  /\ n_klist[n] = "null" /\ puts[n] = NULL
  /\ n_klist' = [n_klist EXCEPT ![n] = "live"]
  /\ n_ref' = [n_ref EXCEPT ![n] = 1]
  /\ object' = [object EXCEPT ![n] = @ + 1]
  /\ adding' = adding \cup {n}
  /\ removed' = removed \ {n}
  /\ UNCHANGED <<k_list, i_cur, puts, i_dir, stayed, seen>>

ListAdd(n, j) ==
  /\ n \in adding
  /\ k_list' = list_add(k_list, j, n)
  /\ adding' = adding \ {n}
  /\ UNCHANGED <<n_klist, n_ref, i_cur, object, puts, history>>

klist_add_head(n) == ListAdd(n, 1)

klist_add_tail(n) == ListAdd(n, Len(k_list) + 1)

(* The caller keeps pos on the list during the call.                       *)
klist_add_behind(n, pos) ==
  /\ pos \in OnList
  /\ ListAdd(n, Index(pos) + 1)

klist_add_before(n, pos) ==
  /\ pos \in OnList
  /\ ListAdd(n, Index(pos))

-----------------------------------------------------------------------------
(* klist_dec_and_del() by context x, with klist_release() when the last    *)
(* reference goes: klist is n_klist after a possible knode_kill().  The    *)
(* caller changes n_ref.                                                   *)
klist_dec_and_del_AlwaysPut(x, n, klist) ==
  /\ puts' = [puts EXCEPT ![x] = n]
  /\ IF n # NULL /\ n_ref[n] = 1
     THEN /\ k_list' = list_del(k_list, Index(n))
          /\ n_klist' = [klist EXCEPT ![n] = "null"]
     ELSE /\ n_klist' = klist
          /\ UNCHANGED k_list

klist_dec_and_del(x, n, klist) ==
  IF n # NULL /\ n_ref[n] = 1
  THEN /\ k_list' = list_del(k_list, Index(n))
       /\ n_klist' = [klist EXCEPT ![n] = "null"]
       /\ puts' = [puts EXCEPT ![x] = n]
  ELSE /\ n_klist' = klist
       /\ UNCHANGED <<k_list, puts>>

(* klist_put() up to the unlock.                                           *)
klist_put_NoKill(x, n, kill) ==
  /\ klist_dec_and_del(x, n, n_klist)
  /\ n_ref' = [n_ref EXCEPT ![n] = @ - 1]

klist_put(x, n, kill) ==
  /\ klist_dec_and_del(x, n, IF kill THEN [n_klist EXCEPT ![n] = "dead"] ELSE n_klist)
  /\ n_ref' = [n_ref EXCEPT ![n] = @ - 1]

(* The call of put() after the unlock, of klist_put(), klist_next() and    *)
(* klist_prev().                                                           *)
Put(x) ==
  /\ puts[x] # NULL
  /\ object' = [object EXCEPT ![puts[x]] = @ - 1]
  /\ puts' = [puts EXCEPT ![x] = NULL]
  /\ UNCHANGED <<list, i_cur, adding, history>>

(* The owner deletes a node once, after it has added it.                   *)
Deletable(n) == n \in OnList /\ Live(n) /\ puts[n] = NULL

klist_del(n) ==
  /\ Deletable(n)
  /\ klist_put(n, n, TRUE)
  /\ stayed' = [i \in Iters |-> stayed[i] \ {n}]
  /\ UNCHANGED <<i_cur, adding, object, i_dir, seen, removed>>

(* klist_remove() is klist_del(): the wait for the release is compiled out.*)
klist_remove(n) ==
  /\ Deletable(n)
  /\ klist_put(n, n, TRUE)
  /\ stayed' = [i \in Iters |-> stayed[i] \ {n}]
  /\ removed' = removed \cup {n}
  /\ UNCHANGED <<i_cur, adding, object, i_dir, seen>>

-----------------------------------------------------------------------------
(* Iterating.  The thread of an iterator starts at the head of the list or *)
(* at a node, calls klist_next() and klist_prev() until they return NULL,  *)
(* and calls klist_iter_exit() at any time.                                *)
CanStart(n) ==
  n # NULL => n \notin adding /\ (n_klist[n] = "dead" => StartAtDead)

Startable_Any(n) == n # NULL
Startable(n) == n # NULL /\ n_ref[n] # 0

klist_iter_init_node(i, n) ==
  /\ i_dir[i] = "idle" /\ puts[i] = NULL /\ CanStart(n)
  /\ IF Startable(n)
     THEN /\ n_ref' = [n_ref EXCEPT ![n] = @ + 1]
          /\ i_cur' = [i_cur EXCEPT ![i] = n]
     ELSE UNCHANGED <<n_ref, i_cur>>
  /\ i_dir' = [i_dir EXCEPT ![i] = "start"]
  /\ UNCHANGED <<k_list, n_klist, adding, object, puts, stayed, seen, removed>>

klist_iter_exit(i) ==
  /\ i_dir[i] # "idle" /\ puts[i] = NULL
  /\ IF i_cur[i] # NULL
     THEN klist_put(i, i_cur[i], FALSE)
     ELSE UNCHANGED <<list, puts>>
  /\ i_cur' = [i_cur EXCEPT ![i] = NULL]
  /\ i_dir' = [i_dir EXCEPT ![i] = "idle"]
  /\ stayed' = [stayed EXCEPT ![i] = {}]
  /\ seen' = [seen EXCEPT ![i] = {}]
  /\ UNCHANGED <<adding, object, removed>>

(* The indices of the list ahead of last, for each direction.              *)
Ahead_Restarts(last, dir) ==
  IF last = NULL \/ ~Live(last) THEN 1 .. Len(k_list)
  ELSE IF dir = "next" THEN Index(last) + 1 .. Len(k_list)
  ELSE 1 .. Index(last) - 1

Ahead(last, dir) ==
  IF last = NULL THEN 1 .. Len(k_list)
  ELSE IF dir = "next" THEN Index(last) + 1 .. Len(k_list)
  ELSE 1 .. Index(last) - 1

(* The nodes that the loop of klist_next() or klist_prev() does not skip,  *)
(* and the first of them.                                                  *)
LiveAhead(last, dir) == {j \in Ahead(last, dir) : Live(k_list[j])}

First_StopsAtDead(last, dir) ==
  LET js == Ahead(last, dir)
      j == IF dir = "next" THEN Min(js) ELSE Max(js)
  IN IF js = {} \/ ~Live(k_list[j]) THEN NULL ELSE k_list[j]

First(last, dir) ==
  LET js == LiveAhead(last, dir)
  IN IF js = {} THEN NULL
     ELSE k_list[IF dir = "next" THEN Min(js) ELSE Max(js)]

Ref(n, m) == IF n = m THEN 1 ELSE 0

Advance(i, dir) ==
  LET last == i_cur[i]
      cur == First(last, dir)
  IN /\ i_dir[i] \in {"start", "next", "prev", "mixed"} /\ puts[i] = NULL
     /\ klist_dec_and_del(i, last, n_klist)
     /\ n_ref' = [n \in Nodes |-> n_ref[n] - Ref(n, last) + Ref(n, cur)]
     /\ i_cur' = [i_cur EXCEPT ![i] = cur]
     /\ i_dir' = [i_dir EXCEPT ![i] = IF @ \notin {"start", dir} THEN "mixed"
                                      ELSE IF cur = NULL THEN "end" ELSE dir]
     /\ stayed' = IF i_dir[i] = "start"
                  THEN [stayed EXCEPT ![i] = {k_list[j] : j \in LiveAhead(last, dir)}]
                  ELSE stayed
     /\ seen' = [seen EXCEPT ![i] = @ \cup ({cur} \ {NULL})]
     /\ UNCHANGED <<adding, object, removed>>

klist_next(i) == Advance(i, "next")

klist_prev(i) == Advance(i, "prev")

-----------------------------------------------------------------------------
Owner(n) ==
  \/ klist_node_init(n)
  \/ klist_add_head(n)
  \/ klist_add_tail(n)
  \/ \E pos \in Nodes : klist_add_behind(n, pos) \/ klist_add_before(n, pos)
  \/ klist_del(n)
  \/ klist_remove(n)

Iterate(i) ==
  \/ klist_next(i)
  \/ klist_prev(i)
  \/ klist_iter_exit(i)

Next ==
  \/ \E n \in Nodes : Owner(n)
  \/ \E i \in Iters : \E n \in Nodes \cup {NULL} : klist_iter_init_node(i, n)
  \/ \E i \in Iters : Iterate(i)
  \/ \E x \in Contexts : Put(x)

Spec == Init /\ [][Next]_vars

(* The body of every loop over a klist ends, with a further call.          *)
Fairness ==
  /\ \A i \in Iters : WF_vars(Iterate(i))
  /\ \A x \in Contexts : WF_vars(Put(x))

FairSpec == Spec /\ Fairness

-----------------------------------------------------------------------------
TypeOK ==
  /\ k_list \in Seq(Nodes)
  /\ n_klist \in [Nodes -> {"null", "live", "dead"}]
  /\ n_ref \in [Nodes -> Nat]
  /\ i_cur \in [Iters -> Nodes \cup {NULL}]
  /\ adding \subseteq Nodes
  /\ object \in [Nodes -> Nat]
  /\ puts \in [Contexts -> Nodes \cup {NULL}]
  /\ i_dir \in [Iters -> {"idle", "start", "next", "prev", "mixed", "end"}]
  /\ stayed \in [Iters -> SUBSET Nodes]
  /\ seen \in [Iters -> SUBSET Nodes]
  /\ removed \subseteq Nodes

At(n) == {i \in Iters : i_cur[i] = n}

(* The count of a node is one for its place on the list, until             *)
(* klist_del(), and one for each iterator at it: klist_release() runs when *)
(* the last of them goes, neither earlier nor never.                       *)
RefsAccounted ==
  \A n \in Nodes :
    n_ref[n] = Cardinality(At(n)) + (IF Live(n) THEN 1 ELSE 0)

(* The list holds each attached node once and no others, so a node stays   *)
(* where it is while an iterator is at it, deleted or not, and             *)
(* klist_next() always has a next pointer to follow.                       *)
ListExact ==
  /\ \A n \in Nodes : n \in OnList <=> n_klist[n] # "null" /\ n \notin adding
  /\ \A j, k \in 1 .. Len(k_list) : k_list[j] = k_list[k] => j = k
  /\ \A i \in Iters : i_cur[i] # NULL => i_cur[i] \in OnList

(* The embedding object has a reference from klist_node_init() until put() *)
(* and put() is called once for each.                                      *)
ObjectsAccounted ==
  \A n \in Nodes :
    object[n] = Cardinality({x \in Contexts : puts[x] = n})
                  + (IF n_klist[n] # "null" THEN 1 ELSE 0)

(* "an interface for iterating over a list that is safe and allows for     *)
(* modification of the list during the iteration" (klist.c:15): a node     *)
(* that was ahead when the iteration set off and is not deleted is         *)
(* returned before klist_next() or klist_prev() returns NULL.              *)
IterationComplete ==
  \A i \in Iters : i_dir[i] = "end" => stayed[i] \subseteq seen[i]

(* ... and is returned only once, and no node that klist_next() or         *)
(* klist_prev() returns is deleted at that moment: "exclude dead ones from *)
(* iteration" (klist.c:41).                                                *)
IterationSound ==
  [][\A i \in Iters :
       /\ i_dir'[i] \in {"next", "prev"} /\ i_cur'[i] # i_cur[i] =>
            i_cur'[i] \notin seen[i] \cap stayed[i]
       /\ i_dir[i] # "idle" /\ i_cur'[i] \notin {i_cur[i], NULL} =>
            n_klist'[i_cur'[i]] = "live"]_vars

(* A deleted node leaves the list once the iterators at it have moved on.  *)
DeletedIsReleased ==
  \A n \in Nodes : n_klist[n] = "dead" ~> n_klist[n] = "null"

(* "klist_remove() will try to delete the node from the list and block     *)
(* until it is actually removed." (klist.c:30)                             *)
RemoveWaits == \A n \in removed : n_klist[n] = "null"

=============================================================================
