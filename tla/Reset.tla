------------------------------- MODULE Reset --------------------------------
(* The reset controller framework, common/reset/core.c, for one controller: *)
(* consumers get shared or exclusive reset controls, use them one at a      *)
(* time, as an array or in bulk, and put them back.  A step is one critical *)
(* section of reset_list_mutex, one access to an atomic counter or to the   *)
(* acquired flag, or one call of the controller driver.                     *)
EXTENDS Integers, FiniteSetsExt, Lists

CONSTANTS
  Consumers, Ids,
  Rstcs,        \* The struct reset_control objects
  NULL,
  Wants,        \* The lines of each consumer, NULL for one that is not described
  Form,         \* The interface it uses: single, array or bulk calls
  Modes,        \* How controls may be requested: shared, exclusive, released
  Calls,        \* The operations the consumers use
  Ops,          \* The operations the controller driver implements
  Faults        \* The <<consumer, operation, line>> driver calls that may fail

ASSUME ResetAssumption ==
  /\ IsFiniteSet(Consumers)
  /\ NULL \notin Ids \cup Rstcs
  /\ Wants \in [Consumers -> Seq(Ids \cup {NULL})]
  /\ Form \in [Consumers -> {"single", "array", "bulk"}]
  /\ \A c \in Consumers : Form[c] = "single" => Len(Wants[c]) = 1
  /\ Modes \subseteq {"shared", "exclusive", "released"}
  /\ Calls \subseteq {"assert", "deassert", "reset", "rearm", "acquire", "release"}
  /\ Ops \subseteq {"assert", "deassert", "reset"}
  /\ Faults \subseteq Consumers \X Ops \X Ids

VARIABLES
  registered,   \* The controller is on reset_controller_list
  head,         \* rcdev->reset_control_head
  ctl,          \* The fields of each reset control
  line,         \* The state of each reset line, in the hardware
  handle,       \* The controls each consumer holds, <<>> for none
  call,         \* The call each consumer is in
  belief        \* What its completed calls have told a consumer of each line

vars == <<registered, head, ctl, line, handle, call, belief>>

NoCall == [op |-> "none", pc |-> "idle", todo |-> <<>>, done |-> <<>>, undo |-> FALSE,
           shared |-> FALSE, acquired |-> FALSE, optional |-> FALSE]

Fresh == [id |-> NULL, refcnt |-> 0, acquired |-> FALSE, shared |-> FALSE,
          deassert_count |-> 0, triggered_count |-> 0]

Unknown(c) == [i \in DOMAIN Wants[c] |-> "unknown"]

Init ==
  /\ registered = FALSE /\ head = <<>>
  /\ ctl = [r \in Rstcs |-> Fresh]
  /\ line \in [Ids -> {"asserted", "deasserted"}]
  /\ handle = [c \in Consumers |-> <<>>]
  /\ call = [c \in Consumers |-> NoCall]
  /\ belief = [c \in Consumers |-> Unknown(c)]

-----------------------------------------------------------------------------
(* Registration of the controller.                                         *)
reset_controller_register ==
  /\ ~registered /\ registered' = TRUE
  /\ UNCHANGED <<head, ctl, line, handle, call, belief>>

reset_controller_unregister ==
  /\ registered /\ registered' = FALSE
  /\ UNCHANGED <<head, ctl, line, handle, call, belief>>

-----------------------------------------------------------------------------
Shared(c, i) == handle[c][i] # NULL /\ ctl[handle[c][i]].shared

(* Getting and putting controls.                                           *)
(* The first control on the list for line id.                              *)
FirstFor(id) ==
  LET K == {k \in DOMAIN head : ctl[head[k]].id = id}
  IN IF K = {} THEN NULL ELSE head[Min(K)]

Free == Rstcs \ Range(head)

Creates_BesideShared(id, shared, acquired) == FirstFor(id) # NULL => ~shared /\ ~acquired

(* __reset_control_get_internal() makes a new control: the first one of the *)
(* line, or a secondary exclusive one that is initially not acquired.       *)
Creates(id, shared, acquired) ==
  FirstFor(id) # NULL => ~ctl[FirstFor(id)].shared /\ ~shared /\ ~acquired

(* It hands out the existing shared control.                                *)
Joins(id, shared) == FirstFor(id) # NULL /\ ctl[FirstFor(id)].shared /\ shared

Ref_None(r) == ctl

Ref(r) == [ctl EXCEPT ![r].refcnt = @ + 1]

(* __reset_control_get_internal() succeeds with r.                          *)
get_internal(id, shared, acquired, r) ==
  IF Creates(id, shared, acquired)
  THEN /\ r \in Free /\ r = CHOOSE x \in Free : TRUE
       /\ head' = <<r>> \o head
       /\ ctl' = [ctl EXCEPT ![r] = [Fresh EXCEPT !.id = id, !.refcnt = 1,
                                                  !.acquired = acquired, !.shared = shared]]
  ELSE /\ Joins(id, shared) /\ r = FirstFor(id)
       /\ ctl' = Ref(r) /\ UNCHANGED head

(* __reset_control_get(), __reset_control_bulk_get() or                     *)
(* of_reset_control_array_get() is called.                                  *)
get(c) ==
  /\ call[c].pc = "idle" /\ handle[c] = <<>> /\ Wants[c] # <<>>
  /\ \E mode \in Modes, optional \in BOOLEAN :
       call' = [call EXCEPT ![c] = [NoCall EXCEPT !.op = "get", !.pc = "get",
                  !.shared = (mode = "shared"), !.acquired = (mode = "exclusive"),
                  !.optional = optional]]
  /\ UNCHANGED <<registered, head, ctl, line, handle, belief>>

Got(c, r) ==
  /\ handle' = [handle EXCEPT ![c] = Append(@, r)]
  /\ call' = IF Len(handle[c]) + 1 = Len(Wants[c]) THEN [call EXCEPT ![c] = NoCall] ELSE call

(* One __of_reset_control_get() or __reset_control_get_from_lookup().       *)
get_entry(c) ==
  LET id == Wants[c][Len(handle[c]) + 1]
  IN /\ call[c].pc = "get"
     /\ \/ /\ id = NULL /\ call[c].optional
           /\ Got(c, NULL) /\ UNCHANGED <<ctl, head>>
        \/ /\ id # NULL /\ registered
           /\ \E r \in Rstcs : /\ get_internal(id, call[c].shared, call[c].acquired, r)
                               /\ Got(c, r)
        \/ /\ \/ id = NULL /\ ~call[c].optional
              \/ id # NULL /\ ~registered
              \* -EBUSY, or -ENOMEM where a control would be made
              \/ id # NULL /\ registered /\ (Joins(id, call[c].shared) =>
                                             Creates(id, call[c].shared, call[c].acquired))
           /\ call' = [call EXCEPT ![c].pc = "put"]
           /\ UNCHANGED <<handle, ctl, head>>
     /\ UNCHANGED <<registered, line, belief>>

Held(c, r) == {i \in DOMAIN handle[c] : handle[c][i] = r}

(* The controls that __reset_control_put_internal() frees when every        *)
(* control of c is put: c has all the references there are.                 *)
Last(c) == {r \in Rstcs : Held(c, r) # {} /\ ctl[r].refcnt = Cardinality(Held(c, r))}

Dropped(c) ==
  /\ ctl' = [r \in Rstcs |->
               IF r \in Last(c) THEN Fresh
               ELSE [ctl[r] EXCEPT !.refcnt = @ - Cardinality(Held(c, r))]]
  /\ head' = Without(head, {k \in 1 .. Len(head) : head[k] \in Last(c)})
  /\ handle' = [handle EXCEPT ![c] = <<>>]
  /\ belief' = [belief EXCEPT ![c] = Unknown(c)]
  /\ UNCHANGED <<registered, line>>

(* The error path of the bulk and array getters: every control got so far   *)
(* is put in one critical section.  A null control among them is not        *)
(* skipped, and the machine does not survive its kref_put().                *)
get_undo(c) ==
  /\ call[c].pc = "put"
  /\ IF NULL \in Range(handle[c])
     THEN call' = [call EXCEPT ![c].pc = "oops"] /\ UNCHANGED <<registered, head, ctl, line, handle, belief>>
     ELSE call' = [call EXCEPT ![c] = NoCall] /\ Dropped(c)

(* reset_control_bulk_put(), reset_control_array_put() or, for one control, *)
(* reset_control_put().  Only the array form does not skip null controls.   *)
(* A consumer asserts a shared line that it has deasserted, and rearms the  *)
(* one it has reset, before it gives up the control.                        *)
put(c) ==
  /\ call[c].pc = "idle" /\ handle[c] # <<>>
  /\ \A i \in DOMAIN handle[c] : Shared(c, i) => belief[c][i] \in {"unknown", "asserted"}
  /\ IF Form[c] = "array" /\ NULL \in Range(handle[c])
     THEN call' = [call EXCEPT ![c].pc = "oops"] /\ UNCHANGED <<registered, head, ctl, line, handle, belief>>
     ELSE call' = call /\ Dropped(c)

-----------------------------------------------------------------------------
(* Calls that operate the controls.                                        *)
Backward(n) == [k \in 1 .. n |-> n + 1 - k]
Forward(n)  == [k \in 1 .. n |-> k]

(* The order in which a call visits its controls.                          *)
Order(c, op) ==
  IF Form[c] = "bulk" /\ op = "deassert" THEN Backward(Len(handle[c])) ELSE Forward(Len(handle[c]))

UndoOf(op) == CASE op = "assert"   -> "deassert"
                 [] op = "deassert" -> "assert"
                 [] op = "acquire"  -> "release"
                 [] OTHER           -> "none"

Undone_Nothing(c, i) == <<>>

(* What the error path visits, latest first, after control i has failed.   *)
(* reset_control_bulk_deassert() begins with the one that failed.           *)
Undone(c, i) ==
  IF UndoOf(call[c].op) = "none" \/ Form[c] = "single" THEN <<>>
  ELSE IF Form[c] = "bulk" /\ call[c].op = "deassert" THEN <<i>> \o call[c].done
  ELSE call[c].done

Pulses(c, i) == call[c].op \in {"reset", "rearm"} \/ belief[c][i] = "reset"
Levels(c, i) == call[c].op \in {"assert", "deassert"} \/ belief[c][i] = "deasserted"

(* How a consumer uses the interface.  On a shared line its calls are       *)
(* balanced, and nobody resets a line that another one asserts or deasserts *)
(* ("Consumers must not use reset_control_(de)assert on shared reset lines  *)
(* when reset_control_reset has been used"); an exclusive control has no    *)
(* counters to balance.                                                     *)
Balanced(c, op) ==
  \A i \in DOMAIN handle[c] :
    IF Shared(c, i)
    THEN /\ \A d \in Consumers : \A j \in DOMAIN handle[d] :
              handle[d][j] = handle[c][i] =>
                IF op \in {"reset", "rearm"} THEN ~Levels(d, j) ELSE ~Pulses(d, j)
         /\ CASE op = "deassert" -> belief[c][i] \in {"unknown", "asserted"}
              [] op = "assert"   -> belief[c][i] = "deasserted"
              [] op = "reset"    -> belief[c][i] = "unknown"
              [] op = "rearm"    -> belief[c][i] = "reset"
              [] OTHER           -> FALSE
    ELSE TRUE

Start(c, op) == [call[c] EXCEPT !.op = op, !.todo = Order(c, op), !.done = <<>>, !.pc = "check"]

Forget(c, I) ==
  belief' = [belief EXCEPT ![c] = [i \in DOMAIN @ |-> IF i \in I /\ ~Shared(c, i) THEN "unknown" ELSE @[i]]]

begin(c) ==
  /\ call[c].pc = "idle" /\ Len(handle[c]) = Len(Wants[c]) /\ handle[c] # <<>>
  /\ \E op \in Calls : Balanced(c, op) /\ call' = [call EXCEPT ![c] = Start(c, op)]
  /\ Forget(c, DOMAIN handle[c])
  /\ UNCHANGED <<registered, head, ctl, line, handle>>

Told(op) == CASE op = "deassert" -> "deasserted"
              [] op = "assert"   -> "asserted"
              [] op = "reset"    -> "reset"
              [] OTHER           -> "unknown"

(* Control i of the call is done; the call returns after the last one.  The *)
(* first pass of rearming over an array is followed by the second one.      *)
Succeed(c) ==
  LET k == call[c]
      i == Head(k.todo)
      last == Len(k.todo) = 1
  IN IF ~last
     THEN /\ call' = [call EXCEPT ![c] =
                        [k EXCEPT !.todo = Tail(@), !.done = <<i>> \o @,
                                  !.pc = IF @ = "rearm" /\ Form[c] = "array" THEN "rearm" ELSE "check"]]
          /\ UNCHANGED belief
     ELSE IF k.op = "rearm" /\ k.pc = "check" /\ Form[c] = "array"
     THEN /\ call' = [call EXCEPT ![c] =
                        [k EXCEPT !.todo = Order(c, "rearm"), !.done = <<>>, !.pc = "rearm"]]
          /\ UNCHANGED belief
     ELSE /\ call' = [call EXCEPT ![c] = NoCall]
          /\ belief' = IF k.undo \/ k.op \in {"acquire", "release"} THEN belief
                       ELSE [belief EXCEPT ![c] = [j \in DOMAIN @ |-> Told(k.op)]]

(* Control i of the call has failed.  In an error path that is ignored.     *)
Fail(c) ==
  LET k == call[c]
      U == Undone(c, Head(k.todo))
  IN IF k.undo THEN Succeed(c)
     ELSE /\ call' = [call EXCEPT ![c] =
                        IF U = <<>> THEN NoCall
                        ELSE [k EXCEPT !.op = UndoOf(k.op), !.todo = U, !.done = <<>>,
                                       !.pc = "check", !.undo = TRUE]]
          /\ UNCHANGED belief

Goto(c, pc) == call' = [call EXCEPT ![c].pc = pc] /\ UNCHANGED belief

At(c, pc, ops) ==
  /\ call[c].pc = pc /\ call[c].op \in ops /\ call[c].todo # <<>>

Control(c) == handle[c][Head(call[c].todo)]

(* A null control is an optional one: every operation returns 0.            *)
null_control(c) ==
  /\ call[c].pc \in {"check", "rearm"} /\ Control(c) = NULL
  /\ Succeed(c)
  /\ UNCHANGED <<registered, head, ctl, line, handle>>

MayOperate_Always(r) == TRUE

MayOperate(r) == ctl[r].acquired

(* reset_control_reset(), _assert() and _deassert() up to the counters of a *)
(* shared control, or the driver of an exclusive one.                       *)
check(c) ==
  LET r == Control(c)
      op == call[c].op
      supported == op \in Ops \/ op = "deassert" \/ (op = "assert" /\ ctl[r].shared)
      conflict == IF op = "reset" THEN ctl[r].deassert_count # 0 ELSE ctl[r].triggered_count # 0
  IN /\ At(c, "check", {"reset", "assert", "deassert"}) /\ r # NULL
     /\ \/ ~supported /\ Fail(c)
        \/ /\ supported /\ ctl[r].shared
           /\ IF conflict THEN Fail(c)
              ELSE IF op = "assert" THEN Goto(c, "nonzero") ELSE Goto(c, "count")
        \/ /\ supported /\ ~ctl[r].shared
           /\ IF MayOperate(r) THEN Goto(c, "ops") ELSE Fail(c)
     /\ UNCHANGED <<registered, head, ctl, line, handle>>

(* reset_control_assert() reads deassert_count, before it changes it.       *)
assert_nonzero(c) ==
  /\ At(c, "nonzero", {"assert"})
  /\ IF ctl[Control(c)].deassert_count = 0 THEN Fail(c) ELSE Goto(c, "count")
  /\ UNCHANGED <<registered, head, ctl, line, handle>>

(* atomic_inc_return() or atomic_dec_return() of the counter, and whether   *)
(* this consumer is the one that has to call the driver.                    *)
Counted(op, f) ==
  CASE op = "deassert" -> [f EXCEPT !.deassert_count = @ + 1]
    [] op = "assert"   -> [f EXCEPT !.deassert_count = @ - 1]
    [] op = "reset"    -> [f EXCEPT !.triggered_count = @ + 1]

Decides(op, f) ==
  CASE op = "deassert" -> f.deassert_count = 1
    [] op = "assert"   -> f.deassert_count = 0 /\ "assert" \in Ops
    [] op = "reset"    -> f.triggered_count = 1

count(c) ==
  LET f == Counted(call[c].op, ctl[Control(c)])
  IN /\ At(c, "count", {"reset", "assert", "deassert"})
     /\ ctl' = [ctl EXCEPT ![Control(c)] = f]
     /\ IF Decides(call[c].op, f) THEN Goto(c, "ops") ELSE Succeed(c)
     /\ UNCHANGED <<registered, head, line, handle>>

(* The controller driver: it sets or pulses the line, or reports an error   *)
(* and leaves it alone.  A missing .deassert() succeeds.                    *)
ops(c) ==
  LET r == Control(c)
      op == call[c].op
  IN /\ At(c, "ops", {"reset", "assert", "deassert"})
     /\ \/ /\ op \notin Ops /\ Succeed(c) /\ UNCHANGED line
        \/ /\ op \in Ops /\ Succeed(c)
           /\ line' = [line EXCEPT ![ctl[r].id] = IF op = "assert" THEN "asserted" ELSE "deasserted"]
        \/ /\ <<c, op, ctl[r].id>> \in Faults
           /\ IF op = "reset" /\ ctl[r].shared THEN Goto(c, "uncount") ELSE Fail(c)
           /\ UNCHANGED line
     /\ UNCHANGED <<registered, head, ctl, handle>>

Untrigger_Kept(r) == ctl

Untrigger(r) == [ctl EXCEPT ![r].triggered_count = @ - 1]

(* reset_control_reset() takes back its count after a failed pulse.         *)
reset_uncount(c) ==
  /\ At(c, "uncount", {"reset"})
  /\ ctl' = Untrigger(Control(c))
  /\ Fail(c)
  /\ UNCHANGED <<registered, head, line, handle>>

(* reset_control_rearm() of one control, or the first of the two passes of  *)
(* reset_control_array_rearm().                                             *)
rearm_check(c) ==
  LET r == Control(c)
  IN /\ At(c, "check", {"rearm"}) /\ r # NULL
     /\ IF (ctl[r].shared /\ ctl[r].deassert_count # 0) \/ (~ctl[r].shared /\ ~MayOperate(r))
        THEN Fail(c)
        ELSE IF Form[c] = "array" THEN Succeed(c) ELSE Goto(c, "rearm")
     /\ UNCHANGED <<registered, head, ctl, line, handle>>

(* The count goes down, in the second pass over an array.                   *)
rearm(c) ==
  LET r == Control(c)
  IN /\ At(c, "rearm", {"rearm"}) /\ r # NULL
     /\ ctl' = IF ctl[r].shared THEN Untrigger(r) ELSE ctl
     /\ Succeed(c)
     /\ UNCHANGED <<registered, head, line, handle>>

(* Another control of the same line is acquired.                            *)
Busy(r) == \E k \in DOMAIN head : /\ head[k] # r /\ ctl[head[k]].id = ctl[r].id
                                   /\ ctl[head[k]].acquired

reset_control_acquire(c) ==
  LET r == Control(c)
  IN /\ At(c, "check", {"acquire"}) /\ r # NULL
     /\ IF ~ctl[r].acquired /\ Busy(r)
        THEN Fail(c) /\ UNCHANGED ctl
        ELSE Succeed(c) /\ ctl' = [ctl EXCEPT ![r].acquired = TRUE]
     /\ UNCHANGED <<registered, head, line, handle>>

reset_control_release(c) ==
  LET r == Control(c)
  IN /\ At(c, "check", {"release"}) /\ r # NULL
     /\ Succeed(c) /\ ctl' = [ctl EXCEPT ![r].acquired = FALSE]
     /\ UNCHANGED <<registered, head, line, handle>>

-----------------------------------------------------------------------------
Next ==
  \/ reset_controller_register \/ reset_controller_unregister
  \/ \E c \in Consumers :
       \/ get(c) \/ get_entry(c) \/ get_undo(c) \/ put(c) \/ begin(c)
       \/ null_control(c) \/ check(c) \/ assert_nonzero(c) \/ count(c) \/ ops(c)
       \/ reset_uncount(c) \/ rearm_check(c) \/ rearm(c)
       \/ reset_control_acquire(c) \/ reset_control_release(c)

Spec == Init /\ [][Next]_vars

-----------------------------------------------------------------------------
(* The state has its shape.                                                *)
TypeOK ==
  /\ registered \in BOOLEAN /\ head \in Seq(Rstcs)
  /\ line \in [Ids -> {"asserted", "deasserted"}]
  /\ \A r \in Rstcs : /\ ctl[r].id \in Ids \cup {NULL}
                      /\ ctl[r].refcnt \in Nat
                      /\ {ctl[r].deassert_count, ctl[r].triggered_count} \subseteq Int
  /\ \A c \in Consumers :
       /\ handle[c] \in Seq(Rstcs \cup {NULL}) /\ Len(handle[c]) <= Len(Wants[c])
       /\ Range(call[c].todo) \cap Range(call[c].done) = {}
       /\ Range(call[c].todo) \cup Range(call[c].done) \subseteq DOMAIN handle[c]

Handles(r) == {ci \in Consumers \X UNION {DOMAIN Wants[c] : c \in Consumers} :
                 ci[2] \in DOMAIN handle[ci[1]] /\ handle[ci[1]][ci[2]] = r}

(* A control is on the list of its controller, once, as long as somebody    *)
(* holds it, and refcnt is the number of its holders, also when the getters *)
(* and putters of several consumers interleave and fail half way.  (Every   *)
(* variable has its type.)                                                  *)
RefsExact ==
  /\ TypeOK
  /\ Cardinality(Range(head)) = Len(head)
  /\ \A r \in Rstcs : /\ ctl[r].refcnt = Cardinality(Handles(r))
                      /\ r \in Range(head) <=> ctl[r].refcnt > 0
  /\ \A c \in Consumers : \A i \in DOMAIN handle[c] :
       handle[c][i] # NULL => ctl[handle[c][i]].id = Wants[c][i]

(* A line is either shared through one control, or has exclusive controls   *)
(* of which at most one is acquired (struct reset_control, @acquired).      *)
OneOwner ==
  \A r, q \in Range(head) :
    ctl[r].id = ctl[q].id /\ r # q =>
      /\ ~ctl[r].shared /\ ~ctl[q].shared
      /\ ~(ctl[r].acquired /\ ctl[q].acquired)

(* What consumer c has contributed to the deassert_count of its control i.  *)
Deasserts(c, i) ==
  LET k == call[c]
  IN IF k.op \notin {"assert", "deassert"} THEN belief[c][i] = "deasserted"
     ELSE IF i \in Range(k.todo) THEN (k.op = "assert") # (i = Head(k.todo) /\ k.pc = "ops")
     ELSE IF i \in Range(k.done) THEN k.op = "deassert"
     ELSE belief[c][i] = "deasserted"

Triggers(c, i) ==
  LET k == call[c]
  IN CASE k.op = "reset" -> \/ i \in Range(k.done)
                            \/ i = Head(k.todo) /\ k.pc \in {"ops", "uncount"}
       [] k.op = "rearm" -> i \in Range(k.todo) \/ (Form[c] = "array" /\ k.pc = "check")
       [] OTHER          -> belief[c][i] = "reset"

(* The counters of a shared line hold at every point of concurrent bulk     *)
(* calls, failed ones included.  deassert_count is the number of consumers  *)
(* that keep the line deasserted; triggered_count is the number of those    *)
(* that have reset it and not rearmed it, although a failed pulse takes its *)
(* count back late; so balanced calls never make it negative.               *)
CountersBalanced ==
  \A r \in Range(head) : ctl[r].shared =>
    /\ ctl[r].deassert_count = Cardinality({ci \in Handles(r) : Deasserts(ci[1], ci[2])})
    /\ ctl[r].triggered_count = Cardinality({ci \in Handles(r) : Triggers(ci[1], ci[2])})

(* Whoever has acquired an exclusive control decides on the line: it is as  *)
(* the last successful assert or deassert left it, whatever the other       *)
(* consumers of the line try (reset_control_acquire, reset_control_assert). *)
HolderDecides ==
  \A c \in Consumers : call[c].pc = "idle" =>
    \A i \in DOMAIN handle[c] :
      /\ handle[c][i] # NULL /\ ~Shared(c, i)
      /\ belief[c][i] \in {"asserted", "deasserted"}
      => line[Wants[c][i]] = belief[c][i]

(* Acquiring several controls is all or nothing, also when two consumers    *)
(* want the same lines in different orders and one meets -EBUSY.            *)
AllOrNothing ==
  \A c \in Consumers : call[c].pc = "idle" =>
    \A i, j \in DOMAIN handle[c] :
      (handle[c][i] # NULL /\ handle[c][j] # NULL)
        => (ctl[handle[c][i]].acquired <=> ctl[handle[c][j]].acquired)

-----------------------------------------------------------------------------
(* A statement of the documentation that the code does not meet.            *)

(* After reset_control_deassert() the line is deasserted until the consumer *)
(* asserts it again.                                                        *)
DeassertedAsPromised ==
  \A c \in Consumers : call[c].pc = "idle" =>
    \A i \in DOMAIN handle[c] :
      Shared(c, i) /\ belief[c][i] = "deasserted" => line[Wants[c][i]] = "deasserted"

=============================================================================
