-------------------------- MODULE ResetInvariants ---------------------------
(* The invariants of Reset and what the steps of the system do to them, in  *)
(* terms of the calls, the controls and the handles.                        *)
EXTENDS Reset, TLAPS

(* Lists in which nothing is twice.                                        *)
Once(list) == \A j, k \in 1 .. Len(list) : list[j] = list[k] => j = k
OnList(list, x) == \E k \in 1 .. Len(list) : list[k] = x

-----------------------------------------------------------------------------
(* Where the calls are.                                                    *)
Operating == {"check", "nonzero", "count", "ops", "uncount", "rearm"}
Levelling == {"assert", "deassert"}
Owning == {"acquire", "release"}
Beliefs == {"unknown", "asserted", "deasserted", "reset"}

CtlRecs ==
  [id : Ids \cup {NULL}, refcnt : Nat, acquired : BOOLEAN, shared : BOOLEAN,
   deassert_count : Int, triggered_count : Int]

CallOps == {"assert", "deassert", "reset", "rearm", "acquire", "release"}

CallRecs ==
  [op : CallOps \cup {"none", "get"}, pc : Operating \cup {"idle", "get", "put", "oops"},
   todo : Seq(Nat), done : Seq(Nat), undo : BOOLEAN,
   shared : BOOLEAN, acquired : BOOLEAN, optional : BOOLEAN]

Dom(c)  == 1 .. Len(handle[c])
Todo(c) == Range(call[c].todo)
Done(c) == Range(call[c].done)
Cur(c)  == Head(call[c].todo)
Real(c) == {i \in Dom(c) : handle[c][i] # NULL}
Acq(c, i) == ctl[handle[c][i]].acquired

CallTypes ==
  /\ call \in [Consumers -> CallRecs]
  /\ belief = [c \in Consumers |-> belief[c]]
  /\ \A c \in Consumers : belief[c] \in [DOMAIN Wants[c] -> Beliefs]

CtlTypes ==
  /\ registered \in BOOLEAN /\ head \in Seq(Rstcs)
  /\ ctl \in [Rstcs -> CtlRecs]
  /\ line \in [Ids -> {"asserted", "deasserted"}]
  /\ handle \in [Consumers -> Seq(Rstcs \cup {NULL})]

(* Where a call may be.                                                    *)
PcFits(k) ==
  /\ k.pc = "idle" => k = NoCall
  /\ k.pc \in {"get", "put", "oops"} =>
       k.todo = <<>> /\ k.done = <<>> /\ k.op \in {"none", "get"} /\ ~k.undo
  /\ k.pc \in Operating => k.op \in CallOps /\ k.todo # <<>>
  /\ k.pc = "nonzero" => k.op = "assert"
  /\ k.pc = "uncount" => k.op = "reset"
  /\ k.pc = "rearm" => k.op = "rearm"
  /\ k.pc \in {"count", "ops"} => k.op \in {"reset", "assert", "deassert"}
  /\ k.undo => k.op \in {"assert", "deassert", "release"}

(* A call visits every control once; its error path some of them.          *)
Visits(c) ==
  /\ Once(call[c].todo) /\ Once(call[c].done)
  /\ Todo(c) \cap Done(c) = {}
  /\ Todo(c) \cup Done(c) \subseteq Dom(c)
  /\ call[c].pc \in Operating =>
       /\ Len(handle[c]) = Len(Wants[c])
       /\ ~call[c].undo => Todo(c) \cup Done(c) = Dom(c)
       /\ call[c].pc \notin {"check", "rearm"} => Control(c) # NULL
       /\ call[c].undo => Form[c] # "single"

Shape ==
  \A c \in Consumers :
    /\ Len(handle[c]) <= Len(Wants[c])
    /\ call[c].pc = "get" => Len(handle[c]) < Len(Wants[c])
    /\ PcFits(call[c]) /\ Visits(c)

-----------------------------------------------------------------------------
(* How a call goes on.                                                     *)
Others(c) == \A d \in Consumers : d # c => call'[d] = call[d] /\ belief'[d] = belief[d]

(* It goes on to its next control,                                         *)
Onward(c) ==
  /\ call'[c].op = call[c].op /\ call'[c].undo = call[c].undo
  /\ call'[c].todo = Tail(call[c].todo) /\ call'[c].done = <<Cur(c)>> \o call[c].done
  /\ call'[c].pc \in {"check", "rearm"}
  /\ call'[c].pc = "rearm" <=> call[c].pc = "rearm" /\ Form[c] = "array"
  /\ Todo(c)' = Todo(c) \ {Cur(c)} /\ Done(c)' = Done(c) \cup {Cur(c)}
  /\ belief'[c] = belief[c]

(* or to the second pass of rearming an array,                             *)
Again(c) ==
  /\ call[c].op = "rearm" /\ call[c].pc = "check" /\ Form[c] = "array"
  /\ call'[c].op = "rearm" /\ call'[c].pc = "rearm" /\ call'[c].undo = call[c].undo
  /\ Todo(c)' = Dom(c) /\ Done(c)' = {}
  /\ belief'[c] = belief[c]

(* it is over,                                                             *)
Over(c) ==
  /\ call'[c] = NoCall /\ Todo(c) = {Cur(c)}
  /\ call[c].op = "rearm" /\ Form[c] = "array" => call[c].pc = "rearm"
  /\ belief'[c] = IF call[c].undo \/ call[c].op \in Owning THEN belief[c]
                  ELSE [j \in DOMAIN Wants[c] |-> Told(call[c].op)]

(* it has failed and there is nothing to undo,                             *)
GivenUp(c) ==
  /\ call'[c] = NoCall /\ ~call[c].undo /\ Undone(c, Cur(c)) = <<>>
  /\ belief'[c] = belief[c]

(* or its error path begins.                                               *)
Undoing(c) ==
  /\ ~call[c].undo /\ call'[c].undo /\ Form[c] # "single"
  /\ UndoOf(call[c].op) # "none" /\ call'[c].op = UndoOf(call[c].op)
  /\ call'[c].pc = "check"
  /\ Todo(c)' = IF Form[c] = "bulk" /\ call[c].op = "deassert" THEN {Cur(c)} \cup Done(c)
                ELSE Done(c)
  /\ Done(c)' = {}
  /\ belief'[c] = belief[c]

(* It stays at the same control.                                           *)
Moved(c, pc) ==
  /\ call'[c].pc = pc /\ call'[c].op = call[c].op /\ call'[c].undo = call[c].undo
  /\ call'[c].todo = call[c].todo /\ call'[c].done = call[c].done
  /\ belief'[c] = belief[c]

Proceeded(c) == Onward(c) \/ Again(c) \/ Over(c)
Failed(c) == GivenUp(c) \/ Undoing(c) \/ (call[c].undo /\ Proceeded(c))

-----------------------------------------------------------------------------
(* What the steps of the calls do, control by control.                     *)
Supported(c) ==
  \/ call[c].op \in Ops \/ call[c].op = "deassert"
  \/ call[c].op = "assert" /\ ctl[Control(c)].shared

Conflict(c) ==
  IF call[c].op = "reset" THEN ctl[Control(c)].deassert_count # 0
  ELSE ctl[Control(c)].triggered_count # 0

NullStep(c) ==
  /\ call[c].pc \in {"check", "rearm"} /\ Control(c) = NULL
  /\ Proceeded(c) /\ UNCHANGED <<ctl, line>>

CheckStep(c) ==
  /\ call[c].pc = "check" /\ call[c].op \in {"reset", "assert", "deassert"}
  /\ Control(c) \in Rstcs /\ UNCHANGED <<ctl, line>>
  /\ \/ Failed(c) /\ \/ ~Supported(c)
                     \/ ctl[Control(c)].shared /\ Conflict(c)
                     \/ ~ctl[Control(c)].shared /\ ~ctl[Control(c)].acquired
     \/ /\ Supported(c) /\ ctl[Control(c)].shared
        /\ Moved(c, IF call[c].op = "assert" THEN "nonzero" ELSE "count")
     \/ /\ Supported(c) /\ ~ctl[Control(c)].shared /\ ctl[Control(c)].acquired
        /\ Moved(c, "ops")

NonzeroStep(c) ==
  /\ call[c].pc = "nonzero" /\ call[c].op = "assert"
  /\ Control(c) \in Rstcs /\ UNCHANGED <<ctl, line>>
  /\ \/ ctl[Control(c)].deassert_count = 0 /\ Failed(c)
     \/ Moved(c, "count")

CountStep(c) ==
  LET f == Counted(call[c].op, ctl[Control(c)])
  IN /\ call[c].pc = "count" /\ call[c].op \in {"reset", "assert", "deassert"}
     /\ Control(c) \in Rstcs /\ UNCHANGED line
     /\ ctl' = [ctl EXCEPT ![Control(c)] = f]
     /\ \/ Decides(call[c].op, f) /\ Moved(c, "ops")
        \/ Proceeded(c)

OpsStep(c) ==
  LET id == ctl[Control(c)].id
      op == call[c].op
  IN /\ call[c].pc = "ops" /\ op \in {"reset", "assert", "deassert"}
     /\ Control(c) \in Rstcs /\ UNCHANGED ctl
     /\ \/ op \notin Ops /\ Proceeded(c) /\ UNCHANGED line
        \/ /\ op \in Ops /\ Proceeded(c)
           /\ line' = [line EXCEPT ![id] = IF op = "assert" THEN "asserted" ELSE "deasserted"]
        \/ /\ op = "reset" /\ ctl[Control(c)].shared /\ <<c, op, id>> \in Faults
           /\ Moved(c, "uncount") /\ UNCHANGED line
        \/ /\ ~(op = "reset" /\ ctl[Control(c)].shared) /\ <<c, op, id>> \in Faults
           /\ Failed(c) /\ UNCHANGED line

UncountStep(c) ==
  /\ call[c].pc = "uncount" /\ call[c].op = "reset"
  /\ Control(c) \in Rstcs /\ UNCHANGED line
  /\ ctl' = Untrigger(Control(c)) /\ Failed(c)

RearmCheckStep(c) ==
  LET f == ctl[Control(c)]
  IN /\ call[c].pc = "check" /\ call[c].op = "rearm"
     /\ Control(c) \in Rstcs /\ UNCHANGED <<ctl, line>>
     /\ \/ ((f.shared /\ f.deassert_count # 0) \/ ~f.shared) /\ Failed(c)
        \/ Form[c] = "array" /\ Proceeded(c)
        \/ Form[c] # "array" /\ Moved(c, "rearm")

RearmStep(c) ==
  /\ call[c].pc = "rearm" /\ call[c].op = "rearm"
  /\ Control(c) \in Rstcs /\ UNCHANGED line
  /\ ctl' = IF ctl[Control(c)].shared THEN Untrigger(Control(c)) ELSE ctl
  /\ Proceeded(c)

AcquireStep(c) ==
  LET r == Control(c)
  IN /\ call[c].pc = "check" /\ call[c].op = "acquire"
     /\ r \in Rstcs /\ UNCHANGED line
     /\ \/ ~ctl[r].acquired /\ Failed(c) /\ UNCHANGED ctl
        \/ /\ ctl[r].acquired \/ ~Busy(r)
           /\ Proceeded(c) /\ ctl' = [ctl EXCEPT ![r].acquired = TRUE]

ReleaseStep(c) ==
  /\ call[c].pc = "check" /\ call[c].op = "release"
  /\ Control(c) \in Rstcs /\ UNCHANGED line
  /\ Proceeded(c) /\ ctl' = [ctl EXCEPT ![Control(c)].acquired = FALSE]

OpStep(c) ==
  \/ NullStep(c) \/ CheckStep(c) \/ NonzeroStep(c) \/ CountStep(c) \/ OpsStep(c)
  \/ UncountStep(c) \/ RearmCheckStep(c) \/ RearmStep(c) \/ AcquireStep(c) \/ ReleaseStep(c)

(* What they leave alone.                                                  *)
Framed(c) ==
  /\ CallTypes' /\ Shape' /\ Others(c)
  /\ call[c].pc \in Operating
  /\ UNCHANGED <<registered, head, handle>>

(* What they do to the fields of a control.                                *)
Kept ==
  \A r \in Rstcs : /\ ctl'[r].id = ctl[r].id /\ ctl'[r].refcnt = ctl[r].refcnt
                   /\ ctl'[r].shared = ctl[r].shared

SameOwner == \A r \in Rstcs : ctl'[r].acquired = ctl[r].acquired

SameCounts ==
  \A r \in Rstcs : /\ ctl'[r].deassert_count = ctl[r].deassert_count
                   /\ ctl'[r].triggered_count = ctl[r].triggered_count

(* The counters of r change by d and t.                                    *)
Changed(r, d, t) ==
  /\ ctl'[r].deassert_count = ctl[r].deassert_count + d
  /\ ctl'[r].triggered_count = ctl[r].triggered_count + t

CountsOf(op) == IF op = "deassert" THEN 1 ELSE IF op = "assert" THEN -1 ELSE 0
TriggersOf(op) == IF op = "reset" THEN 1 ELSE 0

(* Only the counting steps change counters and only acquiring and          *)
(* releasing the owner.                                                    *)
Effects(c) ==
  /\ Kept /\ \A q \in Rstcs : q # Control(c) => ctl'[q] = ctl[q]
  /\ call[c].op \notin Owning \/ Control(c) = NULL => SameOwner
  /\ call[c].pc \notin {"count", "uncount", "rearm"} => SameCounts
  /\ CountStep(c) => Changed(Control(c), CountsOf(call[c].op), TriggersOf(call[c].op))
  /\ UncountStep(c) => Changed(Control(c), 0, -1)
  /\ RearmStep(c) /\ ctl[Control(c)].shared => Changed(Control(c), 0, -1)
  /\ RearmStep(c) /\ ~ctl[Control(c)].shared => SameCounts

GetStep(c) ==
  /\ call[c].pc = "idle" /\ handle[c] = <<>> /\ call'[c].op = "get" /\ call'[c].pc = "get"
  /\ call'[c].todo = <<>> /\ call'[c].done = <<>> /\ call'[c].undo = FALSE
  /\ call'[c].shared \in BOOLEAN /\ call'[c].acquired \in BOOLEAN
  /\ call'[c].shared => ~call'[c].acquired
  /\ belief' = belief /\ UNCHANGED <<registered, head, ctl, line, handle>>

(* The next entry of a call that gets controls.                            *)
Entry(c) == Len(handle[c]) + 1

Taken(c, x) ==
  /\ handle'[c] = Append(handle[c], x)
  /\ \A d \in Consumers : d # c => handle'[d] = handle[d]
  /\ call'[c] = NoCall \/ call'[c] = call[c]

EntryNull(c) == Taken(c, NULL) /\ UNCHANGED <<head, ctl>>

EntryNew(c, r) ==
  /\ Taken(c, r) /\ r \in Rstcs /\ r \notin Range(head) /\ head' = <<r>> \o head
  /\ Creates(Wants[c][Entry(c)], call[c].shared, call[c].acquired)
  /\ ctl'[r].id = Wants[c][Entry(c)] /\ ctl'[r].refcnt = 1
  /\ ctl'[r].acquired = call[c].acquired /\ ctl'[r].shared = call[c].shared
  /\ ctl'[r].deassert_count = 0 /\ ctl'[r].triggered_count = 0
  /\ \A q \in Rstcs : q # r => ctl'[q] = ctl[q]

EntryJoin(c, r) ==
  /\ Taken(c, r) /\ r \in Rstcs /\ UNCHANGED head
  /\ r = FirstFor(Wants[c][Entry(c)]) /\ r # NULL /\ ctl[r].shared /\ call[c].shared
  /\ ctl'[r].id = ctl[r].id /\ ctl'[r].refcnt = ctl[r].refcnt + 1
  /\ ctl'[r].acquired = ctl[r].acquired /\ ctl'[r].shared = ctl[r].shared
  /\ ctl'[r].deassert_count = ctl[r].deassert_count
  /\ ctl'[r].triggered_count = ctl[r].triggered_count
  /\ \A q \in Rstcs : q # r => ctl'[q] = ctl[q]

EntryFail(c) ==
  /\ call'[c].op = call[c].op /\ call'[c].pc = "put" /\ UNCHANGED <<handle, head, ctl>>
  /\ call'[c].todo = <<>> /\ call'[c].done = <<>> /\ call'[c].undo = FALSE

EntryStep(c) ==
  /\ call[c].pc = "get" /\ UNCHANGED <<registered, line, belief>>
  /\ \/ EntryNull(c) \/ EntryFail(c)
     \/ /\ Wants[c][Entry(c)] # NULL
        /\ \E r \in Rstcs : EntryNew(c, r) \/ EntryJoin(c, r)

-----------------------------------------------------------------------------
(* References.                                                             *)
Refs ==
  /\ Once(head)
  /\ \A r \in Rstcs : /\ ctl[r].refcnt = Cardinality(Handles(r))
                      /\ r \in Range(head) <=> Handles(r) # {}
  /\ \A c \in Consumers : \A i \in Real(c) : ctl[handle[c][i]].id = Wants[c][i]

(* Everything a consumer has is put.                                       *)
Gone(c) == {k \in 1 .. Len(head) : head[k] \in Last(c)}

DropStep(c) ==
  /\ call'[c] = NoCall /\ handle'[c] = <<>> /\ belief'[c] = Unknown(c)
  /\ handle' \in [Consumers -> Seq(Rstcs \cup {NULL})]
  /\ \A d \in Consumers : d # c => handle'[d] = handle[d]
  /\ UNCHANGED <<registered, line>> /\ head' = Without(head, Gone(c))
  /\ ctl' = [r \in Rstcs |-> ctl'[r]] /\ \A r \in Last(c) : ctl'[r] = Fresh
  /\ \A r \in Rstcs \ Last(c) :
       /\ ctl'[r].refcnt = ctl[r].refcnt - Cardinality(Held(c, r))
       /\ ctl'[r].refcnt \in Nat => ctl'[r] \in CtlRecs
       /\ ctl'[r].id = ctl[r].id
       /\ ctl'[r].acquired = ctl[r].acquired /\ ctl'[r].shared = ctl[r].shared
       /\ ctl'[r].deassert_count = ctl[r].deassert_count
       /\ ctl'[r].triggered_count = ctl[r].triggered_count

OopsStep(c) ==
  /\ call'[c].op = call[c].op /\ call'[c].pc = "oops"
  /\ call'[c].todo = <<>> /\ call'[c].done = <<>> /\ call'[c].undo = FALSE
  /\ UNCHANGED <<registered, head, ctl, line, handle, belief>>

(* A call begins.                                                          *)
Begun(c, op) ==
  /\ op \in CallOps /\ Balanced(c, op)
  /\ call[c] = NoCall /\ Dom(c) = DOMAIN Wants[c] /\ handle[c] # <<>>
  /\ call'[c].op = op /\ call'[c].pc = "check" /\ call'[c].undo = FALSE
  /\ call'[c].todo = Order(c, op) /\ call'[c].done = <<>>
  /\ Todo(c)' = Dom(c) /\ Done(c)' = {}
  /\ \A i \in Dom(c) : belief'[c][i] = IF ~Shared(c, i) THEN "unknown" ELSE belief[c][i]
  /\ UNCHANGED <<registered, head, ctl, line, handle>>

BeginStep(c) == \E op \in CallOps : Begun(c, op)

-----------------------------------------------------------------------------
(* Every step of the system.                                               *)
Passive == UNCHANGED <<head, ctl, line, handle, call, belief>>

PutStep(c) ==
  /\ DropStep(c)
  /\ \/ call[c].pc = "put"
     \/ /\ call[c].pc = "idle"
        /\ \A i \in Dom(c) : Shared(c, i) => belief[c][i] \in {"unknown", "asserted"}

StepOf(c) ==
  /\ Others(c)
  /\ \/ Framed(c) /\ OpStep(c) /\ Effects(c)
     \/ GetStep(c) \/ EntryStep(c) \/ PutStep(c) \/ BeginStep(c)
     \/ OopsStep(c) /\ call[c].pc \in {"put", "idle"}

-----------------------------------------------------------------------------
(* Basic facts.                                                            *)

(* Sequences as sets.                                                      *)
LEMMA RangeIs ==
  ASSUME NEW S, NEW s \in Seq(S)
  PROVE  /\ \A x : x \in Range(s) <=> OnList(s, x)
         /\ Range(s) \subseteq S
<1>1. DOMAIN s = 1 .. Len(s) /\ \A k \in 1 .. Len(s) : s[k] \in S
  OBVIOUS
<1>2. QED
  BY <1>1, Zenon DEF Range, OnList

LEMMA EmptyIs == <<>> \in Seq(Nat) /\ Once(<<>>) /\ Range(<<>>) = {}
  BY DEF Once, Range

LEMMA NoCallIs ==
  /\ NoCall \in CallRecs /\ PcFits(NoCall)
  /\ NoCall.op = "none" /\ NoCall.pc = "idle" /\ NoCall.undo = FALSE
  /\ NoCall.todo = <<>> /\ NoCall.done = <<>>
  BY EmptyIs DEF NoCall, CallRecs, PcFits, Operating

LEMMA CallFields ==
  ASSUME CallTypes, NEW c \in Consumers
  PROVE  /\ call[c] \in CallRecs /\ call[c].todo \in Seq(Nat) /\ call[c].done \in Seq(Nat)
         /\ call[c].undo \in BOOLEAN /\ call[c].op \in CallOps \cup {"none", "get"}
         /\ call[c].pc \in Operating \cup {"idle", "get", "put", "oops"}
         /\ call[c].shared \in BOOLEAN /\ call[c].acquired \in BOOLEAN
         /\ call[c].optional \in BOOLEAN
<1>1. call[c] \in CallRecs
  BY Zenon DEF CallTypes
<1>2. QED
  BY <1>1 DEF CallRecs

LEMMA ConstantTypes ==
  ASSUME NEW c \in Consumers
  PROVE  /\ Wants[c] \in Seq(Ids \cup {NULL}) /\ Len(Wants[c]) \in Nat
         /\ DOMAIN Wants[c] = 1 .. Len(Wants[c])
         /\ Form[c] \in {"single", "array", "bulk"}
         /\ Form[c] = "single" => Len(Wants[c]) = 1
  BY ResetAssumption

LEMMA HandleTypes ==
  ASSUME CtlTypes, NEW c \in Consumers
  PROVE  /\ handle[c] \in Seq(Rstcs \cup {NULL}) /\ Len(handle[c]) \in Nat
         /\ DOMAIN handle[c] = Dom(c)
         /\ \A i \in Dom(c) : handle[c][i] \in Rstcs \cup {NULL}
         /\ \A i \in Real(c) : i \in Dom(c) /\ handle[c][i] \in Rstcs /\ ctl[handle[c][i]] \in CtlRecs
<1>1. handle[c] \in Seq(Rstcs \cup {NULL})
  BY Zenon DEF CtlTypes
<1>2. Len(handle[c]) \in Nat /\ DOMAIN handle[c] = Dom(c)
      /\ \A i \in Dom(c) : handle[c][i] \in Rstcs \cup {NULL}
  BY <1>1 DEF Dom
<1>3. QED
  BY <1>1, <1>2, Zenon DEF Real, CtlTypes

LEMMA TailIs ==
  ASSUME NEW S, NEW s \in Seq(S), s # <<>>, Once(s)
  PROVE  /\ Head(s) \in S /\ Head(s) \in Range(s)
         /\ Tail(s) \in Seq(S) /\ Once(Tail(s))
         /\ Range(Tail(s)) = Range(s) \ {Head(s)}
         /\ Len(s) = 1 => Range(s) = {Head(s)}
         /\ Len(s) # 1 => Tail(s) # <<>>
<1> DEFINE n == Len(s)
           t == Tail(s)
<1>1. n \in Nat \ {0} /\ Head(s) = s[1] /\ \A k \in 1 .. n : s[k] \in S
  OBVIOUS
<1>2. t \in Seq(S) /\ Len(t) = n - 1 /\ \A k \in 1 .. n - 1 : t[k] = s[k + 1]
  OBVIOUS
<1> HIDE DEF t
<1>3. Head(s) \in S /\ OnList(s, Head(s))
  BY <1>1 DEF OnList
<1>4. Once(t)
  BY <1>1, <1>2 DEF Once
<1>5. ASSUME NEW x PROVE OnList(t, x) <=> OnList(s, x) /\ x # Head(s)
  <2>1. ASSUME NEW k \in 1 .. n - 1, t[k] = x
        PROVE  OnList(s, x) /\ x # Head(s)
    <3>1. k + 1 \in 1 .. n /\ s[k + 1] = x /\ k + 1 # 1 /\ 1 \in 1 .. n
      BY <1>1, <1>2, <2>1
    <3>2. QED
      BY <1>1, <3>1, Zenon DEF OnList, Once
  <2>2. ASSUME NEW k \in 1 .. n, s[k] = x, x # Head(s)
        PROVE  OnList(t, x)
    <3>1. k - 1 \in 1 .. n - 1 /\ (k - 1) + 1 = k
      BY <1>1, <2>2
    <3>2. t[k - 1] = x
      BY <1>2, <2>2, <3>1, Zenon
    <3>3. QED
      BY <1>2, <3>1, <3>2, Zenon DEF OnList
  <2>3. QED
    BY <1>2, <2>1, <2>2, Zenon DEF OnList
<1>6. n # 1 => t # <<>>
  BY <1>1, <1>2
<1>7. ASSUME n = 1 PROVE \A x : OnList(s, x) => x = Head(s)
  BY <1>1, <1>7 DEF OnList
<1>8. /\ \A x : x \in Range(s) <=> OnList(s, x)
      /\ \A x : x \in Range(t) <=> OnList(t, x)
  BY <1>2, RangeIs, Zenon
<1>9. /\ Range(t) = Range(s) \ {Head(s)}
      /\ n = 1 => Range(s) = {Head(s)}
  BY <1>3, <1>5, <1>7, <1>8, Zenon
<1>10. QED
  BY <1>2, <1>3, <1>4, <1>6, <1>8, <1>9, Zenon DEF t

LEMMA OperatingFacts ==
  ASSUME CallTypes, CtlTypes, Shape, NEW c \in Consumers, call[c].pc \in Operating
  PROVE  /\ call[c].todo # <<>> /\ Once(call[c].todo) /\ Once(call[c].done)
         /\ call[c].op \in CallOps /\ Todo(c) \cap Done(c) = {}
         /\ Todo(c) \cup Done(c) \subseteq Dom(c) /\ Len(handle[c]) = Len(Wants[c])
         /\ Cur(c) \in Todo(c) /\ Cur(c) \in Nat /\ Cur(c) \in Dom(c)
         /\ (Len(call[c].todo) = 1 => Todo(c) = {Cur(c)})
         /\ ~call[c].undo => Todo(c) \cup Done(c) = Dom(c)
         /\ Dom(c) = DOMAIN Wants[c] /\ handle[c] # <<>>
<1>1. /\ call[c].todo # <<>> /\ Once(call[c].todo) /\ Once(call[c].done)
      /\ call[c].op \in CallOps /\ Todo(c) \cap Done(c) = {}
      /\ Todo(c) \cup Done(c) \subseteq Dom(c) /\ Len(handle[c]) = Len(Wants[c])
      /\ ~call[c].undo => Todo(c) \cup Done(c) = Dom(c)
  BY Zenon DEF Shape, PcFits, Visits
<1>2. call[c].todo \in Seq(Nat)
  BY CallFields, Zenon
<1>3. /\ Cur(c) \in Nat /\ Cur(c) \in Todo(c)
      /\ Len(call[c].todo) = 1 => Todo(c) = {Cur(c)}
  BY <1>1, <1>2, TailIs, Zenon DEF Cur, Todo
<1>4. Cur(c) \in Dom(c)
  BY <1>1, <1>3, Zenon
<1>5. handle[c] # <<>> /\ Dom(c) = DOMAIN Wants[c]
  BY <1>1, <1>4, ConstantTypes DEF Dom
<1>6. QED
  BY <1>1, <1>3, <1>4, <1>5, Zenon

LEMMA CtlFields ==
  ASSUME CtlTypes, NEW r \in Rstcs
  PROVE  /\ ctl[r] \in CtlRecs /\ ctl[r].id \in Ids \cup {NULL} /\ ctl[r].refcnt \in Nat
         /\ ctl[r].acquired \in BOOLEAN /\ ctl[r].shared \in BOOLEAN
         /\ ctl[r].deassert_count \in Int /\ ctl[r].triggered_count \in Int
<1>1. ctl[r] \in CtlRecs
  BY Zenon DEF CtlTypes
<1>2. QED
  BY <1>1 DEF CtlRecs

LEMMA AppendIs ==
  ASSUME NEW S, NEW s \in Seq(S), NEW x \in S
  PROVE  /\ Append(s, x) \in Seq(S) /\ Len(Append(s, x)) = Len(s) + 1
         /\ Append(s, x)[Len(s) + 1] = x
         /\ \A k \in 1 .. Len(s) : Append(s, x)[k] = s[k]
  OBVIOUS

LEMMA GettingFacts ==
  ASSUME CallTypes, CtlTypes, Shape, NEW c \in Consumers, call[c].pc = "get"
  PROVE  /\ call[c].todo = <<>> /\ call[c].done = <<>> /\ call[c].op \in {"none", "get"}
         /\ call[c].undo = FALSE /\ Len(handle[c]) < Len(Wants[c])
         /\ Entry(c) \in DOMAIN Wants[c] /\ Entry(c) \notin Dom(c)
         /\ Len(handle[c]) \in Nat /\ Entry(c) = Len(handle[c]) + 1
<1>1. /\ call[c].todo = <<>> /\ call[c].done = <<>> /\ call[c].op \in {"none", "get"}
      /\ call[c].undo = FALSE /\ Len(handle[c]) < Len(Wants[c])
  BY CallFields, Zenon DEF Shape, PcFits
<1>2. QED
  BY <1>1, HandleTypes, ConstantTypes DEF Entry, Dom

(* What list_add() makes of a list in which nothing is twice.              *)
LEMMA ListAdd ==
  ASSUME NEW S, NEW list \in Seq(S), Once(list), NEW x \in S, ~OnList(list, x)
  PROVE  /\ <<x>> \o list \in Seq(S) /\ Once(<<x>> \o list)
         /\ \A y : OnList(<<x>> \o list, y) <=> (y = x \/ OnList(list, y))
<1> DEFINE new == <<x>> \o list
<1>1. /\ new \in Seq(S) /\ Len(new) = Len(list) + 1 /\ new[1] = x
      /\ \A k \in 1 .. Len(list) : new[k + 1] = list[k]
  OBVIOUS
<1> HIDE DEF new
<1>2. ASSUME NEW k \in 1 .. Len(new), k # 1
      PROVE  k - 1 \in 1 .. Len(list) /\ new[k] = list[k - 1] /\ new[k] # x
  <2>1. k - 1 \in 1 .. Len(list) /\ new[(k - 1) + 1] = list[k - 1] /\ (k - 1) + 1 = k
    BY <1>1, <1>2
  <2>2. QED
    BY <2>1, Zenon DEF OnList
<1>3. ASSUME NEW j \in 1 .. Len(new), NEW k \in 1 .. Len(new), new[j] = new[k], j # 1, k # 1
      PROVE  j = k
  <2>1. j - 1 = k - 1
    BY <1>2, <1>3, Zenon DEF Once
  <2>2. QED
    BY <2>1
<1>4. Once(new)
  BY <1>1, <1>2, <1>3, Zenon DEF Once
<1>5. ASSUME NEW k \in 1 .. Len(list) PROVE OnList(new, list[k])
  BY <1>1 DEF OnList
<1>6. OnList(new, x)
  BY <1>1 DEF OnList
<1>7. ASSUME NEW k \in 1 .. Len(new) PROVE new[k] = x \/ OnList(list, new[k])
  BY <1>1, <1>2, Zenon DEF OnList
<1>8. \A y : OnList(new, y) <=> (y = x \/ OnList(list, y))
  BY <1>5, <1>6, <1>7, Zenon DEF OnList
<1>9. QED
  BY <1>1, <1>4, <1>8, Zenon DEF new

LEMMA PushIs ==
  ASSUME NEW S, NEW s \in Seq(S), Once(s), NEW x \in S, x \notin Range(s)
  PROVE  /\ <<x>> \o s \in Seq(S) /\ Once(<<x>> \o s) /\ <<x>> \o s # <<>>
         /\ Range(<<x>> \o s) = {x} \cup Range(s)
         /\ Len(<<x>> \o s) = Len(s) + 1
<1> DEFINE t == <<x>> \o s
<1>1. Len(t) = Len(s) + 1 /\ t # <<>>
  OBVIOUS
<1> HIDE DEF t
<1>2. t \in Seq(S) /\ Once(t) /\ \A y : OnList(t, y) <=> (y = x \/ OnList(s, y))
  BY RangeIs, ListAdd, Zenon DEF t
<1>3. Range(t) = {x} \cup Range(s)
  <2>1. \A y : (y \in Range(t) <=> OnList(t, y)) /\ (y \in Range(s) <=> OnList(s, y))
    BY <1>2, RangeIs, Zenon
  <2>2. QED
    BY <1>2, <2>1, Zenon
<1>4. QED
  BY <1>1, <1>2, <1>3, Zenon DEF t

-----------------------------------------------------------------------------
(* The holders of a control.                                               *)

FirstIs(id) ==
  \/ FirstFor(id) = NULL /\ \A r \in Range(head) : ctl[r].id # id
  \/ FirstFor(id) # NULL /\ FirstFor(id) \in Range(head) /\ ctl[FirstFor(id)].id = id

Numbers == UNION {DOMAIN Wants[c] : c \in Consumers}

HandlesOf(h, r) ==
  {ci \in Consumers \X Numbers : ci[2] \in DOMAIN h[ci[1]] /\ h[ci[1]][ci[2]] = r}

(* The facts about finite sets, lists and least numbers that the proofs    *)
(* rest on (proved as LawsHold).                                           *)
Laws ==
  /\ \A h, r : IsFiniteSet(HandlesOf(h, r))
  /\ \A x : Cardinality({x}) = 1
  /\ \A S : IsFiniteSet(S) =>
       /\ Cardinality(S) \in Nat /\ (Cardinality(S) = 0 <=> S = {})
       /\ \A x : x \notin S => Cardinality(S \cup {x}) = Cardinality(S) + 1
       /\ \A T \in SUBSET S : /\ IsFiniteSet(T) /\ Cardinality(T) \in Nat
                              /\ Cardinality(T) <= Cardinality(S)
                              /\ IsFiniteSet(S \ T)
                              /\ Cardinality(S \ T) = Cardinality(S) - Cardinality(T)
       /\ \A T : ExistsBijection(S, T) => Cardinality(T) = Cardinality(S)
  /\ \A T \in SUBSET Nat : T # {} => Min(T) \in T
  /\ \A s \in Seq(Rstcs) : Once(s) => \A J :
       /\ Without(s, J) \in Seq(Rstcs) /\ Once(Without(s, J))
       /\ \A y : OnList(Without(s, J), y) <=> \E j \in (1 .. Len(s)) \ J : s[j] = y

LEMMA FirstForIs ==
  ASSUME Laws, CtlTypes, NEW id
  PROVE  FirstIs(id)
<1> DEFINE K == {k \in DOMAIN head : ctl[head[k]].id = id}
<1>1. head \in Seq(Rstcs) /\ NULL \notin Rstcs
  BY ResetAssumption, Zenon DEF CtlTypes
<1>2. DOMAIN head = 1 .. Len(head) /\ K \in SUBSET Nat /\ \A k \in 1 .. Len(head) : head[k] \in Rstcs
  BY <1>1
<1>3. CASE K = {}
  <2>1. FirstFor(id) = NULL
    BY <1>3, Zenon DEF FirstFor
  <2>2. QED
    BY <1>3, <2>1, Zenon DEF Range, FirstIs
<1>4. CASE K # {}
  <2>1. FirstFor(id) = head[Min(K)]
    BY <1>4, Zenon DEF FirstFor
  <2>2. Min(K) \in K
    <3> HIDE DEF K
    <3>1. QED
      BY <1>2, <1>4, Zenon DEF Laws
  <2>3. QED
    BY <1>1, <1>2, <2>1, <2>2, Zenon DEF Range, FirstIs
<1>5. QED
  BY <1>3, <1>4, Zenon

LEMMA HandlesAre ==
  ASSUME NEW h \in [Consumers -> Seq(Rstcs \cup {NULL})], NEW r,
         \A c \in Consumers : Len(h[c]) <= Len(Wants[c])
  PROVE  /\ \A c \in Consumers : \A i :
              <<c, i>> \in HandlesOf(h, r) <=> i \in 1 .. Len(h[c]) /\ h[c][i] = r
         /\ \A ci \in HandlesOf(h, r) : ci \in Consumers \X Numbers /\ ci = <<ci[1], ci[2]>>
<1>1. \A ci \in HandlesOf(h, r) : ci \in Consumers \X Numbers
  BY Zenon DEF HandlesOf
<1>2. ASSUME NEW c \in Consumers, NEW i
      PROVE  <<c, i>> \in HandlesOf(h, r) <=> i \in 1 .. Len(h[c]) /\ h[c][i] = r
  <2>1. h[c] \in Seq(Rstcs \cup {NULL}) /\ Len(h[c]) <= Len(Wants[c])
    BY Zenon
  <2>2. DOMAIN h[c] = 1 .. Len(h[c]) /\ 1 .. Len(h[c]) \subseteq DOMAIN Wants[c]
    BY <2>1, ConstantTypes
  <2>3. <<c, i>> \in HandlesOf(h, r) <=> /\ c \in Consumers /\ i \in Numbers
                                        /\ i \in DOMAIN h[c] /\ h[c][i] = r
    BY DEF HandlesOf
  <2>4. QED
    BY <2>2, <2>3, Zenon DEF Numbers
<1>3. \A ci \in Consumers \X Numbers : ci = <<ci[1], ci[2]>>
  OBVIOUS
<1>4. QED
  BY <1>1, <1>2, <1>3, Zenon

LEMMA HandlesNow ==
  ASSUME Laws, CtlTypes, Shape, NEW r
  PROVE  /\ \A c \in Consumers : \A i : <<c, i>> \in Handles(r) <=> i \in Dom(c) /\ handle[c][i] = r
         /\ \A ci \in Handles(r) : ci \in Consumers \X Numbers /\ ci = <<ci[1], ci[2]>>
         /\ IsFiniteSet(Handles(r)) /\ Cardinality(Handles(r)) \in Nat
<1>1. Handles(r) = HandlesOf(handle, r)
  BY Zenon DEF Handles, HandlesOf, Numbers
<1>2. /\ handle \in [Consumers -> Seq(Rstcs \cup {NULL})]
      /\ \A c \in Consumers : Len(handle[c]) <= Len(Wants[c])
  BY Zenon DEF CtlTypes, Shape
<1>3. /\ \A c \in Consumers : \A i : <<c, i>> \in HandlesOf(handle, r) <=> i \in Dom(c) /\ handle[c][i] = r
      /\ \A ci \in HandlesOf(handle, r) : ci \in Consumers \X Numbers /\ ci = <<ci[1], ci[2]>>
  BY <1>2, HandlesAre, Zenon DEF Dom
<1>4. IsFiniteSet(HandlesOf(handle, r)) /\ Cardinality(HandlesOf(handle, r)) \in Nat
  BY Zenon DEF Laws
<1>5. QED
  BY <1>1, <1>3, <1>4, Zenon

(* The handles of one consumer on a control.                               *)
Its(c, r) == {ci \in Handles(r) : ci[1] = c}

LEMMA ItsCount ==
  ASSUME Laws, CtlTypes, Shape, NEW c \in Consumers, NEW r
  PROVE  /\ Cardinality(Held(c, r)) = Cardinality(Its(c, r))
         /\ Cardinality(Its(c, r)) \in Nat /\ Cardinality(Its(c, r)) <= Cardinality(Handles(r))
         /\ Cardinality(Handles(r) \ Its(c, r)) = Cardinality(Handles(r)) - Cardinality(Its(c, r))
         /\ IsFiniteSet(Handles(r) \ Its(c, r))
         /\ Held(c, r) = {} <=> Its(c, r) = {}
<1> DEFINE f == [ci \in Its(c, r) |-> ci[2]]
<1>1. IsFiniteSet(Handles(r)) /\ Its(c, r) \in SUBSET Handles(r)
  BY HandlesNow, Zenon DEF Its
<1>2. /\ IsFiniteSet(Its(c, r)) /\ Cardinality(Its(c, r)) \in Nat
      /\ Cardinality(Its(c, r)) <= Cardinality(Handles(r))
  BY <1>1, Zenon DEF Laws
<1>3. \A ci : ci \in Its(c, r) <=> ci = <<c, ci[2]>> /\ ci[2] \in Held(c, r)
  <2>1. \A i : i \in Held(c, r) <=> i \in Dom(c) /\ handle[c][i] = r
    BY HandleTypes, Zenon DEF Held
  <2>2. ASSUME NEW ci \in Its(c, r) PROVE ci = <<c, ci[2]>> /\ ci[2] \in Held(c, r)
    <3>1. ci \in Handles(r) /\ ci[1] = c
      BY <2>2, Zenon DEF Its
    <3>2. ci = <<c, ci[2]>>
      BY <3>1, HandlesNow
    <3>3. <<c, ci[2]>> \in Handles(r)
      BY <3>1, <3>2
    <3>4. QED
      BY <2>1, <3>2, <3>3, HandlesNow
  <2>3. ASSUME NEW ci, ci = <<c, ci[2]>>, ci[2] \in Held(c, r) PROVE ci \in Its(c, r)
    <3>1. <<c, ci[2]>> \in Handles(r)
      BY <2>1, <2>3, HandlesNow, Zenon
    <3>2. ci \in Handles(r) /\ ci[1] = c
      BY <2>3, <3>1
    <3>3. QED
      BY <3>2, Zenon DEF Its
  <2>4. QED
    BY <2>2, <2>3, Zenon
<1>4. ExistsBijection(Its(c, r), Held(c, r))
  <2>1. f \in [Its(c, r) -> Held(c, r)]
    BY <1>3, Zenon
  <2>2. \A x, y \in Its(c, r) : x[2] = y[2] => x = y
    BY <1>3
  <2>3. ASSUME NEW i \in Held(c, r) PROVE \E x \in Its(c, r) : x[2] = i
    <3>1. <<c, i>> \in Its(c, r) /\ <<c, i>>[2] = i
      BY <1>3, <2>3
    <3>2. QED
      BY <3>1, Zenon
  <2>4. f \in Bijection(Its(c, r), Held(c, r))
    BY <2>1, <2>2, <2>3, Zenon DEF Bijection, Injection, Surjection, IsInjective
  <2>5. QED
    BY <2>4, Zenon DEF ExistsBijection
<1>5. Cardinality(Held(c, r)) = Cardinality(Its(c, r))
  BY <1>2, <1>4, Zenon DEF Laws
<1>6. Cardinality(Handles(r) \ Its(c, r)) = Cardinality(Handles(r)) - Cardinality(Its(c, r))
      /\ IsFiniteSet(Handles(r) \ Its(c, r))
  BY <1>1, Zenon DEF Laws
<1>7. Held(c, r) = {} <=> Its(c, r) = {}
  <2>1. ASSUME NEW i \in Held(c, r) PROVE <<c, i>> \in Its(c, r)
    BY <1>3
  <2>2. ASSUME NEW ci \in Its(c, r) PROVE ci[2] \in Held(c, r)
    BY <1>3, Zenon
  <2>3. QED
    BY <2>1, <2>2, Zenon
<1>8. QED
  BY <1>2, <1>5, <1>6, <1>7, Zenon

LEMMA PairsEqual ==
  ASSUME NEW A, NEW B,
         \A ci \in A : ci \in Consumers \X Numbers /\ ci = <<ci[1], ci[2]>>,
         \A ci \in B : ci \in Consumers \X Numbers /\ ci = <<ci[1], ci[2]>>,
         \A c \in Consumers : \A i : <<c, i>> \in A <=> <<c, i>> \in B
  PROVE  A = B
<1>1. \A ci \in Consumers \X Numbers : ci[1] \in Consumers
  OBVIOUS
<1>2. ASSUME NEW ci \in A PROVE ci \in B
  <2>1. ci[1] \in Consumers /\ ci = <<ci[1], ci[2]>>
    BY <1>1, Zenon
  <2>2. <<ci[1], ci[2]>> \in A
    BY <2>1
  <2>3. <<ci[1], ci[2]>> \in B
    BY <2>1, <2>2, Zenon
  <2>4. QED
    BY <2>1, <2>3
<1>3. ASSUME NEW ci \in B PROVE ci \in A
  <2>1. ci[1] \in Consumers /\ ci = <<ci[1], ci[2]>>
    BY <1>1, Zenon
  <2>2. <<ci[1], ci[2]>> \in B
    BY <2>1
  <2>3. <<ci[1], ci[2]>> \in A
    BY <2>1, <2>2, Zenon
  <2>4. QED
    BY <2>1, <2>3
<1>4. QED
  BY <1>2, <1>3, Zenon

LEMMA HandlesNext ==
  ASSUME Laws, CtlTypes', Shape', NEW r
  PROVE  /\ \A c \in Consumers : \A i : <<c, i>> \in Handles(r)' <=> i \in Dom(c)' /\ handle'[c][i] = r
         /\ \A ci \in Handles(r)' : ci \in Consumers \X Numbers /\ ci = <<ci[1], ci[2]>>
         /\ IsFiniteSet(Handles(r)') /\ Cardinality(Handles(r)') \in Nat
<1>1. Handles(r)' = HandlesOf(handle', r)
  BY Zenon DEF Handles, HandlesOf, Numbers
<1>2. /\ handle' \in [Consumers -> Seq(Rstcs \cup {NULL})]
      /\ \A c \in Consumers : Len(handle'[c]) <= Len(Wants[c])
  BY Zenon DEF CtlTypes, Shape
<1>3. /\ \A c \in Consumers : \A i : <<c, i>> \in HandlesOf(handle', r) <=> i \in Dom(c)' /\ handle'[c][i] = r
      /\ \A ci \in HandlesOf(handle', r) : ci \in Consumers \X Numbers /\ ci = <<ci[1], ci[2]>>
  BY <1>2, HandlesAre, Zenon DEF Dom
<1>4. IsFiniteSet(HandlesOf(handle', r)) /\ Cardinality(HandlesOf(handle', r)) \in Nat
  BY Zenon DEF Laws
<1>5. QED
  BY <1>1, <1>3, <1>4, Zenon

LEMMA SameHandles ==
  ASSUME UNCHANGED handle
  PROVE  /\ \A r : Handles(r)' = Handles(r)
         /\ \A c : Real(c)' = Real(c) /\ Dom(c)' = Dom(c)
  BY Zenon DEF Handles, Real, Dom

LEMMA RefsKept ==
  ASSUME CtlTypes, Refs, UNCHANGED <<head, handle>>, Kept
  PROVE  Refs'
<1>1. \A c \in Consumers : \A i \in Real(c) : handle[c][i] \in Rstcs
  BY HandleTypes, Zenon
<1>2. Once(head') /\ Range(head') = Range(head)
  BY Zenon DEF Refs
<1>3. \A r \in Rstcs : /\ ctl'[r].refcnt = Cardinality(Handles(r)')
                       /\ r \in Range(head) <=> Handles(r)' # {}
  BY SameHandles, Zenon DEF Refs, Kept
<1>4. ASSUME NEW c \in Consumers, NEW i \in Real(c)' PROVE ctl'[handle'[c][i]].id = Wants[c][i]
  <2>1. i \in Real(c)
    BY SameHandles, Zenon
  <2>2. QED
    BY <1>1, <2>1, Zenon DEF Refs, Kept
<1>5. QED
  BY <1>1, <1>2, <1>3, <1>4, Zenon DEF Refs

(* One more handle.                                                        *)
LEMMA RealIs ==
  ASSUME CallTypes, CtlTypes, Shape, NEW c \in Consumers, call[c].pc = "get",
         NEW x \in Rstcs \cup {NULL}, Taken(c, x)
  PROVE  /\ Dom(c)' = Dom(c) \cup {Entry(c)} /\ Entry(c) \notin Dom(c)
         /\ \A i \in Dom(c) : handle'[c][i] = handle[c][i]
         /\ handle'[c][Entry(c)] = x
<1>1. handle[c] \in Seq(Rstcs \cup {NULL}) /\ handle'[c] = Append(handle[c], x)
  BY HandleTypes, Zenon DEF Taken
<1>2. /\ Len(handle'[c]) = Len(handle[c]) + 1 /\ handle'[c][Len(handle[c]) + 1] = x
      /\ \A k \in 1 .. Len(handle[c]) : handle'[c][k] = handle[c][k]
  BY <1>1, AppendIs
<1>3. /\ Entry(c) = Len(handle[c]) + 1 /\ Entry(c) \notin Dom(c) /\ Len(handle[c]) \in Nat
  BY GettingFacts, Zenon
<1>4. Dom(c)' = Dom(c) \cup {Entry(c)}
  BY <1>2, <1>3 DEF Dom
<1>5. QED
  BY <1>2, <1>3, <1>4, Zenon DEF Dom

LEMMA TakenHandles ==
  ASSUME Laws, CallTypes, CtlTypes, Shape, CtlTypes', Shape', NEW c \in Consumers, call[c].pc = "get",
         NEW x \in Rstcs \cup {NULL}, Taken(c, x), NEW r
  PROVE  /\ r # x => Handles(r)' = Handles(r)
         /\ r = x => Handles(r)' = Handles(r) \cup {<<c, Entry(c)>>}
         /\ <<c, Entry(c)>> \notin Handles(r)
<1>1. /\ Dom(c)' = Dom(c) \cup {Entry(c)} /\ Entry(c) \notin Dom(c)
      /\ \A i \in Dom(c) : handle'[c][i] = handle[c][i]
      /\ handle'[c][Entry(c)] = x
      /\ \A d \in Consumers : d # c => handle'[d] = handle[d] /\ Dom(d)' = Dom(d)
  BY RealIs, Zenon DEF Taken, Dom
<1>2. /\ \A d \in Consumers : \A i : <<d, i>> \in Handles(r) <=> i \in Dom(d) /\ handle[d][i] = r
      /\ \A ci \in Handles(r) : ci \in Consumers \X Numbers /\ ci = <<ci[1], ci[2]>>
      /\ \A d \in Consumers : \A i : <<d, i>> \in Handles(r)' <=> i \in Dom(d)' /\ handle'[d][i] = r
      /\ \A ci \in Handles(r)' : ci \in Consumers \X Numbers /\ ci = <<ci[1], ci[2]>>
  BY HandlesNow, HandlesNext, Zenon
<1>3. <<c, Entry(c)>> \notin Handles(r)
  BY <1>1, <1>2, Zenon
<1>4. ASSUME r # x PROVE Handles(r)' = Handles(r)
  <2>1. ASSUME NEW d \in Consumers, NEW i PROVE <<d, i>> \in Handles(r)' <=> <<d, i>> \in Handles(r)
    BY <1>1, <1>2, <1>4
  <2>2. QED
    BY <1>2, <2>1, PairsEqual, Zenon
<1>5. ASSUME r = x PROVE Handles(r)' = Handles(r) \cup {<<c, Entry(c)>>}
  <2> DEFINE B == Handles(r) \cup {<<c, Entry(c)>>}
  <2>1. <<c, Entry(c)>> \in Handles(r)'
    BY <1>1, <1>2, <1>5, Zenon
  <2>2. \A ci \in B : ci \in Consumers \X Numbers /\ ci = <<ci[1], ci[2]>>
    BY <1>2, <2>1, Zenon
  <2>3. ASSUME NEW d \in Consumers, NEW i
        PROVE  <<d, i>> \in Handles(r)' <=> <<d, i>> \in B
    <3>1. <<d, i>> \in B <=> <<d, i>> \in Handles(r) \/ (d = c /\ i = Entry(c))
      OBVIOUS
    <3>2. QED
      BY <1>1, <1>2, <1>5, <3>1
  <2> HIDE DEF B
  <2>4. Handles(r)' = B
    BY <1>2, <2>2, <2>3, PairsEqual, Zenon
  <2>5. QED
    BY <2>4, Zenon DEF B
<1>6. QED
  BY <1>3, <1>4, <1>5, Zenon

LEMMA DropHandles ==
  ASSUME Laws, CallTypes, CtlTypes, Shape, CtlTypes', Shape', NEW c \in Consumers, DropStep(c), NEW r
  PROVE  Handles(r)' = Handles(r) \ Its(c, r)
<1>1. /\ \A d \in Consumers : \A i : <<d, i>> \in Handles(r) <=> i \in Dom(d) /\ handle[d][i] = r
      /\ \A ci \in Handles(r) : ci \in Consumers \X Numbers /\ ci = <<ci[1], ci[2]>>
      /\ \A d \in Consumers : \A i : <<d, i>> \in Handles(r)' <=> i \in Dom(d)' /\ handle'[d][i] = r
      /\ \A ci \in Handles(r)' : ci \in Consumers \X Numbers /\ ci = <<ci[1], ci[2]>>
  BY HandlesNow, HandlesNext, Zenon
<1>2. Dom(c)' = {}
  BY DEF DropStep, Dom
<1>3. \A d \in Consumers : d # c => handle'[d] = handle[d] /\ Dom(d)' = Dom(d)
  BY Zenon DEF DropStep, Dom
<1> DEFINE B == Handles(r) \ Its(c, r)
<1>4. ASSUME NEW d \in Consumers, NEW i
      PROVE  <<d, i>> \in Handles(r)' <=> <<d, i>> \in B
  <2>1. <<d, i>> \in B <=> <<d, i>> \in Handles(r) /\ d # c
    BY DEF Its
  <2>2. QED
    BY <1>1, <1>2, <1>3, <2>1
<1>5. \A ci \in B : ci \in Consumers \X Numbers /\ ci = <<ci[1], ci[2]>>
  BY <1>1, Zenon
<1> HIDE DEF B
<1>6. Handles(r)' = B
  BY <1>1, <1>4, <1>5, PairsEqual, Zenon
<1>7. QED
  BY <1>6, Zenon DEF B

LEMMA HeldOnList ==
  ASSUME Laws, CtlTypes, Shape, Refs, NEW c \in Consumers, NEW i \in Real(c)
  PROVE  handle[c][i] \in Rstcs /\ handle[c][i] \in Range(head) /\ i \in Dom(c)
<1>1. i \in Dom(c) /\ handle[c][i] \in Rstcs
  BY HandleTypes, Zenon
<1>2. <<c, i>> \in Handles(handle[c][i])
  BY <1>1, HandlesNow, Zenon
<1>3. QED
  BY <1>1, <1>2, Zenon DEF Refs

(* The handles of a call that has got one more control x.                  *)
LEMMA RealTaken ==
  ASSUME Laws, CallTypes, CtlTypes, Shape, CtlTypes', Shape', NEW c \in Consumers, call[c].pc = "get",
         NEW x \in Rstcs \cup {NULL}, Taken(c, x), NEW d \in Consumers, NEW i \in Real(d)'
  PROVE  \/ i \in Real(d) /\ handle'[d][i] = handle[d][i]
         \/ d = c /\ i = Entry(c) /\ handle'[d][i] = x /\ x # NULL
<1>1. /\ Dom(c)' = Dom(c) \cup {Entry(c)}
      /\ \A j \in Dom(c) : handle'[c][j] = handle[c][j]
      /\ handle'[c][Entry(c)] = x
      /\ \A e \in Consumers : e # c => handle'[e] = handle[e] /\ Dom(e)' = Dom(e)
  BY RealIs, Zenon DEF Taken, Dom
<1>2. i \in Dom(d)' /\ handle'[d][i] # NULL
  BY Zenon DEF Real
<1>3. QED
  BY <1>1, <1>2 DEF Real

LEMMA EntryRefs ==
  ASSUME Laws, CallTypes, CtlTypes, Shape, Refs, CtlTypes', Shape', NEW c \in Consumers, EntryStep(c)
  PROVE  Refs'
<1>1. call[c].pc = "get" /\ NULL \notin Rstcs /\ head \in Seq(Rstcs)
  BY ResetAssumption, Zenon DEF EntryStep, CtlTypes
<1>2. CASE EntryFail(c)
  BY <1>2, RefsKept, Zenon DEF EntryFail, Kept
<1>3. CASE EntryNull(c)
  <2>1. Taken(c, NULL) /\ UNCHANGED <<head, ctl>>
    BY <1>3, Zenon DEF EntryNull
  <2>2. ASSUME NEW r \in Rstcs PROVE Handles(r)' = Handles(r)
    BY <1>1, <2>1, TakenHandles
  <2>3. ASSUME NEW d \in Consumers, NEW i \in Real(d)' PROVE ctl'[handle'[d][i]].id = Wants[d][i]
    <3>1. i \in Real(d) /\ handle'[d][i] = handle[d][i]
      BY <1>1, <2>1, RealTaken
    <3>2. QED
      BY <2>1, <3>1, Zenon DEF Refs
  <2>4. \A r \in Rstcs : /\ ctl'[r].refcnt = Cardinality(Handles(r)')
                         /\ r \in Range(head') <=> Handles(r)' # {}
    BY <2>1, <2>2, Zenon DEF Refs
  <2>5. QED
    BY <2>1, <2>3, <2>4, Zenon DEF Refs
<1>4. ASSUME NEW r \in Rstcs, EntryNew(c, r) PROVE Refs'
  <2>1. Taken(c, r) /\ r \notin Range(head) /\ head' = <<r>> \o head
    BY <1>4, Zenon DEF EntryNew
  <2>2. Once(head') /\ Range(head') = {r} \cup Range(head)
    <3>1. Once(head)
      BY Zenon DEF Refs
    <3>2. QED
      BY <1>1, <2>1, <3>1, PushIs, Zenon
  <2>3. Handles(r) = {} /\ Handles(r)' = Handles(r) \cup {<<c, Entry(c)>>}
    BY <1>1, <2>1, TakenHandles DEF Refs
  <2>4. ctl'[r].refcnt = Cardinality(Handles(r)') /\ Handles(r)' # {}
    <3>1. Handles(r)' = {<<c, Entry(c)>>}
      BY <2>3, Zenon
    <3>2. Cardinality({<<c, Entry(c)>>}) = 1
      BY Zenon DEF Laws
    <3>3. ctl'[r].refcnt = 1
      BY <1>4, Zenon DEF EntryNew
    <3>4. QED
      BY <3>1, <3>2, <3>3, Zenon
  <2>5. ASSUME NEW q \in Rstcs, q # r
        PROVE  ctl'[q] = ctl[q] /\ Handles(q)' = Handles(q)
    BY <1>1, <1>4, <2>1, <2>5, TakenHandles, Zenon DEF EntryNew
  <2>6. ASSUME NEW q \in Rstcs
        PROVE  /\ ctl'[q].refcnt = Cardinality(Handles(q)')
               /\ q \in Range(head') <=> Handles(q)' # {}
    <3>1. CASE q = r
      BY <2>2, <2>4, <3>1, Zenon
    <3>2. CASE q # r
      <4>1. ctl'[q] = ctl[q] /\ Handles(q)' = Handles(q)
        BY <2>5, <3>2, Zenon
      <4>2. q \in Range(head') <=> q \in Range(head)
        BY <2>2, <3>2, Zenon
      <4>3. QED
        BY <4>1, <4>2, Zenon DEF Refs
    <3>3. QED
      BY <3>1, <3>2, Zenon
  <2>7. ASSUME NEW d \in Consumers, NEW i \in Real(d)' PROVE ctl'[handle'[d][i]].id = Wants[d][i]
    <3>1. CASE i \in Real(d) /\ handle'[d][i] = handle[d][i]
      <4>1. handle[d][i] \in Rstcs /\ handle[d][i] # r /\ ctl[handle[d][i]].id = Wants[d][i]
        BY <2>1, <3>1, HeldOnList, Zenon DEF Refs
      <4>2. QED
        BY <2>5, <3>1, <4>1, Zenon
    <3>2. CASE d = c /\ i = Entry(c) /\ handle'[d][i] = r
      BY <1>4, <3>2 DEF EntryNew
    <3>3. QED
      BY <1>1, <2>1, <3>1, <3>2, RealTaken
  <2>8. QED
    BY <2>2, <2>6, <2>7, Zenon DEF Refs
<1>5. ASSUME NEW r \in Rstcs, EntryJoin(c, r) PROVE Refs'
  <2>1. Taken(c, r) /\ r \in Range(head) /\ UNCHANGED head /\ ctl[r].id = Wants[c][Entry(c)]
    BY <1>5, FirstForIs, Zenon DEF EntryJoin, FirstIs
  <2>2. Handles(r)' = Handles(r) \cup {<<c, Entry(c)>>} /\ <<c, Entry(c)>> \notin Handles(r)
    BY <1>1, <2>1, TakenHandles
  <2>3. ctl'[r].refcnt = Cardinality(Handles(r)') /\ Handles(r)' # {}
    <3>1. Cardinality(Handles(r)') = Cardinality(Handles(r)) + 1
      <4>1. IsFiniteSet(Handles(r))
        BY HandlesNow, Zenon
      <4>2. Cardinality(Handles(r) \cup {<<c, Entry(c)>>}) = Cardinality(Handles(r)) + 1
        BY <2>2, <4>1, Zenon DEF Laws
      <4>3. QED
        BY <2>2, <4>2, Zenon
    <3>2. ctl'[r].refcnt = ctl[r].refcnt + 1 /\ ctl[r].refcnt = Cardinality(Handles(r))
      BY <1>5, Zenon DEF EntryJoin, Refs
    <3>3. QED
      BY <2>2, <3>1, <3>2, Zenon
  <2>4. \A q \in Rstcs : ctl'[q].id = ctl[q].id
    BY <1>5, Zenon DEF EntryJoin
  <2>5. ASSUME NEW q \in Rstcs, q # r
        PROVE  ctl'[q] = ctl[q] /\ Handles(q)' = Handles(q)
    BY <1>1, <1>5, <2>1, <2>5, TakenHandles, Zenon DEF EntryJoin
  <2>6. ASSUME NEW q \in Rstcs
        PROVE  /\ ctl'[q].refcnt = Cardinality(Handles(q)')
               /\ q \in Range(head') <=> Handles(q)' # {}
    <3>1. CASE q = r
      BY <2>1, <2>3, <3>1, Zenon
    <3>2. CASE q # r
      <4>1. ctl'[q] = ctl[q] /\ Handles(q)' = Handles(q)
        BY <2>5, <3>2, Zenon
      <4>2. QED
        BY <2>1, <4>1, Zenon DEF Refs
    <3>3. QED
      BY <3>1, <3>2, Zenon
  <2>7. ASSUME NEW d \in Consumers, NEW i \in Real(d)' PROVE ctl'[handle'[d][i]].id = Wants[d][i]
    <3>1. CASE i \in Real(d) /\ handle'[d][i] = handle[d][i]
      <4>1. handle[d][i] \in Rstcs /\ ctl[handle[d][i]].id = Wants[d][i]
        BY <3>1, HeldOnList, Zenon DEF Refs
      <4>2. QED
        BY <2>4, <3>1, <4>1, Zenon
    <3>2. CASE d = c /\ i = Entry(c) /\ handle'[d][i] = r
      BY <2>1, <2>4, <3>2, Zenon
    <3>3. QED
      BY <1>1, <2>1, <3>1, <3>2, RealTaken
  <2>8. QED
    BY <2>1, <2>6, <2>7, Zenon DEF Refs
<1>6. QED
  BY <1>2, <1>3, <1>4, <1>5, Zenon DEF EntryStep

(* A put gives up the references of one consumer, and removes exactly the  *)
(* controls that nobody else holds.                                        *)
LEMMA DropRefs ==
  ASSUME Laws, CallTypes, CtlTypes, Shape, Refs, Shape', NEW c \in Consumers, DropStep(c)
  PROVE  /\ CtlTypes' /\ Refs' /\ Range(head') = Range(head) \ Last(c)
         /\ \A d \in Consumers : d # c => \A i \in Real(d) : handle[d][i] \notin Last(c)
<1>1. ASSUME NEW r \in Rstcs
      PROVE  /\ ctl[r].refcnt = Cardinality(Handles(r)) /\ IsFiniteSet(Handles(r) \ Its(c, r))
             /\ Cardinality(Handles(r) \ Its(c, r)) = ctl[r].refcnt - Cardinality(Held(c, r))
             /\ r \in Last(c) <=> Handles(r) # {} /\ Handles(r) \ Its(c, r) = {}
  <2>1. ctl[r].refcnt = Cardinality(Handles(r)) /\ Its(c, r) \in SUBSET Handles(r)
    BY Zenon DEF Refs, Its
  <2>2. /\ Cardinality(Held(c, r)) = Cardinality(Its(c, r)) /\ (Held(c, r) = {} <=> Its(c, r) = {})
        /\ Cardinality(Its(c, r)) \in Nat /\ IsFiniteSet(Handles(r) \ Its(c, r))
        /\ Cardinality(Handles(r) \ Its(c, r)) = Cardinality(Handles(r)) - Cardinality(Its(c, r))
    BY ItsCount, Zenon
  <2>3. Cardinality(Handles(r)) \in Nat
    BY HandlesNow, Zenon
  <2>4. Cardinality(Handles(r) \ Its(c, r)) = 0 <=> Handles(r) \ Its(c, r) = {}
    BY <2>2, Zenon DEF Laws
  <2>5. ctl[r].refcnt = Cardinality(Held(c, r)) <=> Handles(r) \ Its(c, r) = {}
    BY <2>1, <2>2, <2>3, <2>4
  <2>6. r \in Last(c) <=> Held(c, r) # {} /\ ctl[r].refcnt = Cardinality(Held(c, r))
    BY Zenon DEF Last
  <2>7. QED
    BY <2>1, <2>2, <2>5, <2>6, Zenon
<1>2. CtlTypes'
  <2>1. Fresh \in CtlRecs
    BY DEF Fresh, CtlRecs
  <2>2. ASSUME NEW r \in Rstcs PROVE ctl'[r] \in CtlRecs
    <3>1. CASE r \in Last(c)
      BY <2>1, <3>1, Zenon DEF DropStep
    <3>2. CASE r \notin Last(c)
      <4>1. Cardinality(Handles(r) \ Its(c, r)) \in Nat
        BY <1>1, Zenon DEF Laws
      <4>2. ctl[r].refcnt - Cardinality(Held(c, r)) \in Nat
        BY <1>1, <4>1, Zenon
      <4>3. QED
        BY <3>2, <4>2, Zenon DEF DropStep
    <3>3. QED
      BY <3>1, <3>2, Zenon
  <2>3. ctl' \in [Rstcs -> CtlRecs]
    BY <2>2, Zenon DEF DropStep
  <2>4. head' \in Seq(Rstcs)
    BY Zenon DEF Laws, DropStep, CtlTypes, Refs
  <2>5. QED
    BY <2>3, <2>4, Zenon DEF CtlTypes, DropStep
<1>3. Once(head') /\ Range(head') = Range(head) \ Last(c)
  <2>1. head \in Seq(Rstcs) /\ head' \in Seq(Rstcs) /\ Once(head) /\ head' = Without(head, Gone(c))
    BY <1>2, Zenon DEF CtlTypes, Refs, DropStep
  <2>2. Once(head') /\ \A y : OnList(head', y) <=> \E j \in (1 .. Len(head)) \ Gone(c) : head[j] = y
    BY <2>1, Zenon DEF Laws
  <2>3. \A y : OnList(head', y) <=> OnList(head, y) /\ y \notin Last(c)
    BY <2>2, Zenon DEF Gone, OnList
  <2>4. \A y : (y \in Range(head') <=> OnList(head', y)) /\ (y \in Range(head) <=> OnList(head, y))
    BY <2>1, RangeIs, Zenon
  <2>5. QED
    BY <2>2, <2>3, <2>4, Zenon
<1>4. ASSUME NEW r PROVE Handles(r)' = Handles(r) \ Its(c, r)
  BY <1>2, DropHandles, Zenon
<1>5. ASSUME NEW r \in Rstcs
      PROVE  /\ ctl'[r].refcnt = Cardinality(Handles(r)')
             /\ r \in Range(head') <=> Handles(r)' # {}
  <2>1. r \in Range(head') <=> Handles(r)' # {}
    BY <1>1, <1>3, <1>4, Zenon DEF Refs
  <2>2. CASE r \in Last(c)
    <3>1. Handles(r)' = {} /\ ctl'[r] = Fresh
      BY <1>1, <1>4, <2>2, Zenon DEF DropStep
    <3>2. Fresh.refcnt = 0
      BY DEF Fresh
    <3>3. Cardinality({}) = 0
      BY <1>1, <1>4, <3>1, Zenon DEF Laws
    <3>4. QED
      BY <2>1, <3>1, <3>2, <3>3, Zenon
  <2>3. CASE r \notin Last(c)
    BY <1>1, <1>4, <2>1, <2>3, Zenon DEF DropStep
  <2>4. QED
    BY <2>2, <2>3, Zenon
<1>6. ASSUME NEW d \in Consumers, d # c, NEW i \in Real(d) PROVE handle[d][i] \notin Last(c)
  <2>1. <<d, i>> \in Handles(handle[d][i]) /\ handle[d][i] \in Rstcs
    BY HandleTypes, HandlesNow, Zenon
  <2>2. <<d, i>> \notin Its(c, handle[d][i])
    BY <1>6 DEF Its
  <2>3. QED
    BY <1>1, <2>1, <2>2, Zenon
<1>7. ASSUME NEW d \in Consumers, NEW i \in Real(d)' PROVE ctl'[handle'[d][i]].id = Wants[d][i]
  <2>1. Dom(c)' = {} /\ i \in Dom(d)' /\ handle'[d][i] # NULL
    BY DEF DropStep, Dom, Real
  <2>2. d # c /\ handle'[d] = handle[d]
    BY <2>1, Zenon DEF DropStep
  <2>3. i \in Real(d)
    BY <2>1, <2>2, Zenon DEF Real, Dom
  <2>4. handle[d][i] \in Rstcs \ Last(c)
    BY <1>6, <2>2, <2>3, HandleTypes, Zenon
  <2>5. ctl'[handle[d][i]].id = ctl[handle[d][i]].id
    BY <2>4, Zenon DEF DropStep
  <2>6. QED
    BY <2>2, <2>3, <2>5, Zenon DEF Refs
<1>8. QED
  BY <1>2, <1>3, <1>5, <1>6, <1>7, Zenon DEF Refs

-----------------------------------------------------------------------------
(* What the step of a consumer is given: where the calls and the controls   *)
(* are, and what the counting of references says of the list of controls.   *)
Listed ==
  \A c \in Consumers : \A i \in Real(c) :
    handle[c][i] \in Rstcs /\ handle[c][i] \in Range(head) /\ ctl[handle[c][i]].id = Wants[c][i]

Drops(c) ==
  /\ Range(head') = Range(head) \ Last(c)
  /\ \A d \in Consumers : d # c => \A i \in Real(d) : handle[d][i] \notin Last(c)

Given(c) ==
  /\ CallTypes /\ CtlTypes /\ Shape /\ CallTypes' /\ CtlTypes' /\ Shape'
  /\ Listed /\ (\A id : FirstIs(id))
  /\ StepOf(c) /\ (PutStep(c) => Drops(c))

LEMMA GivenStep ==
  ASSUME Laws, CallTypes, CtlTypes, Shape, Refs, CallTypes', Shape',
         NEW c \in Consumers, StepOf(c), PutStep(c) \/ CtlTypes'
  PROVE  Refs' /\ Given(c)
<1>1. Listed
  BY HeldOnList, Zenon DEF Listed, Refs
<1>2. \A id : FirstIs(id)
  BY FirstForIs, Zenon
<1>3. CASE PutStep(c)
  <2>1. CtlTypes' /\ Refs' /\ Drops(c)
    BY <1>3, DropRefs, Zenon DEF PutStep, Drops
  <2>2. QED
    BY <1>1, <1>2, <2>1, Zenon DEF Given
<1>4. CASE ~PutStep(c)
  <2>1. Given(c)
    BY <1>1, <1>2, <1>4, Zenon DEF Given
  <2>2. CASE EntryStep(c)
    BY <1>4, <2>1, <2>2, EntryRefs, Zenon
  <2>3. CASE ~EntryStep(c)
    <3>1. UNCHANGED <<head, handle>> /\ Kept
      BY <1>4, <2>3, Zenon DEF StepOf, Framed, Effects, GetStep, BeginStep, Begun, OopsStep, Kept
    <3>2. QED
      BY <2>1, <3>1, RefsKept, Zenon
  <2>4. QED
    BY <2>2, <2>3, Zenon
<1>5. QED
  BY <1>3, <1>4, Zenon

(* A handle that stays as it is.                                           *)
Stays(d, i) ==
  /\ i \in Real(d) /\ handle'[d][i] = handle[d][i]
  /\ ctl'[handle[d][i]].shared = ctl[handle[d][i]].shared

Gets(c, r) == EntryNew(c, r) \/ EntryJoin(c, r)

(* What a step does to the handles: only the calls that get and put change *)
(* them, and only those of their consumer.                                 *)
LEMMA HandleSteps ==
  ASSUME NEW c \in Consumers, Given(c), NEW d \in Consumers, NEW i \in Real(d)'
  PROVE  \/ Stays(d, i) /\ (d = c => ~PutStep(c))
         \/ /\ d = c /\ i = Entry(c) /\ call[c].pc = "get" /\ EntryStep(c)
            /\ \E r \in Rstcs : Gets(c, r) /\ handle'[d][i] = r
<1>1. /\ \A j \in Real(d) : handle[d][j] \in Rstcs /\ handle[d][j] \in Range(head)
      /\ CallTypes /\ CtlTypes /\ Shape /\ NULL \notin Rstcs
      /\ i \in Dom(d)' /\ handle'[d][i] # NULL
  BY ResetAssumption, Zenon DEF Given, Listed, Real
<1>2. CASE UNCHANGED handle /\ (Kept \/ UNCHANGED ctl) /\ ~PutStep(c)
  <2>1. i \in Real(d)
    BY <1>1, <1>2, Zenon DEF Real, Dom
  <2>2. QED
    BY <1>1, <1>2, <2>1, Zenon DEF Stays, Kept
<1>3. CASE EntryStep(c)
  <2>1. call[c].pc = "get"
    BY <1>3, Zenon DEF EntryStep
  <2>2. ASSUME NEW x \in Rstcs \cup {NULL}, Taken(c, x)
        PROVE  \/ i \in Real(d) /\ handle'[d][i] = handle[d][i]
               \/ d = c /\ i = Entry(c) /\ handle'[d][i] = x /\ x # NULL
    <3>1. CASE d = c
      BY <1>1, <2>1, <2>2, <3>1, RealIs DEF Real
    <3>2. CASE d # c
      BY <1>1, <2>2, <3>2, Zenon DEF Taken, Real, Dom
    <3>3. QED
      BY <3>1, <3>2, Zenon
  <2>3. ~PutStep(c)
    BY <2>1 DEF PutStep
  <2>4. CASE EntryNull(c)
    <3>1. i \in Real(d) /\ handle'[d][i] = handle[d][i]
      BY <2>2, <2>4, Zenon DEF EntryNull
    <3>2. QED
      BY <2>3, <2>4, <3>1, Zenon DEF Stays, EntryNull
  <2>5. CASE EntryFail(c)
    BY <1>2, <2>3, <2>5, Zenon DEF EntryFail
  <2>6. ASSUME NEW r \in Rstcs, Gets(c, r)
        PROVE  \/ Stays(d, i)
               \/ d = c /\ i = Entry(c) /\ handle'[d][i] = r
    <3>1. Taken(c, r) /\ \A q \in Range(head) : q \in Rstcs => ctl'[q].shared = ctl[q].shared
      BY <2>6, Zenon DEF Gets, EntryNew, EntryJoin
    <3>2. QED
      BY <1>1, <2>2, <3>1, Zenon DEF Stays
  <2>7. QED
    BY <1>3, <2>1, <2>3, <2>4, <2>5, <2>6, Zenon DEF EntryStep, Gets
<1>4. CASE PutStep(c)
  <2>1. Dom(c)' = {}
    BY <1>4 DEF PutStep, DropStep, Dom
  <2>2. d # c
    BY <1>1, <2>1, Zenon
  <2>3. handle'[d] = handle[d]
    BY <1>4, <2>2, Zenon DEF PutStep, DropStep
  <2>4. i \in Real(d)
    BY <1>1, <2>3, Zenon DEF Real, Dom
  <2>5. handle[d][i] \in Rstcs /\ handle[d][i] \notin Last(c)
    BY <1>1, <1>4, <2>2, <2>4, Zenon DEF Given, Drops
  <2>6. QED
    BY <1>4, <2>2, <2>3, <2>4, <2>5, Zenon DEF Stays, PutStep, DropStep
<1>5. CASE GetStep(c) \/ BeginStep(c) \/ (OopsStep(c) /\ ~PutStep(c)) \/ (Framed(c) /\ Effects(c))
  <2>1. ~PutStep(c)
    <3>1. PutStep(c) => call'[c].pc = "idle" /\ call[c].pc \in {"put", "idle"}
      BY NoCallIs DEF PutStep, DropStep
    <3>2. QED
      BY <1>5, <3>1 DEF GetStep, BeginStep, Begun, Framed, Operating
  <2>2. UNCHANGED handle /\ (Kept \/ UNCHANGED ctl)
    BY <1>5, Zenon DEF GetStep, BeginStep, Begun, OopsStep, Framed, Effects
  <2>3. QED
    BY <1>2, <2>1, <2>2, Zenon
<1>6. QED
  BY <1>3, <1>4, <1>5, Zenon DEF Given, StepOf

(* The handles of the other consumers stay.                                *)
LEMMA OtherHandles ==
  ASSUME NEW c \in Consumers, Given(c), NEW d \in Consumers, d # c
  PROVE  /\ handle'[d] = handle[d] /\ Dom(d)' = Dom(d) /\ Real(d)' = Real(d)
         /\ call'[d] = call[d] /\ belief'[d] = belief[d]
<1>1. handle'[d] = handle[d] /\ call'[d] = call[d] /\ belief'[d] = belief[d]
  BY Zenon DEF Given, StepOf, Others, Framed, GetStep, EntryStep, EntryNull, EntryFail, EntryNew,
               EntryJoin, Taken, PutStep, DropStep, BeginStep, Begun, OopsStep
<1>2. QED
  BY <1>1, Zenon DEF Dom, Real

(* The control that a call is at.                                          *)
LEMMA AtControl ==
  ASSUME CallTypes, CtlTypes, Shape, NEW c \in Consumers, call[c].pc \in Operating, Control(c) \in Rstcs
  PROVE  Cur(c) \in Real(c) /\ Control(c) = handle[c][Cur(c)]
<1>1. Control(c) = handle[c][Cur(c)] /\ Control(c) # NULL
  BY ResetAssumption, Zenon DEF Control, Cur
<1>2. QED
  BY <1>1, OperatingFacts, Zenon DEF Real

(* What a step does to the id, the sharing and the owner of a control.     *)
SameFor(r) ==
  ctl'[r].id = ctl[r].id /\ ctl'[r].shared = ctl[r].shared /\ ctl'[r].acquired = ctl[r].acquired

Acquires(c, r) ==
  /\ AcquireStep(c) /\ ctl'[r].acquired = TRUE /\ (ctl[r].acquired \/ ~Busy(r))

Changes(c, r) ==
  /\ r = Control(c) /\ Cur(c) \in Real(c) /\ r = handle[c][Cur(c)]
  /\ Framed(c) /\ call[c].op \in Owning /\ Proceeded(c)
  /\ ctl'[r].id = ctl[r].id /\ ctl'[r].shared = ctl[r].shared
  /\ Acquires(c, r) \/ (ReleaseStep(c) /\ ctl'[r].acquired = FALSE)

LEMMA OwnerSteps ==
  ASSUME NEW c \in Consumers, Given(c), NEW r \in Rstcs
  PROVE  \/ SameFor(r)
         \/ Changes(c, r)
         \/ EntryStep(c) /\ EntryNew(c, r)
         \/ PutStep(c) /\ r \in Last(c) /\ ctl'[r] = Fresh
<1>1. CASE EntryStep(c)
  BY <1>1, Zenon DEF EntryStep, EntryNull, EntryFail, EntryNew, EntryJoin, SameFor
<1>2. CASE PutStep(c)
  <2>1. CASE r \in Last(c)
    BY <1>2, <2>1, Zenon DEF PutStep, DropStep
  <2>2. CASE r \notin Last(c)
    BY <1>2, <2>2, Zenon DEF PutStep, DropStep, SameFor
  <2>3. QED
    BY <2>1, <2>2, Zenon
<1>3. CASE UNCHANGED ctl
  BY <1>3, Zenon DEF SameFor
<1>4. CASE Framed(c) /\ OpStep(c) /\ Effects(c)
  <2>1. CASE r # Control(c)
    BY <1>4, <2>1, Zenon DEF Effects, SameFor
  <2>2. CASE call[c].op \notin Owning
    BY <1>4, <2>2, Zenon DEF Effects, SameOwner, Kept, SameFor
  <2>3. CASE r = Control(c) /\ call[c].op \in Owning
    <3>1. /\ CallTypes /\ CtlTypes /\ Shape /\ call[c].pc \in Operating
          /\ NULL \notin Rstcs /\ Control(c) \in Rstcs
      BY <1>4, <2>3, ResetAssumption, Zenon DEF Given, Framed
    <3>2. AcquireStep(c) \/ ReleaseStep(c)
      BY <1>4, <2>3, <3>1 DEF OpStep, NullStep, CheckStep, NonzeroStep, CountStep, OpsStep, UncountStep,
                              RearmCheckStep, RearmStep, Owning
    <3>3. /\ ctl \in [Rstcs -> CtlRecs] /\ ctl'[r].id = ctl[r].id /\ ctl'[r].shared = ctl[r].shared
          /\ r = Control(c)
      BY <1>4, <2>3, <3>1, Zenon DEF Effects, Kept, CtlTypes
    <3>4. Cur(c) \in Real(c) /\ r = handle[c][Cur(c)]
      BY <2>3, <3>1, AtControl, Zenon
    <3>5. CASE AcquireStep(c) /\ ~UNCHANGED ctl
      <4>1. /\ ctl' = [ctl EXCEPT ![r].acquired = TRUE]
            /\ ctl[r].acquired \/ ~Busy(r)
            /\ Proceeded(c)
        BY <3>3, <3>5, Zenon DEF AcquireStep
      <4>2. ctl'[r].acquired = TRUE
        BY <3>3, <4>1 DEF CtlRecs
      <4>3. QED
        BY <1>4, <2>3, <3>3, <3>4, <3>5, <4>1, <4>2, Zenon DEF Changes, Acquires
    <3>6. CASE ReleaseStep(c)
      <4>1. ctl' = [ctl EXCEPT ![r].acquired = FALSE] /\ Proceeded(c)
        BY <3>3, <3>6, Zenon DEF ReleaseStep
      <4>2. ctl'[r].acquired = FALSE
        BY <3>3, <4>1 DEF CtlRecs
      <4>3. QED
        BY <1>4, <2>3, <3>3, <3>4, <3>6, <4>1, <4>2, Zenon DEF Changes
    <3>7. QED
      BY <1>3, <3>2, <3>5, <3>6, Zenon
  <2>4. QED
    BY <2>1, <2>2, <2>3, Zenon
<1>5. QED
  BY <1>1, <1>2, <1>3, <1>4, Zenon DEF Given, StepOf, GetStep, BeginStep, Begun, OopsStep

(* What a step does to the list of controls.                               *)
LEMMA HeadSteps ==
  ASSUME NEW c \in Consumers, Given(c), NEW r \in Range(head')
  PROVE  /\ r \in Rstcs
         /\ \/ r \in Range(head) /\ ~(PutStep(c) /\ r \in Last(c)) /\ ~EntryNew(c, r)
            \/ EntryStep(c) /\ EntryNew(c, r)
<1>1. head \in Seq(Rstcs) /\ head' \in Seq(Rstcs)
  BY Zenon DEF Given, CtlTypes
<1>2. r \in Rstcs /\ Range(head) \subseteq Rstcs
  BY <1>1, RangeIs, Zenon
<1>3. CASE UNCHANGED head
  <2>1. PutStep(c) /\ r \in Last(c) => FALSE
    BY <1>3, Zenon DEF Given, Drops
  <2>2. QED
    BY <1>2, <1>3, <2>1, Zenon DEF EntryNew
<1>4. ASSUME NEW q \in Rstcs, EntryNew(c, q), EntryStep(c)
      PROVE  \/ r \in Range(head) /\ ~(PutStep(c) /\ r \in Last(c)) /\ ~EntryNew(c, r)
             \/ EntryStep(c) /\ EntryNew(c, r)
  <2>1. head' = <<q>> \o head
    BY <1>4, Zenon DEF EntryNew
  <2>2. r = q \/ r \in Range(head)
    <3>1. PICK k \in 1 .. Len(head') : head'[k] = r
      BY <1>1, RangeIs, Zenon DEF OnList
    <3>2. /\ Len(head') = Len(head) + 1 /\ Len(head) \in Nat /\ head'[1] = q
          /\ \A j \in 1 .. Len(head) : head'[j + 1] = head[j]
      BY <1>1, <2>1
    <3>3. k = 1 \/ (k - 1 \in 1 .. Len(head) /\ (k - 1) + 1 = k)
      BY <3>1, <3>2
    <3>4. r = q \/ (k - 1 \in 1 .. Len(head) /\ head[k - 1] = r)
      BY <3>1, <3>2, <3>3, Zenon
    <3>5. QED
      BY <1>1, <3>4, RangeIs, Zenon DEF OnList
  <2>3. ~PutStep(c)
    BY <1>4 DEF EntryStep, PutStep
  <2>4. QED
    BY <1>4, <2>2, <2>3, Zenon DEF EntryNew
<1>5. CASE PutStep(c)
  <2>1. r \in Range(head) /\ r \notin Last(c)
    BY <1>5, Zenon DEF Given, Drops
  <2>2. QED
    BY <1>2, <2>1, Zenon DEF EntryNew
<1>6. QED
  BY <1>2, <1>3, <1>4, <1>5, Zenon DEF Given, StepOf, EntryStep, EntryNull, EntryFail, EntryJoin,
                                       GetStep, BeginStep, Begun, OopsStep, Framed

-----------------------------------------------------------------------------
(* Who owns a line.  OneOwner is not inductive: a shared control is never   *)
(* acquired; an exclusive one is in the hands of one consumer, once; and    *)
(* the controls that one call has got are alike.                            *)
Alone == \A r \in Rstcs : ctl[r].shared => ~ctl[r].acquired

Apart ==
  \A c, d \in Consumers : \A i \in Real(c), j \in Real(d) :
    handle[c][i] = handle[d][j] /\ ~Shared(c, i) => c = d /\ i = j

Alike(c) == \A i, j \in Real(c) : Shared(c, i) <=> Shared(c, j)

CallFits(c) ==
  /\ call[c].op \in Owning => \A i \in Real(c) : ~Shared(c, i)
  /\ call[c].pc \in {"nonzero", "count", "uncount"} => Shared(c, Cur(c))

GetFits(c) ==
  call[c].pc = "get" =>
    /\ call[c].shared => ~call[c].acquired
    /\ \A i \in Real(c) : (Shared(c, i) <=> call[c].shared) /\ (Acq(c, i) <=> call[c].acquired)

Owners ==
  /\ OneOwner /\ Alone /\ Apart
  /\ \A c \in Consumers : Alike(c) /\ CallFits(c) /\ GetFits(c)

(* A consumer does not change the owner of what the others hold.           *)
LEMMA OthersOwn ==
  ASSUME NEW c \in Consumers, Given(c), Owners, NEW d \in Consumers, d # c, NEW i \in Real(d)
  PROVE  handle'[d][i] = handle[d][i] /\ (Acq(d, i)' <=> Acq(d, i)) /\ (Shared(d, i)' <=> Shared(d, i))
<1>1. handle[d][i] \in Rstcs /\ handle[d][i] \in Range(head) /\ handle'[d][i] = handle[d][i]
  BY OtherHandles, Zenon DEF Given, Listed
<1>2. ~EntryNew(c, handle[d][i])
  BY <1>1, Zenon DEF EntryNew
<1>3. ~(PutStep(c) /\ handle[d][i] \in Last(c))
  BY Zenon DEF Given, Drops
<1>4. ~Changes(c, handle[d][i])
  BY Zenon DEF Changes, Owners, Apart, CallFits
<1>5. SameFor(handle[d][i])
  BY <1>1, <1>2, <1>3, <1>4, OwnerSteps, Zenon
<1>6. QED
  BY <1>1, <1>5, Zenon DEF SameFor, Acq, Shared

LEMMA OneOwnerStep ==
  ASSUME NEW c \in Consumers, Given(c), Owners
  PROVE  OneOwner'
<1>1. ASSUME NEW r \in Range(head)', NEW q \in Range(head)', ctl'[r].id = ctl'[q].id, r # q,
             r \in Range(head), ~(PutStep(c) /\ r \in Last(c)), ~EntryNew(c, r),
             q \in Range(head), ~(PutStep(c) /\ q \in Last(c)), ~EntryNew(c, q)
      PROVE  ~ctl'[r].shared /\ ~ctl'[q].shared /\ ~(ctl'[r].acquired /\ ctl'[q].acquired)
  <2>1. /\ SameFor(r) \/ Changes(c, r)
        /\ SameFor(q) \/ Changes(c, q)
    BY <1>1, HeadSteps, OwnerSteps, Zenon
  <2>2. ctl[r].id = ctl[q].id /\ ctl'[r].shared = ctl[r].shared /\ ctl'[q].shared = ctl[q].shared
    BY <1>1, <2>1, Zenon DEF SameFor, Changes
  <2>3. ~ctl[r].shared /\ ~ctl[q].shared /\ ~(ctl[r].acquired /\ ctl[q].acquired)
    BY <1>1, <2>2, Zenon DEF Owners, OneOwner
  <2>4. ASSUME NEW x \in Range(head), NEW y \in Range(head), x # y, ctl[x].id = ctl[y].id,
               Changes(c, x), ctl'[x].acquired, SameFor(y) \/ Changes(c, y),
               ~(ctl[x].acquired /\ ctl[y].acquired)
        PROVE  ~ctl'[y].acquired
    <3>1. SameFor(y)
      BY <2>4, Zenon DEF Changes
    <3>2. Acquires(c, x)
      BY <2>4, Zenon DEF Changes
    <3>3. \E k \in DOMAIN head : head[k] = y
      BY <2>4, Zenon DEF Range
    <3>4. ~ctl[y].acquired
      BY <2>4, <3>2, <3>3, Zenon DEF Acquires, Busy
    <3>5. QED
      BY <3>1, <3>4, Zenon DEF SameFor
  <2>5. QED
    BY <1>1, <2>1, <2>2, <2>3, <2>4, Zenon DEF SameFor
<1>2. ASSUME NEW r \in Rstcs, EntryStep(c), EntryNew(c, r), NEW q \in Rstcs, r # q, ctl'[r].id = ctl'[q].id,
             q \in Range(head)
      PROVE  ~ctl'[r].shared /\ ~ctl'[q].shared /\ ~ctl'[r].acquired
  <2> DEFINE id == Wants[c][Entry(c)]
  <2>1. ctl'[q] = ctl[q] /\ ctl[q].id = id /\ Creates(id, call[c].shared, call[c].acquired)
        /\ ctl'[r].shared = call[c].shared /\ ctl'[r].acquired = call[c].acquired
    BY <1>2, Zenon DEF EntryNew
  <2>2. FirstFor(id) # NULL /\ FirstFor(id) \in Range(head) /\ ctl[FirstFor(id)].id = id
    BY <1>2, <2>1, Zenon DEF Given, FirstIs
  <2>3. ~ctl[FirstFor(id)].shared /\ ~call[c].shared /\ ~call[c].acquired
    BY <2>1, <2>2, Zenon DEF Creates
  <2>4. ~ctl[q].shared
    BY <1>2, <2>1, <2>2, <2>3, Zenon DEF Owners, OneOwner
  <2>5. QED
    BY <2>1, <2>3, <2>4, Zenon
<1>3. ASSUME NEW r \in Rstcs, NEW q \in Rstcs, EntryStep(c), EntryNew(c, r), EntryNew(c, q)
      PROVE  r = q
  <2>1. CallTypes /\ CtlTypes /\ Shape /\ call[c].pc = "get" /\ Taken(c, r) /\ Taken(c, q)
    BY <1>3, Zenon DEF Given, EntryStep, EntryNew
  <2>2. handle'[c][Entry(c)] = r /\ handle'[c][Entry(c)] = q
    BY <2>1, RealIs, Zenon
  <2>3. QED
    BY <2>2, Zenon
<1>4. ASSUME NEW r \in Range(head)', NEW q \in Range(head)', ctl'[r].id = ctl'[q].id, r # q
      PROVE  ~ctl'[r].shared /\ ~ctl'[q].shared /\ ~(ctl'[r].acquired /\ ctl'[q].acquired)
  <2>1. /\ r \in Rstcs /\ \/ r \in Range(head) /\ ~(PutStep(c) /\ r \in Last(c)) /\ ~EntryNew(c, r)
                          \/ EntryStep(c) /\ EntryNew(c, r)
        /\ q \in Rstcs /\ \/ q \in Range(head) /\ ~(PutStep(c) /\ q \in Last(c)) /\ ~EntryNew(c, q)
                          \/ EntryStep(c) /\ EntryNew(c, q)
    BY HeadSteps, Zenon
  <2>2. QED
    BY <1>1, <1>2, <1>3, <1>4, <2>1, Zenon
<1>5. QED
  BY <1>4, Zenon DEF OneOwner

LEMMA AloneStep ==
  ASSUME NEW c \in Consumers, Given(c), Owners
  PROVE  Alone'
<1>1. ASSUME NEW r \in Rstcs, ctl'[r].shared PROVE ~ctl'[r].acquired
  <2>1. CASE SameFor(r)
    BY <1>1, <2>1, Zenon DEF SameFor, Owners, Alone
  <2>2. CASE Changes(c, r)
    <3>1. ~Shared(c, Cur(c)) /\ handle[c][Cur(c)] # NULL
      BY <2>2, Zenon DEF Changes, Owners, CallFits, Real
    <3>2. QED
      BY <1>1, <2>2, <3>1, Zenon DEF Changes, Shared
  <2>3. CASE EntryStep(c) /\ EntryNew(c, r)
    BY <1>1, <2>3, Zenon DEF EntryStep, EntryNew, Owners, GetFits
  <2>4. CASE ctl'[r] = Fresh
    BY <1>1, <2>4 DEF Fresh
  <2>5. QED
    BY <2>1, <2>2, <2>3, <2>4, OwnerSteps, Zenon
<1>2. QED
  BY <1>1, Zenon DEF Alone

LEMMA ApartStep ==
  ASSUME NEW c \in Consumers, Given(c), Owners
  PROVE  Apart'
<1>0. ASSUME NEW x \in Consumers, NEW k \in Real(x)'
      PROVE  \/ Stays(x, k)
             \/ x = c /\ k = Entry(c) /\ \E r \in Rstcs : Gets(c, r) /\ handle'[x][k] = r
  BY HandleSteps, Zenon
<1>1. SUFFICES ASSUME NEW d \in Consumers, NEW e \in Consumers, NEW i \in Real(d)', NEW j \in Real(e)',
                      handle'[d][i] = handle'[e][j], ~Shared(d, i)'
               PROVE  d = e /\ i = j
  BY Zenon DEF Apart
<1>2. handle'[d][i] # NULL /\ ~ctl'[handle'[d][i]].shared
  BY <1>1, Zenon DEF Real, Shared
<1>3. CASE Stays(d, i) /\ Stays(e, j)
  <2>1. ~Shared(d, i) /\ i \in Real(d) /\ j \in Real(e) /\ handle[d][i] = handle[e][j]
    BY <1>1, <1>2, <1>3, Zenon DEF Stays, Shared
  <2>2. QED
    BY <2>1, Zenon DEF Owners, Apart
<1>4. ASSUME NEW r \in Rstcs, Gets(c, r), ~ctl'[r].shared, NEW x \in Consumers, NEW k, Stays(x, k)
      PROVE  handle'[x][k] # r
  <2>1. EntryNew(c, r)
    BY <1>4, Zenon DEF Gets, EntryJoin
  <2>2. handle[x][k] \in Range(head) /\ handle'[x][k] = handle[x][k]
    BY <1>4, Zenon DEF Stays, Given, Listed
  <2>3. QED
    BY <2>1, <2>2, Zenon DEF EntryNew
<1>5. \/ Stays(d, i)
      \/ d = c /\ i = Entry(c) /\ \E r \in Rstcs : Gets(c, r) /\ handle'[d][i] = r
  BY <1>0, Zenon
<1>6. \/ Stays(e, j)
      \/ e = c /\ j = Entry(c) /\ \E r \in Rstcs : Gets(c, r) /\ handle'[e][j] = r
  BY <1>0, Zenon
<1>7. QED
  BY <1>1, <1>2, <1>3, <1>4, <1>5, <1>6, Zenon

LEMMA AlikeStep ==
  ASSUME NEW c \in Consumers, Given(c), Owners, NEW d \in Consumers
  PROVE  Alike(d)'
<1>1. ASSUME NEW i \in Real(d)', Stays(d, i)
      PROVE  i \in Real(d) /\ (Shared(d, i)' <=> Shared(d, i))
  BY <1>1, Zenon DEF Stays, Shared
<1>2. ASSUME NEW i \in Real(d)', NEW r \in Rstcs, d = c, call[c].pc = "get", Gets(c, r), handle'[d][i] = r
      PROVE  Shared(d, i)' <=> call[c].shared
  <2>1. handle'[d][i] # NULL
    BY Zenon DEF Real
  <2>2. QED
    BY <1>2, <2>1, Zenon DEF Gets, EntryNew, EntryJoin, Shared
<1>3. CASE d = c /\ EntryStep(c)
  <2>1. call[c].pc = "get" /\ \A i \in Real(d) : Shared(d, i) <=> call[c].shared
    BY <1>3, Zenon DEF EntryStep, Owners, GetFits
  <2>2. ASSUME NEW i \in Real(d)' PROVE Shared(d, i)' <=> call[c].shared
    BY <1>1, <1>2, <1>3, <2>1, HandleSteps, Zenon
  <2>3. QED
    BY <2>2, Zenon DEF Alike
<1>4. CASE ~(d = c /\ EntryStep(c))
  <2>1. ASSUME NEW i \in Real(d)' PROVE i \in Real(d) /\ (Shared(d, i)' <=> Shared(d, i))
    BY <1>1, <1>4, HandleSteps, Zenon
  <2>2. QED
    BY <2>1, Zenon DEF Alike, Owners
<1>5. QED
  BY <1>3, <1>4, Zenon

(* How the operation of a call may change.                                 *)
LEMMA CallSteps ==
  ASSUME NEW c \in Consumers, Given(c), call'[c].op \in Owning
  PROVE  \/ /\ Framed(c) /\ OpStep(c) /\ Effects(c) /\ call[c].op \in Owning
         \/ Begun(c, call'[c].op)
<1>1. ASSUME Proceeded(c) PROVE call[c].op = call'[c].op
  BY <1>1, NoCallIs DEF Proceeded, Onward, Again, Over, Owning
<1>2. ASSUME Failed(c) PROVE call[c].op \in Owning
  <2>1. CASE Undoing(c)
    BY <2>1 DEF Undoing, UndoOf, Owning
  <2>2. QED
    BY <1>1, <1>2, <2>1, NoCallIs DEF Failed, GivenUp, Owning
<1>3. ASSUME NEW pc, Moved(c, pc) PROVE call[c].op \in Owning
  BY <1>3, Zenon DEF Moved
<1>4. CASE Framed(c) /\ OpStep(c) /\ Effects(c)
  <2>1. \E pc : Proceeded(c) \/ Failed(c) \/ Moved(c, pc)
    BY <1>4, Zenon DEF OpStep, NullStep, CheckStep, NonzeroStep, CountStep, OpsStep, UncountStep,
                       RearmCheckStep, RearmStep, AcquireStep, ReleaseStep
  <2>2. QED
    BY <1>1, <1>2, <1>3, <1>4, <2>1, Zenon
<1>5. CASE BeginStep(c)
  BY <1>5, Zenon DEF BeginStep, Begun
<1>6. ASSUME call'[c].op = call[c].op, call[c].pc \in {"get", "put", "idle"} PROVE FALSE
  <2>1. call[c].op \in {"none", "get"}
    <3>1. PcFits(call[c])
      BY Zenon DEF Given, Shape
    <3>2. QED
      BY <1>6, <3>1, NoCallIs DEF PcFits
  <2>2. QED
    BY <1>6, <2>1 DEF Owning
<1>7. ASSUME call'[c] = NoCall \/ call'[c].op = "get" PROVE FALSE
  BY <1>7, NoCallIs DEF Owning
<1>8. CASE GetStep(c) \/ PutStep(c)
  BY <1>7, <1>8, Zenon DEF GetStep, PutStep, DropStep
<1>9. CASE EntryStep(c) \/ (OopsStep(c) /\ call[c].pc \in {"put", "idle"})
  <2>1. call'[c] = NoCall \/ call'[c].op = call[c].op
    BY <1>9, Zenon DEF EntryStep, EntryNull, EntryFail, EntryNew, EntryJoin, Taken, OopsStep
  <2>2. call[c].pc \in {"get", "put", "idle"}
    BY <1>9 DEF EntryStep
  <2>3. QED
    BY <1>6, <1>7, <2>1, <2>2, Zenon
<1>10. QED
  BY <1>4, <1>5, <1>8, <1>9, Zenon DEF Given, StepOf

(* Only calls of shared controls count.                                    *)
LEMMA CountSteps ==
  ASSUME NEW c \in Consumers, Given(c), Owners, call'[c].pc \in {"nonzero", "count", "uncount"}
  PROVE  Framed(c) /\ Kept /\ call'[c].todo = call[c].todo /\ Shared(c, Cur(c))
<1>1. ~(Proceeded(c) \/ Failed(c))
  BY NoCallIs DEF Proceeded, Failed, Onward, Again, Over, GivenUp, Undoing
<1>2. Framed(c) /\ OpStep(c) /\ Effects(c)
  <2>1. ~(GetStep(c) \/ PutStep(c) \/ BeginStep(c) \/ OopsStep(c) \/ EntryStep(c))
    BY NoCallIs DEF GetStep, PutStep, DropStep, BeginStep, Begun, OopsStep, EntryStep,
                    EntryNull, EntryFail, EntryNew, EntryJoin, Taken
  <2>2. QED
    BY <2>1, Zenon DEF Given, StepOf
<1>3. Framed(c) /\ Kept
  BY <1>2, Zenon DEF Effects
<1>4. ASSUME Control(c) \in Rstcs, ctl[Control(c)].shared PROVE Shared(c, Cur(c))
  BY <1>4, ResetAssumption, Zenon DEF Shared, Control, Cur
<1>5. CASE CheckStep(c)
  <2>1. ASSUME Moved(c, "ops") PROVE FALSE
    BY <2>1 DEF Moved
  <2>2. QED
    BY <1>1, <1>3, <1>4, <1>5, <2>1, Zenon DEF CheckStep, Moved
<1>6. CASE NonzeroStep(c)
  <2>1. Shared(c, Cur(c))
    BY <1>6 DEF NonzeroStep, Owners, CallFits
  <2>2. QED
    BY <1>1, <1>3, <1>6, <2>1, Zenon DEF NonzeroStep, Moved
<1>7. CASE OpsStep(c)
  BY <1>1, <1>3, <1>4, <1>7, Zenon DEF OpsStep, Moved
<1>8. CASE CountStep(c)
  BY <1>1, <1>8 DEF CountStep, Moved
<1>9. CASE RearmCheckStep(c)
  BY <1>1, <1>9 DEF RearmCheckStep, Moved
<1>10. QED
  BY <1>1, <1>2, <1>5, <1>6, <1>7, <1>8, <1>9, Zenon DEF OpStep, NullStep, UncountStep, RearmStep,
                                                       AcquireStep, ReleaseStep

LEMMA CallFitsStep ==
  ASSUME NEW c \in Consumers, Given(c), Owners, NEW d \in Consumers
  PROVE  CallFits(d)'
<1>1. CASE d # c
  <2>1. call'[d] = call[d] /\ Real(d)' = Real(d) /\ Cur(d)' = Cur(d) /\ CallFits(d)
    BY <1>1, OtherHandles, Zenon DEF Cur, Owners
  <2>2. ASSUME NEW i \in Real(d) PROVE Shared(d, i)' <=> Shared(d, i)
    BY <1>1, OthersOwn, Zenon
  <2>3. ASSUME call[d].pc \in {"nonzero", "count", "uncount"} PROVE Cur(d) \in Real(d)
    <3>1. CallTypes /\ CtlTypes /\ Shape /\ call[d].pc \in Operating
      BY <2>3 DEF Given, Operating
    <3>2. Cur(d) \in Dom(d) /\ Shared(d, Cur(d))
      BY <2>1, <2>3, <3>1, OperatingFacts, Zenon DEF CallFits
    <3>3. QED
      BY <3>2, Zenon DEF Real, Shared
  <2>4. QED
    BY <2>1, <2>2, <2>3, Zenon DEF CallFits
<1>2. CASE d = c
  <2>1. ASSUME call'[c].op \in Owning, NEW i \in Real(c)' PROVE ~Shared(c, i)'
    <3>1. UNCHANGED handle /\ \A r \in Rstcs : ctl'[r].shared = ctl[r].shared
      BY <2>1, CallSteps, Zenon DEF Framed, Effects, Kept, Begun
    <3>2. i \in Real(c) /\ handle[c][i] \in Rstcs
      BY <3>1, Zenon DEF Given, Listed, Real, Dom
    <3>3. ~Shared(c, i)
      <4>1. CASE call[c].op \in Owning
        BY <3>2, <4>1, Zenon DEF Owners, CallFits
      <4>2. CASE Begun(c, call'[c].op)
        <5>1. Balanced(c, call'[c].op) /\ i \in DOMAIN handle[c]
          BY <3>2, <4>2, HandleTypes, Zenon DEF Begun, Given, Real
        <5>2. QED
          BY <2>1, <5>1 DEF Balanced, Owning
      <4>3. QED
        BY <2>1, <4>1, <4>2, CallSteps, Zenon
    <3>4. QED
      BY <3>1, <3>2, <3>3, Zenon DEF Shared
  <2>2. ASSUME call'[c].pc \in {"nonzero", "count", "uncount"} PROVE Shared(c, Cur(c))'
    <3>1. Framed(c) /\ Kept /\ call'[c].todo = call[c].todo /\ Shared(c, Cur(c))
      BY <2>2, CountSteps, Zenon
    <3>2. Cur(c)' = Cur(c) /\ CtlTypes /\ CallTypes /\ Shape /\ UNCHANGED handle
      BY <3>1, Zenon DEF Cur, Given, Framed
    <3>3. handle[c][Cur(c)] \in Rstcs
      <4>1. call[c].pc \in Operating
        BY <3>1, Zenon DEF Framed
      <4>2. Cur(c) \in Real(c)
        BY <3>1, <3>2, <4>1, OperatingFacts, Zenon DEF Real, Shared
      <4>3. QED
        BY <4>2, Zenon DEF Given, Listed
    <3>4. QED
      BY <3>1, <3>2, <3>3, Zenon DEF Shared, Kept
  <2>3. QED
    BY <1>2, <2>1, <2>2, Zenon DEF CallFits
<1>3. QED
  BY <1>1, <1>2, Zenon

LEMMA EntryFits ==
  ASSUME NEW c \in Consumers, Given(c), Owners, EntryStep(c), NEW i \in Real(c)'
  PROVE  (Shared(c, i)' <=> call[c].shared) /\ (Acq(c, i)' <=> call[c].acquired)
<1>1. call[c].pc = "get" /\ GetFits(c)
  <2>1. call[c].pc = "get"
    BY Zenon DEF EntryStep
  <2>2. QED
    BY <2>1, Zenon DEF Owners
<1>2. CASE Stays(c, i)
  <2>1. /\ handle'[c][i] = handle[c][i] /\ handle[c][i] \in Rstcs /\ handle[c][i] \in Range(head)
        /\ ctl'[handle[c][i]].shared = ctl[handle[c][i]].shared /\ i \in Real(c)
    BY <1>2, Zenon DEF Stays, Given, Listed
  <2>2. ctl'[handle[c][i]].acquired = ctl[handle[c][i]].acquired
    BY <2>1, Zenon DEF EntryStep, EntryNull, EntryFail, EntryNew, EntryJoin
  <2>3. QED
    BY <1>1, <2>1, <2>2, Zenon DEF GetFits, Shared, Acq
<1>3. ASSUME NEW r \in Rstcs, Gets(c, r), handle'[c][i] = r
      PROVE  (Shared(c, i)' <=> call[c].shared) /\ (Acq(c, i)' <=> call[c].acquired)
  <2>1. handle'[c][i] # NULL
    BY Zenon DEF Real
  <2>2. CASE EntryNew(c, r)
    BY <1>3, <2>1, <2>2, Zenon DEF EntryNew, Shared, Acq
  <2>3. CASE EntryJoin(c, r)
    <3>1. /\ ctl[r].shared /\ call[c].shared
          /\ ctl'[r].acquired = ctl[r].acquired /\ ctl'[r].shared = ctl[r].shared
      BY <2>3, Zenon DEF EntryJoin
    <3>2. ~call[c].acquired /\ ~ctl[r].acquired
      BY <1>1, <3>1, Zenon DEF GetFits, Owners, Alone
    <3>3. QED
      BY <1>3, <2>1, <3>1, <3>2, Zenon DEF Shared, Acq
  <2>4. QED
    BY <1>3, <2>2, <2>3, Zenon DEF Gets
<1>4. QED
  BY <1>2, <1>3, HandleSteps, Zenon

LEMMA GetFitsStep ==
  ASSUME NEW c \in Consumers, Given(c), Owners, NEW d \in Consumers
  PROVE  GetFits(d)'
<1>1. CASE d # c
  <2>1. call'[d] = call[d] /\ Real(d)' = Real(d) /\ GetFits(d)
    BY <1>1, OtherHandles, Zenon DEF Owners
  <2>2. ASSUME NEW i \in Real(d) PROVE (Shared(d, i)' <=> Shared(d, i)) /\ (Acq(d, i)' <=> Acq(d, i))
    BY <1>1, OthersOwn, Zenon
  <2>3. QED
    BY <2>1, <2>2, Zenon DEF GetFits
<1>2. ASSUME call'[c].pc = "get" PROVE GetFits(c)'
  <2>1. CASE GetStep(c)
    <3>1. Real(c)' = {}
      BY <2>1 DEF GetStep, Real, Dom
    <3>2. QED
      BY <2>1, <3>1, Zenon DEF GetStep, GetFits
  <2>2. CASE EntryStep(c)
    <3>1. call[c].pc = "get"
      BY <2>2, Zenon DEF EntryStep
    <3>2. GetFits(c)
      BY Zenon DEF Owners
    <3>3. call'[c] = call[c]
      BY <1>2, <2>2, NoCallIs DEF EntryStep, EntryNull, EntryFail, EntryNew, EntryJoin, Taken
    <3>4. \A i \in Real(c)' : (Shared(c, i)' <=> call[c].shared) /\ (Acq(c, i)' <=> call[c].acquired)
      BY <2>2, EntryFits, Zenon
    <3>5. QED
      BY <3>1, <3>2, <3>3, <3>4, Zenon DEF GetFits
  <2>3. CASE OpStep(c)
    <3>1. \E pc \in Operating : Proceeded(c) \/ Failed(c) \/ Moved(c, pc)
      BY <2>3 DEF OpStep, NullStep, CheckStep, NonzeroStep, CountStep, OpsStep, UncountStep,
                  RearmCheckStep, RearmStep, AcquireStep, ReleaseStep, Operating
    <3>2. FALSE
      BY <1>2, <3>1, NoCallIs DEF Proceeded, Failed, Onward, Again, Over, GivenUp, Undoing, Moved, Operating
    <3>3. QED
      BY <3>2, Zenon
  <2>4. ~(PutStep(c) \/ BeginStep(c) \/ OopsStep(c))
    BY <1>2, NoCallIs DEF PutStep, DropStep, BeginStep, Begun, OopsStep
  <2>5. QED
    BY <2>1, <2>2, <2>3, <2>4, Zenon DEF Given, StepOf
<1>3. QED
  BY <1>1, <1>2, Zenon DEF GetFits

LEMMA OwnersStep ==
  ASSUME NEW c \in Consumers, Given(c), Owners
  PROVE  Owners'
  BY OneOwnerStep, AloneStep, ApartStep, AlikeStep, CallFitsStep, GetFitsStep, Zenon DEF Owners

-----------------------------------------------------------------------------
(* Which controls a consumer has acquired.  AllOrNothing speaks of calls    *)
(* that are over; during a call that acquires or releases its controls, the *)
(* ones it has not come to are as alike as before, and the others as it     *)
(* left them.                                                               *)
AcquiredFor(c) ==
  /\ call[c].op \notin Owning => \A i, j \in Real(c) : Acq(c, i) <=> Acq(c, j)
  /\ call[c].op = "acquire" => /\ \A i, j \in Real(c) \cap Todo(c) : Acq(c, i) <=> Acq(c, j)
                               /\ \A i \in Real(c) \ Todo(c) : Acq(c, i)
  /\ call[c].op = "release" => \A i \in Real(c) \ Todo(c) : ~Acq(c, i)

Acquired == \A c \in Consumers : AcquiredFor(c)

(* The control that a call acquires or releases, or fails to acquire.      *)
LEMMA OwningStep ==
  ASSUME NEW c \in Consumers, Given(c), Owners, AcquiredFor(c),
         Framed(c), OpStep(c), Effects(c), call[c].op \in Owning
  PROVE  AcquiredFor(c)'
<1>1. CallTypes /\ CtlTypes /\ Shape /\ call[c].pc \in Operating /\ UNCHANGED handle /\ Real(c)' = Real(c)
  BY Zenon DEF Given, Framed, Real, Dom
<1>2. /\ Cur(c) \in Todo(c) /\ Cur(c) \in Dom(c) /\ Todo(c) \cup Done(c) \subseteq Dom(c)
      /\ ~call[c].undo => Todo(c) \cup Done(c) = Dom(c)
      /\ Dom(c) = DOMAIN Wants[c] /\ Todo(c) \cap Done(c) = {}
  BY <1>1, OperatingFacts, Zenon
<1>3. ASSUME NEW i \in Real(c), i # Cur(c) PROVE Acq(c, i)' <=> Acq(c, i)
  <2>1. handle[c][i] \in Rstcs /\ ~Shared(c, i)
    BY Zenon DEF Given, Listed, Owners, CallFits
  <2>2. handle[c][i] # Control(c)
    <3>1. ASSUME handle[c][i] = Control(c) PROVE Cur(c) \in Real(c) /\ handle[c][i] = handle[c][Cur(c)]
      BY <1>1, <2>1, <3>1, AtControl, Zenon
    <3>2. QED
      BY <1>3, <2>1, <3>1, Zenon DEF Owners, Apart
  <2>3. QED
    BY <1>1, <2>1, <2>2, Zenon DEF Effects, Acq
<1>4. (call[c].op = "release" <=> call[c].op # "acquire") /\ ~Again(c)
  BY DEF Again, Owning
<1>5. ASSUME Proceeded(c),
             \A i \in Real(c) : i = Cur(c) => (Acq(c, i)' <=> call[c].op = "acquire")
      PROVE  AcquiredFor(c)'
  <2>1. CASE Onward(c)
    <3>1. Todo(c)' = Todo(c) \ {Cur(c)} /\ call'[c].op = call[c].op /\ call'[c].op \in Owning
      BY <2>1, Zenon DEF Onward
    <3>2. CASE call[c].op = "acquire"
      <4>1. ASSUME NEW i \in Real(c), i \notin Todo(c)' PROVE Acq(c, i)'
        <5>1. i = Cur(c) \/ (i # Cur(c) /\ i \in Real(c) \ Todo(c))
          BY <3>1, <4>1, Zenon
        <5>2. QED
          BY <1>3, <1>5, <3>2, <5>1, Zenon DEF AcquiredFor
      <4>2. ASSUME NEW i \in Real(c), i \in Todo(c)' PROVE i \in Todo(c) /\ (Acq(c, i)' <=> Acq(c, i))
        BY <1>3, <3>1, <4>2, Zenon
      <4>3. QED
        BY <1>1, <3>1, <3>2, <4>1, <4>2 DEF AcquiredFor
    <3>3. CASE call[c].op = "release"
      <4>1. ASSUME NEW i \in Real(c), i \notin Todo(c)' PROVE ~Acq(c, i)'
        <5>1. i = Cur(c) \/ (i # Cur(c) /\ i \in Real(c) \ Todo(c))
          BY <3>1, <4>1, Zenon
        <5>2. QED
          BY <1>3, <1>4, <1>5, <3>3, <5>1, Zenon DEF AcquiredFor
      <4>2. QED
        BY <1>1, <3>1, <3>3, <4>1 DEF AcquiredFor
    <3>4. QED
      BY <1>4, <3>2, <3>3, Zenon
  <2>2. CASE Over(c)
    <3>1. Todo(c) = {Cur(c)} /\ call'[c].op = "none"
      BY <2>2, NoCallIs, Zenon DEF Over
    <3>2. ASSUME NEW i \in Real(c)
          PROVE  Acq(c, i)' <=> call[c].op = "acquire"
      <4>1. CASE i = Cur(c)
        BY <1>5, <4>1, Zenon
      <4>2. CASE i # Cur(c)
        <5>1. i \in Real(c) \ Todo(c) /\ (Acq(c, i)' <=> Acq(c, i))
          BY <1>3, <3>1, <4>2
        <5>2. QED
          BY <1>4, <5>1, Zenon DEF AcquiredFor
      <4>3. QED
        BY <4>1, <4>2, Zenon
    <3>3. \A i, j \in Real(c) : Acq(c, i)' <=> Acq(c, j)'
      BY <3>2, Zenon
    <3>4. call'[c].op # "acquire" /\ call'[c].op # "release"
      BY <3>1
    <3>5. QED
      BY <1>1, <3>3, <3>4, Zenon DEF AcquiredFor
  <2>3. QED
    BY <1>4, <1>5, <2>1, <2>2, Zenon DEF Proceeded
<1>6. ASSUME Failed(c), UNCHANGED ctl, call[c].op = "acquire", Cur(c) \in Real(c), ~Acq(c, Cur(c))
      PROVE  AcquiredFor(c)'
  <2>1. \A i \in Real(c) : Acq(c, i)' <=> Acq(c, i)
    BY <1>1, <1>6, Zenon DEF Acq
  <2>2. CASE GivenUp(c)
    <3>1. Form[c] = "single" \/ call[c].done = <<>>
      BY <1>6, <2>2 DEF GivenUp, Undone, UndoOf
    <3>2. \A i, j \in Real(c) : Acq(c, i) <=> Acq(c, j)
      <4>1. CASE call[c].done = <<>>
        <5>1. Done(c) = {}
          BY <4>1, EmptyIs, Zenon DEF Done
        <5>2. Real(c) \subseteq Todo(c)
          BY <1>2, <2>2, <5>1, Zenon DEF GivenUp, Real
        <5>3. QED
          BY <1>6, <5>2, Zenon DEF AcquiredFor
      <4>2. CASE Form[c] = "single"
        <5>1. Dom(c) = {1}
          BY <1>2, <4>2, ConstantTypes
        <5>2. QED
          BY <5>1, Zenon DEF Real
      <4>3. QED
        BY <3>1, <4>1, <4>2, Zenon
    <3>3. call'[c].op \notin Owning /\ call'[c].op # "acquire" /\ call'[c].op # "release"
      BY <2>2, NoCallIs DEF GivenUp, Owning
    <3>4. QED
      BY <1>1, <2>1, <3>2, <3>3, Zenon DEF AcquiredFor
  <2>3. CASE Undoing(c)
    <3>1. ~call[c].undo /\ Todo(c)' = Done(c) /\ call'[c].op = "release"
      BY <1>6, <2>3 DEF Undoing, UndoOf
    <3>2. ASSUME NEW i \in Real(c), i \notin Todo(c)' PROVE ~Acq(c, i)
      BY <1>2, <1>6, <3>1, <3>2, Zenon DEF Real, AcquiredFor
    <3>3. call'[c].op \in Owning /\ call'[c].op # "acquire"
      BY <3>1 DEF Owning
    <3>4. QED
      BY <1>1, <2>1, <3>2, <3>3, Zenon DEF AcquiredFor
  <2>4. ~call[c].undo
    <3>1. PcFits(call[c])
      BY <1>1, Zenon DEF Shape
    <3>2. QED
      BY <1>6, <3>1 DEF PcFits
  <2>5. QED
    BY <1>6, <2>2, <2>3, <2>4, Zenon DEF Failed
<1>7. CASE NullStep(c)
  BY <1>5, <1>7, Zenon DEF NullStep, Real, Control, Cur
<1>8. CASE AcquireStep(c) \/ ReleaseStep(c)
  <2>1. /\ call[c].pc \in Operating /\ Control(c) \in Rstcs
        /\ Cur(c) \in Real(c) /\ Control(c) = handle[c][Cur(c)]
        /\ ctl[Control(c)] \in CtlRecs /\ ctl \in [Rstcs -> CtlRecs]
    BY <1>1, <1>8, AtControl, Zenon DEF AcquireStep, ReleaseStep, CtlTypes
  <2>2. CASE ReleaseStep(c)
    <3>1. ctl'[Control(c)].acquired = FALSE
      BY <2>1, <2>2 DEF ReleaseStep, CtlRecs
    <3>2. (\A i \in Real(c) : i = Cur(c) => ~Acq(c, i)') /\ call[c].op # "acquire" /\ Proceeded(c)
      BY <1>1, <1>4, <2>1, <2>2, <3>1, Zenon DEF ReleaseStep, Acq
    <3>3. QED
      BY <1>5, <3>2, Zenon
  <2>3. CASE AcquireStep(c) /\ ctl' = [ctl EXCEPT ![Control(c)].acquired = TRUE] /\ Proceeded(c)
    <3>1. ctl'[Control(c)].acquired = TRUE
      BY <2>1, <2>3 DEF CtlRecs
    <3>2. (\A i \in Real(c) : i = Cur(c) => Acq(c, i)') /\ call[c].op = "acquire"
      BY <1>1, <2>1, <2>3, <3>1, Zenon DEF AcquireStep, Acq
    <3>3. QED
      BY <1>5, <2>3, <3>2, Zenon
  <2>4. CASE AcquireStep(c) /\ UNCHANGED ctl /\ ~ctl[Control(c)].acquired /\ Failed(c)
    BY <1>6, <2>1, <2>4, Zenon DEF AcquireStep, Acq
  <2>5. QED
    BY <1>8, <2>2, <2>3, <2>4, Zenon DEF AcquireStep
<1>9. QED
  BY <1>4, <1>7, <1>8 DEF OpStep, CheckStep, NonzeroStep, CountStep, OpsStep, UncountStep, RearmCheckStep, RearmStep

LEMMA AcquiredStep ==
  ASSUME NEW c \in Consumers, Given(c), Owners, Acquired
  PROVE  Acquired'
<1>1. ASSUME NEW d \in Consumers, d # c PROVE AcquiredFor(d)'
  <2>1. call'[d] = call[d] /\ Real(d)' = Real(d) /\ Todo(d)' = Todo(d) /\ AcquiredFor(d)
    BY <1>1, OtherHandles, Zenon DEF Todo, Acquired
  <2>2. ASSUME NEW i \in Real(d) PROVE Acq(d, i)' <=> Acq(d, i)
    BY <1>1, OthersOwn, Zenon
  <2>3. QED
    BY <2>1, <2>2, Zenon DEF AcquiredFor
<1>2. "acquire" \in Owning /\ "release" \in Owning
  BY DEF Owning
<1>3. ASSUME call'[c].op \notin Owning, \A i, j \in Real(c)' : Acq(c, i)' <=> Acq(c, j)'
      PROVE  AcquiredFor(c)'
  BY <1>2, <1>3, Zenon DEF AcquiredFor
<1>4. ASSUME call[c].op \notin Owning, UNCHANGED handle, UNCHANGED ctl \/ SameOwner
      PROVE  Real(c)' = Real(c) /\ \A i, j \in Real(c) : Acq(c, i)' <=> Acq(c, j)'
  <2>1. Real(c)' = Real(c)
    BY <1>4, Zenon DEF Real, Dom
  <2>2. ASSUME NEW i \in Real(c) PROVE Acq(c, i)' <=> Acq(c, i)
    BY <1>4, Zenon DEF Acq, SameOwner, Given, Listed
  <2>3. QED
    BY <1>4, <2>1, <2>2, Zenon DEF Acquired, AcquiredFor
<1>5. ASSUME call[c].pc \in {"idle", "get", "put"} PROVE call[c].op \notin Owning
  <2>1. PcFits(call[c])
    BY Zenon DEF Given, Shape
  <2>2. QED
    BY <1>5, <2>1, NoCallIs DEF PcFits, Owning
<1>6. SUFFICES AcquiredFor(c)'
  BY <1>1, Zenon DEF Acquired
<1>7. CASE EntryStep(c)
  <2>1. ~Begun(c, call'[c].op) /\ call[c].pc = "get" /\ ~Framed(c)
    BY <1>7, NoCallIs DEF EntryStep, Begun, Framed, Operating
  <2>2. call'[c].op \notin Owning
    BY <2>1, CallSteps, Zenon
  <2>3. QED
    BY <1>3, <1>7, <2>2, EntryFits, Zenon
<1>8. CASE PutStep(c)
  <2>1. Dom(c)' = {} /\ call'[c].op \notin Owning
    BY <1>8, NoCallIs DEF PutStep, DropStep, Dom, Owning
  <2>2. QED
    BY <1>3, <2>1, Zenon DEF Real
<1>9. CASE GetStep(c) \/ (OopsStep(c) /\ call[c].pc \in {"put", "idle"})
  <2>1. call[c].op \notin Owning
    BY <1>5, <1>9 DEF GetStep
  <2>2. call'[c].op \notin Owning
    BY <1>9, <2>1 DEF GetStep, OopsStep, Owning
  <2>3. UNCHANGED <<ctl, handle>>
    BY <1>9, Zenon DEF GetStep, OopsStep
  <2>4. QED
    BY <1>3, <1>4, <2>1, <2>2, <2>3, Zenon
<1>10. CASE BeginStep(c)
  <2>1. PICK op \in CallOps : Begun(c, op)
    BY <1>10, Zenon DEF BeginStep
  <2>2. call[c].op \notin Owning
    BY <2>1, NoCallIs DEF Begun, Owning
  <2>3. /\ UNCHANGED <<ctl, handle>> /\ Todo(c)' = Dom(c) /\ call'[c].op = op
    BY <2>1, Zenon DEF Begun
  <2>4. Real(c)' = Real(c) /\ \A i, j \in Real(c) : Acq(c, i)' <=> Acq(c, j)'
    BY <1>4, <2>2, <2>3, Zenon
  <2>5. Real(c) \subseteq Todo(c)'
    BY <2>3, Zenon DEF Real
  <2>6. QED
    BY <2>4, <2>5, Zenon DEF AcquiredFor
<1>11. CASE Framed(c) /\ OpStep(c) /\ Effects(c)
  <2>1. CASE call[c].op \in Owning
    BY <1>11, <2>1, OwningStep, Zenon DEF Acquired
  <2>2. CASE call[c].op \notin Owning
    <3>1. UNCHANGED handle /\ SameOwner /\ ~Begun(c, call'[c].op)
      BY <1>11, <2>2, NoCallIs DEF Framed, Effects, Begun, Operating
    <3>2. call'[c].op \notin Owning
      BY <2>2, <3>1, CallSteps, Zenon
    <3>3. QED
      BY <1>3, <1>4, <2>2, <3>1, <3>2, Zenon
  <2>3. QED
    BY <2>1, <2>2, Zenon
<1>12. QED
  BY <1>7, <1>8, <1>9, <1>10, <1>11, Zenon DEF Given, StepOf

(* A step that leaves the controls and the calls alone.                    *)
LEMMA OwnersKept ==
  ASSUME Owners, Acquired, UNCHANGED <<head, ctl, handle, call>>
  PROVE  Owners' /\ Acquired'
<1>1. ASSUME NEW c \in Consumers
      PROVE  Dom(c)' = Dom(c) /\ Real(c)' = Real(c) /\ Cur(c)' = Cur(c) /\ Todo(c)' = Todo(c)
  BY Zenon DEF Dom, Real, Cur, Todo
<1>2. ASSUME NEW c \in Consumers, NEW i
      PROVE  (Shared(c, i)' <=> Shared(c, i)) /\ (Acq(c, i)' <=> Acq(c, i))
  BY Zenon DEF Shared, Acq
<1>3. OneOwner' /\ Alone'
  BY Zenon DEF Owners, OneOwner, Alone
<1>4. Apart'
  <2>1. Apart
    BY Zenon DEF Owners
  <2>2. SUFFICES ASSUME NEW d \in Consumers, NEW e \in Consumers, NEW i \in Real(d)', NEW j \in Real(e)',
                        handle'[d][i] = handle'[e][j], ~Shared(d, i)'
                 PROVE  d = e /\ i = j
    BY DEF Apart
  <2>3. i \in Real(d) /\ j \in Real(e) /\ handle[d][i] = handle[e][j] /\ ~Shared(d, i)
    BY <1>1, <1>2, <2>2, Zenon
  <2>4. QED
    BY <2>1, <2>3, Zenon DEF Apart
<1>5. ASSUME NEW c \in Consumers PROVE Alike(c)' /\ CallFits(c)' /\ GetFits(c)' /\ AcquiredFor(c)'
  <2>1. Alike(c) /\ CallFits(c) /\ GetFits(c) /\ AcquiredFor(c)
    BY Zenon DEF Owners, Acquired
  <2>2. \A i : (Shared(c, i)' <=> Shared(c, i)) /\ (Acq(c, i)' <=> Acq(c, i))
    BY <1>2, Zenon
  <2>3. Alike(c)' /\ GetFits(c)'
    BY <1>1, <2>1, <2>2, Zenon DEF Alike, GetFits
  <2>4. CallFits(c)'
    <3>1. Shared(c, Cur(c))' <=> Shared(c, Cur(c))
      BY <1>1, Zenon DEF Shared
    <3>2. QED
      BY <1>1, <2>1, <2>2, <3>1, Zenon DEF CallFits
  <2>5. AcquiredFor(c)'
    BY <1>1, <2>1, <2>2, Zenon DEF AcquiredFor
  <2>6. QED
    BY <2>3, <2>4, <2>5, Zenon
<1>6. QED
  BY <1>3, <1>4, <1>5, Zenon DEF Owners, Acquired
=============================================================================
