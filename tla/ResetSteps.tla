----------------------------- MODULE ResetSteps ----------------------------
(* Every step of Reset is one of the steps of ResetInvariants.             *)
EXTENDS ResetInvariants

LEMMA CallSet ==
  ASSUME CallTypes, NEW c \in Consumers, NEW k \in CallRecs, call' = [call EXCEPT ![c] = k]
  PROVE  /\ call' \in [Consumers -> CallRecs] /\ call'[c] = k
         /\ \A d \in Consumers : d # c => call'[d] = call[d]
  BY DEF CallTypes

(* A call visits all its controls.                                         *)
LEMMA OrderIs ==
  ASSUME CtlTypes, NEW c \in Consumers, NEW op
  PROVE  /\ Order(c, op) \in Seq(Nat) /\ Once(Order(c, op))
         /\ Range(Order(c, op)) = Dom(c)
         /\ handle[c] # <<>> => Order(c, op) # <<>>
<1> DEFINE n == Len(handle[c])
<1>1. n \in Nat /\ (handle[c] # <<>> => n # 0)
  BY HandleTypes
<1> HIDE DEF n
<1>2. /\ Backward(n) \in Seq(Nat) /\ Len(Backward(n)) = n
      /\ Forward(n) \in Seq(Nat) /\ Len(Forward(n)) = n
      /\ \A k \in 1 .. n : Backward(n)[k] = n + 1 - k /\ Forward(n)[k] = k
  BY <1>1 DEF Backward, Forward
<1>3. Once(Backward(n)) /\ Once(Forward(n))
  <2>1. \A j, k \in 1 .. n : n + 1 - j = n + 1 - k => j = k
    BY <1>1
  <2>2. QED
    BY <1>2, <2>1, Zenon DEF Once
<1>4. \A x : (x \in 1 .. n <=> OnList(Forward(n), x))
  BY <1>2, Zenon DEF OnList
<1>5. ASSUME NEW x PROVE x \in 1 .. n <=> OnList(Backward(n), x)
  <2>1. ASSUME x \in 1 .. n PROVE OnList(Backward(n), x)
    <3>1. n + 1 - x \in 1 .. n /\ n + 1 - (n + 1 - x) = x
      BY <1>1, <2>1
    <3>2. QED
      BY <1>2, <3>1, Zenon DEF OnList
  <2>2. \A k \in 1 .. n : n + 1 - k \in 1 .. n
    BY <1>1
  <2>3. QED
    BY <1>2, <2>1, <2>2, Zenon DEF OnList
<1>6. Range(Backward(n)) = 1 .. n /\ Range(Forward(n)) = 1 .. n
  <2>1. /\ \A x : x \in Range(Backward(n)) <=> OnList(Backward(n), x)
        /\ \A x : x \in Range(Forward(n)) <=> OnList(Forward(n), x)
    BY <1>2, RangeIs, Zenon
  <2>2. QED
    BY <1>4, <1>5, <2>1, Zenon
<1>7. n # 0 => Backward(n) # <<>> /\ Forward(n) # <<>>
  BY <1>2
<1>8. QED
  BY <1>1, <1>2, <1>3, <1>6, <1>7, Zenon DEF Order, Dom, n

LEMMA ShapeKept ==
  ASSUME Shape, NEW c \in Consumers, UNCHANGED handle,
         \A d \in Consumers : d # c => call'[d] = call[d],
         PcFits(call'[c]), Visits(c)', call'[c].pc # "get"
  PROVE  Shape'
<1>1. ASSUME NEW d \in Consumers, d # c PROVE PcFits(call'[d]) /\ (Visits(d) => Visits(d)')
  BY <1>1, Zenon DEF Shape, Visits, Todo, Done, Dom, Control
<1>2. QED
  BY <1>1, Zenon DEF Shape

(* A call that has come to an end has nothing to visit.                    *)
LEMMA NothingToVisit ==
  ASSUME CallTypes, NEW c \in Consumers, call'[c] = NoCall
  PROVE  Visits(c)' /\ PcFits(call'[c]) /\ call'[c].pc # "get"
<1>1. Todo(c)' = {} /\ Done(c)' = {} /\ Once(call'[c].todo) /\ Once(call'[c].done)
  BY NoCallIs, EmptyIs, Zenon DEF Todo, Done
<1>2. call'[c].pc \notin Operating
  BY NoCallIs DEF Operating
<1>3. QED
  BY <1>1, <1>2, NoCallIs, Zenon DEF Visits

Operation(c) ==
  \/ null_control(c) \/ check(c) \/ assert_nonzero(c) \/ count(c) \/ ops(c)
  \/ reset_uncount(c) \/ rearm_check(c) \/ rearm(c)
  \/ reset_control_acquire(c) \/ reset_control_release(c)

(* Every operation is one of these steps.                                  *)
LEMMA Operated ==
  ASSUME CallTypes, CtlTypes, Shape, NEW c \in Consumers, Operation(c)
  PROVE  Framed(c) /\ OpStep(c)
<1>1. /\ UndoOf("assert") = "deassert" /\ UndoOf("deassert") = "assert"
      /\ UndoOf("acquire") = "release"
      /\ \A op : UndoOf(op) # "none" <=> op \in {"assert", "deassert", "acquire"}
  BY DEF UndoOf
<1>2. ASSUME UNCHANGED handle,
             call[c].pc \in Operating,
             Succeed(c)
      PROVE  CallTypes' /\ Shape' /\ Others(c) /\ Proceeded(c)
  <2> USE <1>2
  <2> DEFINE k == call[c]
             onward == [k EXCEPT !.todo = Tail(@), !.done = <<Cur(c)>> \o @,
                                 !.pc = IF @ = "rearm" /\ Form[c] = "array" THEN "rearm" ELSE "check"]
             again == [k EXCEPT !.todo = Order(c, "rearm"), !.done = <<>>, !.pc = "rearm"]
  <2>1. /\ k \in CallRecs /\ k.todo \in Seq(Nat) /\ k.done \in Seq(Nat)
        /\ PcFits(k) /\ Visits(c) /\ k.op \in CallOps
    BY CallFields, OperatingFacts, Zenon DEF Shape
  <2>2. CASE Len(k.todo) # 1
    <3>1. call' = [call EXCEPT ![c] = onward] /\ UNCHANGED belief
      BY <2>2, Zenon DEF Succeed, Cur
    <3>2. /\ Tail(k.todo) \in Seq(Nat) /\ Once(Tail(k.todo)) /\ Tail(k.todo) # <<>>
          /\ Range(Tail(k.todo)) = Todo(c) \ {Cur(c)}
      BY <2>1, <2>2, OperatingFacts, TailIs, Zenon DEF Cur, Todo
    <3>3. /\ <<Cur(c)>> \o k.done \in Seq(Nat) /\ Once(<<Cur(c)>> \o k.done)
          /\ Range(<<Cur(c)>> \o k.done) = {Cur(c)} \cup Done(c)
      <4>1. Cur(c) \in Nat /\ Cur(c) \notin Range(k.done) /\ Once(k.done)
        BY OperatingFacts, Zenon DEF Done
      <4>2. QED
        BY <2>1, <4>1, PushIs, Zenon DEF Done
    <3>4. /\ onward \in CallRecs
          /\ onward.op = k.op /\ onward.undo = k.undo
          /\ onward.todo = Tail(k.todo) /\ onward.done = <<Cur(c)>> \o k.done
          /\ onward.pc = IF k.pc = "rearm" /\ Form[c] = "array" THEN "rearm" ELSE "check"
      BY <2>1, <3>2, <3>3 DEF CallRecs, Operating
    <3> HIDE DEF onward
    <3>5. /\ call' \in [Consumers -> CallRecs] /\ call'[c] = onward
          /\ \A d \in Consumers : d # c => call'[d] = call[d]
      BY <3>1, <3>4, CallSet, Zenon
    <3>6. Todo(c)' = Todo(c) \ {Cur(c)} /\ Done(c)' = Done(c) \cup {Cur(c)}
      BY <3>2, <3>3, <3>4, <3>5, Zenon DEF Todo, Done
    <3>7. onward.pc \in {"check", "rearm"} /\ (onward.pc = "rearm" <=> k.pc = "rearm" /\ Form[c] = "array")
      BY <3>4
    <3>8. Onward(c)
      BY <3>1, <3>4, <3>5, <3>6, <3>7, Zenon DEF Onward
    <3>9. PcFits(onward)
      <4>1. /\ k.pc = "rearm" => k.op = "rearm"
            /\ k.undo => k.op \in {"assert", "deassert", "release"}
        BY <2>1, Zenon DEF PcFits
      <4>2. QED
        BY <2>1, <3>2, <3>4, <3>7, <4>1 DEF PcFits
    <3>10. Visits(c)'
      <4>1. Visits(c) /\ call[c].pc \in Operating /\ Cur(c) \in Todo(c)
        BY <2>1, OperatingFacts, Zenon
      <4>2. Todo(c)' \cap Done(c)' = {} /\ Todo(c)' \cup Done(c)' = Todo(c) \cup Done(c)
        BY <3>6, <4>1, Zenon DEF Visits
      <4>3. QED
        BY <3>2, <3>3, <3>4, <3>5, <3>7, <4>1, <4>2, Zenon DEF Visits, Dom
    <3>11. QED
      <4>1. Shape'
        BY <3>5, <3>7, <3>9, <3>10, ShapeKept
      <4>2. QED
        BY <3>1, <3>5, <3>8, <4>1, Zenon DEF CallTypes, Others, Proceeded
  <2>3. CASE Len(k.todo) = 1 /\ k.op = "rearm" /\ k.pc = "check" /\ Form[c] = "array"
    <3>1. call' = [call EXCEPT ![c] = again] /\ UNCHANGED belief
      BY <2>3, Zenon DEF Succeed
    <3>2. /\ Order(c, "rearm") \in Seq(Nat) /\ Once(Order(c, "rearm"))
          /\ Range(Order(c, "rearm")) = Dom(c) /\ Order(c, "rearm") # <<>>
      BY OrderIs, OperatingFacts, Zenon
    <3>3. /\ again \in CallRecs
          /\ again.op = k.op /\ again.undo = k.undo
          /\ again.todo = Order(c, "rearm") /\ again.done = <<>> /\ again.pc = "rearm"
      BY <2>1, <3>2, EmptyIs DEF CallRecs, Operating
    <3> HIDE DEF again
    <3>4. /\ call' \in [Consumers -> CallRecs] /\ call'[c] = again
          /\ \A d \in Consumers : d # c => call'[d] = call[d]
      BY <3>1, <3>3, CallSet, Zenon
    <3>5. Todo(c)' = Dom(c) /\ Done(c)' = {}
      BY <3>2, <3>3, <3>4, EmptyIs, Zenon DEF Todo, Done
    <3>6. Again(c)
      BY <2>3, <3>1, <3>3, <3>4, <3>5, Zenon DEF Again
    <3>7. ~k.undo
      BY <2>1, <2>3 DEF PcFits
    <3>8. PcFits(again)
      BY <2>3, <3>2, <3>3, <3>7 DEF PcFits, CallOps
    <3>9. Visits(c)'
      <4>1. Len(handle[c]) = Len(Wants[c])
        BY OperatingFacts, Zenon
      <4>2. QED
        BY <3>2, <3>3, <3>4, <3>5, <3>7, <4>1, EmptyIs, Zenon DEF Visits, Dom
    <3>10. QED
      <4>1. Shape'
        BY <3>3, <3>4, <3>8, <3>9, ShapeKept
      <4>2. QED
        BY <3>1, <3>4, <3>6, <4>1, Zenon DEF CallTypes, Others, Proceeded
  <2>4. CASE Len(k.todo) = 1 /\ ~(k.op = "rearm" /\ k.pc = "check" /\ Form[c] = "array")
    <3> DEFINE told == [j \in DOMAIN belief[c] |-> Told(k.op)]
    <3>1. /\ call' = [call EXCEPT ![c] = NoCall]
          /\ belief' = IF k.undo \/ k.op \in Owning THEN belief ELSE [belief EXCEPT ![c] = told]
      BY <2>4, Zenon DEF Succeed, Owning
    <3>2. Told(k.op) \in Beliefs
      BY <2>1 DEF Told, Beliefs
    <3>3. DOMAIN belief[c] = DOMAIN Wants[c] /\ told \in [DOMAIN Wants[c] -> Beliefs]
      BY <3>2, Zenon DEF CallTypes
    <3>4. told = [j \in DOMAIN Wants[c] |-> Told(k.op)]
      BY <3>3, Zenon
    <3> HIDE DEF told
    <3>5. /\ belief' = [d \in Consumers |-> belief'[d]]
          /\ belief'[c] = IF k.undo \/ k.op \in Owning THEN belief[c] ELSE told
          /\ \A d \in Consumers : d # c => belief'[d] = belief[d]
      BY <3>1 DEF CallTypes
    <3>6. /\ call' \in [Consumers -> CallRecs] /\ call'[c] = NoCall
          /\ \A d \in Consumers : d # c => call'[d] = call[d]
      BY <3>1, NoCallIs, CallSet, Zenon
    <3>7. CallTypes'
      BY <3>3, <3>5, <3>6 DEF CallTypes
    <3>8. Over(c)
      <4>1. Todo(c) = {Cur(c)}
        BY <2>4, OperatingFacts, Zenon
      <4>2. k.op = "rearm" /\ Form[c] = "array" => k.pc = "rearm"
        BY <2>1, <2>4 DEF PcFits, Operating
      <4>3. QED
        BY <3>4, <3>5, <3>6, <4>1, <4>2, Zenon DEF Over
    <3>9. Shape'
      BY <3>6, NothingToVisit, ShapeKept
    <3>10. QED
      BY <3>5, <3>6, <3>7, <3>8, <3>9, Zenon DEF Others, Proceeded
  <2>5. QED
    BY <2>2, <2>3, <2>4, Zenon
<1>3. ASSUME UNCHANGED handle,
             call[c].pc \in Operating,
             Fail(c)
      PROVE  CallTypes' /\ Shape' /\ Others(c) /\ Failed(c)
  <2> USE <1>3
  <2> DEFINE k == call[c]
             U == Undone(c, Cur(c))
             back == [k EXCEPT !.op = UndoOf(@), !.todo = U, !.done = <<>>, !.pc = "check", !.undo = TRUE]
  <2>1. CASE k.undo
    <3>1. Succeed(c)
      BY <2>1, Zenon DEF Fail
    <3>2. QED
      BY <2>1, <3>1, <1>2, Zenon DEF Failed
  <2>2. CASE ~k.undo /\ U = <<>>
    <3>1. call' = [call EXCEPT ![c] = NoCall] /\ UNCHANGED belief
      BY <2>2, Zenon DEF Fail, Cur
    <3>2. /\ call' \in [Consumers -> CallRecs] /\ call'[c] = NoCall
          /\ \A d \in Consumers : d # c => call'[d] = call[d]
      BY <3>1, NoCallIs, CallSet, Zenon
    <3>3. Shape'
      BY <3>2, NothingToVisit, ShapeKept
    <3>4. QED
      BY <2>2, <3>1, <3>2, <3>3, Zenon DEF CallTypes, Others, Failed, GivenUp
  <2>3. CASE ~k.undo /\ U # <<>>
    <3>1. call' = [call EXCEPT ![c] = back] /\ UNCHANGED belief
      BY <2>3, Zenon DEF Fail, Cur
    <3>2. /\ k \in CallRecs /\ k.done \in Seq(Nat) /\ Once(k.done)
          /\ Cur(c) \in Nat /\ Cur(c) \notin Range(k.done) /\ Cur(c) \in Dom(c)
          /\ Done(c) \subseteq Dom(c) /\ Len(handle[c]) = Len(Wants[c])
      BY CallFields, OperatingFacts, Zenon DEF Done
    <3>3. UndoOf(k.op) # "none" /\ Form[c] # "single"
      BY <2>3, Zenon DEF Undone
    <3>4. /\ U \in Seq(Nat) /\ Once(U)
          /\ Range(U) = IF Form[c] = "bulk" /\ k.op = "deassert" THEN {Cur(c)} \cup Done(c)
                        ELSE Done(c)
      <4>1. U = IF Form[c] = "bulk" /\ k.op = "deassert" THEN <<Cur(c)>> \o k.done ELSE k.done
        BY <3>3, Zenon DEF Undone
      <4>2. /\ <<Cur(c)>> \o k.done \in Seq(Nat) /\ Once(<<Cur(c)>> \o k.done)
            /\ Range(<<Cur(c)>> \o k.done) = {Cur(c)} \cup Range(k.done)
        BY <3>2, PushIs, Zenon
      <4> HIDE DEF U
      <4>3. QED
        BY <3>2, <4>1, <4>2, Zenon DEF Done
    <3> HIDE DEF U
    <3>5. UndoOf(k.op) \in {"assert", "deassert", "release"} /\ k.op \in {"assert", "deassert", "acquire"}
      BY <3>3, <1>1, Zenon
    <3>6. /\ back \in CallRecs
          /\ back.op = UndoOf(k.op) /\ back.undo = TRUE
          /\ back.todo = U /\ back.done = <<>> /\ back.pc = "check"
      BY <3>2, <3>4, <3>5, EmptyIs DEF CallRecs, Operating, CallOps
    <3> HIDE DEF back
    <3>7. /\ call' \in [Consumers -> CallRecs] /\ call'[c] = back
          /\ \A d \in Consumers : d # c => call'[d] = call[d]
      BY <3>1, <3>6, CallSet, Zenon
    <3>8. Todo(c)' = Range(U) /\ Done(c)' = {}
      BY <3>6, <3>7, EmptyIs, Zenon DEF Todo, Done
    <3>9. Undoing(c)
      BY <2>3, <3>1, <3>3, <3>4, <3>6, <3>7, <3>8, Zenon DEF Undoing
    <3>10. PcFits(back)
      BY <2>3, <3>5, <3>6 DEF PcFits, Operating, CallOps
    <3>11. Visits(c)'
      <4>1. Range(U) \subseteq Dom(c)
        BY <3>2, <3>4, Zenon
      <4>2. QED
        BY <3>2, <3>3, <3>4, <3>6, <3>7, <3>8, <4>1, EmptyIs, Zenon DEF Visits, Dom
    <3>12. QED
      <4>1. Shape'
        BY <3>6, <3>7, <3>10, <3>11, ShapeKept
      <4>2. QED
        BY <3>1, <3>7, <3>9, <4>1, Zenon DEF CallTypes, Others, Failed
  <2>4. QED
    BY <2>1, <2>2, <2>3, Zenon
<1>4. ASSUME UNCHANGED handle,
             call[c].pc \in Operating,
             NEW pc \in {"nonzero", "count", "ops", "uncount", "rearm"},
             Goto(c, pc),
             Control(c) # NULL,
             pc = "nonzero" => call[c].op = "assert",
             pc = "uncount" => call[c].op = "reset",
             pc = "rearm" => call[c].op = "rearm",
             pc \in {"count", "ops"} => call[c].op \in {"reset", "assert", "deassert"}
      PROVE  CallTypes' /\ Shape' /\ Others(c) /\ Moved(c, pc)
  <2> USE <1>4
  <2> DEFINE k == call[c]
             moved == [k EXCEPT !.pc = pc]
  <2>1. call' = [call EXCEPT ![c] = moved] /\ UNCHANGED belief
    BY DEF Goto
  <2>2. k \in CallRecs /\ pc \in Operating /\ PcFits(k) /\ Visits(c)
    BY CallFields DEF Operating, Shape
  <2>3. /\ moved \in CallRecs /\ moved.pc = pc /\ moved.op = k.op /\ moved.undo = k.undo
        /\ moved.todo = k.todo /\ moved.done = k.done
    BY <2>2 DEF CallRecs
  <2> HIDE DEF moved
  <2>4. /\ call' \in [Consumers -> CallRecs] /\ call'[c] = moved
        /\ \A d \in Consumers : d # c => call'[d] = call[d]
    BY <2>1, <2>3, CallSet, Zenon
  <2>5. Moved(c, pc)
    BY <2>1, <2>3, <2>4, Zenon DEF Moved
  <2>6. PcFits(moved) /\ moved.pc # "get"
    BY <2>2, <2>3 DEF PcFits, Operating
  <2>7. Todo(c)' = Todo(c) /\ Done(c)' = Done(c) /\ Control(c)' = Control(c)
    BY <2>3, <2>4, Zenon DEF Todo, Done, Control
  <2>8. Visits(c)'
    BY <2>2, <2>3, <2>4, <2>7, Zenon DEF Visits, Dom
  <2>9. Shape'
    BY <2>4, <2>6, <2>8, ShapeKept
  <2>10. QED
    BY <2>1, <2>4, <2>5, <2>9, Zenon DEF CallTypes, Others
<1>5. ASSUME call[c].pc \in Operating
      PROVE  Control(c) # NULL => Control(c) \in Rstcs
  <2> USE <1>5
  <2>1. Cur(c) \in Dom(c)
    BY OperatingFacts, Zenon
  <2>2. QED
    BY <2>1, HandleTypes, Zenon DEF Control, Cur
<1>6. ASSUME call[c].pc \in {"nonzero", "count", "ops", "uncount"}
      PROVE  Control(c) # NULL
  BY <1>6 DEF Shape, Visits, Operating
<1>7. ASSUME null_control(c)
      PROVE  Framed(c) /\ NullStep(c)
  <2> USE <1>7
  <2>1. call[c].pc \in Operating /\ UNCHANGED handle /\ Succeed(c)
    BY Zenon DEF null_control, Operating
  <2>2. QED
    BY <2>1, <1>2, Zenon DEF null_control, NullStep, Framed
<1>8. ASSUME check(c)
      PROVE  Framed(c) /\ CheckStep(c)
  <2> USE <1>8
  <2>1. /\ call[c].pc = "check" /\ call[c].pc \in Operating /\ Control(c) # NULL
        /\ call[c].op \in {"reset", "assert", "deassert"}
        /\ UNCHANGED <<registered, head, ctl, line, handle>>
    BY Zenon DEF check, At, Operating
  <2>2. Control(c) \in Rstcs
    BY <2>1, <1>5, Zenon
  <2>3. ASSUME Fail(c) PROVE Framed(c) /\ Failed(c)
    BY <2>1, <2>3, <1>3, Zenon DEF Framed
  <2>4. ASSUME NEW pc \in {"nonzero", "count", "ops"}, Goto(c, pc), pc = "nonzero" => call[c].op = "assert"
        PROVE  Framed(c) /\ Moved(c, pc)
    BY <2>1, <2>4, <1>4 DEF Framed
  <2>5. CASE ~Supported(c)
    <3>1. Fail(c)
      BY <2>5, Zenon DEF check, Supported
    <3>2. QED
      BY <2>1, <2>2, <2>3, <2>5, <3>1, Zenon DEF CheckStep
  <2>6. CASE Supported(c) /\ ctl[Control(c)].shared
    <3>1. \/ Fail(c) /\ Conflict(c)
          \/ call[c].op = "assert" /\ Goto(c, "nonzero")
          \/ call[c].op # "assert" /\ Goto(c, "count")
      BY <2>6, Zenon DEF check, Supported, Conflict
    <3>2. QED
      BY <2>1, <2>2, <2>3, <2>4, <2>6, <3>1 DEF CheckStep
  <2>7. CASE Supported(c) /\ ~ctl[Control(c)].shared
    <3>1. \/ Fail(c) /\ ~ctl[Control(c)].acquired
          \/ ctl[Control(c)].acquired /\ Goto(c, "ops")
      BY <2>7, Zenon DEF check, Supported, MayOperate
    <3>2. QED
      BY <2>1, <2>2, <2>3, <2>4, <2>7, <3>1 DEF CheckStep
  <2>8. QED
    BY <2>5, <2>6, <2>7, Zenon
<1>9. ASSUME assert_nonzero(c)
      PROVE  Framed(c) /\ NonzeroStep(c)
  <2> USE <1>9
  <2>1. /\ call[c].pc = "nonzero" /\ call[c].pc \in Operating /\ call[c].op = "assert"
        /\ UNCHANGED <<registered, head, ctl, line, handle>>
    BY DEF assert_nonzero, At, Operating
  <2>2. Control(c) # NULL /\ Control(c) \in Rstcs
    BY <2>1, <1>6, <1>5, Zenon
  <2>3. CASE ctl[Control(c)].deassert_count = 0
    <3>1. Fail(c)
      BY <2>3, Zenon DEF assert_nonzero
    <3>2. QED
      BY <2>1, <2>2, <2>3, <3>1, <1>3, Zenon DEF Framed, NonzeroStep
  <2>4. CASE ctl[Control(c)].deassert_count # 0
    <3>1. Goto(c, "count")
      BY <2>4, Zenon DEF assert_nonzero
    <3>2. CallTypes' /\ Shape' /\ Others(c) /\ Moved(c, "count")
      BY <2>1, <2>2, <3>1, <1>4
    <3>3. QED
      BY <2>1, <2>2, <3>2, Zenon DEF Framed, NonzeroStep
  <2>5. QED
    BY <2>3, <2>4, Zenon
<1>10. ASSUME count(c)
       PROVE  Framed(c) /\ CountStep(c)
  <2> USE <1>10
  <2> DEFINE f == Counted(call[c].op, ctl[Control(c)])
  <2>1. /\ call[c].pc = "count" /\ call[c].pc \in Operating
        /\ call[c].op \in {"reset", "assert", "deassert"}
        /\ ctl' = [ctl EXCEPT ![Control(c)] = f]
        /\ UNCHANGED <<registered, head, line, handle>>
    BY Zenon DEF count, At, Operating
  <2>2. Control(c) # NULL /\ Control(c) \in Rstcs
    BY <2>1, <1>6, <1>5
  <2>3. CASE Decides(call[c].op, f)
    <3>1. Goto(c, "ops")
      BY <2>3, Zenon DEF count
    <3>2. CallTypes' /\ Shape' /\ Others(c) /\ Moved(c, "ops")
      BY <2>1, <2>2, <3>1, <1>4
    <3>3. QED
      BY <2>1, <2>2, <2>3, <3>2, Zenon DEF Framed, CountStep
  <2>4. CASE ~Decides(call[c].op, f)
    <3>1. Succeed(c)
      BY <2>4, Zenon DEF count
    <3>2. QED
      BY <2>1, <2>2, <2>4, <3>1, <1>2, Zenon DEF Framed, CountStep
  <2>5. QED
    BY <2>3, <2>4, Zenon
<1>11. ASSUME ops(c)
       PROVE  Framed(c) /\ OpsStep(c)
  <2> USE <1>11
  <2> DEFINE id == ctl[Control(c)].id
             op == call[c].op
  <2>1. /\ call[c].pc = "ops" /\ call[c].pc \in Operating
        /\ op \in {"reset", "assert", "deassert"}
        /\ UNCHANGED <<registered, head, ctl, handle>>
    BY Zenon DEF ops, At, Operating
  <2>2. Control(c) # NULL /\ Control(c) \in Rstcs
    BY <2>1, <1>6, <1>5
  <2>3. ASSUME Succeed(c) PROVE Framed(c) /\ Proceeded(c)
    BY <2>1, <2>3, <1>2, Zenon DEF Framed
  <2>4. ASSUME Fail(c) PROVE Framed(c) /\ Failed(c)
    BY <2>1, <2>4, <1>3, Zenon DEF Framed
  <2>5. ASSUME Goto(c, "uncount"), op = "reset" PROVE Framed(c) /\ Moved(c, "uncount")
    BY <2>1, <2>2, <2>5, <1>4 DEF Framed
  <2>6. \/ op \notin Ops /\ Succeed(c) /\ UNCHANGED line
        \/ /\ op \in Ops /\ Succeed(c)
           /\ line' = [line EXCEPT ![id] = IF op = "assert" THEN "asserted" ELSE "deasserted"]
        \/ /\ <<c, op, id>> \in Faults
           /\ IF op = "reset" /\ ctl[Control(c)].shared THEN Goto(c, "uncount") ELSE Fail(c)
           /\ UNCHANGED line
    BY Zenon DEF ops
  <2>7. QED
    BY <2>1, <2>2, <2>3, <2>4, <2>5, <2>6, Zenon DEF OpsStep
<1>12. ASSUME reset_uncount(c)
       PROVE  Framed(c) /\ UncountStep(c)
  <2> USE <1>12
  <2>1. /\ call[c].pc = "uncount" /\ call[c].pc \in Operating /\ call[c].op = "reset"
        /\ ctl' = Untrigger(Control(c)) /\ Fail(c)
        /\ UNCHANGED <<registered, head, line, handle>>
    BY DEF reset_uncount, At, Operating
  <2>2. Control(c) # NULL /\ Control(c) \in Rstcs
    BY <2>1, <1>6, <1>5, Zenon
  <2>3. QED
    BY <2>1, <2>2, <1>3, Zenon DEF Framed, UncountStep
<1>13. ASSUME rearm_check(c)
       PROVE  Framed(c) /\ RearmCheckStep(c)
  <2> USE <1>13
  <2> DEFINE f == ctl[Control(c)]
  <2>1. /\ call[c].pc = "check" /\ call[c].pc \in Operating /\ call[c].op = "rearm"
        /\ Control(c) # NULL
        /\ UNCHANGED <<registered, head, ctl, line, handle>>
    BY DEF rearm_check, At, Operating
  <2>2. Control(c) \in Rstcs
    BY <2>1, <1>5, Zenon
  <2>3. \/ ((f.shared /\ f.deassert_count # 0) \/ ~f.shared) /\ Fail(c)
        \/ Form[c] = "array" /\ Succeed(c)
        \/ Form[c] # "array" /\ Goto(c, "rearm")
    BY Zenon DEF rearm_check
  <2>4. ASSUME Succeed(c) PROVE Framed(c) /\ Proceeded(c)
    BY <2>1, <2>4, <1>2, Zenon DEF Framed
  <2>5. ASSUME Fail(c) PROVE Framed(c) /\ Failed(c)
    BY <2>1, <2>5, <1>3, Zenon DEF Framed
  <2>6. ASSUME Goto(c, "rearm") PROVE Framed(c) /\ Moved(c, "rearm")
    BY <2>1, <2>6, <1>4 DEF Framed
  <2>7. QED
    BY <2>1, <2>2, <2>3, <2>4, <2>5, <2>6, Zenon DEF RearmCheckStep
<1>14. ASSUME rearm(c)
       PROVE  Framed(c) /\ RearmStep(c)
  <2> USE <1>14
  <2>1. /\ call[c].pc = "rearm" /\ call[c].pc \in Operating /\ call[c].op = "rearm"
        /\ Control(c) # NULL /\ Succeed(c)
        /\ ctl' = IF ctl[Control(c)].shared THEN Untrigger(Control(c)) ELSE ctl
        /\ UNCHANGED <<registered, head, line, handle>>
    BY DEF rearm, At, Operating
  <2>2. Control(c) \in Rstcs
    BY <2>1, <1>5, Zenon
  <2>3. QED
    BY <2>1, <2>2, <1>2, Zenon DEF Framed, RearmStep
<1>15. ASSUME reset_control_acquire(c)
       PROVE  Framed(c) /\ AcquireStep(c)
  <2> USE <1>15
  <2> DEFINE r == Control(c)
  <2>1. /\ call[c].pc = "check" /\ call[c].pc \in Operating /\ call[c].op = "acquire"
        /\ r # NULL
        /\ UNCHANGED <<registered, head, line, handle>>
    BY DEF reset_control_acquire, At, Operating
  <2>2. r \in Rstcs
    BY <2>1, <1>5, Zenon
  <2>3. CASE ~ctl[r].acquired /\ Busy(r)
    <3>1. Fail(c) /\ UNCHANGED ctl
      BY <2>3, Zenon DEF reset_control_acquire
    <3>2. QED
      BY <2>1, <2>2, <2>3, <3>1, <1>3, Zenon DEF Framed, AcquireStep
  <2>4. CASE ctl[r].acquired \/ ~Busy(r)
    <3>1. Succeed(c) /\ ctl' = [ctl EXCEPT ![r].acquired = TRUE]
      BY <2>4, Zenon DEF reset_control_acquire
    <3>2. QED
      BY <2>1, <2>2, <2>4, <3>1, <1>2, Zenon DEF Framed, AcquireStep
  <2>5. QED
    BY <2>3, <2>4, Zenon
<1>16. ASSUME reset_control_release(c)
       PROVE  Framed(c) /\ ReleaseStep(c)
  <2> USE <1>16
  <2>1. /\ call[c].pc = "check" /\ call[c].pc \in Operating /\ call[c].op = "release"
        /\ Control(c) # NULL /\ Succeed(c)
        /\ ctl' = [ctl EXCEPT ![Control(c)].acquired = FALSE]
        /\ UNCHANGED <<registered, head, line, handle>>
    BY DEF reset_control_release, At, Operating
  <2>2. Control(c) \in Rstcs
    BY <2>1, <1>5, Zenon
  <2>3. QED
    BY <2>1, <2>2, <1>2, Zenon DEF Framed, ReleaseStep
<1>17. QED
  BY <1>7, <1>8, <1>9, <1>10, <1>11, <1>12, <1>13, <1>14, <1>15, <1>16, Zenon DEF Operation, OpStep

LEMMA CtlSet ==
  ASSUME CtlTypes, NEW r \in Rstcs, NEW f \in CtlRecs, ctl' = [ctl EXCEPT ![r] = f]
  PROVE  /\ ctl' \in [Rstcs -> CtlRecs] /\ ctl'[r] = f
         /\ \A q \in Rstcs : q # r => ctl'[q] = ctl[q]
  BY DEF CtlTypes

LEMMA Unchanged ==
  ASSUME CtlTypes, UNCHANGED ctl
  PROVE  ctl' \in [Rstcs -> CtlRecs] /\ Kept /\ SameOwner /\ SameCounts
  BY Zenon DEF CtlTypes, Kept, SameOwner, SameCounts

CountsAt(r, d, t) ==
  [ctl EXCEPT ![r] = [ctl[r] EXCEPT !.deassert_count = d, !.triggered_count = t]]

(* Only the counting steps change counters and only acquiring and          *)
(* releasing the owner.                                                    *)
LEMMA StepEffects ==
  ASSUME CallTypes, CtlTypes, Shape, NEW c \in Consumers, Framed(c), OpStep(c)
  PROVE  CtlTypes' /\ Effects(c)
<1>1. ASSUME NEW r \in Rstcs,
             NEW d \in Int,
             NEW t \in Int,
             ctl' = CountsAt(r, d, t)
      PROVE  /\ ctl' \in [Rstcs -> CtlRecs] /\ Kept /\ SameOwner
             /\ ctl'[r].deassert_count = d /\ ctl'[r].triggered_count = t
             /\ \A q \in Rstcs : q # r => ctl'[q] = ctl[q]
  <2> USE <1>1
  <2> DEFINE f == [ctl[r] EXCEPT !.deassert_count = d, !.triggered_count = t]
  <2>1. /\ f \in CtlRecs /\ f.id = ctl[r].id /\ f.refcnt = ctl[r].refcnt /\ f.shared = ctl[r].shared
        /\ f.acquired = ctl[r].acquired /\ f.deassert_count = d /\ f.triggered_count = t
    BY CtlFields DEF CtlRecs
  <2> HIDE DEF f
  <2>2. /\ ctl' \in [Rstcs -> CtlRecs] /\ ctl'[r] = f
        /\ \A q \in Rstcs : q # r => ctl'[q] = ctl[q]
    BY <2>1, CtlSet DEF f, CountsAt
  <2>3. QED
    BY <2>1, <2>2, Zenon DEF Kept, SameOwner
<1>2. ASSUME NEW r \in Rstcs,
             NEW b \in BOOLEAN,
             ctl' = [ctl EXCEPT ![r].acquired = b]
      PROVE  /\ ctl' \in [Rstcs -> CtlRecs] /\ Kept /\ SameCounts
             /\ ctl'[r].acquired = b
             /\ \A q \in Rstcs : q # r => ctl'[q] = ctl[q]
  <2> USE <1>2
  <2> DEFINE f == [ctl[r] EXCEPT !.acquired = b]
  <2>1. /\ f \in CtlRecs /\ f.id = ctl[r].id /\ f.refcnt = ctl[r].refcnt /\ f.shared = ctl[r].shared
        /\ f.acquired = b /\ f.deassert_count = ctl[r].deassert_count
        /\ f.triggered_count = ctl[r].triggered_count
    BY CtlFields DEF CtlRecs
  <2>2. ctl' = [ctl EXCEPT ![r] = f]
    OBVIOUS
  <2> HIDE DEF f
  <2>3. /\ ctl' \in [Rstcs -> CtlRecs] /\ ctl'[r] = f
        /\ \A q \in Rstcs : q # r => ctl'[q] = ctl[q]
    BY <2>1, <2>2, CtlSet, Zenon
  <2>4. QED
    BY <2>1, <2>3, Zenon DEF Kept, SameCounts
<1>3. ASSUME CountStep(c)
      PROVE  /\ ctl' \in [Rstcs -> CtlRecs] /\ Kept /\ SameOwner
             /\ Changed(Control(c), CountsOf(call[c].op), TriggersOf(call[c].op))
             /\ \A q \in Rstcs : q # Control(c) => ctl'[q] = ctl[q]
  <2> DEFINE r == Control(c)
             f == ctl[r]
             op == call[c].op
             d == f.deassert_count + CountsOf(op)
             t == f.triggered_count + TriggersOf(op)
  <2>1. r \in Rstcs /\ op \in {"reset", "assert", "deassert"} /\ ctl' = [ctl EXCEPT ![r] = Counted(op, f)]
    BY <1>3, Zenon DEF CountStep
  <2>2. f \in CtlRecs /\ d \in Int /\ t \in Int
    BY <2>1, CtlFields DEF CountsOf, TriggersOf
  <2>3. Counted(op, f) = [f EXCEPT !.deassert_count = d, !.triggered_count = t]
    <3>1. f.deassert_count \in Int /\ f.triggered_count \in Int
      BY <2>2 DEF CtlRecs
    <3>2. CASE op = "deassert"
      <4>1. d = f.deassert_count + 1 /\ t = f.triggered_count
        BY <3>1, <3>2 DEF CountsOf, TriggersOf
      <4> HIDE DEF d, t
      <4>2. QED
        BY <2>2, <3>2, <4>1 DEF Counted, CtlRecs
    <3>3. CASE op = "assert"
      <4>1. d = f.deassert_count - 1 /\ t = f.triggered_count
        BY <3>1, <3>3 DEF CountsOf, TriggersOf
      <4> HIDE DEF d, t
      <4>2. QED
        BY <2>2, <3>3, <4>1 DEF Counted, CtlRecs
    <3>4. CASE op = "reset"
      <4>1. d = f.deassert_count /\ t = f.triggered_count + 1
        BY <3>1, <3>4 DEF CountsOf, TriggersOf
      <4> HIDE DEF d, t
      <4>2. QED
        BY <2>2, <3>4, <4>1 DEF Counted, CtlRecs
    <3>5. QED
      BY <2>1, <3>2, <3>3, <3>4
  <2>4. ctl' = CountsAt(r, d, t)
    BY <2>1, <2>3, Zenon DEF CountsAt
  <2> HIDE DEF d, t, r
  <2>5. /\ ctl' \in [Rstcs -> CtlRecs] /\ Kept /\ SameOwner
        /\ ctl'[r].deassert_count = d /\ ctl'[r].triggered_count = t
        /\ \A q \in Rstcs : q # r => ctl'[q] = ctl[q]
    BY <1>1, <2>1, <2>2, <2>4, Zenon
  <2>6. QED
    BY <2>5, Zenon DEF d, t, r, Changed
<1>4. ASSUME NEW r \in Rstcs, ctl' = Untrigger(r)
      PROVE  /\ ctl' \in [Rstcs -> CtlRecs] /\ Kept /\ SameOwner /\ Changed(r, 0, -1)
             /\ \A q \in Rstcs : q # r => ctl'[q] = ctl[q]
  <2> DEFINE d == ctl[r].deassert_count
             t == ctl[r].triggered_count - 1
  <2>1. d \in Int /\ t \in Int /\ ctl[r] \in CtlRecs
    BY CtlFields
  <2>2. ctl' = CountsAt(r, d, t)
    BY <1>4, <2>1 DEF Untrigger, CtlRecs, CountsAt
  <2> HIDE DEF d, t
  <2>3. /\ ctl' \in [Rstcs -> CtlRecs] /\ Kept /\ SameOwner
        /\ ctl'[r].deassert_count = d /\ ctl'[r].triggered_count = t
        /\ \A q \in Rstcs : q # r => ctl'[q] = ctl[q]
    BY <1>1, <2>1, <2>2, Zenon
  <2>4. QED
    BY <2>1, <2>3, CtlFields DEF Changed, d, t
<1>5. registered' \in BOOLEAN /\ head' \in Seq(Rstcs) /\ handle' \in [Consumers -> Seq(Rstcs \cup {NULL})]
  BY Zenon DEF Framed, CtlTypes
<1>6. line' \in [Ids -> {"asserted", "deasserted"}]
  BY DEF CtlTypes, OpStep, NullStep, CheckStep, NonzeroStep, CountStep, OpsStep, UncountStep,
         RearmCheckStep, RearmStep, AcquireStep, ReleaseStep
<1>7. /\ CountStep(c) => call[c].pc = "count" /\ call[c].op \notin Owning
      /\ UncountStep(c) => call[c].pc = "uncount" /\ call[c].op \notin Owning
      /\ RearmStep(c) => call[c].pc = "rearm" /\ call[c].op \notin Owning
  BY DEF CountStep, UncountStep, RearmStep, Owning
<1>8. CASE UNCHANGED ctl /\ call[c].pc \notin {"count", "uncount"} /\ (RearmStep(c) => ~ctl[Control(c)].shared)
  BY <1>5, <1>6, <1>7, <1>8, Unchanged, Zenon DEF CtlTypes, Effects
<1>9. CASE CountStep(c)
  BY <1>3, <1>5, <1>6, <1>7, <1>9 DEF CtlTypes, Effects
<1>10. CASE UncountStep(c)
  <2>1. Control(c) \in Rstcs /\ ctl' = Untrigger(Control(c))
    BY <1>10, Zenon DEF UncountStep
  <2>2. QED
    BY <1>4, <1>5, <1>6, <1>7, <1>10, <2>1 DEF CtlTypes, Effects
<1>11. CASE RearmStep(c) /\ ctl[Control(c)].shared
  <2>1. Control(c) \in Rstcs /\ ctl' = Untrigger(Control(c))
    BY <1>11, Zenon DEF RearmStep
  <2>2. QED
    BY <1>4, <1>5, <1>6, <1>7, <1>11, <2>1 DEF CtlTypes, Effects
<1>12. CASE RearmStep(c) /\ ~ctl[Control(c)].shared
  <2>1. UNCHANGED ctl
    BY <1>12, Zenon DEF RearmStep
  <2>2. QED
    BY <1>7, <1>8, <1>12, <2>1
<1>13. CASE AcquireStep(c) \/ ReleaseStep(c)
  <2>1. NULL \notin Rstcs
    BY ResetAssumption, Zenon
  <2>2. Control(c) \in Rstcs /\ call[c].op \in Owning /\ call[c].pc = "check"
    BY <1>13 DEF AcquireStep, ReleaseStep, Owning
  <2>3. ASSUME NEW b \in BOOLEAN, ctl' = [ctl EXCEPT ![Control(c)].acquired = b]
        PROVE  CtlTypes' /\ Effects(c)
    BY <1>2, <1>5, <1>6, <1>7, <2>1, <2>2, <2>3 DEF CtlTypes, Effects
  <2>4. \/ UNCHANGED ctl \/ ctl' = [ctl EXCEPT ![Control(c)].acquired = TRUE]
        \/ ctl' = [ctl EXCEPT ![Control(c)].acquired = FALSE]
    BY <1>13, Zenon DEF AcquireStep, ReleaseStep
  <2>5. QED
    BY <1>7, <1>8, <2>2, <2>3, <2>4
<1>14. CASE NullStep(c) \/ CheckStep(c) \/ NonzeroStep(c) \/ OpsStep(c) \/ RearmCheckStep(c)
  <2>1. UNCHANGED ctl /\ call[c].pc \notin {"count", "uncount"}
    BY <1>14 DEF NullStep, CheckStep, NonzeroStep, OpsStep, RearmCheckStep
  <2>2. RearmStep(c) => NullStep(c) \/ FALSE
    <3>1. ASSUME RearmStep(c), ~NullStep(c) PROVE FALSE
      BY <1>14, <3>1 DEF RearmStep, CheckStep, NonzeroStep, OpsStep, RearmCheckStep
    <3>2. QED
      BY <3>1, Zenon
  <2>3. ~(RearmStep(c) /\ NullStep(c))
    BY ResetAssumption DEF RearmStep, NullStep
  <2>4. QED
    BY <1>8, <2>1, <2>2, <2>3, Zenon
<1>15. QED
  BY <1>9, <1>10, <1>11, <1>12, <1>13, <1>14, Zenon DEF OpStep

LEMMA HandleSet ==
  ASSUME CtlTypes, NEW c \in Consumers, NEW h \in Seq(Rstcs \cup {NULL}),
         handle' = [handle EXCEPT ![c] = h]
  PROVE  /\ handle' \in [Consumers -> Seq(Rstcs \cup {NULL})] /\ handle'[c] = h
         /\ \A d \in Consumers : d # c => handle'[d] = handle[d]
  BY Zenon DEF CtlTypes

LEMMA ShapeAt ==
  ASSUME Shape, NEW c \in Consumers,
         \A d \in Consumers : d # c => call'[d] = call[d] /\ handle'[d] = handle[d],
         Len(handle'[c]) <= Len(Wants[c]), call'[c].pc = "get" => Len(handle'[c]) < Len(Wants[c]),
         PcFits(call'[c]), Visits(c)'
  PROVE  Shape'
<1>1. ASSUME NEW d \in Consumers, d # c PROVE PcFits(call'[d]) /\ (Visits(d) => Visits(d)')
  BY <1>1, Zenon DEF Shape, Visits, Todo, Done, Dom, Control
<1>2. QED
  BY <1>1, Zenon DEF Shape

LEMMA NotVisiting ==
  ASSUME NEW c \in Consumers, call'[c].todo = <<>>, call'[c].done = <<>>, call'[c].pc \notin Operating
  PROVE  Visits(c)'
<1>1. Todo(c)' = {} /\ Done(c)' = {} /\ Once(call'[c].todo) /\ Once(call'[c].done)
  BY EmptyIs, Zenon DEF Todo, Done
<1>2. QED
  BY <1>1, Zenon DEF Visits

(* An error goes to the path that puts what was got.                       *)
LEMMA PcSet ==
  ASSUME CallTypes, CtlTypes, Shape, NEW c \in Consumers, NEW pc \in {"put", "oops"},
         call' = [call EXCEPT ![c].pc = pc], UNCHANGED <<handle, belief>>,
         call[c].todo = <<>>, call[c].done = <<>>, call[c].op \in {"none", "get"}, call[c].undo = FALSE
  PROVE  /\ CallTypes' /\ Shape' /\ Others(c)
         /\ call'[c].op = call[c].op /\ call'[c].pc = pc
         /\ call'[c].todo = <<>> /\ call'[c].done = <<>> /\ call'[c].undo = FALSE
<1> DEFINE k == [call[c] EXCEPT !.pc = pc]
<1>1. /\ k \in CallRecs /\ k.op = call[c].op /\ k.pc = pc /\ k.todo = <<>> /\ k.done = <<>>
      /\ k.undo = FALSE
  BY CallFields DEF CallRecs
<1>2. call' = [call EXCEPT ![c] = k]
  OBVIOUS
<1> HIDE DEF k
<1>3. /\ call' \in [Consumers -> CallRecs] /\ call'[c] = k
      /\ \A d \in Consumers : d # c => call'[d] = call[d]
  BY <1>1, <1>2, CallSet, Zenon
<1>4. PcFits(k) /\ k.pc \notin Operating /\ k.pc # "get"
  BY <1>1 DEF PcFits, Operating
<1>5. Visits(c)'
  BY <1>1, <1>3, <1>4, NotVisiting, Zenon
<1>6. Shape'
  BY <1>3, <1>4, <1>5, ShapeKept, Zenon
<1>7. QED
  BY <1>1, <1>3, <1>6, Zenon DEF CallTypes, Others

NewFields(id, acquired, shared) ==
  [Fresh EXCEPT !.id = id, !.refcnt = 1, !.acquired = acquired, !.shared = shared]

IsNew(f, id, acquired, shared) ==
  /\ f \in CtlRecs /\ f.id = id /\ f.refcnt = 1 /\ f.acquired = acquired
  /\ f.shared = shared /\ f.deassert_count = 0 /\ f.triggered_count = 0

LEMMA GetEntry ==
  ASSUME CallTypes, CtlTypes, Shape, NEW c \in Consumers, get_entry(c)
  PROVE  CallTypes' /\ CtlTypes' /\ Shape' /\ Others(c) /\ EntryStep(c)
<1>1. ASSUME call[c].pc = "get",
             NEW x \in Rstcs \cup {NULL},
             Got(c, x),
             UNCHANGED belief
      PROVE  /\ CallTypes' /\ Shape' /\ Others(c) /\ Taken(c, x)
             /\ handle' \in [Consumers -> Seq(Rstcs \cup {NULL})]
  <2> USE <1>1
  <2> DEFINE h == Append(handle[c], x)
  <2>1. h \in Seq(Rstcs \cup {NULL}) /\ Len(h) = Len(handle[c]) + 1
    <3>1. handle[c] \in Seq(Rstcs \cup {NULL})
      BY HandleTypes, Zenon
    <3>2. QED
      BY <3>1, AppendIs
  <2>2. /\ call[c].todo = <<>> /\ call[c].done = <<>> /\ Len(handle[c]) < Len(Wants[c])
        /\ Len(handle[c]) \in Nat /\ Len(Wants[c]) \in Nat /\ PcFits(call[c])
    BY GettingFacts, ConstantTypes, Zenon DEF Shape
  <2>3. Len(h) <= Len(Wants[c]) /\ (Len(handle[c]) + 1 # Len(Wants[c]) => Len(h) < Len(Wants[c]))
    BY <2>1, <2>2
  <2>4. handle' = [handle EXCEPT ![c] = h]
    BY DEF Got
  <2> HIDE DEF h
  <2>5. /\ handle' \in [Consumers -> Seq(Rstcs \cup {NULL})] /\ handle'[c] = h
        /\ \A d \in Consumers : d # c => handle'[d] = handle[d]
    BY <2>1, <2>4, HandleSet, Zenon
  <2>6. CASE Len(handle[c]) + 1 = Len(Wants[c])
    <3>1. call' = [call EXCEPT ![c] = NoCall]
      BY <2>6, Zenon DEF Got
    <3>2. /\ call' \in [Consumers -> CallRecs] /\ call'[c] = NoCall
          /\ \A d \in Consumers : d # c => call'[d] = call[d]
      BY <3>1, NoCallIs, CallSet, Zenon
    <3>3. Shape'
      BY <2>3, <2>5, <3>2, NothingToVisit, ShapeAt, Zenon
    <3>4. QED
      BY <2>5, <3>2, <3>3, Zenon DEF CallTypes, Others, Taken, h
  <2>7. CASE Len(handle[c]) + 1 # Len(Wants[c])
    <3>1. call' = call
      BY <2>7, Zenon DEF Got
    <3>2. call'[c] = call[c] /\ call'[c].pc \notin Operating
      BY <3>1 DEF Operating
    <3>3. Visits(c)'
      BY <2>2, <3>2, NotVisiting, Zenon
    <3>4. Shape'
      BY <2>2, <2>3, <2>5, <2>7, <3>1, <3>3, ShapeAt, Zenon
    <3>5. QED
      BY <2>5, <3>1, <3>4, Zenon DEF CallTypes, Others, Taken, h
  <2>8. QED
    BY <2>6, <2>7, Zenon
<1>2. ASSUME NEW r \in Rstcs,
             ctl' = Ref(r)
      PROVE  /\ ctl' \in [Rstcs -> CtlRecs]
             /\ ctl'[r].id = ctl[r].id /\ ctl'[r].refcnt = ctl[r].refcnt + 1
             /\ ctl'[r].acquired = ctl[r].acquired /\ ctl'[r].shared = ctl[r].shared
             /\ ctl'[r].deassert_count = ctl[r].deassert_count
             /\ ctl'[r].triggered_count = ctl[r].triggered_count
             /\ \A q \in Rstcs : q # r => ctl'[q] = ctl[q]
  <2> USE <1>2
  <2> DEFINE f == [ctl[r] EXCEPT !.refcnt = ctl[r].refcnt + 1]
  <2>1. /\ f \in CtlRecs /\ f.id = ctl[r].id /\ f.refcnt = ctl[r].refcnt + 1
        /\ f.acquired = ctl[r].acquired /\ f.shared = ctl[r].shared
        /\ f.deassert_count = ctl[r].deassert_count /\ f.triggered_count = ctl[r].triggered_count
    BY CtlFields DEF CtlRecs
  <2>2. ctl' = [ctl EXCEPT ![r] = f]
    BY DEF Ref
  <2> HIDE DEF f
  <2>3. /\ ctl' \in [Rstcs -> CtlRecs] /\ ctl'[r] = f
        /\ \A q \in Rstcs : q # r => ctl'[q] = ctl[q]
    BY <2>1, <2>2, CtlSet, Zenon
  <2>4. QED
    BY <2>1, <2>3, Zenon
<1>3. ASSUME NEW id \in Ids \cup {NULL},
             NEW acquired \in BOOLEAN,
             NEW shared \in BOOLEAN
      PROVE  IsNew(NewFields(id, acquired, shared), id, acquired, shared)
  <2> USE <1>3
  <2>1. Fresh \in CtlRecs /\ Fresh.deassert_count = 0 /\ Fresh.triggered_count = 0
    BY DEF Fresh, CtlRecs
  <2>2. ASSUME NEW g \in CtlRecs, g.deassert_count = 0, g.triggered_count = 0
        PROVE  IsNew([g EXCEPT !.id = id, !.refcnt = 1, !.acquired = acquired, !.shared = shared],
                     id, acquired, shared)
    BY <2>2 DEF CtlRecs, IsNew
  <2>3. QED
    BY <2>1, <2>2, Zenon DEF NewFields
<1> DEFINE id == Wants[c][Entry(c)]
<1>4. /\ call[c].pc = "get" /\ UNCHANGED <<registered, line, belief>>
      /\ \/ Got(c, NULL) /\ UNCHANGED <<ctl, head>>
         \/ /\ id # NULL
            /\ \E r \in Rstcs : get_internal(id, call[c].shared, call[c].acquired, r) /\ Got(c, r)
         \/ call' = [call EXCEPT ![c].pc = "put"] /\ UNCHANGED <<handle, ctl, head>>
  BY Zenon DEF get_entry, Entry
<1>5. id \in Ids \cup {NULL}
  <2>1. Entry(c) \in 1 .. Len(Wants[c]) /\ Wants[c] \in Seq(Ids \cup {NULL})
    BY <1>4, GettingFacts, ConstantTypes, Zenon
  <2>2. QED
    BY <2>1
<1>6. CASE Got(c, NULL) /\ UNCHANGED <<ctl, head>>
  BY <1>4, <1>6, <1>1, Zenon DEF CtlTypes, EntryStep, EntryNull
<1>7. CASE call' = [call EXCEPT ![c].pc = "put"] /\ UNCHANGED <<handle, ctl, head>>
  <2>1. /\ call[c].todo = <<>> /\ call[c].done = <<>> /\ call[c].op \in {"none", "get"}
        /\ call[c].undo = FALSE
    BY <1>4, GettingFacts, Zenon
  <2>2. /\ CallTypes' /\ Shape' /\ Others(c)
        /\ call'[c].op = call[c].op /\ call'[c].pc = "put"
        /\ call'[c].todo = <<>> /\ call'[c].done = <<>> /\ call'[c].undo = FALSE
    BY <1>4, <1>7, <2>1, PcSet, Zenon
  <2>3. QED
    BY <1>4, <1>7, <2>2, Zenon DEF CtlTypes, EntryStep, EntryFail
<1>8. ASSUME id # NULL, NEW r \in Rstcs, Got(c, r),
             get_internal(id, call[c].shared, call[c].acquired, r)
      PROVE  CallTypes' /\ CtlTypes' /\ Shape' /\ Others(c) /\ EntryStep(c)
  <2>1. /\ CallTypes' /\ Shape' /\ Others(c) /\ Taken(c, r)
        /\ handle' \in [Consumers -> Seq(Rstcs \cup {NULL})]
    BY <1>4, <1>8, <1>1, Zenon
  <2>2. CASE Creates(id, call[c].shared, call[c].acquired)
    <3> DEFINE f == NewFields(id, call[c].acquired, call[c].shared)
    <3>1. /\ r \in Free /\ head' = <<r>> \o head /\ ctl' = [ctl EXCEPT ![r] = f]
      BY <1>8, <2>2, Zenon DEF get_internal, NewFields
    <3>2. /\ f \in CtlRecs /\ f.id = id /\ f.refcnt = 1 /\ f.acquired = call[c].acquired
          /\ f.shared = call[c].shared /\ f.deassert_count = 0 /\ f.triggered_count = 0
      <4>1. call[c].acquired \in BOOLEAN /\ call[c].shared \in BOOLEAN
        BY CallFields, Zenon
      <4>2. IsNew(f, id, call[c].acquired, call[c].shared)
        BY <1>5, <4>1, <1>3, Zenon
      <4>3. QED
        BY <4>2, Zenon DEF IsNew
    <3> HIDE DEF f
    <3>3. /\ ctl' \in [Rstcs -> CtlRecs] /\ ctl'[r] = f
          /\ \A q \in Rstcs : q # r => ctl'[q] = ctl[q]
      BY <3>1, <3>2, CtlSet, Zenon
    <3>4. head' \in Seq(Rstcs) /\ r \notin Range(head)
      BY <3>1 DEF CtlTypes, Free
    <3>5. EntryNew(c, r)
      BY <2>1, <2>2, <3>1, <3>2, <3>3, <3>4, Zenon DEF EntryNew
    <3>6. CtlTypes'
      BY <1>4, <2>1, <3>3, <3>4, Zenon DEF CtlTypes
    <3>7. QED
      BY <1>4, <1>8, <2>1, <3>5, <3>6, Zenon DEF EntryStep
  <2>3. CASE ~Creates(id, call[c].shared, call[c].acquired)
    <3>1. Joins(id, call[c].shared) /\ r = FirstFor(id) /\ ctl' = Ref(r) /\ UNCHANGED head
      BY <1>8, <2>3, Zenon DEF get_internal
    <3>2. r # NULL /\ ctl[r].shared /\ call[c].shared
      BY <3>1, Zenon DEF Joins
    <3>3. EntryJoin(c, r) /\ ctl' \in [Rstcs -> CtlRecs]
      BY <2>1, <3>1, <3>2, <1>2, Zenon DEF EntryJoin
    <3>4. CtlTypes'
      BY <1>4, <2>1, <3>1, <3>3, Zenon DEF CtlTypes
    <3>5. QED
      BY <1>4, <1>8, <2>1, <3>3, <3>4, Zenon DEF EntryStep
  <2>4. QED
    BY <2>2, <2>3, Zenon
<1>9. QED
  BY <1>4, <1>6, <1>7, <1>8, Zenon

LEMMA EveryStep ==
  ASSUME CallTypes, CtlTypes, Shape, [Next]_vars
  PROVE  /\ CallTypes' /\ Shape'
         /\ \/ Passive /\ CtlTypes'
            \/ \E c \in Consumers : StepOf(c) /\ (PutStep(c) \/ CtlTypes')
<1>1. ASSUME NEW c \in Consumers,
             get(c)
      PROVE  CallTypes' /\ CtlTypes' /\ Shape' /\ Others(c) /\ GetStep(c)
  <2> USE <1>1
  <2>1. PICK mode \in Modes, optional \in BOOLEAN :
          call' = [call EXCEPT ![c] = [NoCall EXCEPT !.op = "get", !.pc = "get",
                     !.shared = (mode = "shared"), !.acquired = (mode = "exclusive"),
                     !.optional = optional]]
    BY Zenon DEF get
  <2> DEFINE k == [NoCall EXCEPT !.op = "get", !.pc = "get", !.shared = (mode = "shared"),
                                 !.acquired = (mode = "exclusive"), !.optional = optional]
  <2>2. /\ k \in CallRecs /\ k.op = "get" /\ k.pc = "get" /\ k.todo = <<>> /\ k.done = <<>>
        /\ k.undo = FALSE
        /\ k.shared \in BOOLEAN /\ k.acquired \in BOOLEAN /\ (k.shared => ~k.acquired)
    BY EmptyIs DEF NoCall, CallRecs
  <2>3. call' = [call EXCEPT ![c] = k]
    BY <2>1, Zenon
  <2> HIDE DEF k
  <2>4. /\ call' \in [Consumers -> CallRecs] /\ call'[c] = k
        /\ \A d \in Consumers : d # c => call'[d] = call[d]
    BY <2>2, <2>3, CallSet, Zenon
  <2>5. /\ call[c].pc = "idle" /\ handle[c] = <<>> /\ Wants[c] # <<>>
        /\ UNCHANGED <<registered, head, ctl, line, handle, belief>>
    BY Zenon DEF get
  <2>6. Len(handle'[c]) < Len(Wants[c]) /\ Len(handle'[c]) <= Len(Wants[c])
    BY <2>5, ConstantTypes
  <2>7. PcFits(k) /\ k.pc \notin Operating
    BY <2>2 DEF PcFits, Operating
  <2>8. Visits(c)'
    BY <2>2, <2>4, <2>7, NotVisiting, Zenon
  <2>9. Shape'
    BY <2>4, <2>5, <2>6, <2>7, <2>8, ShapeAt, Zenon
  <2>10. QED
    BY <2>2, <2>4, <2>5, <2>9, Zenon DEF CallTypes, CtlTypes, Others, GetStep
<1>2. ASSUME NEW c \in Consumers,
             Dropped(c),
             call'[c] = NoCall,
             call' \in [Consumers -> CallRecs],
             \A d \in Consumers : d # c => call'[d] = call[d]
      PROVE  CallTypes' /\ Shape' /\ Others(c) /\ DropStep(c)
  <2> USE <1>2
  <2> DEFINE n(r) == ctl[r].refcnt - Cardinality(Held(c, r))
  <2>1. /\ ctl' = [r \in Rstcs |-> IF r \in Last(c) THEN Fresh ELSE [ctl[r] EXCEPT !.refcnt = n(r)]]
        /\ head' = Without(head, Gone(c))
        /\ handle' = [handle EXCEPT ![c] = <<>>]
        /\ belief' = [belief EXCEPT ![c] = Unknown(c)]
        /\ UNCHANGED <<registered, line>>
    BY DEF Dropped, Gone
  <2> HIDE DEF n
  <2>2. Last(c) \subseteq Rstcs
    BY Zenon DEF Last
  <2>3. ASSUME NEW r \in Rstcs
        PROVE  LET f == [ctl[r] EXCEPT !.refcnt = n(r)]
               IN /\ f.id = ctl[r].id /\ f.refcnt = n(r) /\ (f.refcnt \in Nat => f \in CtlRecs)
                  /\ f.acquired = ctl[r].acquired /\ f.shared = ctl[r].shared
                  /\ f.deassert_count = ctl[r].deassert_count
                  /\ f.triggered_count = ctl[r].triggered_count
    BY CtlFields DEF CtlRecs
  <2>4. ctl' = [r \in Rstcs |-> ctl'[r]]
    BY <2>1, Zenon
  <2>5. /\ \A r \in Last(c) : ctl'[r] = Fresh
        /\ \A r \in Rstcs \ Last(c) : ctl'[r] = [ctl[r] EXCEPT !.refcnt = n(r)]
    BY <2>1, <2>2, Zenon
  <2>6. <<>> \in Seq(Rstcs \cup {NULL})
    OBVIOUS
  <2>7. /\ handle' \in [Consumers -> Seq(Rstcs \cup {NULL})] /\ handle'[c] = <<>>
        /\ \A d \in Consumers : d # c => handle'[d] = handle[d]
    BY <2>1, <2>6, HandleSet, Zenon
  <2>8. /\ belief' = [d \in Consumers |-> belief'[d]] /\ belief'[c] = Unknown(c)
        /\ \A d \in Consumers : d # c => belief'[d] = belief[d]
    BY <2>1 DEF CallTypes
  <2>9. Unknown(c) \in [DOMAIN Wants[c] -> Beliefs]
    BY DEF Unknown, Beliefs
  <2>10. CallTypes'
    BY <2>8, <2>9 DEF CallTypes
  <2>11. Shape'
    <3>1. Len(handle'[c]) <= Len(Wants[c])
      BY <2>7, ConstantTypes
    <3>2. QED
      BY <2>7, <3>1, NothingToVisit, ShapeAt, Zenon
  <2>12. DropStep(c)
    BY <2>1, <2>3, <2>4, <2>5, <2>7, <2>8, Zenon DEF DropStep, n
  <2>13. QED
    BY <2>8, <2>10, <2>11, <2>12, Zenon DEF Others
<1>3. ASSUME NEW c \in Consumers,
             get_undo(c)
      PROVE  /\ CallTypes' /\ Shape' /\ Others(c)
             /\ call[c].pc = "put" /\ (DropStep(c) \/ (OopsStep(c) /\ CtlTypes'))
  <2> USE <1>3
  <2>1. /\ call[c].pc = "put" /\ call[c].todo = <<>> /\ call[c].done = <<>>
        /\ call[c].op \in {"none", "get"} /\ call[c].undo = FALSE
    BY CallFields, Zenon DEF get_undo, Shape, PcFits
  <2>2. CASE NULL \in Range(handle[c])
    <3>1. /\ call' = [call EXCEPT ![c].pc = "oops"]
          /\ UNCHANGED <<registered, head, ctl, line, handle, belief>>
      BY <2>2, Zenon DEF get_undo
    <3>2. /\ CallTypes' /\ Shape' /\ Others(c) /\ OopsStep(c)
      BY <2>1, <3>1, PcSet, Zenon DEF OopsStep
    <3>3. QED
      BY <2>1, <3>1, <3>2, Zenon DEF CtlTypes
  <2>3. CASE NULL \notin Range(handle[c])
    <3>1. call' = [call EXCEPT ![c] = NoCall] /\ Dropped(c)
      BY <2>3, Zenon DEF get_undo
    <3>2. /\ call' \in [Consumers -> CallRecs] /\ call'[c] = NoCall
          /\ \A d \in Consumers : d # c => call'[d] = call[d]
      BY <3>1, NoCallIs, CallSet, Zenon
    <3>3. QED
      BY <2>1, <3>1, <3>2, <1>2, Zenon
  <2>4. QED
    BY <2>2, <2>3, Zenon
<1>4. ASSUME NEW c \in Consumers,
             put(c)
      PROVE  /\ CallTypes' /\ Shape' /\ Others(c)
             /\ call[c].pc = "idle" /\ (DropStep(c) \/ (OopsStep(c) /\ CtlTypes'))
             /\ \A i \in Dom(c) : Shared(c, i) => belief[c][i] \in {"unknown", "asserted"}
  <2> USE <1>4
  <2>1. call[c].pc = "idle" /\ call[c] = NoCall
    BY Zenon DEF put, Shape, PcFits
  <2>2. \A i \in Dom(c) : Shared(c, i) => belief[c][i] \in {"unknown", "asserted"}
    BY HandleTypes, Zenon DEF put
  <2>3. CASE Form[c] = "array" /\ NULL \in Range(handle[c])
    <3>1. /\ call' = [call EXCEPT ![c].pc = "oops"]
          /\ UNCHANGED <<registered, head, ctl, line, handle, belief>>
      BY <2>3, Zenon DEF put
    <3>2. /\ call[c].todo = <<>> /\ call[c].done = <<>>
          /\ call[c].op \in {"none", "get"} /\ call[c].undo = FALSE
      BY <2>1, NoCallIs, Zenon
    <3>3. /\ CallTypes' /\ Shape' /\ Others(c) /\ OopsStep(c)
      BY <3>1, <3>2, PcSet, Zenon DEF OopsStep
    <3>4. QED
      BY <2>1, <2>2, <3>1, <3>3, Zenon DEF CtlTypes
  <2>4. CASE ~(Form[c] = "array" /\ NULL \in Range(handle[c]))
    <3>1. call' = call /\ Dropped(c)
      BY <2>4, Zenon DEF put
    <3>2. CallTypes' /\ Shape' /\ Others(c) /\ DropStep(c)
      BY <2>1, <3>1, <1>2, Zenon DEF CallTypes
    <3>3. QED
      BY <2>1, <2>2, <3>2, Zenon
  <2>5. QED
    BY <2>3, <2>4, Zenon
<1>5. ASSUME NEW c \in Consumers,
             begin(c)
      PROVE  CallTypes' /\ CtlTypes' /\ Shape' /\ Others(c) /\ BeginStep(c)
  <2> USE <1>5
  <2> PICK op \in Calls : Balanced(c, op) /\ call' = [call EXCEPT ![c] = Start(c, op)]
    BY Zenon DEF begin
  <2>1. /\ call[c] = NoCall /\ Len(handle[c]) = Len(Wants[c]) /\ handle[c] # <<>>
        /\ Forget(c, DOMAIN handle[c]) /\ UNCHANGED <<registered, head, ctl, line, handle>>
        /\ op \in CallOps
    BY ResetAssumption DEF begin, Shape, PcFits, CallOps
  <2>2. Dom(c) = DOMAIN Wants[c] /\ DOMAIN handle[c] = Dom(c)
    BY <2>1, HandleTypes, ConstantTypes DEF Dom
  <2>3. /\ Order(c, op) \in Seq(Nat) /\ Once(Order(c, op)) /\ Range(Order(c, op)) = Dom(c)
        /\ Order(c, op) # <<>>
    BY <2>1, OrderIs, Zenon
  <2> DEFINE k == Start(c, op)
  <2>4. /\ k \in CallRecs /\ k.op = op /\ k.pc = "check" /\ k.undo = FALSE
        /\ k.todo = Order(c, op) /\ k.done = <<>>
    <3>1. call[c] \in CallRecs /\ call[c].undo = FALSE
      BY <2>1, NoCallIs, Zenon
    <3>2. QED
      BY <2>1, <2>3, <3>1, EmptyIs DEF Start, CallRecs, Operating
  <2> HIDE DEF k
  <2>5. /\ call' \in [Consumers -> CallRecs] /\ call'[c] = k
        /\ \A d \in Consumers : d # c => call'[d] = call[d]
    BY <2>4, CallSet, Zenon DEF k
  <2>6. Todo(c)' = Dom(c) /\ Done(c)' = {}
    BY <2>3, <2>4, <2>5, EmptyIs, Zenon DEF Todo, Done
  <2>7. PcFits(k)
    BY <2>1, <2>3, <2>4 DEF PcFits
  <2>8. Visits(c)'
    BY <2>1, <2>3, <2>4, <2>5, <2>6, EmptyIs, Zenon DEF Visits, Dom
  <2>9. Shape'
    BY <2>1, <2>4, <2>5, <2>7, <2>8, ShapeKept
  <2> DEFINE b == [i \in DOMAIN belief[c] |->
                     IF i \in Dom(c) /\ ~Shared(c, i) THEN "unknown" ELSE belief[c][i]]
  <2>10. belief' = [belief EXCEPT ![c] = b]
    BY <2>1, <2>2, Zenon DEF Forget
  <2>11. DOMAIN belief[c] = Dom(c) /\ b \in [DOMAIN Wants[c] -> Beliefs]
    BY <2>2 DEF CallTypes, Beliefs
  <2>12. \A i \in Dom(c) : b[i] = IF ~Shared(c, i) THEN "unknown" ELSE belief[c][i]
    BY <2>11, Zenon
  <2> HIDE DEF b
  <2>13. /\ belief' = [d \in Consumers |-> belief'[d]] /\ belief'[c] = b
         /\ \A d \in Consumers : d # c => belief'[d] = belief[d]
    BY <2>10 DEF CallTypes
  <2>14. CallTypes' /\ Others(c)
    BY <2>5, <2>11, <2>13 DEF CallTypes, Others
  <2>15. Begun(c, op)
    BY <2>1, <2>2, <2>4, <2>5, <2>6, <2>12, <2>13, Zenon DEF Begun
  <2>16. QED
    BY <2>1, <2>9, <2>14, <2>15, Zenon DEF CtlTypes, BeginStep
<1>6. CASE Passive /\ registered' \in BOOLEAN
  <2>1. CallTypes' /\ CtlTypes'
    BY <1>6, Zenon DEF Passive, CallTypes, CtlTypes
  <2>2. Shape'
    BY <1>6, Zenon DEF Passive, Shape, Visits, Todo, Done, Dom, Control
  <2>3. QED
    BY <1>6, <2>1, <2>2, Zenon
<1>7. CASE reset_controller_register \/ reset_controller_unregister \/ UNCHANGED vars
  <2>1. Passive /\ registered' \in BOOLEAN
    BY <1>7, Zenon DEF reset_controller_register, reset_controller_unregister, vars, Passive, CtlTypes
  <2>2. QED
    BY <1>6, <2>1, Zenon
<1>8. ASSUME NEW c \in Consumers, get(c) \/ get_entry(c) \/ begin(c)
      PROVE  CallTypes' /\ Shape' /\ StepOf(c) /\ (PutStep(c) \/ CtlTypes')
  BY <1>8, <1>1, GetEntry, <1>5, Zenon DEF StepOf
<1>9. ASSUME NEW c \in Consumers, get_undo(c) \/ put(c)
      PROVE  CallTypes' /\ Shape' /\ StepOf(c) /\ (PutStep(c) \/ CtlTypes')
  BY <1>9, <1>3, <1>4, Zenon DEF StepOf, PutStep
<1>10. ASSUME NEW c \in Consumers, Operation(c)
      PROVE  CallTypes' /\ Shape' /\ StepOf(c) /\ (PutStep(c) \/ CtlTypes')
  BY <1>10, Operated, StepEffects, Zenon DEF StepOf, Framed
<1>11. QED
  BY <1>7, <1>8, <1>9, <1>10, Zenon DEF Next, Operation
=============================================================================
