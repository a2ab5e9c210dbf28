--------------------------- MODULE ComponentProofs ---------------------------
(***************************************************************************)
(* The component helper, for any number of components and aggregates and   *)
(* any match arrays: its links, the order of binding and the pairing of    *)
(* its callbacks.                                                          *)
(***************************************************************************)
EXTENDS Component, TLAPS

(* An aggregate's parent device has no other aggregate.  The code asks for *)
(* a parent and an operations table, but component_bind_all() looks its    *)
(* aggregate up by the parent alone (see BindsOwnComponents).              *)
OneAggregateEach == \A m, n \in Masters : Parent[m] = Parent[n] => m = n

Ops == {"none", "add", "del", "master_add", "master_del"}
Steps == {"idle", "masters", "find", "bind", "bind_all", "undo", "bind_failed",
          "failed", "unbind_all", "down"}

CallRecords ==
  [op : Ops, comp : Components \cup {NULL}, adev : Masters \cup {NULL},
   step : Steps, k : Nat, i : Nat, target : Masters \cup {NULL}]

StateTypes ==
  /\ component_list \in Seq(Components) /\ aggregate_devices \in Seq(Masters)
  /\ c_adev \in [Components -> Masters \cup {NULL}]
  /\ c_bound \in [Components -> BOOLEAN] /\ m_bound \in [Masters -> BOOLEAN]
  /\ compare \in [Masters -> Seq(Entry)] /\ \A m \in Masters : Len(compare[m]) = Num(m)

Types == StateTypes /\ call \in CallRecords

(* Nothing is registered twice.                                            *)
Once(list) == \A j, k \in 1 .. Len(list) : list[j] = list[k] => j = k

OnList(list, x) == \E k \in 1 .. Len(list) : list[k] = x

Lists == Once(component_list) /\ Once(aggregate_devices)

(* Entry i of aggregate m is the one that binds component c.               *)
Binder(m, i, c) == compare[m][i].component = c /\ ~compare[m][i].duplicate

HasBinder(m, c) ==
  \E i \in 1 .. Num(m) : /\ Binder(m, i, c)
                         /\ \A j \in 1 .. Num(m) : Binder(m, j, c) => j = i

(* Entries and components point at each other.                             *)
Links ==
  /\ \A m \in Masters : \A i \in 1 .. Num(m) : \A c \in Components :
       compare[m][i].component = c => c_adev[c] = m
  /\ \A m \in Masters : \A c \in Components :
       c_adev[c] = m => Present(c) /\ MasterListed(m) /\ HasBinder(m, c)

(* All entries of the aggregate are filled.                                *)
Filled(m) == \A i \in 1 .. Num(m) : compare[m][i].component # NULL

(* The steps of a call that tries an aggregate, and those that walk        *)
(* through its entries.                                                    *)
Trying == {"find", "bind", "bind_all", "undo", "bind_failed", "failed"}
Moving == {"bind_all", "undo", "unbind_all"}

(* What each kind of call is about, and the steps it has.                  *)
CallKind ==
  /\ call.step = "idle" => call = NoCall
  /\ call.op = "none" => call.step = "idle"
  /\ call.op = "master_add" => call.comp = NULL /\ call.step # "masters"
  /\ call.op \in {"del", "master_del"} => call.step \in {"unbind_all", "down"}
  /\ call.op \in {"add", "master_add"} => call.step \notin {"unbind_all", "down"}
  /\ call.step = "masters" => call.k >= 1

(* The component that is added has a driver that is not yet bound; the one *)
(* that is deleted is no longer on the list.                               *)
CallComp ==
  /\ call.op = "add" => /\ call.comp \in Components /\ Registered(call.comp)
                        /\ c_adev[call.comp] # NULL => ~m_bound[c_adev[call.comp]]
  /\ call.op = "del" => /\ call.comp \in Components /\ ~Registered(call.comp)
                        /\ call.adev = c_adev[call.comp]

(* The aggregate that is tried, walked through or deleted is registered.   *)
CallAdev ==
  /\ call.op = "master_del" => call.adev # NULL
  /\ call.op \in {"master_add", "master_del"} \/ call.step \in Trying \cup Moving =>
       call.adev # NULL /\ MasterListed(call.adev)
  /\ call.step \in Trying => ~m_bound[call.adev]
  /\ call.step = "unbind_all" => m_bound[call.adev]
  /\ call.step = "down" /\ call.adev # NULL => ~m_bound[call.adev]

(* How far the call has come with the entries of the aggregate.            *)
CallEntry ==
  /\ call.step = "find" => \A i \in 1 .. Num(call.adev) :
       i < call.i => compare[call.adev][i].component # NULL
  /\ call.step \in {"bind", "bind_all", "undo", "unbind_all"} => Filled(call.adev)
  /\ call.step \in Moving => call.target = call.adev /\ call.i <= Num(call.adev) + 1
  /\ call.step \in {"find", "bind_all"} => call.i >= 1
  /\ call.step \in {"undo", "unbind_all"} => call.i <= Num(call.adev)

CallFits == CallKind /\ CallComp /\ CallAdev /\ CallEntry

(* The entries of an aggregate whose components are bound: the first ones. *)
Reached(m) ==
  IF call.step \in Moving /\ call.target = m
  THEN IF call.step = "bind_all" THEN call.i - 1 ELSE call.i
  ELSE IF m_bound[m] THEN Num(m) ELSE 0

Bindings ==
  /\ \A m \in Masters : m_bound[m] => MasterListed(m) /\ Filled(m)
  /\ \A m \in Masters : \A i \in 1 .. Num(m) : \A c \in Components :
       Binder(m, i, c) => (c_bound[c] <=> i <= Reached(m))
  /\ \A c \in Components : c_bound[c] => c_adev[c] # NULL

(* The inductive invariant.                                                *)
IInv == Types /\ Lists /\ Links /\ CallFits /\ Bindings

-----------------------------------------------------------------------------
LEMMA NumType == \A m \in Masters : Num(m) \in Nat
  BY ComponentAssumption DEF Num

LEMMA FunctionIsSeq ==
  ASSUME NEW S, NEW n \in Nat, NEW f \in [1 .. n -> S]
  PROVE  f \in Seq(S) /\ Len(f) = n
  OBVIOUS

(* What list_del() leaves of a list in which nothing is twice.             *)
LEMMA ListDel ==
  ASSUME NEW S, NEW list \in Seq(S), Once(list), NEW x, OnList(list, x)
  PROVE  /\ list_del(list, x) \in Seq(S) /\ Once(list_del(list, x))
         /\ \A y : OnList(list_del(list, x), y) <=> (y # x /\ OnList(list, y))
<1>1. PICK j \in 1 .. Len(list) : list[j] = x /\ \A k \in 1 .. Len(list) : list[k] = x => k = j
  BY Zenon DEF OnList, Once
<1> DEFINE n == Len(list) - 1
           rest == [k \in 1 .. n |-> IF k < j THEN list[k] ELSE list[k + 1]]
<1>2. list_del(list, x) = rest
  <2>1. j = CHOOSE k \in 1 .. Len(list) : list[k] = x
    BY <1>1, Zenon
  <2>2. QED
    BY <2>1, Zenon DEF list_del
<1>3. n \in Nat /\ rest \in [1 .. n -> S]
  OBVIOUS
<1> SUFFICES /\ rest \in Seq(S) /\ Once(rest)
             /\ \A y : OnList(rest, y) <=> (y # x /\ OnList(list, y))
  BY <1>2, Zenon
<1>4. \A k \in 1 .. n : rest[k] = IF k < j THEN list[k] ELSE list[k + 1]
  BY Zenon
<1> HIDE DEF rest
<1>5. rest \in Seq(S) /\ Len(rest) = n
  BY <1>3, FunctionIsSeq, Zenon
<1>6. Once(rest)
  BY <1>4, <1>5 DEF Once
<1>7. ASSUME NEW k \in 1 .. Len(list), k # j PROVE OnList(rest, list[k])
  <2>1. CASE k < j
    BY <1>4, <1>5, <2>1 DEF OnList
  <2>2. CASE k > j
    <3>1. k - 1 \in 1 .. n /\ rest[k - 1] = list[k]
      BY <1>4, <2>2
    <3>2. QED
      BY <1>5, <3>1, Zenon DEF OnList
  <2>3. QED
    BY <1>7, <2>1, <2>2
<1>8. ASSUME NEW k \in 1 .. n PROVE rest[k] # x /\ OnList(list, rest[k])
  BY <1>1, <1>4 DEF OnList
<1>9. QED
  BY <1>1, <1>5, <1>6, <1>7, <1>8, Zenon DEF OnList

(* What a list holds once it has a new first element.                      *)
LEMMA ListAdd ==
  ASSUME NEW S, NEW list \in Seq(S), Once(list), NEW x \in S, ~OnList(list, x)
  PROVE  /\ <<x>> \o list \in Seq(S) /\ Once(<<x>> \o list)
         /\ \A y : OnList(<<x>> \o list, y) <=> (y = x \/ OnList(list, y))
<1> DEFINE new == <<x>> \o list
<1>1. /\ new \in Seq(S) /\ Len(new) = Len(list) + 1 /\ new[1] = x
      /\ \A k \in 1 .. Len(list) : new[k + 1] = list[k]
  OBVIOUS
<1> HIDE DEF new
<1>2. ASSUME NEW k \in 1 .. Len(new), k # 1
      PROVE  k - 1 \in 1 .. Len(list) /\ new[k] = list[k - 1] /\ new[k] # x
  <2>1. k - 1 \in 1 .. Len(list) /\ new[(k - 1) + 1] = list[k - 1] /\ (k - 1) + 1 = k
    BY <1>1, <1>2
  <2>2. QED
    BY <2>1, Zenon DEF OnList
<1>3. ASSUME NEW j \in 1 .. Len(new), NEW k \in 1 .. Len(new), new[j] = new[k], j # 1, k # 1
      PROVE  j = k
  <2>1. j - 1 = k - 1
    BY <1>2, <1>3, Zenon DEF Once
  <2>2. QED
    BY <2>1
<1>4. Once(new)
  BY <1>1, <1>2, <1>3, Zenon DEF Once
<1>5. ASSUME NEW k \in 1 .. Len(list) PROVE OnList(new, list[k])
  BY <1>1 DEF OnList
<1>6. OnList(new, x)
  BY <1>1 DEF OnList
<1>7. ASSUME NEW k \in 1 .. Len(new) PROVE new[k] = x \/ OnList(list, new[k])
  BY <1>1, <1>2, Zenon DEF OnList
<1>8. \A y : OnList(new, y) <=> (y = x \/ OnList(list, y))
  BY <1>5, <1>6, <1>7, Zenon DEF OnList
<1>9. QED
  BY <1>1, <1>4, <1>8, Zenon DEF new

LEMMA ListFind ==
  ASSUME NEW list, NEW S, list_find(list, S) # NULL
  PROVE  list_find(list, S) \in S /\ OnList(list, list_find(list, S))
  BY Zenon DEF list_find, OnList

(* The aggregate of a parent device is the one that was registered for it. *)
LEMMA AggregateFind ==
  ASSUME OneAggregateEach, Types, NEW m \in Masters, MasterListed(m), Once(aggregate_devices)
  PROVE  __aggregate_find(Parent[m]) = m
<1>1. {n \in Masters : Parent[n] = Parent[m]} = {m}
  BY Zenon DEF OneAggregateEach
<1>2. list_find(aggregate_devices, {m}) = m
  BY DEF list_find, MasterListed, Once
<1>3. QED
  BY <1>1, <1>2, Zenon DEF __aggregate_find

(* find_component() returns a registered component that no other aggregate *)
(* has.                                                                    *)
LEMMA FindComponent ==
  ASSUME Types, NEW m \in Masters, NEW i \in 1 .. Num(m), find_component(m, i) # NULL
  PROVE  LET c == find_component(m, i)
         IN  c \in Components /\ Registered(c) /\ c_adev[c] \in {NULL, m}
<1>1. Match[m][i] \subseteq Components
  BY ComponentAssumption DEF Num
<1>2. QED
  BY <1>1, ListFind, Zenon DEF find_component, OnList, Registered

LEMMA EntryTypes ==
  ASSUME Types, NEW m \in Masters, NEW i \in 1 .. Num(m)
  PROVE  /\ compare[m][i] \in Entry /\ compare[m][i].component \in Components \cup {NULL}
         /\ compare[m][i].duplicate \in BOOLEAN
<1>1. compare[m][i] \in Entry
  BY DEF Types, StateTypes
<1>2. QED
  BY <1>1, Zenon DEF Entry

LEMMA EmptyIs ==
  ASSUME NEW m \in Masters
  PROVE  /\ Empty(m) \in Seq(Entry) /\ Len(Empty(m)) = Num(m)
         /\ \A j \in 1 .. Num(m) : Empty(m)[j].component = NULL
<1>1. Empty(m) \in [1 .. Num(m) -> Entry]
  BY Zenon DEF Empty, Entry
<1>2. Empty(m) \in Seq(Entry) /\ Len(Empty(m)) = Num(m)
  BY <1>1, NumType, FunctionIsSeq, Zenon
<1>3. QED
  BY <1>2, Zenon DEF Empty

-----------------------------------------------------------------------------
LEMMA FieldTypes ==
  ASSUME NEW r \in CallRecords
  PROVE  /\ r.op \in Ops /\ r.comp \in Components \cup {NULL} /\ r.adev \in Masters \cup {NULL}
         /\ r.step \in Steps /\ r.k \in Nat /\ r.i \in Nat /\ r.target \in Masters \cup {NULL}
  BY Zenon DEF CallRecords

LEMMA NoCallIs == NoCall \in CallRecords /\ NoCall.op = "none" /\ NoCall.step = "idle"
  BY Zenon DEF NoCall, CallRecords, Ops, Steps

LEMMA NoCallFits == (call = NoCall => CallFits) /\ (call' = NoCall => CallFits')
  BY NoCallIs, Zenon DEF CallFits, CallKind, CallComp, CallAdev, CallEntry, Trying, Moving

LEMMA InitHolds == Init => IInv
<1> SUFFICES ASSUME Init PROVE IInv
  BY Zenon
<1>1. Types
  BY EmptyIs, NoCallIs DEF Init, Types, StateTypes
<1>2. Links
  BY EmptyIs, ComponentAssumption, Zenon DEF Init, Links
<1>3. Bindings
  BY ComponentAssumption, EmptyIs, NoCallIs, Zenon DEF Init, Bindings, Binder
<1>4. QED
  BY <1>1, <1>2, <1>3, NoCallFits DEF Init, IInv, Lists, Once

(* Where neither the links nor the bindings change, a call has only to     *)
(* stand for the same bindings.                                            *)
LEMMA BindingsKept ==
  ASSUME Bindings, UNCHANGED <<aggregate_devices, compare, c_adev, c_bound>>,
         \A m \in Masters : m_bound'[m] => MasterListed(m) /\ Filled(m),
         \A m \in Masters : Reached(m)' = Reached(m)
  PROVE  Bindings'
  BY DEF Bindings, Binder, MasterListed, Filled

(* Where the lists and links do not change, the component that is being    *)
(* deleted has to stay present.                                            *)
LEMMA LinksKept ==
  ASSUME IInv, UNCHANGED <<component_list, aggregate_devices, c_adev, compare>>,
         c_bound' \in [Components -> BOOLEAN], m_bound' \in [Masters -> BOOLEAN],
         call' \in CallRecords, CallFits', Bindings',
         call.op = "del" => call'.op = "del" /\ call'.comp = call.comp
  PROVE  IInv'
<1>1. Types' /\ Lists'
  BY Zenon DEF IInv, Types, StateTypes, Lists, Once
<1>2. Links'
  BY DEF IInv, Links, HasBinder, Binder, Present, Registered, MasterListed
<1>3. QED
  BY <1>1, <1>2, Zenon DEF IInv

LEMMA CallMoves ==
  ASSUME IInv, UNCHANGED state, call' \in CallRecords, CallFits',
         call.op = "del" => call'.op = "del" /\ call'.comp = call.comp,
         \A m \in Masters : Reached(m)' = Reached(m)
  PROVE  IInv'
<1>1. Bindings'
  BY BindingsKept, Zenon DEF IInv, Bindings, state
<1>2. QED
  BY <1>1, LinksKept, Zenon DEF IInv, Types, StateTypes, state

(* The steps of a call between which nothing is bound or unbound.          *)
LEMMA Quiet ==
  ASSUME IInv, UNCHANGED state, call' \in CallRecords, CallFits',
         call.op = "del" => call'.op = "del" /\ call'.comp = call.comp,
         call.step \notin Moving, call'.step \notin Moving
  PROVE  IInv'
<1>1. \A m \in Masters : Reached(m)' = Reached(m)
  BY Zenon DEF Reached, state
<1>2. QED
  BY <1>1, CallMoves, Zenon

LEMMA TryMasters ==
  ASSUME IInv, try_to_bring_up_masters
  PROVE  IInv'
<1> SUFFICES ASSUME call \in CallRecords, call.step = "masters", call.k \in Nat, call.k >= 1,
                    UNCHANGED state, call.op # "del"
             PROVE  IInv'
  BY FieldTypes, Zenon DEF IInv, Types, CallFits, CallKind, try_to_bring_up_masters
<1> DEFINE m == aggregate_devices[call.k]
<1>1. CASE call.k > Len(aggregate_devices)
  <2>1. call' = NoCall
    BY <1>1, Zenon DEF try_to_bring_up_masters
  <2>2. QED
    BY <2>1, NoCallIs, NoCallFits, Quiet, Zenon DEF Moving
<1>2. CASE call.k <= Len(aggregate_devices) /\ m_bound[m]
  <2>1. call' = [call EXCEPT !.k = @ + 1]
    BY <1>2 DEF try_to_bring_up_masters, IInv, Types, StateTypes
  <2>2. call' \in CallRecords
    BY <2>1 DEF CallRecords
  <2>3. CallFits'
    BY <2>1 DEF IInv, CallRecords, CallFits, CallKind, CallComp, CallAdev, CallEntry,
       state, Trying, Moving, Registered, MasterListed, Filled
  <2>4. QED
    BY <2>1, <2>2, <2>3, Quiet, Zenon DEF CallRecords, Moving
<1>3. CASE call.k <= Len(aggregate_devices) /\ ~m_bound[m]
  <2>1. call' = [call EXCEPT !.step = "find", !.adev = m, !.i = 1]
    BY <1>3 DEF try_to_bring_up_masters, IInv, Types, StateTypes
  <2>2. m \in Masters /\ MasterListed(m)
    BY <1>3 DEF IInv, Types, StateTypes, MasterListed
  <2>3. /\ call' \in CallRecords
        /\ call'.op = call.op /\ call'.comp = call.comp /\ call'.adev = m
        /\ call'.step = "find" /\ call'.i = 1
    BY <2>1, <2>2, Zenon DEF CallRecords, Steps
  <2> HIDE DEF m
  <2>4. CallFits'
    BY <1>3, <2>2, <2>3, ComponentAssumption DEF IInv, CallFits, CallKind, CallComp, CallAdev,
       CallEntry, state, Trying, Moving, Registered, MasterListed
  <2>5. QED
    BY <2>3, <2>4, Quiet, Zenon DEF Moving
<1>4. QED
  <2>1. Len(aggregate_devices) \in Nat
    BY DEF IInv, Types, StateTypes
  <2>2. QED
    BY <1>1, <1>2, <1>3, <2>1

(* find_components() or the test after it gives the aggregate up.          *)
LEMMA GivenUp ==
  ASSUME IInv, call.step = "find", NotReady, UNCHANGED state
  PROVE  IInv'
<1> SUFFICES ASSUME call \in CallRecords, call.k \in Nat, call.op # "del"
             PROVE  IInv'
  BY FieldTypes, Zenon DEF IInv, Types, CallFits, CallKind
<1>1. CASE call.op = "add"
  <2> DEFINE next == call.k + 1
  <2>1. call' = [call EXCEPT !.step = "masters", !.k = next] /\ next \in Nat /\ next >= 1
    BY <1>1 DEF NotReady
  <2> HIDE DEF next
  <2>2. /\ call' \in CallRecords
        /\ call'.op = call.op /\ call'.comp = call.comp /\ call'.adev = call.adev
        /\ call'.step = "masters" /\ call'.k = next
    BY <2>1, Zenon DEF CallRecords, Steps
  <2>3. CallFits'
    BY <1>1, <2>1, <2>2, Zenon DEF IInv, CallFits, CallKind, CallComp, CallAdev, CallEntry,
       state, Trying, Moving, Registered
  <2>4. QED
    BY <2>2, <2>3, Quiet, Zenon DEF Moving
<1>2. CASE call.op # "add"
  BY <1>2, NoCallIs, NoCallFits, Quiet, Zenon DEF NotReady, Moving
<1>3. QED
  BY <1>1, <1>2, Zenon

LEMMA TryAggregate ==
  ASSUME IInv, try_to_bring_up_aggregate_device
  PROVE  IInv'
<1> SUFFICES ASSUME call \in CallRecords, call.step = "find", call.i > Num(call.adev), UNCHANGED state
             PROVE  IInv'
  BY Zenon DEF IInv, Types, try_to_bring_up_aggregate_device
<1>1. CASE NotReady
  BY <1>1, GivenUp, Zenon
<1>2. ASSUME NEW s \in {"bind", "failed"}, Goto(s) PROVE IInv'
  <2>1. /\ call' \in CallRecords
        /\ call'.op = call.op /\ call'.comp = call.comp /\ call'.adev = call.adev
        /\ call'.step = s
    BY <1>2, Zenon DEF Goto, CallRecords, Steps
  <2>2. Filled(call.adev)
    <3>1. call.adev \in Masters /\ Num(call.adev) \in Nat /\ call.i \in Nat
      BY FieldTypes, NumType, Zenon DEF IInv, CallFits, CallAdev, Trying
    <3>2. QED
      BY <3>1 DEF IInv, CallFits, CallEntry, Filled
  <2>3. CallFits'
    BY <2>1, <2>2, Zenon DEF IInv, CallFits, CallKind, CallComp, CallAdev, CallEntry,
       state, Trying, Moving, Registered, MasterListed, Filled
  <2>4. QED
    BY <2>1, <2>3, Quiet, Zenon DEF Moving
<1>3. QED
  BY <1>1, <1>2, Zenon DEF try_to_bring_up_aggregate_device

LEMMA MasterBind ==
  ASSUME IInv, OneAggregateEach, master_bind
  PROVE  IInv'
<1> SUFFICES ASSUME NEW m \in Masters, call \in CallRecords, call.step = "bind", UNCHANGED state,
                    call.adev = m, MasterListed(m), ~m_bound[m]
             PROVE  IInv'
  BY FieldTypes, Zenon DEF IInv, Types, master_bind, CallFits, CallAdev, Trying
<1>1. CASE Goto("bind_failed")
  <2>1. /\ call' \in CallRecords
        /\ call'.op = call.op /\ call'.comp = call.comp /\ call'.adev = m
        /\ call'.step = "bind_failed"
    BY <1>1, Zenon DEF Goto, CallRecords, Steps
  <2>2. CallFits'
    BY <2>1, Zenon DEF IInv, CallFits, CallKind, CallComp, CallAdev, CallEntry,
       state, Trying, Moving, Registered, MasterListed
  <2>3. QED
    BY <2>1, <2>2, Quiet, Zenon DEF Moving
<1>2. CASE call' = [call EXCEPT !.step = "bind_all", !.i = 1,
                                !.target = __aggregate_find(Parent[call.adev])]
  <2>1. __aggregate_find(Parent[m]) = m
    BY AggregateFind, Zenon DEF IInv, Lists
  <2>2. /\ call' \in CallRecords
        /\ call'.op = call.op /\ call'.comp = call.comp /\ call'.adev = m
        /\ call'.step = "bind_all" /\ call'.i = 1 /\ call'.target = m
    BY <1>2, <2>1, Zenon DEF CallRecords, Steps
  <2>3. CallFits'
    BY <2>2, NumType DEF IInv, CallFits, CallKind, CallComp, CallAdev, CallEntry,
       state, Trying, Moving, Registered, MasterListed, Filled
  <2>4. \A n \in Masters : Reached(n)' = Reached(n)
    BY <2>2 DEF state, Moving, Reached
  <2>5. QED
    BY <2>2, <2>3, <2>4, CallMoves, Zenon
<1>3. QED
  BY <1>1, <1>2, Zenon DEF master_bind

LEMMA BindUndone ==
  ASSUME IInv, bind_undone \/ bind_failed
  PROVE  IInv'
<1> SUFFICES ASSUME call \in CallRecords, UNCHANGED state,
                    (call.step = "undo" /\ call.i = 0) \/ call.step = "bind_failed",
                    call.adev \in Masters, MasterListed(call.adev), ~m_bound[call.adev],
                    NEW s \in {"bind_failed", "failed"}, Goto(s)
             PROVE  IInv'
  BY FieldTypes, Zenon DEF IInv, Types, bind_undone, bind_failed, CallFits, CallAdev, Trying
<1>1. /\ call' \in CallRecords
      /\ call'.op = call.op /\ call'.comp = call.comp /\ call'.adev = call.adev
      /\ call'.step = s
  BY Zenon DEF Goto, CallRecords, Steps
<1>2. CallFits'
  BY <1>1, Zenon DEF IInv, CallFits, CallKind, CallComp, CallAdev, CallEntry,
     state, Trying, Moving, Registered, MasterListed
<1>3. \A n \in Masters : Reached(n)' = Reached(n)
  BY <1>1, Zenon DEF IInv, CallFits, CallEntry, state, Moving, Reached
<1>4. QED
  BY <1>1, <1>2, <1>3, CallMoves, Zenon

-----------------------------------------------------------------------------
(* A driver is bound, or unbound, as a whole: what is bound stays.         *)
LEMMA MasterBound ==
  ASSUME IInv, master_bound
  PROVE  IInv'
<1> SUFFICES ASSUME NEW m \in Masters, NEW i \in Nat,
                    call \in CallRecords, call.step = "bind_all", call.target = m, call.adev = m,
                    call.i = i + 1, i = Num(m), MasterListed(m), Filled(m),
                    UNCHANGED <<component_list, aggregate_devices, c_adev, c_bound, compare>>
             PROVE  IInv'
  <2>1. Num(call.adev) \in Nat /\ call.i = Num(call.adev) + 1
    BY FieldTypes, NumType DEF IInv, Types, CallFits, CallAdev, CallEntry, Trying, Moving, master_bound
  <2>2. QED
    BY <2>1, FieldTypes, Zenon DEF IInv, Types, CallFits, CallAdev, CallEntry, Trying, Moving, master_bound
<1>1. CASE m_bound' = [m_bound EXCEPT ![m] = TRUE] /\ call' = NoCall
  <2>1. \A n \in Masters : Reached(n)' = Reached(n)
    BY <1>1, NoCallIs DEF IInv, Types, StateTypes, Reached, Moving
  <2>2. \A n \in Masters : m_bound'[n] => MasterListed(n) /\ Filled(n)
    BY <1>1, Zenon DEF IInv, Types, StateTypes, Bindings
  <2>3. Bindings'
    BY <2>1, <2>2, BindingsKept, Zenon DEF IInv
  <2>4. QED
    BY <1>1, <2>3, NoCallIs, NoCallFits, LinksKept, Zenon DEF IInv, Types, StateTypes, CallFits, CallKind
<1>2. CASE m_bound' = m_bound /\ call' = [call EXCEPT !.step = "undo", !.i = @ - 1]
  <2>1. /\ call' \in CallRecords
        /\ call'.op = call.op /\ call'.comp = call.comp /\ call'.adev = m
        /\ call'.step = "undo" /\ call'.i = i /\ call'.target = m
    <3>1. call.i - 1 = i
      OBVIOUS
    <3>2. QED
      BY <1>2, <3>1, Zenon DEF CallRecords, Steps
  <2>2. CallFits'
    BY <1>2, <2>1 DEF IInv, CallFits, CallKind, CallComp, CallAdev, CallEntry,
       Trying, Moving, Registered, MasterListed, Filled
  <2>3. \A n \in Masters : Reached(n)' = Reached(n)
    BY <1>2, <2>1 DEF Moving, Reached
  <2>4. QED
    BY <1>2, <2>1, <2>2, <2>3, CallMoves, Zenon DEF state
<1>3. QED
  BY <1>1, <1>2, Zenon DEF master_bound

LEMMA TakenDown ==
  ASSUME IInv, take_down_aggregate_device
  PROVE  IInv'
<1> SUFFICES ASSUME NEW m \in Masters, call \in CallRecords, call.step = "unbind_all",
                    call.target = m, call.adev = m, call.i = 0, MasterListed(m),
                    UNCHANGED <<component_list, aggregate_devices, c_adev, c_bound, compare>>,
                    m_bound' = [m_bound EXCEPT ![m] = FALSE], Goto("down")
             PROVE  IInv'
  BY FieldTypes, Zenon DEF IInv, Types, CallFits, CallAdev, CallEntry, Trying, Moving,
     take_down_aggregate_device
<1>1. /\ call' \in CallRecords
      /\ call'.op = call.op /\ call'.comp = call.comp /\ call'.adev = m /\ call'.step = "down"
  BY Zenon DEF Goto, CallRecords, Steps
<1>2. /\ m_bound' \in [Masters -> BOOLEAN] /\ ~m_bound'[m]
      /\ \A n \in Masters \ {m} : m_bound'[n] = m_bound[n]
  BY Zenon DEF IInv, Types, StateTypes
<1>3. CallFits'
  BY <1>1, <1>2 DEF IInv, CallFits, CallKind, CallComp, CallAdev, CallEntry,
     Trying, Moving, Registered, MasterListed
<1>4. \A n \in Masters : Reached(n)' = Reached(n)
  BY <1>1, <1>2, Zenon DEF Reached, Moving
<1>5. Bindings'
  BY <1>2, <1>4, BindingsKept, Zenon DEF IInv, Bindings
<1>6. QED
  BY <1>1, <1>2, <1>3, <1>5, LinksKept, Zenon DEF IInv, Types, StateTypes

-----------------------------------------------------------------------------
(* The next component is bound, or the last one unbound: no other entry    *)
(* stands for it.                                                          *)
LEMMA OneFurther ==
  ASSUME IInv, NEW m \in Masters, NEW i \in 1 .. Num(m), compare[m][i].component # NULL,
         UNCHANGED <<aggregate_devices, compare, c_adev, m_bound>>,
         Reached(m) \in {i - 1, i}, Reached(m)' \in {i - 1, i},
         ~compare[m][i].duplicate => (c_bound'[compare[m][i].component] <=> Reached(m)' = i),
         \A c \in Components : compare[m][i].duplicate \/ c # compare[m][i].component
                                => (c_bound'[c] <=> c_bound[c]),
         \A n \in Masters \ {m} : Reached(n)' = Reached(n)
  PROVE  Bindings'
<1> DEFINE e == compare[m][i].component
<1>1. e \in Components /\ c_adev[e] = m
  BY EntryTypes DEF IInv, Links
<1>2. ASSUME NEW n \in Masters PROVE m_bound'[n] => MasterListed(n)' /\ Filled(n)'
  BY Zenon DEF IInv, Bindings, MasterListed, Filled
<1>3. ASSUME NEW c \in Components, c_bound'[c] PROVE c_adev'[c] # NULL
  BY <1>1, <1>3, ComponentAssumption, Zenon DEF IInv, Bindings
<1>4. ASSUME NEW n \in Masters, NEW j \in 1 .. Num(n), NEW c \in Components, Binder(n, j, c)
      PROVE  c_bound'[c] <=> j <= Reached(n)'
  <2>1. (c_bound[c] <=> j <= Reached(n)) /\ c_adev[c] = n
    BY <1>4, Zenon DEF IInv, Bindings, Links, Binder
  <2>2. CASE n = m /\ j = i
    BY <1>4, <2>2 DEF Binder
  <2>3. CASE n # m
    BY <1>1, <2>1, <2>3, Zenon
  <2>4. CASE n = m /\ j # i
    <3>1. HasBinder(m, c)
      BY <2>1, <2>4, Zenon DEF IInv, Links
    <3>2. ~compare[m][i].duplicate => c # e
      BY <1>4, <2>4, <3>1, Zenon DEF HasBinder, Binder
    <3>3. QED
      BY <2>1, <2>4, <3>2
  <2>5. QED
    BY <2>2, <2>3, <2>4, Zenon
<1>5. \A n \in Masters : \A j \in 1 .. Num(n) : \A c \in Components :
        Binder(n, j, c)' <=> Binder(n, j, c)
  BY Zenon DEF Binder
<1>6. QED
  BY <1>2, <1>3, <1>4, <1>5, Zenon DEF Bindings

LEMMA BindAll ==
  ASSUME IInv, component_bind_all
  PROVE  IInv'
<1> SUFFICES ASSUME NEW m \in Masters, NEW i \in Nat, call.i = i, i \in 1 .. Num(m), Num(m) \in Nat,
                    call \in CallRecords, call.step = "bind_all", call.target = m, call.adev = m,
                    compare[m][i].component # NULL,
                    UNCHANGED <<component_list, aggregate_devices, c_adev, m_bound, compare>>
             PROVE  IInv'
  BY FieldTypes, NumType DEF IInv, Types, CallFits, CallAdev, CallEntry, Trying, Moving, Filled,
     component_bind_all
<1> DEFINE e == compare[m][i]
<1>1. e.component \in Components
  BY EntryTypes, Zenon DEF IInv
<1>2. ASSUME call' = [call EXCEPT !.i = @ + 1],
             c_bound' = IF e.duplicate THEN c_bound
                        ELSE [c_bound EXCEPT ![e.component] = TRUE]
      PROVE  IInv'
  <2> DEFINE next == i + 1
  <2>1. call' = [call EXCEPT !.i = next] /\ next \in Nat /\ next - 1 = i
    BY <1>2
  <2> HIDE DEF next
  <2>2. /\ call' \in CallRecords
        /\ call'.op = call.op /\ call'.comp = call.comp /\ call'.adev = m
        /\ call'.step = "bind_all" /\ call'.i = next /\ call'.target = m
    BY <2>1, Zenon DEF CallRecords, Steps
  <2>3. CallFits'
    BY <2>1, <2>2 DEF IInv, CallFits, CallKind, CallComp, CallAdev, CallEntry,
       Trying, Moving, Registered, MasterListed, Filled
  <2>4. /\ Reached(m) = i - 1 /\ Reached(m)' = i
        /\ \A n \in Masters \ {m} : Reached(n)' = Reached(n)
    BY <2>1, <2>2, Zenon DEF Reached, Moving
  <2>5. /\ c_bound' \in [Components -> BOOLEAN] /\ (~e.duplicate => c_bound'[e.component])
        /\ \A c \in Components : e.duplicate \/ c # e.component => (c_bound'[c] <=> c_bound[c])
    BY <1>1, <1>2, Zenon DEF IInv, Types, StateTypes
  <2>6. Bindings'
    BY <2>4, <2>5, OneFurther, Zenon
  <2>7. QED
    BY <2>2, <2>3, <2>5, <2>6, LinksKept, Zenon DEF IInv, Types, StateTypes
<1>3. ASSUME call' = [call EXCEPT !.step = "undo", !.i = @ - 1], c_bound' = c_bound
      PROVE  IInv'
  <2> DEFINE next == i - 1
  <2>1. /\ call' = [call EXCEPT !.step = "undo", !.i = next] /\ next \in Nat /\ next <= Num(m)
        /\ Reached(m) = next
    BY <1>3 DEF Reached, Moving
  <2> HIDE DEF next
  <2>2. /\ call' \in CallRecords
        /\ call'.op = call.op /\ call'.comp = call.comp /\ call'.adev = m
        /\ call'.step = "undo" /\ call'.i = next /\ call'.target = m
    BY <2>1, Zenon DEF CallRecords, Steps
  <2>3. CallFits'
    BY <2>1, <2>2 DEF IInv, CallFits, CallKind, CallComp, CallAdev, CallEntry,
       Trying, Moving, Registered, MasterListed, Filled
  <2>4. \A n \in Masters : Reached(n)' = Reached(n)
    BY <2>1, <2>2, Zenon DEF Moving, Reached
  <2>5. QED
    BY <1>3, <2>2, <2>3, <2>4, CallMoves, Zenon DEF state
<1>4. QED
  BY <1>2, <1>3, Zenon DEF component_bind_all, component_bind

LEMMA UnbindAll ==
  ASSUME IInv, component_unbind_all
  PROVE  IInv'
<1> SUFFICES ASSUME NEW m \in Masters, NEW i \in Nat, call.i = i, i \in 1 .. Num(m), Num(m) \in Nat,
                    call \in CallRecords, call.step \in {"undo", "unbind_all"},
                    call.target = m, call.adev = m, compare[m][i].component # NULL,
                    UNCHANGED <<component_list, aggregate_devices, c_adev, m_bound, compare>>
             PROVE  IInv'
  BY FieldTypes, NumType DEF IInv, Types, CallFits, CallAdev, CallEntry, Trying, Moving, Filled,
     component_unbind_all
<1> DEFINE e == compare[m][i]
           next == i - 1
<1>1. e.component \in Components
  BY EntryTypes, Zenon DEF IInv
<1>2. c_bound' = IF e.duplicate THEN c_bound ELSE [c_bound EXCEPT ![e.component] = FALSE]
  BY Zenon DEF component_unbind_all, component_unbind
<1>3. /\ call' = [call EXCEPT !.i = next] /\ next \in Nat /\ next <= Num(m)
      /\ i - 1 = next /\ i - 1 # i
  BY DEF component_unbind_all
<1> HIDE DEF next
<1>4. /\ call' \in CallRecords
      /\ call'.op = call.op /\ call'.comp = call.comp /\ call'.adev = m
      /\ call'.step = call.step /\ call'.i = next /\ call'.target = m /\ call'.k = call.k
  BY <1>3, Zenon DEF CallRecords
<1>5. CallFits'
  <2>1. CallKind /\ CallComp /\ CallAdev /\ CallEntry
    BY Zenon DEF IInv, CallFits
  <2>2. CallKind'
    BY <1>4, <2>1 DEF CallKind
  <2>3. CallComp'
    BY <1>4, <2>1, Zenon DEF CallComp, Registered
  <2>4. CallAdev'
    BY <1>4, <2>1, Zenon DEF CallAdev, MasterListed
  <2>5. CallEntry'
    <3>1. call.step \notin {"find", "bind_all"} /\ next <= Num(m) + 1 /\ next <= Num(m)
      BY <1>3
    <3>2. QED
      BY <1>4, <2>1, <3>1, Zenon DEF CallEntry, Filled
  <2>6. QED
    BY <2>2, <2>3, <2>4, <2>5, Zenon DEF CallFits
<1>6. /\ Reached(m) = i /\ Reached(m)' = i - 1
      /\ \A n \in Masters \ {m} : Reached(n)' = Reached(n)
  BY <1>3, <1>4, Zenon DEF Reached, Moving
<1>7. /\ c_bound' \in [Components -> BOOLEAN] /\ (~e.duplicate => ~c_bound'[e.component])
      /\ \A c \in Components : e.duplicate \/ c # e.component => (c_bound'[c] <=> c_bound[c])
  BY <1>1, <1>2, Zenon DEF IInv, Types, StateTypes
<1>8. Bindings'
  BY <1>3, <1>6, <1>7, OneFurther, Zenon
<1>9. QED
  BY <1>4, <1>5, <1>7, <1>8, LinksKept, Zenon DEF IInv, Types, StateTypes

-----------------------------------------------------------------------------
(* A component is attached to the entry that had none: as its binder, if   *)
(* it is new to the aggregate, as a duplicate otherwise.                   *)
LEMMA AttachBinders ==
  ASSUME IInv, NEW m \in Masters, NEW i \in 1 .. Num(m), NEW c \in Components, Attach(m, i, c)
  PROVE  /\ compare' \in [Masters -> Seq(Entry)] /\ \A n \in Masters : Len(compare'[n]) = Num(n)
         /\ \A n \in Masters : \A j \in 1 .. Num(n) :
              /\ compare'[n][j].component = IF n = m /\ j = i THEN c ELSE compare[n][j].component
              /\ \A d \in Components :
                   Binder(n, j, d)' <=> IF n = m /\ j = i THEN d = c /\ c_adev[c] = NULL
                                        ELSE Binder(n, j, d)
<1> DEFINE new == [component |-> c, duplicate |-> c_adev[c] # NULL]
<1>1. new \in Entry /\ new.component = c /\ (new.duplicate <=> c_adev[c] # NULL)
  BY Zenon DEF Entry
<1>2. compare' = [compare EXCEPT ![m] = [@ EXCEPT ![i] = new]]
  BY Zenon DEF Attach
<1> HIDE DEF new
<1>3. compare \in [Masters -> Seq(Entry)] /\ \A n \in Masters : Len(compare[n]) = Num(n)
  BY Zenon DEF IInv, Types, StateTypes
<1>4. /\ compare'[m] = [compare[m] EXCEPT ![i] = new]
      /\ \A n \in Masters \ {m} : compare'[n] = compare[n]
  BY <1>2, <1>3, Zenon
<1>5. /\ compare'[m] \in Seq(Entry) /\ Len(compare'[m]) = Num(m)
      /\ \A j \in 1 .. Num(m) : compare'[m][j] = IF j = i THEN new ELSE compare[m][j]
  BY <1>1, <1>3, <1>4
<1>6. compare' \in [Masters -> Seq(Entry)] /\ \A n \in Masters : Len(compare'[n]) = Num(n)
  BY <1>2, <1>3, <1>4, <1>5, Zenon
<1>7. QED
  BY <1>1, <1>4, <1>5, <1>6 DEF Binder

(* The links and the bindings after it.                                    *)
LEMMA Attached ==
  ASSUME IInv, NEW m \in Masters, NEW i \in 1 .. Num(m), NEW c \in Components,
         call.step = "find", MasterListed(m), ~m_bound[m],
         compare[m][i].component = NULL, Registered(c), c_adev[c] \in {NULL, m}, Attach(m, i, c),
         UNCHANGED <<component_list, aggregate_devices, c_bound, m_bound>>,
         call'.op = call.op, call'.comp = call.comp, call'.step = "find"
  PROVE  StateTypes' /\ Links' /\ Bindings'
<1>1. /\ c_adev' \in [Components -> Masters \cup {NULL}]
      /\ \A d \in Components : c_adev'[d] = IF d = c THEN m ELSE c_adev[d]
  BY Zenon DEF IInv, Types, StateTypes, Attach
<1>2. StateTypes'
  BY <1>1, AttachBinders, Zenon DEF IInv, Types, StateTypes
<1>3. \A n \in Masters : \A j \in 1 .. Num(n) :
        /\ compare'[n][j].component = IF n = m /\ j = i THEN c ELSE compare[n][j].component
        /\ \A d \in Components :
             Binder(n, j, d)' <=> IF n = m /\ j = i THEN d = c /\ c_adev[c] = NULL
                                  ELSE Binder(n, j, d)
  BY AttachBinders, Zenon
<1>4. \A d \in Components : ~Binder(m, i, d)
  BY ComponentAssumption, Zenon DEF Binder
<1>5. ASSUME NEW n \in Masters, NEW j \in 1 .. Num(n), NEW d \in Components,
             compare'[n][j].component = d
      PROVE  c_adev'[d] = n
  <2>1. CASE n = m /\ j = i
    BY <1>1, <1>3, <1>5, <2>1, Zenon
  <2>2. CASE ~(n = m /\ j = i)
    <3>1. c_adev[d] = n
      BY <1>3, <1>5, <2>2 DEF IInv, Links
    <3>2. QED
      BY <1>1, <3>1, ComponentAssumption, Zenon
  <2>3. QED
    BY <2>1, <2>2, Zenon
<1>6. ASSUME NEW n \in Masters, NEW d \in Components, c_adev'[d] = n
      PROVE  Present(d)' /\ MasterListed(n)' /\ HasBinder(n, d)'
  <2>1. CASE c_adev[d] = n
    <3>1. Present(d) /\ MasterListed(n) /\ HasBinder(n, d)
      BY <2>1, Zenon DEF IInv, Links
    <3>2. \A j \in 1 .. Num(n) : Binder(n, j, d)' <=> Binder(n, j, d)
      BY <1>3, <1>4, <2>1, ComponentAssumption
    <3>3. QED
      BY <3>1, <3>2, Zenon DEF HasBinder, Present, Registered, MasterListed
  <2>2. CASE c_adev[d] # n
    <3>1. d = c /\ n = m /\ c_adev[c] = NULL
      BY <1>1, <1>6, <2>2, Zenon
    <3>2. \A j \in 1 .. Num(m) : ~Binder(m, j, c)
      BY <3>1, ComponentAssumption DEF IInv, Links, Binder
    <3>3. \A j \in 1 .. Num(m) : Binder(m, j, c)' <=> j = i
      BY <1>3, <3>1, <3>2, Zenon
    <3>4. QED
      BY <3>1, <3>3, Zenon DEF HasBinder, Present, Registered, MasterListed
  <2>3. QED
    BY <2>1, <2>2, Zenon
<1>7. Links'
  BY <1>5, <1>6, Zenon DEF Links
<1>8. Reached(m) = 0 /\ \A n \in Masters : Reached(n)' = Reached(n)
  BY Zenon DEF Moving, Reached
<1>9. ASSUME NEW n \in Masters, m_bound'[n]
      PROVE  MasterListed(n)' /\ Filled(n)'
  BY <1>3, <1>9 DEF IInv, Bindings, MasterListed, Filled
<1>10. ASSUME NEW n \in Masters, NEW j \in 1 .. Num(n), NEW d \in Components, Binder(n, j, d)'
       PROVE  c_bound'[d] <=> j <= Reached(n)'
  <2>1. CASE n = m /\ j = i
    <3>1. d = c /\ c_adev[d] = NULL
      BY <1>3, <1>10, <2>1, Zenon
    <3>2. ~c_bound[d]
      BY <3>1, Zenon DEF IInv, Bindings
    <3>3. QED
      BY <1>8, <2>1, <3>2
  <2>2. CASE ~(n = m /\ j = i)
    <3>1. Binder(n, j, d)
      BY <1>3, <1>10, <2>2, Zenon
    <3>2. QED
      BY <1>8, <3>1, Zenon DEF IInv, Bindings
  <2>3. QED
    BY <2>1, <2>2, Zenon
<1>11. ASSUME NEW d \in Components, c_bound'[d] PROVE c_adev'[d] # NULL
  BY <1>1, <1>11, ComponentAssumption, Zenon DEF IInv, Bindings
<1>12. QED
  BY <1>2, <1>7, <1>9, <1>10, <1>11, Zenon DEF Bindings

LEMMA FindComponents ==
  ASSUME IInv, find_components
  PROVE  IInv'
<1> SUFFICES ASSUME NEW m \in Masters, NEW i \in Nat, call.i = i, i \in 1 .. Num(m), Num(m) \in Nat,
                    call \in CallRecords, call.step = "find", call.adev = m,
                    MasterListed(m), ~m_bound[m],
                    UNCHANGED <<component_list, aggregate_devices, c_bound, m_bound>>
             PROVE  IInv'
  BY FieldTypes, NumType DEF IInv, Types, CallFits, CallAdev, CallEntry, Trying, find_components
<1> DEFINE c == find_component(m, i)
           next == i + 1
<1>1. CASE compare[m][i].component = NULL /\ NotReady /\ UNCHANGED <<compare, c_adev>>
  BY <1>1, GivenUp, Zenon DEF state
<1>2. ASSUME call' = [call EXCEPT !.i = @ + 1]
      PROVE  /\ next >= 1 /\ (\A j \in Nat : j < next => j < i \/ j = i)
             /\ call' \in CallRecords
             /\ call'.op = call.op /\ call'.comp = call.comp /\ call'.adev = m
             /\ call'.step = "find" /\ call'.i = next
  <2>1. /\ call' = [call EXCEPT !.i = next] /\ next \in Nat /\ next >= 1
        /\ \A j \in Nat : j < next => j < i \/ j = i
    BY <1>2
  <2> HIDE DEF next
  <2>2. QED
    BY <2>1, Zenon DEF CallRecords
<1> HIDE DEF c, next
<1>3. CASE /\ compare[m][i].component # NULL /\ call' = [call EXCEPT !.i = @ + 1]
           /\ UNCHANGED <<compare, c_adev>>
  <2>1. CallFits'
    BY <1>2, <1>3 DEF IInv, CallFits, CallKind, CallComp, CallAdev, CallEntry,
       Trying, Moving, Registered, MasterListed
  <2>2. QED
    BY <1>2, <1>3, <2>1, Quiet, Zenon DEF state, Moving
<1>4. CASE /\ compare[m][i].component = NULL /\ c # NULL /\ Attach(m, i, c)
           /\ call' = [call EXCEPT !.i = @ + 1]
  <2>1. c \in Components /\ Registered(c) /\ c_adev[c] \in {NULL, m}
    BY <1>4, FindComponent, Zenon DEF c, IInv
  <2>2. StateTypes' /\ Links' /\ Bindings'
    BY <1>2, <1>4, <2>1, Attached, Zenon
  <2>3. CallKind' /\ CallAdev'
    BY <1>2, <1>4, Zenon DEF IInv, CallFits, CallKind, CallAdev, MasterListed
  <2>4. CallComp'
    BY <1>2, <1>4, <2>1, Zenon DEF IInv, Types, StateTypes, CallFits, CallKind, CallComp, Registered, Attach
  <2>5. CallEntry'
    <3>1. \A j \in 1 .. Num(m) :
            compare'[m][j].component = IF j = i THEN c ELSE compare[m][j].component
      BY <1>4, <2>1, AttachBinders, SMT
    <3>2. \A j \in 1 .. Num(m) : j < i => compare[m][j].component # NULL
      BY Zenon DEF IInv, CallFits, CallEntry
    <3>3. \A j \in 1 .. Num(m) : j < next => compare'[m][j].component # NULL
      BY <1>2, <1>4, <3>1, <3>2
    <3>4. QED
      BY <1>2, <1>4, <3>3, Zenon DEF CallEntry, Moving
  <2>6. QED
    BY <1>2, <1>4, <2>2, <2>3, <2>4, <2>5, Zenon DEF IInv, Types, Lists, Once, CallFits
<1>5. QED
  BY <1>1, <1>3, <1>4, Zenon DEF find_components, c

-----------------------------------------------------------------------------
(* Components of aggregates that are not bound lose their links; what else *)
(* is linked stays registered.                                             *)
LEMMA LinksFreed ==
  ASSUME IInv, NEW G \in SUBSET Components,
         call.step \notin Moving, call' = NoCall, StateTypes', Lists', UNCHANGED <<c_bound, m_bound>>,
         \A c \in G : \A m \in Masters : c_adev[c] = m => ~m_bound[m],
         \A c \in Components : c_adev'[c] = IF c \in G THEN NULL ELSE c_adev[c],
         \A m \in Masters : \A i \in 1 .. Num(m) :
           /\ compare[m][i].component \in G \cup {NULL} => compare'[m][i].component = NULL
           /\ compare[m][i].component \notin G \cup {NULL} => compare'[m][i] = compare[m][i],
         \A c \in Components \ G : Present(c) => Present(c)',
         \A m \in Masters : /\ MasterListed(m)
                            /\ m_bound[m] \/ \E c \in Components \ G : c_adev[c] = m
                            => MasterListed(m)'
  PROVE  IInv'
<1>1. \A m \in Masters : \A i \in 1 .. Num(m) : \A c \in Components :
        Binder(m, i, c)' <=> Binder(m, i, c) /\ c \notin G
  BY ComponentAssumption DEF Binder
<1>2. Links'
  <2>1. ASSUME NEW m \in Masters, NEW i \in 1 .. Num(m), NEW c \in Components,
               compare'[m][i].component = c
        PROVE  c_adev'[c] = m
    <3>1. compare[m][i].component = c /\ c \notin G
      BY <2>1, ComponentAssumption, Zenon
    <3>2. QED
      BY <3>1 DEF IInv, Links
  <2>2. ASSUME NEW m \in Masters, NEW c \in Components, c_adev'[c] = m
        PROVE  Present(c)' /\ MasterListed(m)' /\ HasBinder(m, c)'
    <3>1. c \notin G /\ c_adev[c] = m
      BY <2>2, ComponentAssumption, Zenon
    <3>2. Present(c) /\ MasterListed(m) /\ HasBinder(m, c)
      BY <3>1, Zenon DEF IInv, Links
    <3>3. QED
      BY <1>1, <3>1, <3>2, Zenon DEF HasBinder
  <2>3. QED
    BY <2>1, <2>2, Zenon DEF Links
<1>3. \A m \in Masters : Reached(m) = (IF m_bound[m] THEN Num(m) ELSE 0) /\ Reached(m)' = Reached(m)
  BY NoCallIs, Zenon DEF Moving, Reached
<1>4. ASSUME NEW c \in G PROVE ~c_bound[c]
  <2>1. ASSUME NEW m \in Masters, c_adev[c] = m PROVE ~c_bound[c]
    <3>1. PICK i \in 1 .. Num(m) : Binder(m, i, c)
      BY <2>1, Zenon DEF IInv, Links, HasBinder
    <3>2. Reached(m) = 0
      BY <1>3, <2>1, Zenon
    <3>3. QED
      BY <3>1, <3>2 DEF IInv, Bindings
  <2>2. QED
    BY <2>1, Zenon DEF IInv, Types, StateTypes, Bindings
<1>5. ASSUME NEW m \in Masters, m_bound[m] PROVE MasterListed(m)' /\ Filled(m)'
  <2>1. MasterListed(m) /\ Filled(m)
    BY <1>5, Zenon DEF IInv, Bindings
  <2>2. \A i \in 1 .. Num(m) : compare[m][i].component \notin G
    BY <1>5 DEF IInv, Links
  <2>3. QED
    BY <1>5, <2>1, <2>2, Zenon DEF Filled
<1>6. Bindings'
  BY <1>1, <1>3, <1>4, <1>5 DEF IInv, Bindings
<1>7. QED
  BY <1>2, <1>6, NoCallIs, NoCallFits, Zenon DEF IInv, Types

(* A component is freed when its aggregate is not bound.                   *)
LEMMA ComponentFreed ==
  ASSUME IInv, NEW c \in Components, call.comp = c, call.op \in {"add", "del"},
         call.step \in {"failed", "down"}, FreeComponent(c),
         component_list' \in Seq(Components), Once(component_list'),
         \A d \in Components : Registered(d) /\ d # c => Registered(d)',
         UNCHANGED <<aggregate_devices, c_bound, m_bound>>
  PROVE  IInv'
<1>1. /\ compare \in [Masters -> Seq(Entry)] /\ \A n \in Masters : Len(compare[n]) = Num(n)
      /\ c_adev \in [Components -> Masters \cup {NULL}]
      /\ \A n \in Masters : Num(n) \in Nat
  BY NumType, Zenon DEF IInv, Types, StateTypes
<1>2. /\ c_adev' \in [Components -> Masters \cup {NULL}]
      /\ \A d \in Components : c_adev'[d] = IF d \in {c} THEN NULL ELSE c_adev[d]
  BY <1>1, Zenon DEF FreeComponent
<1>3. \A d \in {c} : \A m \in Masters : c_adev[d] = m => ~m_bound[m]
  BY ComponentAssumption, Zenon DEF IInv, CallFits, CallKind, CallComp, CallAdev
<1>4. /\ compare' \in [Masters -> Seq(Entry)] /\ \A n \in Masters : Len(compare'[n]) = Num(n)
      /\ \A n \in Masters : \A j \in 1 .. Num(n) :
           /\ compare[n][j].component \in {c} \cup {NULL} => compare'[n][j].component = NULL
           /\ compare[n][j].component \notin {c} \cup {NULL} => compare'[n][j] = compare[n][j]
  <2>1. CASE c_adev[c] = NULL
    <3>1. \A n \in Masters : \A j \in 1 .. Num(n) : compare[n][j].component = c => c_adev[c] = n
      BY Zenon DEF IInv, Links
    <3>2. compare' = compare
      BY <2>1, Zenon DEF FreeComponent
    <3>3. QED
      BY <1>1, <2>1, <3>1, <3>2, ComponentAssumption, Zenon
  <2>2. ASSUME NEW m \in Masters, c_adev[c] = m
        PROVE  /\ compare' \in [Masters -> Seq(Entry)] /\ \A n \in Masters : Len(compare'[n]) = Num(n)
               /\ \A n \in Masters : \A j \in 1 .. Num(n) :
                    /\ compare[n][j].component \in {c} \cup {NULL} => compare'[n][j].component = NULL
                    /\ compare[n][j].component \notin {c} \cup {NULL} => compare'[n][j] = compare[n][j]
    <3> DEFINE new == [i \in 1 .. Num(m) |->
                         IF compare[m][i].component = c THEN [compare[m][i] EXCEPT !.component = NULL]
                         ELSE compare[m][i]]
    <3>1. compare' = [compare EXCEPT ![m] = new]
      BY <1>1, <2>2, ComponentAssumption, Zenon DEF FreeComponent, Detached
    <3>2. ASSUME NEW j \in 1 .. Num(m)
          PROVE  /\ new[j] \in Entry
                 /\ compare[m][j].component = c => new[j].component = NULL
                 /\ compare[m][j].component # c => new[j] = compare[m][j]
      BY EntryTypes, Zenon DEF IInv, Entry
    <3>3. new \in Seq(Entry) /\ Len(new) = Num(m)
      <4>1. new \in [1 .. Num(m) -> Entry]
        BY <3>2, Zenon
      <4> HIDE DEF new
      <4>2. QED
        BY <1>1, <4>1, FunctionIsSeq, Zenon
    <3> HIDE DEF new
    <3>4. compare'[m] = new /\ \A n \in Masters \ {m} : compare'[n] = compare[n]
      BY <1>1, <3>1, Zenon
    <3>5. \A n \in Masters \ {m} : \A j \in 1 .. Num(n) : compare[n][j].component # c
      BY <2>2, Zenon DEF IInv, Links
    <3>6. compare' \in [Masters -> Seq(Entry)]
      BY <1>1, <3>1, <3>3, Zenon
    <3>7. QED
      BY <1>1, <3>2, <3>3, <3>4, <3>5, <3>6, Zenon
  <2>3. QED
    BY <1>1, <2>1, <2>2, Zenon
<1>5. StateTypes' /\ Lists'
  BY <1>2, <1>4, Zenon DEF IInv, Types, StateTypes, Lists, Once
<1>6. \A d \in Components \ {c} : Present(d) => Present(d)'
  BY Zenon DEF Present
<1>7. call.step \notin Moving /\ call' = NoCall /\ \A m \in Masters : MasterListed(m) => MasterListed(m)'
  BY Zenon DEF Moving, MasterListed, FreeComponent
<1>8. {c} \in SUBSET Components
  BY Zenon
<1>9. QED
  BY <1>2, <1>3, <1>4, <1>5, <1>6, <1>7, <1>8, LinksFreed, Zenon

(* An aggregate is freed when it is not bound, with all its links.         *)
LEMMA AggregateFreed ==
  ASSUME IInv, NEW m \in Masters, call.adev = m, call.op \in {"master_add", "master_del"},
         call.step \in {"failed", "down"}, free_aggregate_device(m),
         UNCHANGED <<component_list, c_bound, m_bound>>
  PROVE  IInv'
<1> DEFINE G == {c \in Components : c_adev[c] = m}
<1>1. call.step \notin Moving /\ call' = NoCall /\ MasterListed(m) /\ ~m_bound[m]
  BY ComponentAssumption, Zenon DEF IInv, free_aggregate_device, CallFits, CallAdev, Trying, Moving
<1>2. /\ compare \in [Masters -> Seq(Entry)] /\ \A n \in Masters : Len(compare[n]) = Num(n)
      /\ c_adev \in [Components -> Masters \cup {NULL}]
      /\ aggregate_devices \in Seq(Masters) /\ Once(aggregate_devices)
  BY Zenon DEF IInv, Types, StateTypes, Lists
<1>3. /\ aggregate_devices' \in Seq(Masters) /\ Once(aggregate_devices')
      /\ \A n \in Masters : MasterListed(n) /\ n # m => MasterListed(n)'
  <2>1. OnList(aggregate_devices, m) /\ aggregate_devices' = list_del(aggregate_devices, m)
    BY <1>1, Zenon DEF MasterListed, OnList, free_aggregate_device
  <2>2. /\ aggregate_devices' \in Seq(Masters) /\ Once(aggregate_devices')
        /\ \A n : OnList(aggregate_devices', n) <=> (n # m /\ OnList(aggregate_devices, n))
    BY <1>2, <2>1, ListDel
  <2>3. QED
    BY <2>2, Zenon DEF MasterListed, OnList
<1>4. /\ c_adev' \in [Components -> Masters \cup {NULL}]
      /\ \A d \in Components : c_adev'[d] = IF d \in G THEN NULL ELSE c_adev[d]
  <2>1. \A d \in Components : c_adev[d] = m <=> \E i \in 1 .. Num(m) : compare[m][i].component = d
    BY DEF IInv, Links, HasBinder, Binder
  <2>2. QED
    BY <1>2, <2>1, Zenon DEF free_aggregate_device
<1>5. /\ compare' \in [Masters -> Seq(Entry)] /\ \A n \in Masters : Len(compare'[n]) = Num(n)
      /\ \A j \in 1 .. Num(m) : compare'[m][j].component = NULL
      /\ \A n \in Masters \ {m} : compare'[n] = compare[n]
  BY <1>2, EmptyIs, Zenon DEF free_aggregate_device
<1>6. \A n \in Masters : \A j \in 1 .. Num(n) :
        /\ compare[n][j].component \in G => n = m
        /\ compare[n][j].component \notin G /\ n = m => compare[n][j].component = NULL
  BY EntryTypes DEF IInv, Links
<1>7. StateTypes' /\ Lists'
  BY <1>3, <1>4, <1>5, Zenon DEF IInv, Types, StateTypes, Lists, Once
<1>8. \A n \in Masters : \A j \in 1 .. Num(n) :
        /\ compare[n][j].component \in G \cup {NULL} => compare'[n][j].component = NULL
        /\ compare[n][j].component \notin G \cup {NULL} => compare'[n][j] = compare[n][j]
  BY <1>5, <1>6, Zenon
<1>9. /\ G \in SUBSET Components
      /\ \A c \in G : \A n \in Masters : c_adev[c] = n => ~m_bound[n]
      /\ \A c \in Components \ G : Present(c) => Present(c)'
      /\ \A n \in Masters : /\ MasterListed(n)
                            /\ m_bound[n] \/ \E c \in Components \ G : c_adev[c] = n
                            => MasterListed(n)'
  BY <1>1, <1>3, Zenon DEF Present, Registered
<1> HIDE DEF G
<1>10. QED
  BY <1>1, <1>4, <1>7, <1>8, <1>9, LinksFreed, Zenon

LEMMA AddFailed ==
  ASSUME IInv, add_failed
  PROVE  IInv'
<1> SUFFICES ASSUME call.step = "failed", UNCHANGED <<c_bound, m_bound>> PROVE IInv'
  BY Zenon DEF add_failed
<1>1. ASSUME NEW c \in Components, call.op = "add", call.comp = c PROVE IInv'
  <2>1. /\ component_list' = list_del(component_list, c) /\ FreeComponent(c)
        /\ UNCHANGED aggregate_devices
    BY <1>1, Zenon DEF add_failed
  <2>2. /\ component_list \in Seq(Components) /\ Once(component_list)
        /\ OnList(component_list, c)
    BY <1>1, Zenon DEF IInv, Types, StateTypes, Lists, CallFits, CallComp, Registered, OnList
  <2>3. /\ component_list' \in Seq(Components) /\ Once(component_list')
        /\ \A d : OnList(component_list', d) <=> (d # c /\ OnList(component_list, d))
    BY <2>1, <2>2, ListDel, Zenon
  <2>4. \A d \in Components : Registered(d) /\ d # c => Registered(d)'
    BY <2>3, Zenon DEF Registered, OnList
  <2>5. QED
    BY <1>1, <2>1, <2>3, <2>4, ComponentFreed, Zenon
<1>2. ASSUME NEW m \in Masters, call.op = "master_add", call.adev = m PROVE IInv'
  BY <1>2, AggregateFreed, Zenon DEF add_failed
<1>3. QED
  BY <1>1, <1>2, FieldTypes, Zenon DEF add_failed, IInv, Types, CallFits, CallComp, CallAdev

LEMMA DelDone ==
  ASSUME IInv, del_done
  PROVE  IInv'
<1> SUFFICES ASSUME call.step = "down", UNCHANGED <<component_list, c_bound, m_bound>> PROVE IInv'
  BY Zenon DEF del_done
<1>1. ASSUME NEW c \in Components, call.op = "del", call.comp = c PROVE IInv'
  <2>1. FreeComponent(c) /\ UNCHANGED aggregate_devices
    BY <1>1, Zenon DEF del_done
  <2>2. /\ component_list' \in Seq(Components) /\ Once(component_list')
        /\ \A d \in Components : Registered(d) => Registered(d)'
    BY Zenon DEF IInv, Types, StateTypes, Lists, Registered, Once
  <2>3. QED
    BY <1>1, <2>1, <2>2, ComponentFreed, Zenon
<1>2. ASSUME NEW m \in Masters, call.op = "master_del", call.adev = m PROVE IInv'
  BY <1>2, AggregateFreed, Zenon DEF del_done
<1>3. QED
  BY <1>1, <1>2, FieldTypes, Zenon DEF del_done, IInv, Types, CallFits, CallComp, CallAdev

-----------------------------------------------------------------------------
(* The calls.  A registration or the start of a deletion leaves the links  *)
(* and the bindings as they are.                                           *)
LEMMA CallStarts ==
  ASSUME IInv, call = NoCall, UNCHANGED <<c_adev, c_bound, m_bound, compare>>,
         component_list' \in Seq(Components), Once(component_list'),
         aggregate_devices' \in Seq(Masters), Once(aggregate_devices'),
         \A c \in Components : Registered(c) => Present(c)',
         \A m \in Masters : MasterListed(m) => MasterListed(m)',
         call' \in CallRecords, CallFits',
         \A m \in Masters : call'.step \in Moving /\ call'.target = m =>
           call'.step = "unbind_all" /\ m_bound[m] /\ call'.i = Num(m)
  PROVE  IInv'
<1>1. Types' /\ Lists'
  BY Zenon DEF IInv, Types, StateTypes, Lists, Once
<1>2. Links'
  <2>1. \A c \in Components : Present(c) => Present(c)'
    BY NoCallIs, Zenon DEF Present
  <2>2. QED
    BY <2>1 DEF IInv, Links, HasBinder, Binder
<1>3. Bindings'
  <2>1. \A m \in Masters : Reached(m)' = Reached(m)
    BY NoCallIs, Zenon DEF Reached, Moving
  <2>2. QED
    BY <2>1, Zenon DEF IInv, Bindings, Binder, Filled
<1>4. QED
  BY <1>1, <1>2, <1>3, Zenon DEF IInv

LEMMA ComponentAdd ==
  ASSUME IInv, NEW c \in Components, component_add(c)
  PROVE  IInv'
<1> SUFFICES ASSUME call = NoCall, ~Registered(c), component_list' = Append(component_list, c),
                    UNCHANGED <<aggregate_devices, c_adev, c_bound, m_bound, compare>>
             PROVE  IInv'
  BY Zenon DEF component_add
<1>1. /\ call' \in CallRecords
      /\ call'.op = "add" /\ call'.comp = c /\ call'.step = "masters" /\ call'.k = 1
  BY Zenon DEF component_add, NoCall, CallRecords, Ops, Steps
<1>2. /\ component_list' \in Seq(Components) /\ Once(component_list')
      /\ \A d \in Components : Registered(d) => Registered(d)'
      /\ Registered(c)'
  BY DEF IInv, Types, StateTypes, Lists, Registered, Once
<1>3. c_adev[c] = NULL
  BY NoCallIs, Zenon DEF IInv, Types, StateTypes, Links, Present
<1>4. CallFits'
  BY <1>1, <1>2, <1>3 DEF CallFits, CallKind, CallComp, CallAdev, CallEntry, Trying, Moving
<1>5. QED
  BY <1>1, <1>2, <1>4, CallStarts, Zenon DEF IInv, Types, StateTypes, Lists, Once, Present, MasterListed, Moving

LEMMA MasterAdd ==
  ASSUME IInv, NEW m \in Masters, component_master_add_with_match(m)
  PROVE  IInv'
<1> SUFFICES ASSUME call = NoCall, ~MasterListed(m),
                    aggregate_devices' = <<m>> \o aggregate_devices,
                    UNCHANGED <<component_list, c_adev, c_bound, m_bound, compare>>
             PROVE  IInv'
  BY Zenon DEF component_master_add_with_match
<1>1. /\ call' \in CallRecords
      /\ call'.op = "master_add" /\ call'.comp = NULL /\ call'.adev = m
      /\ call'.step = "find" /\ call'.i = 1
  BY Zenon DEF component_master_add_with_match, NoCall, CallRecords, Ops, Steps
<1>2. /\ aggregate_devices' \in Seq(Masters) /\ Once(aggregate_devices')
      /\ \A n \in Masters : MasterListed(n) \/ n = m => MasterListed(n)'
  <2>1. /\ aggregate_devices \in Seq(Masters) /\ Once(aggregate_devices)
        /\ ~OnList(aggregate_devices, m)
    BY Zenon DEF IInv, Types, StateTypes, Lists, MasterListed, OnList
  <2>2. /\ aggregate_devices' \in Seq(Masters) /\ Once(aggregate_devices')
        /\ \A n : OnList(aggregate_devices', n) <=> (n = m \/ OnList(aggregate_devices, n))
    BY <2>1, ListAdd, Zenon
  <2>3. QED
    BY <2>2, Zenon DEF MasterListed, OnList
<1>3. ~m_bound[m]
  BY Zenon DEF IInv, Bindings
<1>4. CallFits'
  BY <1>1, <1>2, <1>3, ComponentAssumption
     DEF CallFits, CallKind, CallComp, CallAdev, CallEntry, Trying, Moving
<1>5. QED
  BY <1>1, <1>2, <1>4, CallStarts, Zenon DEF IInv, Types, StateTypes, Lists, Once, Present, Registered, Moving

(* What take_down_aggregate_device() starts with.                          *)
LEMMA TakeDownStarts ==
  ASSUME IInv, OneAggregateEach, NEW op \in {"del", "master_del"},
         NEW c \in Components \cup {NULL}, NEW m \in Masters \cup {NULL},
         m # NULL => MasterListed(m), TakeDown(op, c, m)
  PROVE  /\ call' \in CallRecords /\ call'.op = op /\ call'.comp = c /\ call'.adev = m
         /\ \/ /\ call'.step = "unbind_all" /\ m \in Masters /\ m_bound[m]
               /\ call'.target = m /\ call'.i = Num(m)
            \/ call'.step = "down" /\ (m # NULL => ~m_bound[m])
<1>1. CASE m # NULL /\ m_bound[m]
  <2>1. m \in Masters /\ Num(m) \in Nat /\ __aggregate_find(Parent[m]) = m
    BY <1>1, NumType, AggregateFind, Zenon DEF IInv, Lists
  <2>2. call' = [NoCall EXCEPT !.op = op, !.comp = c, !.adev = m, !.step = "unbind_all",
                               !.target = m, !.i = Num(m)]
    BY <1>1, <2>1, Zenon DEF TakeDown
  <2>3. QED
    BY <1>1, <2>1, <2>2, Zenon DEF NoCall, CallRecords, Ops, Steps
<1>2. CASE ~(m # NULL /\ m_bound[m])
  <2>1. call' = [NoCall EXCEPT !.op = op, !.comp = c, !.adev = m, !.step = "down"]
    BY <1>2, Zenon DEF TakeDown
  <2>2. QED
    BY <1>2, <2>1, Zenon DEF NoCall, CallRecords, Ops, Steps
<1>3. QED
  BY <1>1, <1>2, Zenon

LEMMA ComponentDel ==
  ASSUME IInv, OneAggregateEach, NEW c \in Components, component_del(c)
  PROVE  IInv'
<1> SUFFICES ASSUME NEW m \in Masters \cup {NULL}, c_adev[c] = m, m # NULL => MasterListed(m),
                    call = NoCall, Registered(c), TakeDown("del", c, m),
                    component_list' = list_del(component_list, c),
                    UNCHANGED <<aggregate_devices, c_adev, c_bound, m_bound, compare>>
             PROVE  IInv'
  BY Zenon DEF component_del, IInv, Types, StateTypes, Links
<1>1. /\ call' \in CallRecords /\ call'.op = "del" /\ call'.comp = c /\ call'.adev = m
      /\ \/ /\ call'.step = "unbind_all" /\ m \in Masters /\ m_bound[m]
            /\ call'.target = m /\ call'.i = Num(m)
         \/ call'.step = "down" /\ (m # NULL => ~m_bound[m])
  BY TakeDownStarts, Zenon
<1>2. /\ component_list' \in Seq(Components) /\ Once(component_list') /\ ~Registered(c)'
      /\ \A d \in Components : Registered(d) /\ d # c => Registered(d)'
  <2>1. /\ component_list \in Seq(Components) /\ Once(component_list)
        /\ OnList(component_list, c)
    BY Zenon DEF IInv, Types, StateTypes, Lists, Registered, OnList
  <2>2. /\ component_list' \in Seq(Components) /\ Once(component_list')
        /\ \A d : OnList(component_list', d) <=> (d # c /\ OnList(component_list, d))
    BY <2>1, ListDel, Zenon
  <2>3. QED
    BY <2>2, Zenon DEF Registered, OnList
<1>3. CallFits'
  <2>1. m \in Masters /\ m_bound[m] => Filled(m)
    BY Zenon DEF IInv, Bindings
  <2>2. QED
    BY <1>1, <1>2, <2>1, NumType, ComponentAssumption
       DEF CallFits, CallKind, CallComp, CallAdev, CallEntry, Trying, Moving, MasterListed, Filled
<1>4. QED
  BY <1>1, <1>2, <1>3, CallStarts DEF IInv, Types, StateTypes, Lists, Once, Present, MasterListed, Moving

LEMMA MasterDel ==
  ASSUME IInv, OneAggregateEach, NEW m \in Masters, component_master_del(m)
  PROVE  IInv'
<1> SUFFICES ASSUME call = NoCall, MasterListed(m), UNCHANGED state, TakeDown("master_del", NULL, m)
             PROVE  IInv'
  BY Zenon DEF component_master_del
<1>1. /\ call' \in CallRecords /\ call'.op = "master_del" /\ call'.comp = NULL /\ call'.adev = m
      /\ \/ /\ call'.step = "unbind_all" /\ m \in Masters /\ m_bound[m]
            /\ call'.target = m /\ call'.i = Num(m)
         \/ call'.step = "down" /\ (m # NULL => ~m_bound[m])
  BY TakeDownStarts, Zenon
<1>2. m_bound[m] => Filled(m)
  BY Zenon DEF IInv, Bindings
<1>3. CallFits'
  BY <1>1, <1>2, NumType, ComponentAssumption
     DEF CallFits, CallKind, CallComp, CallAdev, CallEntry, Trying, Moving, MasterListed, Filled, state
<1>4. \A n \in Masters : Reached(n)' = Reached(n)
  BY <1>1, NoCallIs, Zenon DEF Reached, Moving, state
<1>5. QED
  BY <1>1, <1>3, <1>4, NoCallIs, CallMoves, Zenon

-----------------------------------------------------------------------------
LEMMA Invariant ==
  ASSUME OneAggregateEach
  PROVE  Spec => []IInv
<1>1. Init => IInv
  BY InitHolds, Zenon
<1>2. IInv /\ [Next]_vars => IInv'
  <2> SUFFICES ASSUME IInv, [Next]_vars PROVE IInv'
    BY Zenon
  <2>1. CASE Call
    BY <2>1, ComponentAdd, ComponentDel, MasterAdd, MasterDel, Zenon DEF Call
  <2>2. CASE Step
    BY <2>2, FindComponents, TryAggregate, TryMasters, MasterBind, BindAll, MasterBound,
       UnbindAll, BindUndone, AddFailed, TakenDown, DelDone, Zenon DEF Step
  <2>3. CASE UNCHANGED vars
    <3>1. UNCHANGED state /\ call' = call
      BY <2>3, Zenon DEF vars, state
    <3>2. call' \in CallRecords /\ CallFits'
      <4>1. /\ call \in CallRecords /\ CallKind /\ CallComp /\ CallAdev /\ CallEntry
            /\ UNCHANGED <<component_list, aggregate_devices, c_adev, m_bound, compare>>
        BY <3>1, Zenon DEF IInv, Types, CallFits, state
      <4>2. CallKind' /\ CallComp'
        BY <3>1, <4>1, Zenon DEF CallKind, CallComp, Registered
      <4>3. CallAdev' /\ CallEntry'
        BY <3>1, <4>1, Zenon DEF CallAdev, CallEntry, MasterListed, Filled
      <4>4. QED
        BY <3>1, <4>1, <4>2, <4>3, Zenon DEF CallFits
    <3>3. \A m \in Masters : Reached(m)' = Reached(m)
      BY <3>1, Zenon DEF Reached, state
    <3>4. QED
      BY <3>1, <3>2, <3>3, CallMoves, Zenon
  <2>4. QED
    BY <2>1, <2>2, <2>3, Zenon DEF Next
<1>3. QED
  BY <1>1, <1>2, PTL DEF Spec

-----------------------------------------------------------------------------
LEMMA LinksAttach == IInv => AttachedBothWays
<1> SUFFICES ASSUME IInv PROVE AttachedBothWays
  BY Zenon
<1>1. TypeOK
  <2>1. StateTypes /\ call \in CallRecords
    BY Zenon DEF IInv, Types
  <2>2. QED
    BY <2>1, FieldTypes, Zenon DEF StateTypes, TypeOK, Ops, Steps
<1>2. ASSUME NEW c \in Components, NEW m \in Masters, EntriesOf(m, c) # {}
      PROVE  Present(c) /\ c_adev[c] = m
  <2>1. c_adev[c] = m
    BY <1>2, Zenon DEF IInv, Links, EntriesOf
  <2>2. QED
    BY <2>1, Zenon DEF IInv, Links
<1>3. ASSUME NEW c \in Components, c_adev[c] # NULL
      PROVE  /\ Present(c) /\ MasterListed(c_adev[c])
             /\ \E j \in EntriesOf(c_adev[c], c) :
                  {i \in EntriesOf(c_adev[c], c) : ~compare[c_adev[c]][i].duplicate} = {j}
  <2>1. PICK m \in Masters : c_adev[c] = m
    BY <1>3, Zenon DEF IInv, Types, StateTypes
  <2>2. Present(c) /\ MasterListed(m) /\ HasBinder(m, c)
    BY <2>1, Zenon DEF IInv, Links
  <2>3. PICK j \in 1 .. Num(m) : /\ Binder(m, j, c)
                                 /\ \A k \in 1 .. Num(m) : Binder(m, k, c) => k = j
    BY <2>2, Zenon DEF HasBinder
  <2>4. j \in EntriesOf(m, c) /\ {i \in EntriesOf(m, c) : ~compare[m][i].duplicate} = {j}
    BY <2>3, Zenon DEF EntriesOf, Binder
  <2>5. QED
    BY <2>1, <2>2, <2>4, Zenon
<1>4. QED
  BY <1>1, <1>2, <1>3, Zenon DEF AttachedBothWays

LEMMA BindingsOrdered == IInv => BoundInMatchOrder
<1> SUFFICES ASSUME IInv, NEW m \in Masters, NEW j \in 1 .. Num(m), NEW i \in 1 .. j - 1,
                    ~compare[m][i].duplicate, ~compare[m][j].duplicate,
                    compare[m][j].component # NULL, c_bound[compare[m][j].component]
             PROVE  compare[m][i].component # NULL /\ c_bound[compare[m][i].component]
  BY Zenon DEF BoundInMatchOrder
<1>1. Num(m) \in Nat /\ i \in 1 .. Num(m) /\ i < j
  BY NumType
<1>2. PICK c \in Components : Binder(m, j, c) /\ c_bound[c]
  BY EntryTypes, Zenon DEF IInv, Binder
<1>3. j <= Reached(m)
  BY <1>2, Zenon DEF IInv, Bindings
<1>4. Reached(m) \in Nat /\ Filled(m)
  <2>1. call.i \in Nat /\ call.step \in Steps
    BY FieldTypes, Zenon DEF IInv, Types
  <2>2. CASE call.step \in Moving /\ call.target = m
    BY <2>1, <2>2 DEF IInv, CallFits, CallEntry, Reached, Moving
  <2>3. CASE ~(call.step \in Moving /\ call.target = m)
    BY <1>1, <1>3, <2>3 DEF IInv, Bindings, Reached
  <2>4. QED
    BY <2>2, <2>3, Zenon
<1>5. compare[m][i].component \in Components
  BY <1>1, <1>4, EntryTypes, Zenon DEF IInv, Filled
<1>6. Binder(m, i, compare[m][i].component)
  BY Zenon DEF Binder
<1>7. i <= Reached(m)
  BY <1>1, <1>3, <1>4
<1>8. QED
  BY <1>1, <1>4, <1>5, <1>6, <1>7, Zenon DEF IInv, Bindings, Filled

LEMMA CallbacksFit == IInv => CallbacksPaired
<1> SUFFICES ASSUME IInv PROVE CallbacksPaired
  BY Zenon
<1>1. ASSUME call.step \in Moving, call.i > 0, call.i <= Num(call.target), ~Callee.duplicate
      PROVE  /\ Callee.component # NULL
             /\ c_bound[Callee.component] <=> call.i <= Reached(call.target)
  <2>1. PICK m \in Masters, i \in Nat : call.target = m /\ call.i = i /\ Filled(m) /\ i \in 1 .. Num(m)
    BY <1>1, FieldTypes, NumType DEF IInv, Types, CallFits, CallAdev, CallEntry, Moving
  <2>2. compare[m][i].component \in Components /\ compare[m][i].component # NULL
    BY <2>1, EntryTypes, Zenon DEF IInv, Filled
  <2>3. Binder(m, i, compare[m][i].component)
    BY <1>1, <2>1, Zenon DEF Binder, Callee
  <2>4. QED
    BY <2>1, <2>2, <2>3, Zenon DEF IInv, Bindings, Callee
<1>2. /\ call.i \in Nat
      /\ call.step \in Moving => call.target \in Masters
      /\ call.step = "bind_all" => call.i > 0 /\ Reached(call.target) = call.i - 1
      /\ call.step \in {"undo", "unbind_all"} =>
           call.i <= Num(call.target) /\ Reached(call.target) = call.i
  BY FieldTypes DEF IInv, Types, CallFits, CallAdev, CallEntry, Reached, Moving
<1>3. QED
  BY <1>1, <1>2 DEF CallbacksPaired, Moving

(* The links between entries and components, in every reachable state, for *)
(* any number of components and aggregates and any match arrays: nothing   *)
(* points to what component_del(), component_master_del() or a failed      *)
(* registration has freed.                                                 *)
THEOREM LinksHold ==
  ASSUME OneAggregateEach
  PROVE  Spec => []AttachedBothWays
  BY Invariant, LinksAttach, PTL

(* component_bind_all() and component_unbind_all(), with their failures in *)
(* the middle, keep the bound components of an aggregate the first ones.   *)
THEOREM MatchOrder ==
  ASSUME OneAggregateEach
  PROVE  Spec => []BoundInMatchOrder
  BY Invariant, BindingsOrdered, PTL

(* component_bind() is called for a component that is there and unbound,   *)
(* component_unbind() for one that is bound: its WARN_ON is silent.        *)
THEOREM CallbacksAlternate ==
  ASSUME OneAggregateEach
  PROVE  Spec => []CallbacksPaired
  BY Invariant, CallbacksFit, PTL
=============================================================================
