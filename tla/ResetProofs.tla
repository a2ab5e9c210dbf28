---------------------------- MODULE ResetProofs -----------------------------
(* The invariants of Reset, for any consumers, lines, controls, modes and   *)
(* operations of the controller driver.                                     *)
EXTENDS ResetSteps, FiniteSetTheorems

-----------------------------------------------------------------------------
(* What Pick() and Without() do to a list.                                 *)

(* f lists the indices J in their order.                                   *)
Lists(f, J, n) ==
  /\ f \in [1 .. n -> J]
  /\ \A k, l \in 1 .. n : k < l => f[k] < f[l]
  /\ \A j \in J : \E k \in 1 .. n : f[k] = j

(* t has the elements of s at the indices J, in the order of s.            *)
IsPick(t, s, J, n, f) ==
  Lists(f, J, n) /\ Len(t) = n /\ \A k \in 1 .. n : t[k] = s[f[k]]

(* How many elements of J are not above j.                                 *)
Rank(J, j) == Cardinality({i \in J : i <= j})

(* The rank is a bijection between a finite set of numbers and the first   *)
(* numbers, and keeps their order.                                         *)
LEMMA RankOrder ==
  ASSUME NEW J \in SUBSET Nat, IsFiniteSet(J), NEW j \in J
  PROVE  /\ Rank(J, j) \in 1 .. Cardinality(J)
         /\ \A i \in J : i < j => Rank(J, i) < Rank(J, j)
<1> DEFINE Upto(i) == {k \in J : k <= i}
<1>1. \A i \in J : /\ IsFiniteSet(Upto(i)) /\ Cardinality(Upto(i)) \in Nat
                   /\ Cardinality(Upto(i)) <= Cardinality(J)
  <2>1. \A i \in J : Upto(i) \in SUBSET J
    BY Zenon
  <2>2. QED
    BY <2>1, FS_Subset, FS_CardinalityType, Zenon
<1>2. Cardinality(Upto(j)) # 0
  <2>1. j \in Upto(j)
    OBVIOUS
  <2>2. QED
    BY <1>1, <2>1, FS_EmptySet, Zenon
<1>3. ASSUME NEW i \in J, i < j
      PROVE  Cardinality(Upto(i)) < Cardinality(Upto(j))
  <2>1. Upto(i) \cup {j} \in SUBSET Upto(j) /\ j \notin Upto(i)
    <3>1. \A k \in J : k \in Nat
      BY Zenon
    <3>2. \A k \in J : k <= i => k <= j /\ k # j
      BY <1>3, <3>1
    <3>3. j <= j
      BY <3>1
    <3>4. QED
      BY <3>2, <3>3, Zenon
  <2> HIDE DEF Upto
  <2>2. Cardinality(Upto(i) \cup {j}) = Cardinality(Upto(i)) + 1
    BY <1>1, <2>1, FS_AddElement, Zenon
  <2>3. Cardinality(Upto(i) \cup {j}) <= Cardinality(Upto(j))
    BY <1>1, <2>1, FS_Subset, Zenon
  <2>4. QED
    BY <1>1, <2>2, <2>3
<1>4. Cardinality(J) \in Nat
  BY FS_CardinalityType, Zenon
<1>5. \A i \in J : Rank(J, i) = Cardinality(Upto(i))
  BY Zenon DEF Rank
<1> HIDE DEF Upto
<1>6. Rank(J, j) \in 1 .. Cardinality(J)
  BY <1>1, <1>2, <1>4, <1>5
<1>7. QED
  BY <1>3, <1>5, <1>6, Zenon

LEMMA RankOnto ==
  ASSUME NEW J \in SUBSET Nat, IsFiniteSet(J), NEW k \in 1 .. Cardinality(J)
  PROVE  \E j \in J : Rank(J, j) = k
<1> DEFINE n == Cardinality(J)
           rank == [j \in J |-> Rank(J, j)]
<1>1. n \in Nat /\ IsFiniteSet(1 .. n) /\ Cardinality(1 .. n) = n
  BY FS_CardinalityType, FS_Interval
<1>2. rank \in Injection(J, 1 .. n)
  <2>1. rank \in [J -> 1 .. n]
    BY RankOrder, Zenon
  <2>2. ASSUME NEW i \in J, NEW j \in J, i # j PROVE Rank(J, i) # Rank(J, j)
    <3>1. i < j \/ j < i
      BY <2>2
    <3>2. Rank(J, i) \in 1 .. n /\ Rank(J, j) \in 1 .. n
      BY RankOrder, Zenon
    <3>3. Rank(J, i) < Rank(J, j) \/ Rank(J, j) < Rank(J, i)
      BY <3>1, RankOrder, Zenon
    <3>4. QED
      BY <3>2, <3>3
  <2>3. QED
    BY <2>1, <2>2, Zenon DEF Injection, IsInjective
<1>3. rank \in Surjection(J, 1 .. n)
  <2> HIDE DEF rank, n
  <2>1. QED
    BY <1>1, <1>2, FS_Injection, Zenon DEF n
<1>4. QED
  BY <1>3, Zenon DEF Surjection

(* Pick(s, J) has the elements of s at J, in the order of s.               *)
LEMMA PickIs ==
  ASSUME NEW S, NEW s \in Seq(S), NEW J \in SUBSET (1 .. Len(s))
  PROVE  /\ Pick(s, J) \in Seq(S)
         /\ \E n \in Nat : \E f : IsPick(Pick(s, J), s, J, n, f)
<1> DEFINE n == Cardinality(J)
           f == [k \in 1 .. n |-> CHOOSE j \in J : Rank(J, j) = k]
<1>1. J \in SUBSET Nat /\ IsFiniteSet(J) /\ n \in Nat
  <2>1. IsFiniteSet(1 .. Len(s))
    BY FS_Interval
  <2>2. IsFiniteSet(J)
    BY <2>1, FS_Subset, Zenon
  <2>3. QED
    BY <2>2, FS_CardinalityType
<1>2. \A k \in 1 .. n : f[k] \in J /\ Rank(J, f[k]) = k
  BY <1>1, RankOnto, Zenon
<1>3. \A j \in J : Rank(J, j) \in 1 .. n /\ \A i \in J : i < j => Rank(J, i) < Rank(J, j)
  BY <1>1, RankOrder, Zenon
<1>4. Pick(s, J) = [k \in 1 .. n |-> s[f[k]]]
  BY DEF Pick, Rank
<1>5. f \in [1 .. n -> J]
  BY <1>2, Zenon
<1> HIDE DEF f, n
<1>6. ASSUME NEW k \in 1 .. n, NEW l \in 1 .. n, k < l PROVE f[k] < f[l]
  <2>1. f[l] < f[k] => Rank(J, f[l]) < Rank(J, f[k])
    BY <1>2, <1>3, Zenon
  <2>2. f[k] \in Nat /\ f[l] \in Nat
    BY <1>1, <1>2, Zenon
  <2>3. ~(f[l] < f[k]) /\ f[k] # f[l]
    BY <1>2, <1>6, <2>1
  <2>4. QED
    BY <2>2, <2>3
<1>7. ASSUME NEW j \in J PROVE \E k \in 1 .. n : f[k] = j
  <2>1. PICK k \in 1 .. n : k = Rank(J, j)
    BY <1>3, Zenon
  <2>2. f[k] \in J /\ Rank(J, f[k]) = Rank(J, j)
    BY <1>2, <2>1, Zenon
  <2>3. f[k] \in Nat /\ j \in Nat /\ Rank(J, j) \in Nat
    <3>1. Rank(J, j) \in 1 .. n
      BY <1>3, Zenon
    <3>2. Rank(J, j) \in Nat
      BY <3>1
    <3>3. QED
      BY <1>1, <2>2, <3>2, Zenon
  <2>4. ~(f[k] < j) /\ ~(j < f[k])
    BY <1>3, <2>2, <2>3
  <2>5. QED
    BY <2>3, <2>4
<1>8. Pick(s, J) \in [1 .. n -> S]
  <2>1. \A j \in J : s[j] \in S
    <3>1. \A j \in 1 .. Len(s) : s[j] \in S
      OBVIOUS
    <3>2. QED
      BY <3>1, Zenon
  <2>2. QED
    BY <1>2, <1>4, <2>1, Zenon
<1>9. Pick(s, J) \in Seq(S) /\ Len(Pick(s, J)) = n
  BY <1>1, <1>8
<1>10. QED
  <2>1. Lists(f, J, n)
    BY <1>5, <1>6, <1>7, Zenon DEF Lists
  <2>2. \A k \in 1 .. n : Pick(s, J)[k] = s[f[k]]
    BY <1>4, Zenon
  <2>3. IsPick(Pick(s, J), s, J, n, f)
    BY <1>9, <2>1, <2>2, Zenon DEF IsPick
  <2>4. QED
    BY <1>1, <1>9, <2>3, Zenon

(* What Without() leaves is on the list at the other indices.              *)
LEMMA WithoutOnce ==
  ASSUME NEW S, NEW s \in Seq(S), Once(s), NEW J
  PROVE  /\ Without(s, J) \in Seq(S) /\ Once(Without(s, J))
         /\ \A y : OnList(Without(s, J), y) <=>
                    \E j \in (1 .. Len(s)) \ J : s[j] = y
<1> DEFINE K == (1 .. Len(s)) \ J
           t == Pick(s, K)
<1>1. K \in SUBSET (1 .. Len(s)) /\ Without(s, J) = t
  BY Zenon DEF Without
<1> HIDE DEF K
<1>2. t \in Seq(S) /\ \E n \in Nat : \E f : IsPick(t, s, K, n, f)
  BY <1>1, PickIs, Zenon
<1> PICK n \in Nat : \E f : IsPick(t, s, K, n, f)
  BY <1>2, Zenon
<1>3. PICK f : /\ Lists(f, K, n) /\ t \in Seq(S) /\ Len(t) = n
               /\ \A k \in 1 .. n : t[k] = s[f[k]]
  BY <1>2, Zenon DEF IsPick
<1> HIDE DEF t
<1>4. \A k \in 1 .. n : f[k] \in K /\ f[k] \in 1 .. Len(s)
  BY <1>1, <1>3, Zenon DEF Lists
<1>5. ASSUME NEW j \in 1 .. n, NEW k \in 1 .. n, t[j] = t[k] PROVE j = k
  <2>1. f[j] = f[k]
    <3>1. s[f[j]] = s[f[k]]
      BY <1>3, <1>5, Zenon
    <3>2. QED
      BY <1>4, <3>1, Zenon DEF Once
  <2>2. ~(j < k) /\ ~(k < j)
    <3>1. f[j] \in 1 .. Len(s) /\ f[k] \in 1 .. Len(s)
      BY <1>4, Zenon
    <3>2. (j < k => f[j] < f[k]) /\ (k < j => f[k] < f[j])
      BY <1>3, Zenon DEF Lists
    <3>3. QED
      BY <2>1, <3>1, <3>2
  <2>3. QED
    BY <2>2
<1>6. Once(t)
  BY <1>3, <1>5, Zenon DEF Once
<1>7. ASSUME NEW y PROVE OnList(t, y) <=> \E j \in K : s[j] = y
  <2>1. ASSUME NEW k \in 1 .. n, t[k] = y PROVE \E j \in K : s[j] = y
    BY <1>3, <1>4, <2>1, Zenon
  <2>2. ASSUME NEW j \in K, s[j] = y PROVE \E k \in 1 .. n : t[k] = y
    <3>1. PICK k \in 1 .. n : f[k] = j
      BY <1>3, Zenon DEF Lists
    <3>2. t[k] = s[f[k]]
      BY <1>3, Zenon
    <3>3. QED
      BY <2>2, <3>1, <3>2, Zenon
  <2>3. QED
    BY <1>3, <2>1, <2>2, Zenon DEF OnList
<1>8. QED
  BY <1>1, <1>3, <1>6, <1>7, Zenon DEF K

-----------------------------------------------------------------------------
LEMMA LeastElement ==
  ASSUME NEW T \in SUBSET Nat, T # {}
  PROVE  Min(T) \in T
<1>1. PICK x \in T : \A y \in T : ~(<<y, x>> \in OpToRel(<, Nat))
  BY NatLessThanWellFounded, WFMin, Zenon
<1>2. ASSUME NEW y \in T PROVE ~(y < x)
  <2>1. y < x => <<y, x>> \in OpToRel(<, Nat)
    BY Zenon DEF OpToRel
  <2>2. QED
    BY <1>1, <2>1, Zenon
<1>3. \A y \in T : x =< y
  BY <1>2
<1>4. QED
  BY <1>3, Zenon DEF Min

LEMMA HandlesFinite ==
  ASSUME NEW h, NEW r
  PROVE  IsFiniteSet(HandlesOf(h, r)) /\ Cardinality(HandlesOf(h, r)) \in Nat
<1> DEFINE T == {DOMAIN Wants[c] : c \in Consumers}
           f == [c \in Consumers |-> DOMAIN Wants[c]]
<1>1. IsFiniteSet(T)
  <2>1. f \in Surjection(Consumers, T)
    BY Zenon DEF Surjection
  <2>2. IsFiniteSet(Consumers)
    BY ResetAssumption, Zenon
  <2> HIDE DEF f, T
  <2>3. QED
    BY <2>1, <2>2, FS_Surjection, Zenon
<1>2. \A c \in Consumers : IsFiniteSet(DOMAIN Wants[c])
  <2>1. ASSUME NEW c \in Consumers PROVE IsFiniteSet(1 .. Len(Wants[c]))
    BY ConstantTypes, FS_Interval
  <2>2. QED
    BY <2>1, ConstantTypes, Zenon
<1>3. IsFiniteSet(Numbers)
  <2>1. \A t \in T : IsFiniteSet(t)
    BY <1>2, Zenon
  <2>2. Numbers = UNION T
    BY Zenon DEF Numbers
  <2> HIDE DEF T
  <2>3. QED
    BY <1>1, <2>1, <2>2, FS_UNION, Zenon
<1>4. IsFiniteSet(Consumers \X Numbers)
  BY <1>3, ResetAssumption, FS_Product, Zenon
<1>5. HandlesOf(h, r) \in SUBSET (Consumers \X Numbers)
  BY Zenon DEF HandlesOf
<1>6. QED
  BY <1>4, <1>5, FS_Subset, FS_CardinalityType, Zenon

(* The facts that the invariants rest on.                                  *)
LEMMA LawsHold == Laws
<1>1. ASSUME NEW S, IsFiniteSet(S)
      PROVE  /\ Cardinality(S) \in Nat /\ (Cardinality(S) = 0 <=> S = {})
             /\ \A x : x \notin S => Cardinality(S \cup {x}) = Cardinality(S) + 1
             /\ \A T : ExistsBijection(S, T) => Cardinality(T) = Cardinality(S)
  <2>1. \A x : x \notin S => Cardinality(S \cup {x}) = Cardinality(S) + 1
    BY <1>1, FS_AddElement, Zenon
  <2>2. \A T : ExistsBijection(S, T) => Cardinality(T) = Cardinality(S)
    BY <1>1, FS_Bijection, Zenon
  <2>3. QED
    BY <1>1, <2>1, <2>2, FS_CardinalityType, FS_EmptySet, Zenon
<1>2. ASSUME NEW S, IsFiniteSet(S), NEW T \in SUBSET S
      PROVE  /\ IsFiniteSet(T) /\ Cardinality(T) \in Nat /\ Cardinality(T) <= Cardinality(S)
             /\ IsFiniteSet(S \ T) /\ Cardinality(S \ T) = Cardinality(S) - Cardinality(T)
  <2>1. IsFiniteSet(T) /\ Cardinality(T) \in Nat /\ Cardinality(T) <= Cardinality(S)
    BY <1>2, FS_Subset, FS_CardinalityType, Zenon
  <2>2. S \cap T = T
    BY Zenon
  <2>3. IsFiniteSet(S \ T) /\ Cardinality(S \ T) = Cardinality(S) - Cardinality(S \cap T)
    BY <1>2, FS_Difference, Zenon
  <2>4. QED
    BY <2>1, <2>2, <2>3, Zenon
<1>3. \A x : Cardinality({x}) = 1
  BY FS_Singleton, Zenon
<1>4. QED
  BY <1>1, <1>2, <1>3, HandlesFinite, LeastElement, WithoutOnce, Zenon DEF Laws

-----------------------------------------------------------------------------
(* The inductive invariant.                                                *)
IInv == CallTypes /\ CtlTypes /\ Shape /\ Refs /\ Owners /\ Acquired

LEMMA InvInit ==
  ASSUME Init
  PROVE  IInv
<1>1. /\ \A c \in Consumers : handle[c] = <<>> /\ call[c] = NoCall /\ belief[c] = Unknown(c)
      /\ \A r \in Rstcs : ctl[r] = Fresh
  BY Zenon DEF Init
<1>2. \A c \in Consumers : Dom(c) = {} /\ Len(handle[c]) = 0 /\ Todo(c) = {} /\ Done(c) = {}
  BY <1>1, NoCallIs, EmptyIs DEF Dom, Todo, Done
<1>3. \A c \in Consumers : Real(c) = {}
  BY <1>2, Zenon DEF Real
<1>4. Range(head) = {} /\ Once(head)
  BY EmptyIs DEF Init
<1>5. /\ Fresh \in CtlRecs /\ Fresh.refcnt = 0 /\ Fresh.shared = FALSE
      /\ "none" \notin Owning /\ "idle" \notin Operating
  BY DEF Fresh, CtlRecs, Owning, Operating
<1>6. CallTypes
  <2>1. \A c \in Consumers : Unknown(c) \in [DOMAIN Wants[c] -> Beliefs]
    BY DEF Unknown, Beliefs
  <2>2. QED
    BY <1>1, <2>1, NoCallIs, Zenon DEF CallTypes, Init
<1>7. CtlTypes
  <2>1. <<>> \in Seq(Rstcs) /\ <<>> \in Seq(Rstcs \cup {NULL}) /\ FALSE \in BOOLEAN
    OBVIOUS
  <2>2. QED
    BY <1>5, <2>1, Zenon DEF CtlTypes, Init
<1>8. Shape
  <2>1. ASSUME NEW c \in Consumers PROVE Len(handle[c]) <= Len(Wants[c])
    BY <1>2, ConstantTypes
  <2>2. ASSUME NEW c \in Consumers PROVE Visits(c) /\ PcFits(call[c]) /\ call[c].pc # "get"
    <3>1. call[c].pc = "idle" /\ call[c].todo = <<>> /\ call[c].done = <<>> /\ PcFits(call[c])
      BY <1>1, NoCallIs, Zenon
    <3>2. call[c].pc \notin Operating /\ call[c].pc # "get"
      BY <1>5, <3>1
    <3>3. QED
      BY <1>2, <3>1, <3>2, EmptyIs, Zenon DEF Visits
  <2>3. QED
    BY <2>1, <2>2, Zenon DEF Shape
<1>9. Refs
  <2>1. ASSUME NEW r \in Rstcs PROVE Handles(r) = {}
    <3>1. ASSUME NEW ci \in Handles(r) PROVE FALSE
      <4>1. ci = <<ci[1], ci[2]>> /\ ci \in Consumers \X Numbers
        BY <1>7, <1>8, LawsHold, HandlesNow, Zenon
      <4>2. ci[1] \in Consumers /\ <<ci[1], ci[2]>> \in Handles(r)
        BY <4>1
      <4>3. ci[2] \in Dom(ci[1])
        BY <1>7, <1>8, <4>2, LawsHold, HandlesNow, Zenon
      <4>4. QED
        BY <1>2, <4>2, <4>3, Zenon
    <3>2. QED
      BY <3>1, Zenon
  <2>2. Cardinality({}) = 0
    BY FS_EmptySet, Zenon
  <2>3. QED
    BY <1>1, <1>3, <1>4, <1>5, <2>1, <2>2, Zenon DEF Refs
<1>10. Owners /\ Acquired
  <2>1. OneOwner /\ Alone /\ Apart
    BY <1>1, <1>3, <1>4, <1>5, Zenon DEF OneOwner, Alone, Apart
  <2>2. ASSUME NEW c \in Consumers PROVE call[c].pc \notin {"nonzero", "count", "uncount", "get"}
    BY <1>1, NoCallIs
  <2>3. ASSUME NEW c \in Consumers PROVE Alike(c) /\ CallFits(c) /\ GetFits(c) /\ AcquiredFor(c)
    BY <1>3, <2>2, Zenon DEF Alike, CallFits, GetFits, AcquiredFor
  <2>4. QED
    BY <2>1, <2>3, Zenon DEF Owners, Acquired
<1>11. QED
  BY <1>6, <1>7, <1>8, <1>9, <1>10, Zenon DEF IInv

LEMMA InvStep ==
  ASSUME IInv, [Next]_vars
  PROVE  IInv'
<1>1. /\ CallTypes' /\ Shape'
      /\ \/ Passive /\ CtlTypes'
         \/ \E c \in Consumers : StepOf(c) /\ (PutStep(c) \/ CtlTypes')
  BY EveryStep, Zenon DEF IInv
<1>2. CASE Passive /\ CtlTypes'
  <2>1. UNCHANGED <<head, ctl, handle, call>>
    BY <1>2, Zenon DEF Passive
  <2>2. Refs'
    BY <2>1, RefsKept, Zenon DEF IInv, Kept
  <2>3. Owners' /\ Acquired'
    BY <2>1, OwnersKept, Zenon DEF IInv
  <2>4. QED
    BY <1>1, <1>2, <2>2, <2>3, Zenon DEF IInv
<1>3. ASSUME NEW c \in Consumers, StepOf(c), PutStep(c) \/ CtlTypes' PROVE IInv'
  <2>1. Refs' /\ Given(c)
    BY <1>1, <1>3, LawsHold, GivenStep, Zenon DEF IInv
  <2>2. Owners' /\ Acquired'
    BY <2>1, OwnersStep, AcquiredStep, Zenon DEF IInv
  <2>3. QED
    BY <1>1, <2>1, <2>2, Zenon DEF IInv, Given
<1>4. QED
  BY <1>1, <1>2, <1>3, Zenon

LEMMA Invariance == Spec => []IInv
<1>1. Init => IInv
  BY InvInit
<1>2. IInv /\ [Next]_vars => IInv'
  BY InvStep
<1>3. QED
  BY <1>1, <1>2, PTL DEF Spec

-----------------------------------------------------------------------------
(* A list in which nothing is twice has as many elements as entries.       *)
LEMMA OnceCount ==
  ASSUME NEW S, NEW s \in Seq(S), Once(s)
  PROVE  Cardinality(Range(s)) = Len(s)
<1>1. DOMAIN s = 1 .. Len(s) /\ s = [k \in 1 .. Len(s) |-> s[k]]
  OBVIOUS
<1>2. IsFiniteSet(1 .. Len(s)) /\ Cardinality(1 .. Len(s)) = Len(s)
  <2>1. ASSUME NEW n \in Nat PROVE IsFiniteSet(1 .. n) /\ Cardinality(1 .. n) = n
    BY FS_Interval
  <2>2. Len(s) \in Nat
    OBVIOUS
  <2>3. QED
    BY <2>1, <2>2, Zenon
<1>3. s \in [1 .. Len(s) -> Range(s)]
  BY <1>1, Zenon DEF Range
<1>4. s \in Bijection(1 .. Len(s), Range(s))
  BY <1>1, <1>3, Zenon DEF Bijection, Injection, Surjection, IsInjective, Once, Range
<1>5. ExistsBijection(1 .. Len(s), Range(s))
  BY <1>4, Zenon DEF ExistsBijection
<1>6. QED
  BY <1>2, <1>5, LawsHold, Zenon DEF Laws

(* The reference count of a control is the number of its holders and a     *)
(* control is on the list of its controller, once, as long as it has one:  *)
(* kref_get() and kref_put() in __reset_control_get_internal() and         *)
(* __reset_control_put_internal() stay balanced over all the getters,      *)
(* putters and their error paths.                                          *)
THEOREM ReferencesExact == Spec => []RefsExact
<1>1. ASSUME IInv PROVE RefsExact
  <2>1. CallTypes /\ CtlTypes /\ Shape /\ Refs
    BY <1>1, Zenon DEF IInv
  <2>2. TypeOK
    <3>1. ASSUME NEW r \in Rstcs
          PROVE  /\ ctl[r].id \in Ids \cup {NULL} /\ ctl[r].refcnt \in Nat
                 /\ {ctl[r].deassert_count, ctl[r].triggered_count} \subseteq Int
      BY <2>1, CtlFields
    <3>2. ASSUME NEW c \in Consumers
          PROVE  /\ handle[c] \in Seq(Rstcs \cup {NULL}) /\ Len(handle[c]) <= Len(Wants[c])
                 /\ Range(call[c].todo) \cap Range(call[c].done) = {}
                 /\ Range(call[c].todo) \cup Range(call[c].done) \subseteq DOMAIN handle[c]
      BY <2>1, HandleTypes, Zenon DEF Shape, Visits, Todo, Done
    <3>3. QED
      BY <2>1, <3>1, <3>2, Zenon DEF TypeOK, CtlTypes
  <2>3. Cardinality(Range(head)) = Len(head)
    BY <2>1, OnceCount, Zenon DEF CtlTypes, Refs
  <2>4. ASSUME NEW r \in Rstcs
        PROVE  /\ ctl[r].refcnt = Cardinality(Handles(r))
               /\ r \in Range(head) <=> ctl[r].refcnt > 0
    <3>1. /\ ctl[r].refcnt = Cardinality(Handles(r)) /\ ctl[r].refcnt \in Nat
          /\ r \in Range(head) <=> Handles(r) # {}
      BY <2>1, CtlFields, Zenon DEF Refs
    <3>2. Cardinality(Handles(r)) = 0 <=> Handles(r) = {}
      BY <2>1, LawsHold, HandlesNow, Zenon DEF Laws
    <3>3. QED
      BY <3>1, <3>2
  <2>5. ASSUME NEW c \in Consumers, NEW i \in DOMAIN handle[c], handle[c][i] # NULL
        PROVE  ctl[handle[c][i]].id = Wants[c][i]
    BY <2>1, <2>5, HandleTypes, Zenon DEF Refs, Real
  <2>6. QED
    BY <2>2, <2>3, <2>4, <2>5, Zenon DEF RefsExact
<1>2. QED
  BY <1>1, Invariance, PTL

(* A line is shared through one control, or has exclusive controls of      *)
(* which at most one is acquired, whatever the consumers get, put, acquire *)
(* and release: the checks of __reset_control_get_internal() and of        *)
(* reset_control_acquire() are enough.                                     *)
THEOREM LineHasOneOwner == Spec => []OneOwner
<1>1. IInv => OneOwner
  BY Zenon DEF IInv, Owners
<1>2. QED
  BY <1>1, Invariance, PTL

(* reset_control_bulk_acquire() and the array form acquire all the controls *)
(* of a consumer or none: when no call is under way they are all acquired   *)
(* or all released, also after a call that failed half way.                 *)
THEOREM AcquiresAllOrNothing == Spec => []AllOrNothing
<1>1. ASSUME IInv PROVE AllOrNothing
  <2>1. ASSUME NEW c \in Consumers, call[c].pc = "idle" PROVE call[c].op \notin Owning
    <3>1. call[c] = NoCall
      BY <1>1, <2>1, Zenon DEF IInv, Shape, PcFits
    <3>2. QED
      BY <3>1, NoCallIs DEF Owning
  <2>2. ASSUME NEW c \in Consumers, call[c].pc = "idle", NEW i \in Real(c), NEW j \in Real(c)
        PROVE  Acq(c, i) <=> Acq(c, j)
    BY <1>1, <2>1, <2>2, Zenon DEF IInv, Acquired, AcquiredFor
  <2>3. ASSUME NEW c \in Consumers, NEW i \in DOMAIN handle[c], handle[c][i] # NULL PROVE i \in Real(c)
    BY <1>1, <2>3, HandleTypes, Zenon DEF IInv, Real
  <2>4. QED
    BY <2>2, <2>3, Zenon DEF AllOrNothing, Acq
<1>2. QED
  BY <1>1, Invariance, PTL
=============================================================================
