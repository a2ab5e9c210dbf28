----------------------------- MODULE KlistProofs -----------------------------
(***************************************************************************)
(* The reference counts and the list of Klist are consistent for any       *)
(* number of nodes and iterators.                                          *)
(***************************************************************************)
EXTENDS Klist, FiniteSetTheorems, TLAPS

-----------------------------------------------------------------------------
(* Sequences without repetition.                                           *)
Elems(s) == {s[j] : j \in 1 .. Len(s)}
Uniq(s) == \A j, k \in 1 .. Len(s) : s[j] = s[k] => j = k

LEMMA SubSeqProperties ==
  ASSUME NEW S, NEW s \in Seq(S), NEW m \in 1 .. Len(s) + 1, NEW n \in m - 1 .. Len(s)
  PROVE  /\ SubSeq(s, m, n) \in Seq(S)
         /\ Len(SubSeq(s, m, n)) = n - m + 1
         /\ \A i \in 1 .. n - m + 1 : SubSeq(s, m, n)[i] = s[m + i - 1]
  OBVIOUS

LEMMA ConcatProperties ==
  ASSUME NEW S, NEW s \in Seq(S), NEW t \in Seq(S)
  PROVE  /\ s \o t \in Seq(S)
         /\ Len(s \o t) = Len(s) + Len(t)
         /\ \A i \in 1 .. Len(s) + Len(t) :
              (s \o t)[i] = IF i <= Len(s) THEN s[i] ELSE t[i - Len(s)]
  OBVIOUS

LEMMA LenProperties ==
  ASSUME NEW S, NEW s \in Seq(S)
  PROVE  Len(s) \in Nat
  OBVIOUS

(* t is the list s of nodes of S with n put before the j-th of them.       *)
Inserted(t, S, s, j, n) ==
  /\ t \in Seq(S) /\ Len(t) = Len(s) + 1
  /\ \A k \in 1 .. Len(s) + 1 :
       t[k] = IF k < j THEN s[k] ELSE IF k = j THEN n ELSE s[k - 1]

LEMMA InsertElements ==
  ASSUME NEW S, NEW s \in Seq(S), NEW j \in 1 .. Len(s) + 1, NEW n \in S
  PROVE  Inserted(list_add(s, j, n), S, s, j, n)
<1> DEFINE a == SubSeq(s, 1, j - 1)
           b == SubSeq(s, j, Len(s))
<1>1. /\ a \in Seq(S) /\ Len(a) = j - 1
      /\ \A k \in 1 .. j - 1 : a[k] = s[k]
  BY SubSeqProperties
<1>2. /\ b \in Seq(S) /\ Len(b) = Len(s) + 1 - j
      /\ \A k \in 1 .. Len(s) + 1 - j : b[k] = s[j + k - 1]
  BY SubSeqProperties
<1>3. /\ a \o <<n>> \in Seq(S) /\ Len(a \o <<n>>) = j
      /\ \A k \in 1 .. j : (a \o <<n>>)[k] = IF k < j THEN s[k] ELSE n
  <2> HIDE DEF a
  <2>1. <<n>> \in Seq(S) /\ Len(<<n>>) = 1 /\ <<n>>[1] = n
    OBVIOUS
  <2>2. QED
    BY <1>1, <2>1, ConcatProperties
<1>4. QED
  <2> HIDE DEF a, b
  <2> DEFINE c == a \o <<n>>
  <2>1. list_add(s, j, n) = c \o b
    BY Zenon DEF list_add, a, b
  <2>2. /\ c \in Seq(S) /\ Len(c) = j
        /\ \A k \in 1 .. j : c[k] = IF k < j THEN s[k] ELSE n
    BY <1>3, Zenon
  <2> HIDE DEF c
  <2>3. /\ c \o b \in Seq(S) /\ Len(c \o b) = Len(c) + Len(b)
        /\ \A k \in 1 .. Len(c) + Len(b) :
             (c \o b)[k] = IF k <= Len(c) THEN c[k] ELSE b[k - Len(c)]
    BY <1>2, <2>2, ConcatProperties, Zenon
  <2>5. Len(c) + Len(b) = Len(s) + 1
    BY <1>2, <2>2
  <2>4. QED
    BY <1>2, <2>1, <2>2, <2>3, <2>5 DEF Inserted

LEMMA RemoveElements ==
  ASSUME NEW S, NEW s \in Seq(S), NEW j \in 1 .. Len(s)
  PROVE  /\ list_del(s, j) \in Seq(S)
         /\ Len(list_del(s, j)) = Len(s) - 1
         /\ \A k \in 1 .. Len(s) - 1 :
              list_del(s, j)[k] = IF k < j THEN s[k] ELSE s[k + 1]
<1> DEFINE a == SubSeq(s, 1, j - 1)
           b == SubSeq(s, j + 1, Len(s))
<1>1. /\ a \in Seq(S) /\ Len(a) = j - 1
      /\ \A k \in 1 .. j - 1 : a[k] = s[k]
  BY SubSeqProperties
<1>2. /\ b \in Seq(S) /\ Len(b) = Len(s) - j
      /\ \A k \in 1 .. Len(s) - j : b[k] = s[j + k]
  BY SubSeqProperties
<1> HIDE DEF a, b
<1>3. /\ a \o b \in Seq(S) /\ Len(a \o b) = Len(a) + Len(b)
      /\ \A k \in 1 .. Len(a) + Len(b) :
           (a \o b)[k] = IF k <= Len(a) THEN a[k] ELSE b[k - Len(a)]
  BY <1>1, <1>2, ConcatProperties, Zenon
<1>4. Len(a) + Len(b) = Len(s) - 1
  BY <1>1, <1>2
<1>5. list_del(s, j) = a \o b
  BY Zenon DEF list_del, a, b
<1>6. ASSUME NEW k \in 1 .. Len(s) - 1
      PROVE  (a \o b)[k] = IF k < j THEN s[k] ELSE s[k + 1]
  <2>1. CASE k < j
    BY <1>1, <1>3, <1>4, <2>1
  <2>2. CASE k >= j
    <3>1. k - (j - 1) \in 1 .. Len(s) - j /\ j + (k - (j - 1)) = k + 1
      BY <2>2, LenProperties
    <3>2. (a \o b)[k] = b[k - (j - 1)]
      BY <1>1, <1>3, <1>4, <2>2, LenProperties
    <3>3. b[k - (j - 1)] = s[j + (k - (j - 1))]
      BY <1>2, <3>1, Zenon
    <3>4. QED
      BY <2>2, <3>1, <3>2, <3>3, LenProperties
  <2>3. k < j \/ k >= j
    BY LenProperties
  <2>4. QED
    BY <2>1, <2>2, <2>3, Zenon
<1>7. QED
  BY <1>3, <1>4, <1>5, <1>6, Zenon

(* list_add() adds a node, list_del() removes one.                         *)
LEMMA InsertSet ==
  ASSUME NEW S, NEW s \in Seq(S), NEW j \in 1 .. Len(s) + 1, NEW n \in S,
         Uniq(s), n \notin Elems(s)
  PROVE  /\ list_add(s, j, n) \in Seq(S)
         /\ Elems(list_add(s, j, n)) = Elems(s) \cup {n}
         /\ Uniq(list_add(s, j, n))
<1> DEFINE t == list_add(s, j, n)
<1>0. Inserted(t, S, s, j, n)
  BY InsertElements, Zenon
<1>1. /\ t \in Seq(S) /\ Len(t) = Len(s) + 1
      /\ \A k \in 1 .. Len(s) + 1 :
           t[k] = IF k < j THEN s[k] ELSE IF k = j THEN n ELSE s[k - 1]
  BY <1>0, Zenon DEF Inserted
<1> HIDE DEF t
<1>2. \A k \in 1 .. Len(s) : s[k] \in Elems(s)
  BY Zenon DEF Elems
<1>3. Elems(t) = Elems(s) \cup {n}
  <2>1. ASSUME NEW x \in Elems(t) PROVE x \in Elems(s) \cup {n}
    BY <1>1, <2>1 DEF Elems
  <2>2. ASSUME NEW x \in Elems(s) PROVE x \in Elems(t)
    <3>1. PICK k \in 1 .. Len(s) : x = s[k]
      BY Zenon DEF Elems
    <3>2. CASE k < j
      <4>1. t[k] = s[k] /\ k \in 1 .. Len(t)
        BY <1>1, <3>1, <3>2
      <4>2. QED
        BY <3>1, <4>1, Zenon DEF Elems
    <3>3. CASE k >= j
      <4>1. t[k + 1] = s[k] /\ k + 1 \in 1 .. Len(t)
        BY <1>1, <3>1, <3>3
      <4>2. QED
        BY <3>1, <4>1, Zenon DEF Elems
    <3>4. QED
      BY <3>2, <3>3
  <2>3. n \in Elems(t)
    BY <1>1 DEF Elems
  <2>4. QED
    BY <2>1, <2>2, <2>3, Zenon
<1>4. Uniq(t)
  <2> SUFFICES ASSUME NEW k \in 1 .. Len(s) + 1, NEW l \in 1 .. Len(s) + 1, t[k] = t[l]
               PROVE  k = l
    BY <1>1, Zenon DEF Uniq
  <2>1. \A i \in 1 .. Len(s) : s[i] # n
    BY <1>2, Zenon
  <2>2. CASE k = j \/ l = j
    BY <1>1, <2>1, <2>2
  <2>3. CASE k # j /\ l # j
    <3> DEFINE f(i) == IF i < j THEN i ELSE i - 1
    <3>1. f(k) \in 1 .. Len(s) /\ f(l) \in 1 .. Len(s)
      BY <2>3, LenProperties
    <3>2. t[k] = s[f(k)] /\ t[l] = s[f(l)]
      BY <1>1, <2>3, Zenon
    <3>3. f(k) = f(l)
      <4> HIDE DEF f
      <4>1. QED
        BY <3>1, <3>2, Zenon DEF Uniq
    <3>4. QED
      BY <2>3, <3>3, LenProperties
  <2>4. QED
    BY <2>2, <2>3, Zenon
<1>5. QED
  BY <1>1, <1>3, <1>4, Zenon DEF t

LEMMA RemoveSet ==
  ASSUME NEW S, NEW s \in Seq(S), NEW j \in 1 .. Len(s), Uniq(s)
  PROVE  /\ list_del(s, j) \in Seq(S)
         /\ Elems(list_del(s, j)) = Elems(s) \ {s[j]}
         /\ Uniq(list_del(s, j))
<1> DEFINE t == list_del(s, j)
<1>1. /\ t \in Seq(S) /\ Len(t) = Len(s) - 1
      /\ \A k \in 1 .. Len(s) - 1 : t[k] = IF k < j THEN s[k] ELSE s[k + 1]
  BY RemoveElements, Zenon
<1> HIDE DEF t
<1>2. \A k \in 1 .. Len(s) : s[k] = s[j] => k = j
  BY Zenon DEF Uniq
<1>3. Elems(t) = Elems(s) \ {s[j]}
  <2>1. ASSUME NEW x \in Elems(t) PROVE x \in Elems(s) \ {s[j]}
    <3>1. PICK k \in 1 .. Len(s) - 1 : x = t[k]
      BY <1>1, Zenon DEF Elems
    <3>2. \E l \in 1 .. Len(s) : l # j /\ x = s[l]
      <4>1. CASE k < j
        BY <1>1, <3>1, <4>1
      <4>2. CASE k >= j
        <5>1. k + 1 \in 1 .. Len(s) /\ k + 1 # j /\ x = s[k + 1]
          BY <1>1, <3>1, <4>2
        <5>2. QED
          BY <5>1, Zenon
      <4>3. QED
        BY <4>1, <4>2
    <3>3. QED
      BY <1>2, <3>2, Zenon DEF Elems
  <2>2. ASSUME NEW x \in Elems(s), x # s[j] PROVE x \in Elems(t)
    <3>1. PICK k \in 1 .. Len(s) : x = s[k]
      BY Zenon DEF Elems
    <3>2. CASE k < j
      <4>1. t[k] = s[k] /\ k \in 1 .. Len(t)
        BY <1>1, <3>1, <3>2
      <4>2. QED
        BY <3>1, <4>1, Zenon DEF Elems
    <3>3. CASE k > j
      <4>1. t[k - 1] = s[k] /\ k - 1 \in 1 .. Len(t)
        BY <1>1, <3>1, <3>3
      <4>2. QED
        BY <3>1, <4>1, Zenon DEF Elems
    <3>4. QED
      BY <2>2, <3>1, <3>2, <3>3
  <2>3. QED
    BY <2>1, <2>2, Zenon
<1>4. Uniq(t)
  BY <1>1 DEF Uniq
<1>5. QED
  BY <1>1, <1>3, <1>4, Zenon DEF t

-----------------------------------------------------------------------------
(* Minimum and maximum of a set of indices.                                *)
LEMMA LeastElement ==
  ASSUME NEW T \in SUBSET Nat, T # {}
  PROVE  \E x \in T : \A y \in T : x =< y
<1>1. PICK x \in T : \A y \in T : ~(<<y, x>> \in OpToRel(<, Nat))
  BY NatLessThanWellFounded, WFMin, Zenon
<1>2. ASSUME NEW y \in T PROVE ~(y < x)
  <2>1. y < x => <<y, x>> \in OpToRel(<, Nat)
    BY Zenon DEF OpToRel
  <2>2. QED
    BY <1>1, <2>1, Zenon
<1>3. QED
  BY <1>2

LEMMA MinElement ==
  ASSUME NEW T \in SUBSET Nat, T # {}
  PROVE  Min(T) \in T /\ \A y \in T : Min(T) =< y
  BY LeastElement, Zenon DEF Min

LEMMA MaxElement ==
  ASSUME NEW N \in Nat, NEW T \in SUBSET (1 .. N), T # {}
  PROVE  Max(T) \in T /\ \A y \in T : Max(T) >= y
<1> DEFINE U == {N - j : j \in T}
<1>1. U \in SUBSET Nat
  <2>1. \A j \in T : N - j \in Nat
    OBVIOUS
  <2>2. QED
    BY <2>1, Zenon
<1>2. U # {}
  <2>1. PICK j \in T : TRUE
    BY Zenon
  <2>2. N - j \in U
    BY <2>1, Zenon
  <2>3. QED
    BY <2>2, Zenon
<1>3. \E x \in U : \A y \in U : x =< y
  <2> HIDE DEF U
  <2>1. QED
    BY <1>1, <1>2, LeastElement, Zenon
<1>4. \E x \in T : \A y \in T : x >= y
  <2>1. PICK x \in T : \A y \in U : N - x =< y
    BY <1>3, Zenon
  <2>2. \A y \in T : N - x =< N - y
    BY <2>1, Zenon
  <2>3. \A y \in T : x >= y
    BY <2>2
  <2>4. QED
    BY <2>3, Zenon
<1>5. QED
  BY <1>4, Zenon DEF Max

(* How many x of S have f[x] = n.                                          *)
Count(S, f, n) == Cardinality({x \in S : f[x] = n})

LEMMA CountType ==
  ASSUME NEW S, IsFiniteSet(S), NEW f, NEW n
  PROVE  /\ Count(S, f, n) \in Nat
         /\ Count(S, f, n) = 0 <=> \A x \in S : f[x] # n
<1>1. IsFiniteSet({x \in S : f[x] = n})
  BY FS_Subset, Zenon
<1>2. QED
  BY <1>1, FS_CardinalityType, FS_EmptySet, Zenon DEF Count

(* Moving one x from f[x] to c takes one from the count of f[x] and adds   *)
(* one to that of c.                                                       *)
LEMMA CountMove ==
  ASSUME NEW S, IsFiniteSet(S), NEW f, NEW g, NEW x \in S, NEW n,
         \A y \in S : y # x => g[y] = f[y]
  PROVE  Count(S, g, n) = Count(S, f, n) - Ref(n, f[x]) + Ref(n, g[x])
<1> DEFINE A == {y \in S : f[y] = n}
           B == {y \in S : g[y] = n}
<1>1. IsFiniteSet(A) /\ Cardinality(A) \in Nat
  BY FS_Subset, FS_CardinalityType, Zenon
<1>2. IsFiniteSet(A \ {x}) /\ Cardinality(A \ {x}) = Cardinality(A) - Ref(n, f[x])
  <2>1. /\ IsFiniteSet(A \ {x})
        /\ Cardinality(A \ {x}) = IF x \in A THEN Cardinality(A) - 1 ELSE Cardinality(A)
    BY <1>1, FS_RemoveElement, Zenon
  <2>2. QED
    BY <1>1, <2>1 DEF Ref
<1>3. CASE g[x] = n
  <2>1. B = (A \ {x}) \cup {x}
    BY <1>3, Zenon
  <2>2. Cardinality((A \ {x}) \cup {x}) = Cardinality(A \ {x}) + 1
    BY <1>2, FS_AddElement, Zenon
  <2>3. QED
    BY <1>1, <1>2, <1>3, <2>1, <2>2, Zenon DEF Ref, Count
<1>4. CASE g[x] # n
  <2>1. B = A \ {x}
    BY <1>4, Zenon
  <2>2. QED
    BY <1>1, <1>2, <1>4, <2>1 DEF Ref, Count
<1>5. QED
  BY <1>3, <1>4, Zenon

-----------------------------------------------------------------------------
(* The inductive invariant.  RefsAccounted needs ListExact, since an       *)
(* iterator must not be at a node that is off the list, and ListExact      *)
(* needs RefsAccounted, since a node must not leave the list while an      *)
(* iterator is at it; neither is inductive by itself.                      *)
Core ==
  /\ k_list \in Seq(Nodes)
  /\ n_klist \in [Nodes -> {"null", "live", "dead"}]
  /\ n_ref \in [Nodes -> Nat]
  /\ i_cur \in [Iters -> Nodes \cup {NULL}]
  /\ adding \subseteq Nodes
  /\ \A n \in adding : Live(n)
  /\ RefsAccounted
  /\ ListExact

Objects ==
  /\ object \in [Nodes -> Nat]
  /\ puts \in [Contexts -> Nodes \cup {NULL}]
  /\ ObjectsAccounted

HistoryTypes ==
  /\ i_dir \in [Iters -> {"idle", "start", "next", "prev", "mixed", "end"}]
  /\ stayed \in [Iters -> SUBSET Nodes]
  /\ seen \in [Iters -> SUBSET Nodes]
  /\ removed \subseteq Nodes
  /\ \A i \in Iters : i_dir[i] = "idle" => i_cur[i] = NULL

IInv == Core /\ Objects /\ HistoryTypes

LEMMA InvFacts ==
  ASSUME Core
  PROVE  /\ OnList = Elems(k_list) /\ Uniq(k_list)
         /\ \A n \in Nodes : n_ref[n] = Count(Iters, i_cur, n) + (IF Live(n) THEN 1 ELSE 0)
         /\ \A n \in OnList : /\ n \in Nodes /\ Index(n) \in 1 .. Len(k_list)
                              /\ k_list[Index(n)] = n
<1>1. OnList = Elems(k_list) /\ Uniq(k_list)
  BY Zenon DEF Core, ListExact, OnList, Elems, Uniq
<1>2. \A n \in Nodes : n_ref[n] = Count(Iters, i_cur, n) + (IF Live(n) THEN 1 ELSE 0)
  BY Zenon DEF Core, RefsAccounted, At, Count
<1>3. ASSUME NEW n \in OnList
      PROVE  n \in Nodes /\ Index(n) \in 1 .. Len(k_list) /\ k_list[Index(n)] = n
  <2>1. \E j \in 1 .. Len(k_list) : k_list[j] = n
    BY <1>3, Zenon DEF OnList
  <2>2. Index(n) \in 1 .. Len(k_list) /\ k_list[Index(n)] = n
    BY <2>1, Zenon DEF Index
  <2>3. QED
    BY <2>2 DEF Core
<1>4. QED
  BY <1>1, <1>2, <1>3, Zenon

LEMMA InvInit == Init => IInv
<1> SUFFICES ASSUME Init PROVE IInv
  BY Zenon
<1>1. OnList = {} /\ k_list \in Seq(Nodes) /\ Len(k_list) = 0
  BY DEF Init, OnList
<1>2. \A n \in Nodes : At(n) = {} /\ {x \in Contexts : puts[x] = n} = {}
  BY KlistAssumption, Zenon DEF Init, At, Contexts
<1>3. RefsAccounted /\ ObjectsAccounted
  <2>1. \A n \in Nodes : Cardinality(At(n)) = 0
    BY <1>2, FS_EmptySet, Zenon
  <2>2. \A n \in Nodes : n_klist[n] = "null" /\ n_ref[n] = 0 /\ object[n] = 0
    BY Zenon DEF Init
  <2>3. RefsAccounted
    BY <2>1, <2>2 DEF RefsAccounted, Live
  <2>4. \A n \in Nodes : object[n] = Cardinality({x \in Contexts : puts[x] = n})
                                     + (IF n_klist[n] # "null" THEN 1 ELSE 0)
    <3>1. TAKE n \in Nodes
    <3>2. Cardinality({x \in Contexts : puts[x] = n}) = 0
      BY <1>2, FS_EmptySet, Zenon
    <3>3. n_klist[n] = "null" /\ object[n] = 0
      BY <2>2, Zenon
    <3>4. QED
      BY <3>2, <3>3
  <2>5. QED
    BY <2>3, <2>4, Zenon DEF ObjectsAccounted
<1>4. ListExact
  BY <1>1 DEF Init, ListExact
<1>5. Core
  <2>1. /\ n_klist \in [Nodes -> {"null", "live", "dead"}]
        /\ n_ref \in [Nodes -> Nat] /\ i_cur \in [Iters -> Nodes \cup {NULL}]
        /\ adding = {}
    BY Zenon DEF Init
  <2>2. QED
    BY <1>1, <1>3, <1>4, <2>1, Zenon DEF Core
<1>6. Objects
  BY <1>3, Zenon DEF Init, Objects
<1>7. HistoryTypes
  BY Zenon DEF Init, HistoryTypes
<1>8. QED
  BY <1>5, <1>6, <1>7, Zenon DEF IInv

(* A step that touches neither list, counts nor cursors.                   *)
LEMMA CoreUnchanged ==
  ASSUME Core, UNCHANGED <<k_list, n_klist, n_ref, i_cur, adding>>
  PROVE  Core'
<1>1. RefsAccounted'
  BY Zenon DEF Core, RefsAccounted, At, Live
<1>2. OnList' = OnList
  BY Zenon DEF OnList
<1>3. ListExact'
  BY <1>2, Zenon DEF Core, ListExact
<1>4. QED
  BY <1>1, <1>3, Zenon DEF Core, Live

(* The start of klist_add_*(): the node is attached, but not yet listed.   *)
LEMMA InitNodeCore ==
  ASSUME Core, NEW n \in Nodes, klist_node_init(n)
  PROVE  Core'
<1>1. /\ n_klist[n] = "null"
      /\ n_klist' = [n_klist EXCEPT ![n] = "live"] /\ n_ref' = [n_ref EXCEPT ![n] = 1]
      /\ adding' = adding \cup {n}
      /\ k_list' = k_list /\ i_cur' = i_cur /\ OnList' = OnList
  BY Zenon DEF klist_node_init, OnList
<1>2. n \notin OnList /\ n \notin adding
  BY <1>1, Zenon DEF Core, ListExact, Live
<1>3. Count(Iters, i_cur, n) = 0
  <2>1. n # NULL
    BY KlistAssumption, Zenon DEF Contexts
  <2>2. \A i \in Iters : i_cur[i] # n
    BY <1>2, <2>1, Zenon DEF Core, ListExact
  <2>3. QED
    BY <2>2, CountType, KlistAssumption, Zenon
<1>4. RefsAccounted'
  <2>1. \A m \in Nodes : n_ref'[m] = Count(Iters, i_cur, m) + (IF Live(m)' THEN 1 ELSE 0)
    BY <1>1, <1>3, InvFacts DEF Core, Live
  <2>2. QED
    BY <1>1, <2>1, Zenon DEF RefsAccounted, Count, At
<1>5. ListExact'
  BY <1>1, <1>2, Zenon DEF Core, ListExact
<1>6. QED
  BY <1>1, <1>4, <1>5, Zenon DEF Core, Live

(* The critical section of klist_add_*().                                  *)
LEMMA ListAddCore ==
  ASSUME Core, NEW n \in Nodes, NEW j \in 1 .. Len(k_list) + 1, ListAdd(n, j)
  PROVE  Core'
<1>1. /\ n \in adding /\ k_list' = list_add(k_list, j, n) /\ adding' = adding \ {n}
      /\ UNCHANGED <<n_klist, n_ref, i_cur>>
  BY Zenon DEF ListAdd
<1>2. n \notin OnList
  BY <1>1, Zenon DEF Core, ListExact
<1>3. k_list' \in Seq(Nodes) /\ Elems(k_list') = Elems(k_list) \cup {n} /\ Uniq(k_list')
  BY <1>1, <1>2, InvFacts, InsertSet DEF Core
<1>4. OnList' = OnList \cup {n}
  BY <1>3, InvFacts, Zenon DEF OnList, Elems
<1>5. ListExact'
  BY <1>1, <1>3, <1>4, Zenon DEF Core, ListExact, Uniq, Live
<1>6. RefsAccounted'
  BY <1>1, Zenon DEF Core, RefsAccounted, At, Live
<1>7. QED
  BY <1>1, <1>3, <1>5, <1>6, Zenon DEF Core, Live

(* Dropping a reference on a node of the list.                             *)
LEMMA DecAndDel ==
  ASSUME Core, NEW x \in Contexts, NEW n \in OnList, NEW klist,
         klist_dec_and_del(x, n, klist)
  PROVE  /\ k_list' \in Seq(Nodes) /\ Uniq(k_list')
         /\ OnList' = IF n_ref[n] = 1 THEN OnList \ {n} ELSE OnList
         /\ n_klist' = IF n_ref[n] = 1 THEN [klist EXCEPT ![n] = "null"] ELSE klist
<1>0. n # NULL /\ n \in Nodes /\ Index(n) \in 1 .. Len(k_list) /\ k_list[Index(n)] = n
  BY InvFacts, KlistAssumption, Zenon DEF Contexts
<1>1. CASE n_ref[n] = 1
  <2>1. k_list' = list_del(k_list, Index(n)) /\ n_klist' = [klist EXCEPT ![n] = "null"]
    BY <1>0, <1>1, Zenon DEF klist_dec_and_del
  <2>2. k_list' \in Seq(Nodes) /\ Elems(k_list') = Elems(k_list) \ {n} /\ Uniq(k_list')
    BY <1>0, <2>1, InvFacts, RemoveSet DEF Core
  <2>3. QED
    BY <1>1, <2>1, <2>2, InvFacts, Zenon DEF OnList, Elems
<1>2. CASE n_ref[n] # 1
  <2>1. k_list' = k_list /\ n_klist' = klist
    BY <1>2, Zenon DEF klist_dec_and_del
  <2>2. QED
    BY <1>2, <2>1, InvFacts DEF OnList, Core
<1>3. QED
  BY <1>1, <1>2, Zenon

(* The owner deletes its node.                                             *)
LEMMA DeleteCore ==
  ASSUME Core, NEW n \in Nodes, Deletable(n), klist_put(n, n, TRUE),
         UNCHANGED <<i_cur, adding>>
  PROVE  Core'
<1> DEFINE killed == [n_klist EXCEPT ![n] = "dead"]
<1>1. n \in OnList /\ Live(n) /\ n \in Contexts
  BY Zenon DEF Deletable, Contexts
<1>2. klist_dec_and_del(n, n, killed) /\ n_ref' = [n_ref EXCEPT ![n] = @ - 1]
  BY Zenon DEF klist_put
<1>3. /\ k_list' \in Seq(Nodes) /\ Uniq(k_list')
      /\ OnList' = IF n_ref[n] = 1 THEN OnList \ {n} ELSE OnList
      /\ n_klist' = IF n_ref[n] = 1 THEN [killed EXCEPT ![n] = "null"] ELSE killed
  <2> HIDE DEF killed
  <2>1. QED
    BY <1>1, <1>2, DecAndDel, Zenon
<1>4. /\ n_klist' \in [Nodes -> {"null", "live", "dead"}]
      /\ \A m \in Nodes \ {n} : n_klist'[m] = n_klist[m]
      /\ n_klist'[n] = IF n_ref[n] = 1 THEN "null" ELSE "dead"
  BY <1>3, Zenon DEF Core
<1>5. n \notin adding
  BY <1>1, Zenon DEF Core, ListExact
<1>6. n_ref[n] = Count(Iters, i_cur, n) + 1 /\ Count(Iters, i_cur, n) \in Nat
  BY <1>1, InvFacts, CountType, KlistAssumption, Zenon
<1>7. n_ref' \in [Nodes -> Nat]
  BY <1>2, <1>6 DEF Core
<1>8. RefsAccounted'
  <2>1. \A m \in Nodes : n_ref'[m] = Count(Iters, i_cur, m) + (IF Live(m)' THEN 1 ELSE 0)
    BY <1>2, <1>4, <1>6, InvFacts DEF Live, Core
  <2>2. QED
    BY <2>1, Zenon DEF RefsAccounted, Count, At
<1>9. ListExact'
  <2>1. n_ref[n] = 1 => \A i \in Iters : i_cur[i] # n
    BY <1>6, CountType, KlistAssumption
  <2>2. \A i \in Iters : i_cur'[i] # NULL => i_cur'[i] \in OnList'
    BY <1>3, <2>1, Zenon DEF Core, ListExact
  <2>3. \A m \in Nodes : m \in OnList' <=> n_klist'[m] # "null" /\ m \notin adding'
    BY <1>1, <1>3, <1>4, <1>5, Zenon DEF Core, ListExact
  <2>4. QED
    BY <1>3, <2>2, <2>3, Zenon DEF ListExact, Uniq
<1>10. QED
  BY <1>3, <1>4, <1>5, <1>7, <1>8, <1>9, Zenon DEF Core, Live

(* An iterator leaves its node, if it has one, for a live node or none.    *)
Moves(i, cur) ==
  /\ cur \in OnList \cup {NULL}
  /\ cur # NULL => Live(cur) /\ cur # i_cur[i]
  /\ klist_dec_and_del(i, i_cur[i], n_klist)
  /\ n_ref' = [n \in Nodes |-> n_ref[n] - Ref(n, i_cur[i]) + Ref(n, cur)]
  /\ i_cur' = [i_cur EXCEPT ![i] = cur]
  /\ UNCHANGED adding

LEMMA MoveRefs ==
  ASSUME Core, NEW i \in Iters, NEW cur \in Nodes \cup {NULL}, Moves(i, cur)
  PROVE  /\ i_cur' \in [Iters -> Nodes \cup {NULL}]
         /\ \A n \in Nodes :
              /\ Count(Iters, i_cur, n) \in Nat /\ Count(Iters, i_cur', n) \in Nat
              /\ Count(Iters, i_cur', n)
                   = Count(Iters, i_cur, n) - Ref(n, i_cur[i]) + Ref(n, cur)
         /\ \A n \in Nodes : n_ref'[n] = Count(Iters, i_cur', n) + (IF Live(n) THEN 1 ELSE 0)
         /\ n_ref' \in [Nodes -> Nat]
<1> DEFINE last == i_cur[i]
<1>1. i_cur' \in [Iters -> Nodes \cup {NULL}]
  BY Zenon DEF Core, Moves
<1>2. ASSUME NEW n \in Nodes
      PROVE  /\ Count(Iters, i_cur, n) \in Nat /\ Count(Iters, i_cur', n) \in Nat
             /\ Count(Iters, i_cur', n) = Count(Iters, i_cur, n) - Ref(n, last) + Ref(n, cur)
  <2>1. i_cur \in [Iters -> Nodes \cup {NULL}] /\ i_cur' = [i_cur EXCEPT ![i] = cur]
    BY Zenon DEF Core, Moves
  <2>2. IsFiniteSet(Iters)
    BY KlistAssumption, Zenon
  <2>3. Count(Iters, i_cur', n) = Count(Iters, i_cur, n) - Ref(n, i_cur[i]) + Ref(n, cur)
    <3>1. \A y \in Iters : y # i => i_cur'[y] = i_cur[y]
      BY <2>1, Zenon
    <3>2. i_cur'[i] = cur
      BY <2>1, Zenon
    <3>3. Count(Iters, i_cur', n) = Count(Iters, i_cur, n) - Ref(n, i_cur[i]) + Ref(n, i_cur'[i])
      BY <2>2, <3>1, CountMove
    <3>4. QED
      BY <3>2, <3>3, Zenon
  <2>4. Count(Iters, i_cur, n) \in Nat /\ Count(Iters, i_cur', n) \in Nat
    BY <2>2, CountType, Zenon
  <2>5. QED
    BY <2>3, <2>4, Zenon
<1>3. ASSUME NEW n \in Nodes
      PROVE  /\ n_ref'[n] = Count(Iters, i_cur', n) + (IF Live(n) THEN 1 ELSE 0)
             /\ n_ref'[n] \in Nat
  <2>1. Ref(n, last) \in Nat /\ Ref(n, cur) \in Nat
    BY Zenon DEF Ref
  <2>2. n_ref[n] = Count(Iters, i_cur, n) + (IF Live(n) THEN 1 ELSE 0)
    BY InvFacts, Zenon
  <2>3. n_ref'[n] = n_ref[n] - Ref(n, last) + Ref(n, cur)
    BY Zenon DEF Moves
  <2>4. QED
    BY <1>2, <2>1, <2>2, <2>3
<1>4. n_ref' \in [Nodes -> Nat]
  <2>1. n_ref' = [n \in Nodes |-> n_ref'[n]]
    BY Zenon DEF Moves
  <2>2. QED
    BY <1>3, <2>1, Zenon
<1>5. QED
  BY <1>1, <1>2, <1>3, <1>4, Zenon

LEMMA MoveCore ==
  ASSUME Core, NEW i \in Iters, NEW cur \in Nodes \cup {NULL}, Moves(i, cur)
  PROVE  Core'
<1> DEFINE last == i_cur[i]
<1>0. /\ cur \in OnList \cup {NULL}
      /\ cur # NULL => Live(cur) /\ cur # last
      /\ i_cur' = [i_cur EXCEPT ![i] = cur] /\ adding' = adding
  BY Zenon DEF Moves
<1>1. last \in OnList \cup {NULL} /\ i \in Contexts /\ last \in Nodes \cup {NULL}
  BY Zenon DEF Core, ListExact, Contexts
<1>2. i_cur' \in [Iters -> Nodes \cup {NULL}]
  BY MoveRefs, Zenon
<1>3. \A n \in Nodes : /\ Count(Iters, i_cur, n) \in Nat /\ Count(Iters, i_cur', n) \in Nat
                      /\ Count(Iters, i_cur', n)
                           = Count(Iters, i_cur, n) - Ref(n, last) + Ref(n, cur)
  BY MoveRefs, Zenon
<1>4. last # NULL => Count(Iters, i_cur, last) # 0
  BY CountType, KlistAssumption
<1>5. \A n \in Nodes : n_ref'[n] = Count(Iters, i_cur', n) + (IF Live(n) THEN 1 ELSE 0)
  BY MoveRefs, Zenon
<1>6. n_ref' \in [Nodes -> Nat]
  BY MoveRefs, Zenon
<1>7. CASE last # NULL /\ n_ref[last] = 1
  <2>1. /\ k_list' \in Seq(Nodes) /\ Uniq(k_list') /\ OnList' = OnList \ {last}
        /\ n_klist' = [n_klist EXCEPT ![last] = "null"]
    BY <1>1, <1>7, DecAndDel, Zenon DEF Moves
  <2>2. last \in Nodes /\ last \in OnList
    BY <1>1, <1>7, InvFacts, Zenon
  <2>3. ~Live(last) /\ Count(Iters, i_cur', last) = 0 /\ last \notin adding
    <3>1. Count(Iters, i_cur, last) = 1 /\ ~Live(last)
      BY <1>3, <1>4, <1>7, <2>2, InvFacts
    <3>2. Ref(last, cur) = 0
      BY <1>0, <1>7, Zenon DEF Ref
    <3>3. Ref(last, last) = 1
      BY Zenon DEF Ref
    <3>4. Count(Iters, i_cur', last) = 0
      BY <1>3, <2>2, <3>1, <3>2, <3>3
    <3>5. QED
      BY <3>1, <3>4, Zenon DEF Core
  <2>4. \A k \in Iters : i_cur'[k] # last
    BY <2>3, CountType, KlistAssumption, Zenon
  <2>5. RefsAccounted'
    <3>1. \A n \in Nodes : Live(n)' <=> Live(n)
      BY <2>1, <2>2, <2>3, Zenon DEF Live, Core
    <3>2. QED
      BY <1>5, <3>1, Zenon DEF RefsAccounted, Count, At
  <2>6. ListExact'
    <3>1. \A k \in Iters : i_cur'[k] # NULL => i_cur'[k] \in OnList'
      BY <1>0, <1>1, <2>1, <2>4, Zenon DEF Core, ListExact
    <3>2. \A m \in Nodes : m \in OnList' <=> n_klist'[m] # "null" /\ m \notin adding'
      BY <1>0, <2>1, <2>2, Zenon DEF Core, ListExact
    <3>3. QED
      BY <2>1, <3>1, <3>2, Zenon DEF ListExact, Uniq
  <2>7. QED
    BY <1>0, <1>2, <1>6, <2>1, <2>2, <2>3, <2>5, <2>6, Zenon DEF Core, Live
<1>8. CASE ~(last # NULL /\ n_ref[last] = 1)
  <2>1. k_list' = k_list /\ n_klist' = n_klist /\ OnList' = OnList
    BY <1>8, Zenon DEF Moves, klist_dec_and_del, OnList
  <2>2. RefsAccounted'
    BY <1>5, <2>1, Zenon DEF RefsAccounted, Count, At, Live
  <2>3. ListExact'
    <3>1. \A k \in Iters : i_cur'[k] # NULL => i_cur'[k] \in OnList'
      BY <1>0, <1>1, <2>1, Zenon DEF Core, ListExact
    <3>2. QED
      BY <1>0, <2>1, <3>1, Zenon DEF Core, ListExact
  <2>4. QED
    BY <1>0, <1>2, <1>6, <2>1, <2>2, <2>3, Zenon DEF Core, Live
<1>9. QED
  BY <1>7, <1>8, Zenon

(* What klist_next() and klist_prev() choose is on the list, live and not  *)
(* the node they leave.                                                    *)
LEMMA FirstIsLive ==
  ASSUME Core, NEW i \in Iters, NEW dir \in {"next", "prev"}
  PROVE  LET cur == First(i_cur[i], dir)
         IN /\ cur \in OnList \cup {NULL} /\ cur \in Nodes \cup {NULL}
            /\ cur # NULL => Live(cur) /\ cur # i_cur[i]
<1> DEFINE last == i_cur[i]
           js == LiveAhead(last, dir)
           j == IF dir = "next" THEN Min(js) ELSE Max(js)
<1>1. last # NULL => /\ last \in OnList /\ Index(last) \in 1 .. Len(k_list)
                     /\ k_list[Index(last)] = last
  BY InvFacts, Zenon DEF Core, ListExact
<1>2. Len(k_list) \in Nat
  BY LenProperties, Zenon DEF Core
<1>3. /\ js \subseteq 1 .. Len(k_list)
      /\ \A k \in js : Live(k_list[k]) /\ (last # NULL => k # Index(last))
  BY <1>1, <1>2 DEF LiveAhead, Ahead
<1>4. CASE js = {}
  BY <1>4, Zenon DEF First
<1>5. CASE js # {}
  <2>1. j \in js
    <3>1. js \in SUBSET Nat /\ js \in SUBSET (1 .. Len(k_list))
      BY <1>2, <1>3
    <3> HIDE DEF js
    <3>2. QED
      BY <1>2, <1>5, <3>1, MinElement, MaxElement, Zenon
  <2>2. First(last, dir) = k_list[j]
    BY <1>5, Zenon DEF First
  <2>3. j \in 1 .. Len(k_list) /\ Live(k_list[j]) /\ (last # NULL => j # Index(last))
    BY <1>3, <2>1, Zenon
  <2> HIDE DEF j
  <2>4. k_list[j] \in OnList /\ k_list[j] \in Nodes /\ k_list[j] # NULL
    BY <2>3, KlistAssumption DEF OnList, Core, Contexts
  <2>5. last # NULL => k_list[j] # last
    BY <1>1, <2>3, InvFacts, Zenon DEF Uniq
  <2>6. QED
    BY <2>2, <2>3, <2>4, <2>5, Zenon
<1>6. QED
  BY <1>4, <1>5, Zenon

LEMMA AdvanceCore ==
  ASSUME Core, NEW i \in Iters, NEW dir \in {"next", "prev"}, Advance(i, dir)
  PROVE  Core'
<1> DEFINE cur == First(i_cur[i], dir)
<1>1. cur \in Nodes \cup {NULL}
  BY FirstIsLive, Zenon
<1>2. Moves(i, cur)
  BY FirstIsLive, Zenon DEF Moves, Advance
<1> HIDE DEF cur
<1>3. QED
  BY <1>1, <1>2, MoveCore, Zenon

LEMMA ExitCore ==
  ASSUME Core, NEW i \in Iters, klist_iter_exit(i)
  PROVE  Core'
<1>1. i_cur' = [i_cur EXCEPT ![i] = NULL] /\ adding' = adding
  BY Zenon DEF klist_iter_exit
<1>2. \A n \in Nodes : Ref(n, NULL) = 0
  BY KlistAssumption, Zenon DEF Ref, Contexts
<1>3. CASE i_cur[i] # NULL
  <2>1. /\ klist_dec_and_del(i, i_cur[i], n_klist)
        /\ n_ref' = [n_ref EXCEPT ![i_cur[i]] = @ - 1]
    BY <1>3, Zenon DEF klist_iter_exit, klist_put
  <2>2. n_ref' = [n \in Nodes |-> n_ref[n] - Ref(n, i_cur[i]) + Ref(n, NULL)]
    <3>1. n_ref \in [Nodes -> Nat] /\ i_cur[i] \in Nodes
      BY <1>3, Zenon DEF Core
    <3>2. ASSUME NEW n \in Nodes
          PROVE  n_ref'[n] = n_ref[n] - Ref(n, i_cur[i]) + Ref(n, NULL)
      BY <1>2, <2>1, <3>1 DEF Ref
    <3>3. n_ref' = [n \in Nodes |-> n_ref'[n]]
      BY <2>1, <3>1, Zenon
    <3>4. QED
      BY <3>2, <3>3, Zenon
  <2>3. Moves(i, NULL)
    BY <1>1, <2>1, <2>2, Zenon DEF Moves
  <2>4. QED
    BY <2>3, MoveCore, Zenon
<1>4. CASE i_cur[i] = NULL
  <2>1. i_cur' = i_cur /\ n_ref' = n_ref /\ n_klist' = n_klist /\ k_list' = k_list
    BY <1>1, <1>4, Zenon DEF klist_iter_exit, list, Core
  <2>2. QED
    BY <1>1, <2>1, CoreUnchanged, Zenon
<1>5. QED
  BY <1>3, <1>4, Zenon

(* klist_iter_init_node() takes a reference only on a node of the list:    *)
(* one that has none left is off it.                                       *)
LEMMA IterInitCore ==
  ASSUME Core, NEW i \in Iters, NEW n \in Nodes \cup {NULL}, klist_iter_init_node(i, n),
         i_cur[i] = NULL
  PROVE  Core'
<1>1. UNCHANGED <<k_list, n_klist, adding>> /\ (n # NULL => n \notin adding)
  BY Zenon DEF klist_iter_init_node, CanStart
<1>2. CASE Startable(n)
  <2>1. /\ n # NULL /\ n_ref[n] # 0 /\ n \in Nodes
        /\ n_ref' = [n_ref EXCEPT ![n] = @ + 1] /\ i_cur' = [i_cur EXCEPT ![i] = n]
    BY <1>2, Zenon DEF klist_iter_init_node, Startable
  <2>2. n \in OnList
    <3>1. CASE Live(n)
      BY <1>1, <2>1, <3>1, Zenon DEF Core, ListExact, Live
    <3>2. CASE ~Live(n)
      <4>1. Count(Iters, i_cur, n) # 0
        <5>1. n_ref[n] = Count(Iters, i_cur, n) + 0
          BY <2>1, <3>2, InvFacts, Zenon
        <5>2. Count(Iters, i_cur, n) \in Nat
          BY CountType, KlistAssumption, Zenon
        <5>3. QED
          BY <2>1, <5>1, <5>2
      <4>2. \E k \in Iters : i_cur[k] = n
        BY <4>1, CountType, KlistAssumption, Zenon
      <4>3. QED
        BY <2>1, <4>2, Zenon DEF Core, ListExact
    <3>3. QED
      BY <3>1, <3>2, Zenon
  <2>3. ASSUME NEW m \in Nodes
        PROVE  n_ref'[m] = Count(Iters, i_cur', m) + (IF Live(m) THEN 1 ELSE 0)
    <3>1. \A y \in Iters : y # i => i_cur'[y] = i_cur[y]
      BY <2>1, Zenon DEF Core
    <3>2. i_cur'[i] = n
      BY <2>1, Zenon DEF Core
    <3>3. Count(Iters, i_cur', m) = Count(Iters, i_cur, m) - Ref(m, i_cur[i]) + Ref(m, i_cur'[i])
      BY <3>1, CountMove, KlistAssumption
    <3>4. Ref(m, i_cur[i]) = 0 /\ Ref(m, i_cur'[i]) = IF m = n THEN 1 ELSE 0
      BY <3>2, KlistAssumption, Zenon DEF Ref, Contexts
    <3>5. n_ref[m] = Count(Iters, i_cur, m) + (IF Live(m) THEN 1 ELSE 0)
      BY InvFacts, Zenon
    <3>6. n_ref'[m] = n_ref[m] + IF m = n THEN 1 ELSE 0
      BY <2>1 DEF Core
    <3>7. Count(Iters, i_cur, m) \in Nat
      BY CountType, KlistAssumption, Zenon
    <3>8. QED
      BY <3>3, <3>4, <3>5, <3>6, <3>7
  <2>4. RefsAccounted'
    BY <1>1, <2>3, Zenon DEF RefsAccounted, At, Count, Live
  <2>5. ListExact'
    BY <1>1, <2>1, <2>2 DEF Core, ListExact, OnList
  <2>6. n_ref' \in [Nodes -> Nat] /\ i_cur' \in [Iters -> Nodes \cup {NULL}]
    BY <2>1 DEF Core
  <2>7. QED
    BY <1>1, <2>4, <2>5, <2>6, Zenon DEF Core, Live
<1>3. CASE ~Startable(n)
  <2>1. UNCHANGED <<n_ref, i_cur>>
    BY <1>3, Zenon DEF klist_iter_init_node
  <2>2. QED
    BY <1>1, <2>1, CoreUnchanged, Zenon
<1>4. QED
  BY <1>2, <1>3, Zenon

-----------------------------------------------------------------------------
(* The references on the embedding objects.                                *)
Attached(n) == IF n_klist[n] # "null" THEN 1 ELSE 0

LEMMA ObjectsFacts ==
  ObjectsAccounted <=> \A n \in Nodes : object[n] = Count(Contexts, puts, n) + Attached(n)
  BY Zenon DEF ObjectsAccounted, Count, Attached

LEMMA ContextsFinite == IsFiniteSet(Contexts)
  BY KlistAssumption, FS_Union, Zenon DEF Contexts

(* Dropping a reference by a context that owes no put().                   *)
Drops(x, n, klist) ==
  /\ puts[x] = NULL
  /\ n \in OnList \cup {NULL}
  /\ klist = n_klist \/ (n # NULL /\ klist = [n_klist EXCEPT ![n] = "dead"])
  /\ klist_dec_and_del(x, n, klist)
  /\ object' = object

LEMMA DecAndDelObjects ==
  ASSUME Core, Objects, NEW x \in Contexts, NEW n, NEW klist, Drops(x, n, klist)
  PROVE  Objects'
<1>0. /\ puts[x] = NULL
      /\ n \in OnList \cup {NULL}
      /\ klist = n_klist \/ (n # NULL /\ klist = [n_klist EXCEPT ![n] = "dead"])
      /\ klist_dec_and_del(x, n, klist)
      /\ object' = object
  BY Zenon DEF Drops
<1>1. n # NULL => n \in Nodes /\ n_klist[n] # "null"
  BY <1>0, InvFacts, Zenon DEF Core, ListExact
<1>2. CASE n # NULL /\ n_ref[n] = 1
  <2>1. puts' = [puts EXCEPT ![x] = n] /\ n_klist' = [klist EXCEPT ![n] = "null"]
    BY <1>0, <1>2, Zenon DEF klist_dec_and_del
  <2>2. puts' \in [Contexts -> Nodes \cup {NULL}]
    BY <1>0, <1>1, <1>2, <2>1, Zenon DEF Objects
  <2>3. ASSUME NEW m \in Nodes
        PROVE  Count(Contexts, puts', m) + Attached(m)' = Count(Contexts, puts, m) + Attached(m)
    <3>1. \A y \in Contexts : y # x => puts'[y] = puts[y]
      BY <1>0, <2>1, Zenon DEF Objects
    <3>2. puts'[x] = n
      BY <1>0, <2>1, Zenon DEF Objects
    <3>3. Count(Contexts, puts', m) = Count(Contexts, puts, m) - Ref(m, puts[x]) + Ref(m, puts'[x])
      <4>1. \A f, g : (\A y \in Contexts : y # x => g[y] = f[y])
                       => Count(Contexts, g, m) = Count(Contexts, f, m) - Ref(m, f[x]) + Ref(m, g[x])
        BY CountMove, ContextsFinite
      <4>2. QED
        BY <3>1, <4>1, Zenon
    <3>4. Ref(m, puts[x]) = 0 /\ Ref(m, puts'[x]) = IF m = n THEN 1 ELSE 0
      BY <1>0, <3>2, KlistAssumption, Zenon DEF Ref, Contexts
    <3>5. Attached(m)' = IF m = n THEN 0 ELSE Attached(m)
      BY <1>0, <1>1, <1>2, <2>1, Zenon DEF Attached, Core
    <3>6. m = n => Attached(m) = 1
      BY <1>0, <1>1, <1>2, Zenon DEF Attached
    <3>7. Count(Contexts, puts, m) \in Nat /\ Attached(m) \in Nat
      BY <1>0, CountType, ContextsFinite, Zenon DEF Attached
    <3>8. QED
      BY <1>0, <3>3, <3>4, <3>5, <3>6, <3>7
  <2>4. ObjectsAccounted'
    <3>1. \A m \in Nodes : object'[m] = Count(Contexts, puts', m) + Attached(m)'
      BY <1>0, <2>3, ObjectsFacts, Zenon DEF Objects
    <3>2. QED
      BY <1>0, <3>1, Zenon DEF ObjectsAccounted, Count, Attached
  <2>5. QED
    BY <1>0, <2>2, <2>4, Zenon DEF Objects
<1>3. CASE ~(n # NULL /\ n_ref[n] = 1)
  <2>1. puts' = puts /\ n_klist' = klist
    BY <1>0, <1>3, Zenon DEF klist_dec_and_del
  <2>2. \A m \in Nodes : n_klist'[m] # "null" <=> n_klist[m] # "null"
    BY <1>0, <1>1, <2>1, Zenon DEF Core
  <2>3. \A m \in Nodes : object'[m] = Count(Contexts, puts', m) + Attached(m)'
    <3>1. \A m \in Nodes : Attached(m)' = Attached(m)
      BY <1>0, <2>2, Zenon DEF Attached
    <3>2. QED
      BY <1>0, <2>1, <3>1, ObjectsFacts, Zenon DEF Objects
  <2>4. ObjectsAccounted'
    BY <1>0, <2>3, Zenon DEF ObjectsAccounted, Count, Attached
  <2>5. QED
    BY <1>0, <2>1, <2>4, Zenon DEF Objects
<1>4. QED
  BY <1>0, <1>2, <1>3, Zenon

(* The put() call that a context owes.                                     *)
LEMMA PutObjects ==
  ASSUME Core, Objects, NEW x \in Contexts, Put(x)
  PROVE  Objects'
<1>1. /\ puts[x] \in Nodes /\ object' = [object EXCEPT ![puts[x]] = @ - 1]
      /\ puts' = [puts EXCEPT ![x] = NULL] /\ n_klist' = n_klist
  BY Zenon DEF Put, Objects, list
<1>2. puts' \in [Contexts -> Nodes \cup {NULL}] /\ puts'[x] = NULL
  BY <1>1, Zenon DEF Objects
<1>3. ASSUME NEW m \in Nodes
      PROVE  /\ object'[m] = Count(Contexts, puts', m) + Attached(m)'
             /\ object'[m] \in Nat
  <2>1. \A y \in Contexts : y # x => puts'[y] = puts[y]
    BY <1>1, Zenon DEF Objects
  <2>2. Count(Contexts, puts', m) = Count(Contexts, puts, m) - Ref(m, puts[x]) + Ref(m, puts'[x])
    <3>1. \A f, g : (\A y \in Contexts : y # x => g[y] = f[y])
                     => Count(Contexts, g, m) = Count(Contexts, f, m) - Ref(m, f[x]) + Ref(m, g[x])
      BY CountMove, ContextsFinite
    <3>2. QED
      BY <2>1, <3>1, Zenon
  <2>3. Ref(m, puts'[x]) = 0 /\ Ref(m, puts[x]) = IF m = puts[x] THEN 1 ELSE 0
    BY <1>2, KlistAssumption, Zenon DEF Ref, Contexts
  <2>4. /\ Count(Contexts, puts, m) \in Nat /\ Count(Contexts, puts', m) \in Nat
        /\ Attached(m) \in Nat /\ Attached(m)' = Attached(m)
    BY <1>1, CountType, ContextsFinite, Zenon DEF Attached
  <2>5. object[m] = Count(Contexts, puts, m) + Attached(m)
    BY ObjectsFacts, Zenon DEF Objects
  <2>6. object'[m] = object[m] - IF m = puts[x] THEN 1 ELSE 0
    BY <1>1, <2>4, <2>5 DEF Objects
  <2>7. QED
    BY <2>2, <2>3, <2>4, <2>5, <2>6
<1>4. ObjectsAccounted'
  BY <1>3, Zenon DEF ObjectsAccounted, Count, Attached
<1>5. object' \in [Nodes -> Nat]
  <2>1. object' = [m \in Nodes |-> object'[m]]
    BY <1>1, Zenon DEF Objects
  <2>2. QED
    BY <1>3, <2>1, Zenon
<1>6. QED
  BY <1>2, <1>4, <1>5, Zenon DEF Objects

LEMMA InitNodeObjects ==
  ASSUME Core, Objects, NEW n \in Nodes, klist_node_init(n)
  PROVE  Objects'
<1>1. /\ n_klist[n] = "null" /\ n_klist' = [n_klist EXCEPT ![n] = "live"]
      /\ object' = [object EXCEPT ![n] = @ + 1] /\ puts' = puts
  BY Zenon DEF klist_node_init
<1>2. ASSUME NEW m \in Nodes
      PROVE  object'[m] = Count(Contexts, puts, m) + Attached(m)'
  <2>1. Attached(m)' = IF m = n THEN 1 ELSE Attached(m)
    BY <1>1, Zenon DEF Attached, Core
  <2>2. m = n => Attached(m) = 0
    BY <1>1, Zenon DEF Attached
  <2>3. object[m] = Count(Contexts, puts, m) + Attached(m)
    BY ObjectsFacts, Zenon DEF Objects
  <2>4. object'[m] = object[m] + IF m = n THEN 1 ELSE 0
    BY <1>1 DEF Objects
  <2>5. Count(Contexts, puts, m) \in Nat /\ Attached(m) \in Nat
    BY CountType, ContextsFinite, Zenon DEF Attached
  <2>6. QED
    BY <2>1, <2>2, <2>3, <2>4, <2>5
<1>3. ObjectsAccounted'
  BY <1>1, <1>2, Zenon DEF ObjectsAccounted, Count, Attached
<1>4. object' \in [Nodes -> Nat]
  BY <1>1 DEF Objects
<1>5. QED
  BY <1>1, <1>3, <1>4, Zenon DEF Objects

LEMMA ObjectsUnchanged ==
  ASSUME Objects, UNCHANGED <<n_klist, object, puts>>
  PROVE  Objects'
  BY Zenon DEF Objects, ObjectsAccounted

-----------------------------------------------------------------------------
LEMMA StepOwner ==
  ASSUME IInv, NEW n \in Nodes, Owner(n)
  PROVE  IInv'
<1>0. Core /\ Objects /\ HistoryTypes /\ n \in Contexts
  BY Zenon DEF IInv, Contexts
<1>1. CASE klist_node_init(n)
  <2>1. HistoryTypes'
    BY <1>0, <1>1, Zenon DEF HistoryTypes, klist_node_init
  <2>2. QED
    BY <1>0, <1>1, <2>1, InitNodeCore, InitNodeObjects, Zenon DEF IInv
<1>2. ASSUME NEW j \in 1 .. Len(k_list) + 1, ListAdd(n, j)
      PROVE  IInv'
  <2>1. HistoryTypes'
    BY <1>0, <1>2, Zenon DEF HistoryTypes, ListAdd, history
  <2>2. Objects'
    BY <1>0, <1>2, ObjectsUnchanged, Zenon DEF ListAdd
  <2>3. QED
    BY <1>0, <1>2, <2>1, <2>2, ListAddCore, Zenon DEF IInv
<1>3. CASE klist_add_head(n) \/ klist_add_tail(n)
  <2>1. Len(k_list) \in Nat
    BY <1>0, LenProperties, Zenon DEF Core
  <2>2. QED
    BY <1>2, <1>3, <2>1 DEF klist_add_head, klist_add_tail
<1>4. ASSUME NEW pos \in Nodes, klist_add_behind(n, pos) \/ klist_add_before(n, pos)
      PROVE  IInv'
  <2>1. Index(pos) \in 1 .. Len(k_list) /\ Len(k_list) \in Nat
    BY <1>0, <1>4, InvFacts, LenProperties, Zenon DEF klist_add_behind, klist_add_before, Core
  <2>2. Index(pos) \in 1 .. Len(k_list) + 1 /\ Index(pos) + 1 \in 1 .. Len(k_list) + 1
    BY <2>1
  <2>3. QED
    BY <1>2, <1>4, <2>2, Zenon DEF klist_add_behind, klist_add_before
<1>5. CASE klist_del(n) \/ klist_remove(n)
  <2>1. /\ Deletable(n) /\ klist_put(n, n, TRUE) /\ UNCHANGED <<i_cur, adding, object, i_dir, seen>>
        /\ stayed' = [i \in Iters |-> stayed[i] \ {n}]
        /\ removed' \subseteq removed \cup {n}
    BY <1>5, Zenon DEF klist_del, klist_remove
  <2>2. Core'
    BY <1>0, <2>1, DeleteCore, Zenon
  <2>3. Objects'
    <3> DEFINE killed == [n_klist EXCEPT ![n] = "dead"]
    <3>1. n \in OnList /\ puts[n] = NULL /\ n # NULL
      BY <2>1, KlistAssumption, Zenon DEF Deletable, Contexts
    <3>2. Drops(n, n, killed)
      BY <2>1, <3>1, Zenon DEF klist_put, Drops
    <3>3. QED
      BY <1>0, <3>2, DecAndDelObjects, Zenon
  <2>4. HistoryTypes'
    BY <1>0, <2>1, Zenon DEF HistoryTypes
  <2>5. QED
    BY <2>2, <2>3, <2>4, Zenon DEF IInv
<1>6. QED
  BY <1>1, <1>3, <1>4, <1>5, Zenon DEF Owner

LEMMA StepIterate ==
  ASSUME IInv, NEW i \in Iters, Iterate(i)
  PROVE  IInv'
<1>0. /\ Core /\ Objects /\ HistoryTypes /\ i \in Contexts
      /\ i_cur[i] \in OnList \cup {NULL}
  BY Zenon DEF IInv, Contexts, Core, ListExact
<1>1. ASSUME NEW dir \in {"next", "prev"}, Advance(i, dir)
      PROVE  IInv'
  <2> DEFINE cur == First(i_cur[i], dir)
  <2>1. Core'
    BY <1>0, <1>1, AdvanceCore, Zenon
  <2>2. Objects'
    <3>1. Drops(i, i_cur[i], n_klist)
      BY <1>0, <1>1, Zenon DEF Advance, Drops
    <3>2. \A n, klist : Drops(i, n, klist) => Objects'
      BY <1>0, DecAndDelObjects, Zenon
    <3>3. QED
      BY <3>1, <3>2, Zenon
  <2>3. HistoryTypes'
    <3>1. /\ i_dir[i] # "idle" /\ i_cur' = [i_cur EXCEPT ![i] = cur]
          /\ i_dir' = [i_dir EXCEPT ![i] = IF @ \notin {"start", dir} THEN "mixed"
                                           ELSE IF cur = NULL THEN "end" ELSE dir]
          /\ stayed' = IF i_dir[i] = "start"
                       THEN [stayed EXCEPT ![i] = {k_list[j] : j \in LiveAhead(i_cur[i], dir)}]
                       ELSE stayed
          /\ seen' = [seen EXCEPT ![i] = @ \cup ({cur} \ {NULL})]
          /\ removed' = removed
      BY <1>1, Zenon DEF Advance
    <3>2. cur \in Nodes \cup {NULL}
      BY <1>0, FirstIsLive, Zenon
    <3>3. {k_list[j] : j \in LiveAhead(i_cur[i], dir)} \subseteq Nodes
      <4>1. Len(k_list) \in Nat /\ (i_cur[i] # NULL => Index(i_cur[i]) \in 1 .. Len(k_list))
        BY <1>0, InvFacts, LenProperties, Zenon DEF Core
      <4>2. LiveAhead(i_cur[i], dir) \subseteq 1 .. Len(k_list)
        BY <4>1 DEF LiveAhead, Ahead
      <4>3. QED
        BY <1>0, <4>2 DEF Core
    <3> HIDE DEF cur
    <3>4. i_dir' \in [Iters -> {"idle", "start", "next", "prev", "mixed", "end"}]
      BY <1>0, <3>1, Zenon DEF HistoryTypes
    <3>5. seen' \in [Iters -> SUBSET Nodes] /\ stayed' \in [Iters -> SUBSET Nodes]
      BY <1>0, <3>1, <3>2, <3>3, Zenon DEF HistoryTypes
    <3>6. \A k \in Iters : i_dir'[k] = "idle" => i_cur'[k] = NULL
      BY <1>0, <3>1, Zenon DEF HistoryTypes, Core
    <3>7. QED
      BY <1>0, <3>1, <3>4, <3>5, <3>6, Zenon DEF HistoryTypes
  <2>4. QED
    BY <2>1, <2>2, <2>3, Zenon DEF IInv
<1>2. CASE klist_iter_exit(i)
  <2>1. Core'
    BY <1>0, <1>2, ExitCore, Zenon
  <2>2. Objects'
    <3>1. CASE i_cur[i] # NULL
      <4>1. Drops(i, i_cur[i], n_klist)
        BY <1>0, <1>2, <3>1, Zenon DEF klist_iter_exit, klist_put, Drops
      <4>2. \A n, klist : Drops(i, n, klist) => Objects'
        BY <1>0, DecAndDelObjects, Zenon
      <4>3. QED
        BY <4>1, <4>2, Zenon
    <3>2. CASE i_cur[i] = NULL
      BY <1>0, <1>2, <3>2, ObjectsUnchanged, Zenon DEF klist_iter_exit, list
    <3>3. QED
      BY <3>1, <3>2, Zenon
  <2>3. HistoryTypes'
    <3>1. /\ i_cur' = [i_cur EXCEPT ![i] = NULL] /\ i_dir' = [i_dir EXCEPT ![i] = "idle"]
          /\ stayed' = [stayed EXCEPT ![i] = {}] /\ seen' = [seen EXCEPT ![i] = {}]
          /\ removed' = removed
      BY <1>2, Zenon DEF klist_iter_exit
    <3>2. QED
      BY <1>0, <3>1, Zenon DEF HistoryTypes, Core
  <2>4. QED
    BY <2>1, <2>2, <2>3, Zenon DEF IInv
<1>3. QED
  BY <1>1, <1>2, Zenon DEF Iterate, klist_next, klist_prev

LEMMA StepOther ==
  ASSUME IInv,
         \/ \E i \in Iters : \E n \in Nodes \cup {NULL} : klist_iter_init_node(i, n)
         \/ \E x \in Contexts : Put(x)
  PROVE  IInv'
<1>0. Core /\ Objects /\ HistoryTypes
  BY Zenon DEF IInv
<1>1. ASSUME NEW i \in Iters, NEW n \in Nodes \cup {NULL}, klist_iter_init_node(i, n)
      PROVE  IInv'
  <2>1. i_cur[i] = NULL
    BY <1>0, <1>1, Zenon DEF HistoryTypes, klist_iter_init_node
  <2>2. Core'
    BY <1>0, <1>1, <2>1, IterInitCore, Zenon
  <2>3. Objects'
    BY <1>0, <1>1, ObjectsUnchanged, Zenon DEF klist_iter_init_node
  <2>4. HistoryTypes'
    <3>1. /\ i_dir' = [i_dir EXCEPT ![i] = "start"] /\ UNCHANGED <<stayed, seen, removed>>
          /\ i_cur' = i_cur \/ i_cur' = [i_cur EXCEPT ![i] = n]
      BY <1>1, Zenon DEF klist_iter_init_node
    <3>2. QED
      BY <1>0, <3>1, Zenon DEF HistoryTypes, Core
  <2>5. QED
    BY <2>2, <2>3, <2>4, Zenon DEF IInv
<1>2. ASSUME NEW x \in Contexts, Put(x)
      PROVE  IInv'
  <2>1. Core'
    BY <1>0, <1>2, CoreUnchanged, Zenon DEF Put, list
  <2>2. HistoryTypes'
    BY <1>0, <1>2, Zenon DEF HistoryTypes, Put, history
  <2>3. QED
    BY <1>0, <1>2, <2>1, <2>2, PutObjects, Zenon DEF IInv
<1>3. QED
  BY <1>1, <1>2, Zenon

LEMMA StepNext == IInv /\ [Next]_vars => IInv'
<1> SUFFICES ASSUME IInv, [Next]_vars PROVE IInv'
  BY Zenon
<1>1. CASE UNCHANGED vars
  <2>1. Core' /\ Objects'
    BY <1>1, CoreUnchanged, ObjectsUnchanged, Zenon DEF IInv, vars, list
  <2>2. HistoryTypes'
    BY <1>1, Zenon DEF IInv, HistoryTypes, vars, history
  <2>3. QED
    BY <2>1, <2>2, Zenon DEF IInv
<1>2. CASE Next
  BY <1>2, StepOwner, StepIterate, StepOther, Zenon DEF Next
<1>3. QED
  BY <1>1, <1>2, Zenon

(* The reference count of a node is what the list and the iterators hold,  *)
(* for any number of nodes and iterators: klist_put(), klist_next() and    *)
(* klist_prev() lose no reference and invent none.                         *)
THEOREM RefsCorrect == Spec => []RefsAccounted
<1>1. IInv => RefsAccounted
  BY Zenon DEF IInv, Core
<1>2. QED
  BY InvInit, StepNext, <1>1, PTL DEF Spec

(* A node is on the list exactly as long as it is attached, and every      *)
(* iterator's current node is on the list: the next pointer that           *)
(* klist_next() follows is one of the list's, whoever has deleted the      *)
(* node meanwhile.                                                         *)
THEOREM ListCorrect == Spec => []ListExact
<1>1. IInv => ListExact
  BY Zenon DEF IInv, Core
<1>2. QED
  BY InvInit, StepNext, <1>1, PTL DEF Spec

(* Every get() on an embedding object is matched by one put(), after the   *)
(* node has left the list.                                                 *)
THEOREM ObjectsCorrect == Spec => []ObjectsAccounted
<1>1. IInv => ObjectsAccounted
  BY Zenon DEF IInv, Objects
<1>2. QED
  BY InvInit, StepNext, <1>1, PTL DEF Spec

(* Type correctness.                                                       *)
THEOREM TypeCorrect == Spec => []TypeOK
<1>1. IInv => TypeOK
  BY Zenon DEF IInv, Core, Objects, HistoryTypes, TypeOK
<1>2. QED
  BY InvInit, StepNext, <1>1, PTL DEF Spec

-----------------------------------------------------------------------------
(* An iteration over a klist returns every node that stays on the list,     *)
(* each one once and none that is deleted, for any number of nodes and      *)
(* iterators: list_add() and list_del() keep the other nodes in order, so   *)
(* that the nodes still to be returned stay ahead of the current one.       *)

(* Nodes of s that are in t too follow each other there in the same order. *)
SameOrder(s, t) ==
  \A j, k \in 1 .. Len(t) :
    t[j] \in Elems(s) /\ t[k] \in Elems(s) =>
      \E p, q \in 1 .. Len(s) : /\ s[p] = t[j] /\ s[q] = t[k]
                                /\ j <= k <=> p <= q
                                /\ k <= j <=> q <= p

LEMMA InsertSameOrder ==
  ASSUME NEW S, NEW s \in Seq(S), NEW j \in 1 .. Len(s) + 1, NEW n \in S,
         n \notin Elems(s)
  PROVE  SameOrder(s, list_add(s, j, n))
<1> DEFINE t == list_add(s, j, n)
<1>0. Inserted(t, S, s, j, n)
  BY InsertElements, Zenon
<1>1. /\ Len(t) = Len(s) + 1
      /\ \A k \in 1 .. Len(s) + 1 :
           t[k] = IF k < j THEN s[k] ELSE IF k = j THEN n ELSE s[k - 1]
  BY <1>0, Zenon DEF Inserted
<1> HIDE DEF t
<1> SUFFICES ASSUME NEW a \in 1 .. Len(t), NEW b \in 1 .. Len(t),
                    t[a] \in Elems(s), t[b] \in Elems(s)
             PROVE  \E p, q \in 1 .. Len(s) : /\ s[p] = t[a] /\ s[q] = t[b]
                                              /\ a <= b <=> p <= q
                                              /\ b <= a <=> q <= p
  BY Zenon DEF SameOrder, t
<1> DEFINE p == IF a < j THEN a ELSE a - 1
           q == IF b < j THEN b ELSE b - 1
<1>2. a # j /\ b # j
  BY <1>1
<1>3. p \in 1 .. Len(s) /\ q \in 1 .. Len(s)
  BY <1>1, <1>2
<1>4. s[p] = t[a] /\ s[q] = t[b]
  BY <1>1, <1>2, Zenon
<1>5. (a <= b <=> p <= q) /\ (b <= a <=> q <= p)
  BY <1>1, <1>2
<1> HIDE DEF p, q
<1>6. QED
  BY <1>3, <1>4, <1>5, Zenon

LEMMA RemoveSameOrder ==
  ASSUME NEW S, NEW s \in Seq(S), NEW j \in 1 .. Len(s)
  PROVE  SameOrder(s, list_del(s, j))
<1> DEFINE t == list_del(s, j)
<1>1. /\ Len(t) = Len(s) - 1
      /\ \A k \in 1 .. Len(s) - 1 : t[k] = IF k < j THEN s[k] ELSE s[k + 1]
  BY RemoveElements, Zenon
<1> HIDE DEF t
<1> SUFFICES ASSUME NEW a \in 1 .. Len(t), NEW b \in 1 .. Len(t)
             PROVE  \E p, q \in 1 .. Len(s) : /\ s[p] = t[a] /\ s[q] = t[b]
                                              /\ a <= b <=> p <= q
                                              /\ b <= a <=> q <= p
  BY Zenon DEF SameOrder, t
<1> DEFINE p == IF a < j THEN a ELSE a + 1
           q == IF b < j THEN b ELSE b + 1
<1>3. p \in 1 .. Len(s) /\ q \in 1 .. Len(s)
  BY <1>1
<1>4. s[p] = t[a] /\ s[q] = t[b]
  BY <1>1, Zenon
<1>5. (a <= b <=> p <= q) /\ (b <= a <=> q <= p)
  BY <1>1
<1> HIDE DEF p, q
<1>6. QED
  BY <1>3, <1>4, <1>5, Zenon

LEMMA EqualSameOrder ==
  ASSUME NEW s
  PROVE  SameOrder(s, s)
  BY Zenon DEF SameOrder

-----------------------------------------------------------------------------
(* The nodes of S at or behind cur, and no others of S, are in V.          *)
Passed(s, cur, dir, S, V) ==
  \A j, k \in 1 .. Len(s) :
    s[k] = cur /\ s[j] \in S =>
      (s[j] \in V <=> IF dir = "next" THEN j <= k ELSE k <= j)

LEMMA PassedKept ==
  ASSUME NEW s, NEW t, SameOrder(s, t), NEW cur \in Elems(s), NEW dir,
         NEW S, NEW T \in SUBSET S, S \subseteq Elems(s), NEW V,
         Passed(s, cur, dir, S, V)
  PROVE  Passed(t, cur, dir, T, V)
<1> SUFFICES ASSUME NEW j \in 1 .. Len(t), NEW k \in 1 .. Len(t),
                    t[k] = cur, t[j] \in T
             PROVE  t[j] \in V <=> IF dir = "next" THEN j <= k ELSE k <= j
  BY Zenon DEF Passed
<1>1. PICK p \in 1 .. Len(s), q \in 1 .. Len(s) :
         /\ s[p] = t[j] /\ s[q] = t[k]
         /\ j <= k <=> p <= q
         /\ k <= j <=> q <= p
  BY DEF SameOrder
<1>2. s[p] \in V <=> IF dir = "next" THEN p <= q ELSE q <= p
  BY <1>1, Zenon DEF Passed
<1>3. QED
  BY <1>1, <1>2, Zenon

(* How far iterator i has come.  This is what makes IterationComplete      *)
(* inductive: while an iteration goes in one direction, the nodes that     *)
(* have stayed since it set off are on the list and live, and it has       *)
(* returned exactly those that are not ahead of it.                        *)
Underway(i) ==
  /\ i_dir[i] \in {"idle", "start"} => stayed[i] = {} /\ seen[i] = {}
  /\ i_dir[i] = "end" => stayed[i] \subseteq seen[i]
  /\ i_dir[i] \in {"next", "prev"} =>
       /\ i_cur[i] # NULL
       /\ \A n \in stayed[i] : n \in OnList /\ Live(n)
       /\ Passed(k_list, i_cur[i], i_dir[i], stayed[i], seen[i])

Progress == \A i \in Iters : Underway(i)

LEMMA UnderwayKept ==
  ASSUME Core, NEW i \in Iters, Underway(i), SameOrder(k_list, k_list'),
         i_dir'[i] = i_dir[i], i_cur'[i] = i_cur[i], seen'[i] = seen[i],
         stayed'[i] \subseteq stayed[i],
         \A n \in stayed'[i] : n \in OnList /\ Live(n) => (n \in OnList /\ Live(n))'
  PROVE  Underway(i)'
<1>1. CASE i_dir[i] \in {"next", "prev"}
  <2>1. /\ i_cur[i] # NULL /\ i_cur[i] \in Elems(k_list)
        /\ \A n \in stayed[i] : n \in OnList /\ Live(n)
        /\ stayed[i] \subseteq Elems(k_list)
        /\ Passed(k_list, i_cur[i], i_dir[i], stayed[i], seen[i])
    BY <1>1, InvFacts, Zenon DEF Underway, Core, ListExact
  <2>2. Passed(k_list', i_cur[i], i_dir[i], stayed'[i], seen[i])
    BY <2>1, PassedKept, Zenon
  <2>3. Passed(k_list, i_cur[i], i_dir[i], stayed[i], seen[i])'
    BY <2>2, Zenon DEF Passed
  <2>4. QED
    BY <1>1, <2>1, <2>3, Zenon DEF Underway
<1>2. CASE i_dir[i] \notin {"next", "prev"}
  BY <1>2, Zenon DEF Underway
<1>3. QED
  BY <1>1, <1>2, Zenon

-----------------------------------------------------------------------------
(* What the steps of a context do to the iterations of the others.  Adding *)
(* a node moves no other node and changes the state of none.               *)
LEMMA AddUnderway ==
  ASSUME IInv, Progress, NEW n \in Nodes, NEW j \in 1 .. Len(k_list) + 1,
         ListAdd(n, j)
  PROVE  Progress'
<1>0. Core
  BY Zenon DEF IInv
<1>1. /\ n \in adding /\ k_list' = list_add(k_list, j, n)
      /\ UNCHANGED <<n_klist, i_cur, i_dir, stayed, seen>>
  BY Zenon DEF ListAdd, history
<1>2. n \notin Elems(k_list) /\ k_list \in Seq(Nodes) /\ Uniq(k_list)
  BY <1>0, <1>1, InvFacts, Zenon DEF Core, ListExact
<1>3. SameOrder(k_list, k_list')
  BY <1>1, <1>2, InsertSameOrder, Zenon
<1>4. OnList' = OnList \cup {n}
  <2>1. k_list' \in Seq(Nodes) /\ Elems(k_list') = Elems(k_list) \cup {n} /\ Uniq(k_list')
    BY <1>1, <1>2, InsertSet
  <2>2. QED
    BY <1>0, <1>1, <2>1, InvFacts, Zenon DEF OnList, Elems
<1>5. ASSUME NEW i \in Iters PROVE Underway(i)'
  BY <1>0, <1>1, <1>3, <1>4, UnderwayKept, Zenon DEF Progress, Live
<1>6. QED
  BY <1>5, Zenon DEF Progress

LEMMA InitNodeUnderway ==
  ASSUME IInv, Progress, NEW n \in Nodes, klist_node_init(n)
  PROVE  Progress'
<1>0. Core
  BY Zenon DEF IInv
<1>1. /\ UNCHANGED <<k_list, i_cur, i_dir, stayed, seen>>
      /\ n_klist' = [n_klist EXCEPT ![n] = "live"]
  BY Zenon DEF klist_node_init
<1>2. SameOrder(k_list, k_list') /\ OnList' = OnList
  BY <1>1, EqualSameOrder, Zenon DEF OnList
<1>3. \A m \in Nodes : Live(m) => Live(m)'
  BY <1>0, <1>1, Zenon DEF Live, Core
<1>4. \A i \in Iters : stayed[i] \subseteq Nodes
  BY Zenon DEF IInv, HistoryTypes
<1>5. ASSUME NEW i \in Iters PROVE Underway(i)'
  BY <1>0, <1>1, <1>2, <1>3, <1>4, UnderwayKept, Zenon DEF Progress
<1>6. QED
  BY <1>5, Zenon DEF Progress

(* A deleted node no longer counts as one that stays, whether it leaves    *)
(* the list at once or when the last iterator moves on.                    *)
LEMMA DeleteUnderway ==
  ASSUME IInv, Progress, NEW n \in Nodes, Deletable(n), klist_put(n, n, TRUE),
         UNCHANGED <<i_cur, i_dir, seen>>,
         stayed' = [i \in Iters |-> stayed[i] \ {n}]
  PROVE  Progress'
<1> DEFINE killed == [n_klist EXCEPT ![n] = "dead"]
<1>0. Core /\ n \in OnList /\ n # NULL /\ n \in Contexts
  BY KlistAssumption, Zenon DEF IInv, Deletable, Contexts
<1>1. klist_dec_and_del(n, n, killed)
  BY Zenon DEF klist_put
<1>2. \A m \in Nodes \ {n} : killed[m] = n_klist[m]
  BY <1>0, Zenon DEF Core
<1> HIDE DEF killed
<1>3. SameOrder(k_list, k_list')
  <2>1. Index(n) \in 1 .. Len(k_list) /\ k_list \in Seq(Nodes)
    BY <1>0, InvFacts, Zenon DEF Core
  <2>2. k_list' = k_list \/ k_list' = list_del(k_list, Index(n))
    BY <1>1, Zenon DEF klist_dec_and_del
  <2>3. QED
    BY <2>1, <2>2, EqualSameOrder, RemoveSameOrder, Zenon
<1>4. /\ OnList \ {n} \subseteq OnList'
      /\ n_klist' \in {killed, [killed EXCEPT ![n] = "null"]}
  BY <1>0, <1>1, DecAndDel, Zenon
<1>5. \A m \in Nodes \ {n} : n_klist'[m] = n_klist[m]
  BY <1>0, <1>2, <1>4, Zenon DEF Core, killed
<1>6. ASSUME NEW i \in Iters PROVE Underway(i)'
  <2>1. stayed'[i] = stayed[i] \ {n} /\ stayed[i] \subseteq Nodes
    BY Zenon DEF IInv, HistoryTypes
  <2>2. \A m \in stayed'[i] : m \in OnList /\ Live(m) => (m \in OnList /\ Live(m))'
    BY <1>4, <1>5, <2>1, Zenon DEF Live
  <2>3. QED
    BY <1>0, <1>3, <2>1, <2>2, UnderwayKept, Zenon DEF Progress
<1>7. QED
  BY <1>6, Zenon DEF Progress

(* An iterator that leaves its node removes it from the list only when it  *)
(* is deleted.                                                             *)
LEMMA LeaveKeepsLive ==
  ASSUME Core, NEW i \in Iters, klist_dec_and_del(i, i_cur[i], n_klist)
  PROVE  /\ SameOrder(k_list, k_list')
         /\ \A n \in Nodes : n \in OnList /\ Live(n) => (n \in OnList /\ Live(n))'
<1> DEFINE last == i_cur[i]
<1>1. CASE last # NULL /\ n_ref[last] = 1
  <2>1. /\ last \in OnList /\ last \in Nodes /\ i \in Contexts
        /\ Index(last) \in 1 .. Len(k_list) /\ k_list \in Seq(Nodes)
    BY <1>1, InvFacts, Zenon DEF Core, ListExact, Contexts
  <2>2. ~Live(last)
    <3>1. n_ref[last] = Count(Iters, i_cur, last) + (IF Live(last) THEN 1 ELSE 0)
      BY <2>1, InvFacts, Zenon
    <3>2. Count(Iters, i_cur, last) \in Nat /\ Count(Iters, i_cur, last) # 0
      BY CountType, KlistAssumption
    <3>3. QED
      BY <1>1, <3>1, <3>2
  <2>3. k_list' = list_del(k_list, Index(last))
    BY <1>1, Zenon DEF klist_dec_and_del
  <2>4. SameOrder(k_list, k_list')
    BY <2>1, <2>3, RemoveSameOrder, Zenon
  <2>5. OnList' = OnList \ {last} /\ n_klist' = [n_klist EXCEPT ![last] = "null"]
    BY <1>1, <2>1, DecAndDel, Zenon
  <2>6. QED
    BY <2>1, <2>2, <2>4, <2>5, InvFacts, Zenon DEF Live, Core
<1>2. CASE ~(last # NULL /\ n_ref[last] = 1)
  <2>1. k_list' = k_list /\ n_klist' = n_klist
    BY <1>2, Zenon DEF klist_dec_and_del
  <2>2. QED
    BY <2>1, EqualSameOrder, Zenon DEF Live, OnList
<1>3. QED
  BY <1>1, <1>2, Zenon

-----------------------------------------------------------------------------
(* What klist_next() and klist_prev() return is the nearest live node      *)
(* ahead, and they return NULL when there is none.                         *)
LEMMA FirstIsNearest ==
  ASSUME Core, NEW i \in Iters, NEW dir \in {"next", "prev"}
  PROVE  LET cur == First(i_cur[i], dir)
             js == LiveAhead(i_cur[i], dir)
         IN /\ js \subseteq 1 .. Len(k_list)
            /\ \A k \in js : Live(k_list[k])
            /\ cur = NULL => js = {}
            /\ cur # NULL =>
                 \E j \in js : /\ cur = k_list[j]
                               /\ \A k \in js : IF dir = "next" THEN j <= k ELSE k <= j
<1> DEFINE js == LiveAhead(i_cur[i], dir)
           j == IF dir = "next" THEN Min(js) ELSE Max(js)
<1>1. Len(k_list) \in Nat /\ (i_cur[i] # NULL => Index(i_cur[i]) \in 1 .. Len(k_list))
  BY InvFacts, LenProperties, Zenon DEF Core, ListExact
<1>2. /\ js \in SUBSET (1 .. Len(k_list)) /\ js \in SUBSET Nat
      /\ \A k \in js : Live(k_list[k])
  BY <1>1 DEF LiveAhead, Ahead
<1>3. First(i_cur[i], dir) = IF js = {} THEN NULL ELSE k_list[j]
  BY Zenon DEF First
<1> HIDE DEF js
<1>4. CASE js = {}
  BY <1>2, <1>3, <1>4, Zenon DEF js
<1>5. CASE js # {}
  <2>1. /\ j \in js
        /\ \A k \in js : IF dir = "next" THEN j <= k ELSE k <= j
    <3>1. CASE dir = "next"
      BY <1>2, <1>5, <3>1, MinElement, Zenon
    <3>2. CASE dir = "prev"
      BY <1>1, <1>2, <1>5, <3>2, MaxElement, Zenon
    <3>3. QED
      BY <3>1, <3>2, Zenon
  <2> HIDE DEF j
  <2>2. k_list[j] # NULL
    BY <1>2, <2>1, KlistAssumption DEF Core, Contexts
  <2>3. QED
    BY <1>2, <1>3, <1>5, <2>1, <2>2, Zenon DEF js
<1>6. QED
  BY <1>4, <1>5, Zenon

(* The nodes that have stayed and are not ahead of an iterator have been   *)
(* returned, and those ahead of it have not.                               *)
LEMMA BehindIsSeen ==
  ASSUME IInv, NEW i \in Iters, Underway(i), NEW dir \in {"next", "prev"},
         i_dir[i] = dir, NEW j \in 1 .. Len(k_list), k_list[j] \in stayed[i]
  PROVE  /\ Live(k_list[j])
         /\ k_list[j] \notin seen[i] <=> j \in LiveAhead(i_cur[i], dir)
<1> DEFINE last == i_cur[i]
           k == Index(last)
<1>1. /\ last # NULL /\ Live(k_list[j])
      /\ Passed(k_list, last, dir, stayed[i], seen[i])
  BY Zenon DEF Underway
<1>2. k \in 1 .. Len(k_list) /\ k_list[k] = last /\ Len(k_list) \in Nat
  BY <1>1, InvFacts, LenProperties, Zenon DEF IInv, Core, ListExact
<1>3. j \in LiveAhead(last, dir) <=> j \in Ahead(last, dir)
  BY <1>1, Zenon DEF LiveAhead, Ahead
<1>4. j \in Ahead(last, dir) <=> ~(IF dir = "next" THEN j <= k ELSE k <= j)
  BY <1>1, <1>2 DEF Ahead
<1> HIDE DEF k
<1>5. k_list[j] \in seen[i] <=> IF dir = "next" THEN j <= k ELSE k <= j
  BY <1>1, <1>2, Zenon DEF Passed
<1>6. QED
  BY <1>1, <1>3, <1>4, <1>5, Zenon

(* When an iteration sets off all nodes that are to be returned are ahead  *)
(* of it, and later on those it has not returned.                          *)
LEMMA StayedAhead ==
  ASSUME IInv, NEW i \in Iters, Underway(i), NEW dir \in {"next", "prev"},
         Advance(i, dir), i_dir[i] \in {"start", dir}
  PROVE  /\ stayed'[i] \subseteq OnList
         /\ \A j \in 1 .. Len(k_list) :
              k_list[j] \in stayed'[i] =>
                /\ Live(k_list[j])
                /\ k_list[j] \notin seen[i] <=> j \in LiveAhead(i_cur[i], dir)
<1> DEFINE js == LiveAhead(i_cur[i], dir)
<1>0. Core /\ Uniq(k_list) /\ js \subseteq 1 .. Len(k_list) /\ \A k \in js : Live(k_list[k])
  BY InvFacts, FirstIsNearest, Zenon DEF IInv
<1>1. CASE i_dir[i] = "start"
  <2>1. stayed'[i] = {k_list[j] : j \in js} /\ seen[i] = {}
    BY <1>1, Zenon DEF Advance, Underway, IInv, HistoryTypes
  <2> HIDE DEF js
  <2>2. \A j \in 1 .. Len(k_list) : k_list[j] \in stayed'[i] => j \in js
    BY <1>0, <2>1 DEF Uniq
  <2>3. stayed'[i] \subseteq OnList
    BY <1>0, <2>1, Zenon DEF OnList
  <2>4. QED
    BY <1>0, <2>1, <2>2, <2>3, Zenon DEF js
<1>2. CASE i_dir[i] = dir
  <2>1. stayed'[i] = stayed[i]
    BY <1>2, Zenon DEF Advance
  <2>2. stayed[i] \subseteq OnList
    BY <1>2, Zenon DEF Underway
  <2>3. QED
    BY <1>2, <2>1, <2>2, BehindIsSeen, Zenon
<1>3. QED
  BY <1>1, <1>2, Zenon

(* klist_next() and klist_prev() for the iterator itself.                  *)
LEMMA AdvanceUnderway ==
  ASSUME IInv, NEW i \in Iters, Underway(i), NEW dir \in {"next", "prev"},
         Advance(i, dir)
  PROVE  Underway(i)'
<1> DEFINE cur == First(i_cur[i], dir)
           js == LiveAhead(i_cur[i], dir)
<1>0. Core /\ Uniq(k_list) /\ OnList = Elems(k_list)
  BY InvFacts, Zenon DEF IInv
<1>1. /\ i_cur'[i] = cur /\ seen'[i] = seen[i] \cup ({cur} \ {NULL})
      /\ i_dir'[i] = IF i_dir[i] \notin {"start", dir} THEN "mixed"
                     ELSE IF cur = NULL THEN "end" ELSE dir
  BY Zenon DEF Advance, IInv, HistoryTypes, Core
<1>2. CASE i_dir[i] \notin {"start", dir}
  BY <1>1, <1>2, Zenon DEF Underway
<1>3. CASE i_dir[i] \in {"start", dir}
  <2>1. /\ stayed'[i] \subseteq OnList
        /\ \A j \in 1 .. Len(k_list) :
             k_list[j] \in stayed'[i] =>
               Live(k_list[j]) /\ (k_list[j] \notin seen[i] <=> j \in js)
    BY <1>3, StayedAhead, Zenon
  <2>2. /\ js \subseteq 1 .. Len(k_list)
        /\ cur = NULL => js = {}
        /\ cur # NULL =>
             \E j \in js : /\ cur = k_list[j]
                           /\ \A k \in js : IF dir = "next" THEN j <= k ELSE k <= j
    BY <1>0, FirstIsNearest, Zenon
  <2> HIDE DEF cur, js
  <2>3. \A n \in stayed'[i] : \E j \in 1 .. Len(k_list) : n = k_list[j]
    BY <2>1, Zenon DEF OnList
  <2>4. CASE cur = NULL
    <3>1. stayed'[i] \subseteq seen[i]
      BY <2>1, <2>2, <2>3, <2>4, Zenon
    <3>2. QED
      BY <1>1, <1>3, <2>4, <3>1, Zenon DEF Underway
  <2>5. CASE cur # NULL
    <3>1. PICK j \in js : /\ cur = k_list[j]
                          /\ \A k \in js : IF dir = "next" THEN j <= k ELSE k <= j
      BY <2>2, <2>5, Zenon
    <3>2. Passed(k_list, cur, dir, stayed'[i], seen'[i])
      <4> SUFFICES ASSUME NEW a \in 1 .. Len(k_list), NEW b \in 1 .. Len(k_list),
                          k_list[b] = cur, k_list[a] \in stayed'[i]
                   PROVE  k_list[a] \in seen'[i] <=> IF dir = "next" THEN a <= b ELSE b <= a
        BY Zenon DEF Passed
      <4>1. b = j
        BY <1>0, <2>2, <3>1, Zenon DEF Uniq
      <4>2. k_list[a] = cur <=> a = j
        BY <1>0, <2>2, <3>1, Zenon DEF Uniq
      <4>3. k_list[a] \in seen'[i] <=> a \notin js \/ a = j
        BY <1>1, <2>1, <2>5, <4>2, Zenon
      <4>4. a \notin js => IF dir = "next" THEN a <= j ELSE j <= a
        <5>1. Live(k_list[a])
          BY <2>1, Zenon
        <5>2. Len(k_list) \in Nat /\ (i_cur[i] # NULL => Index(i_cur[i]) \in 1 .. Len(k_list))
          BY <1>0, InvFacts, LenProperties, Zenon DEF Core, ListExact
        <5>3. QED
          BY <3>1, <5>1, <5>2 DEF js, LiveAhead, Ahead
      <4>5. a \in js /\ a # j => ~(IF dir = "next" THEN a <= j ELSE j <= a)
        BY <2>2, <3>1
      <4>6. QED
        BY <4>1, <4>3, <4>4, <4>5
    <3>3. /\ SameOrder(k_list, k_list')
          /\ \A n \in Nodes : n \in OnList /\ Live(n) => (n \in OnList /\ Live(n))'
      BY <1>0, LeaveKeepsLive, Zenon DEF Advance
    <3>4. cur \in Elems(k_list) /\ stayed'[i] \subseteq Elems(k_list)
      BY <1>0, <2>1, <2>2, <3>1, Zenon DEF Elems
    <3>5. Passed(k_list', cur, dir, stayed'[i], seen'[i])
      BY <3>2, <3>3, <3>4, PassedKept, Zenon
    <3>6. \A n \in stayed'[i] : (n \in OnList /\ Live(n))'
      BY <1>0, <2>1, <2>3, <3>3 DEF Core
    <3>7. i_dir'[i] = dir
      BY <1>1, <1>3, <2>5, Zenon
    <3>8. Passed(k_list, i_cur[i], i_dir[i], stayed[i], seen[i])'
      BY <1>1, <3>5, <3>7, Zenon DEF Passed
    <3>9. QED
      BY <1>1, <2>5, <3>6, <3>7, <3>8, Zenon DEF Underway
  <2>6. QED
    BY <2>4, <2>5, Zenon
<1>4. QED
  BY <1>2, <1>3, Zenon

-----------------------------------------------------------------------------
LEMMA ProgressInit == Init => Progress
  BY Zenon DEF Init, Progress, Underway

LEMMA ProgressOwner ==
  ASSUME IInv, Progress, NEW n \in Nodes, Owner(n)
  PROVE  Progress'
<1>1. CASE klist_node_init(n)
  BY <1>1, InitNodeUnderway, Zenon
<1>2. CASE klist_add_head(n) \/ klist_add_tail(n)
  <2>1. Len(k_list) \in Nat
    BY LenProperties, Zenon DEF IInv, Core
  <2>2. QED
    BY <1>2, <2>1, AddUnderway DEF klist_add_head, klist_add_tail
<1>3. ASSUME NEW pos \in Nodes, klist_add_behind(n, pos) \/ klist_add_before(n, pos)
      PROVE  Progress'
  <2>1. Index(pos) \in 1 .. Len(k_list) /\ Len(k_list) \in Nat
    BY <1>3, InvFacts, LenProperties, Zenon DEF klist_add_behind, klist_add_before, IInv, Core
  <2>2. Index(pos) \in 1 .. Len(k_list) + 1 /\ Index(pos) + 1 \in 1 .. Len(k_list) + 1
    BY <2>1
  <2>3. QED
    BY <1>3, <2>2, AddUnderway, Zenon DEF klist_add_behind, klist_add_before
<1>4. CASE klist_del(n) \/ klist_remove(n)
  BY <1>4, DeleteUnderway, Zenon DEF klist_del, klist_remove
<1>5. QED
  BY <1>1, <1>2, <1>3, <1>4, Zenon DEF Owner

LEMMA ProgressIterate ==
  ASSUME IInv, Progress, NEW i \in Iters, Iterate(i)
  PROVE  Progress'
<1>0. Core /\ HistoryTypes
  BY Zenon DEF IInv
<1>1. ASSUME NEW dir \in {"next", "prev"}, Advance(i, dir)
      PROVE  Progress'
  <2>1. Underway(i)'
    BY <1>1, AdvanceUnderway, Zenon DEF Progress
  <2>2. ASSUME NEW k \in Iters \ {i} PROVE Underway(k)'
    <3>1. /\ i_dir'[k] = i_dir[k] /\ i_cur'[k] = i_cur[k] /\ seen'[k] = seen[k]
          /\ stayed'[k] = stayed[k] /\ stayed[k] \subseteq Nodes
      BY <1>0, <1>1, Zenon DEF Advance, HistoryTypes, Core
    <3>2. klist_dec_and_del(i, i_cur[i], n_klist)
      BY <1>1, Zenon DEF Advance
    <3>3. /\ SameOrder(k_list, k_list')
          /\ \A n \in Nodes : n \in OnList /\ Live(n) => (n \in OnList /\ Live(n))'
      BY <1>0, <3>2, LeaveKeepsLive, Zenon
    <3>4. QED
      BY <1>0, <3>1, <3>3, UnderwayKept, Zenon DEF Progress
  <2>3. QED
    BY <2>1, <2>2, Zenon DEF Progress
<1>2. CASE klist_iter_exit(i)
  <2>0. /\ i_dir' = [i_dir EXCEPT ![i] = "idle"] /\ i_cur' = [i_cur EXCEPT ![i] = NULL]
        /\ stayed' = [stayed EXCEPT ![i] = {}] /\ seen' = [seen EXCEPT ![i] = {}]
    BY <1>2, Zenon DEF klist_iter_exit
  <2>1. Underway(i)'
    BY <1>0, <2>0, Zenon DEF Underway, HistoryTypes
  <2>2. ASSUME NEW k \in Iters \ {i} PROVE Underway(k)'
    <3>1. /\ i_dir'[k] = i_dir[k] /\ i_cur'[k] = i_cur[k] /\ seen'[k] = seen[k]
          /\ stayed'[k] = stayed[k] /\ stayed[k] \subseteq Nodes
      BY <1>0, <2>0, Zenon DEF HistoryTypes, Core
    <3>2. klist_dec_and_del(i, i_cur[i], n_klist) \/ UNCHANGED list
      BY <1>2, Zenon DEF klist_iter_exit, klist_put
    <3>3. /\ SameOrder(k_list, k_list')
          /\ \A n \in Nodes : n \in OnList /\ Live(n) => (n \in OnList /\ Live(n))'
      <4>1. CASE klist_dec_and_del(i, i_cur[i], n_klist)
        BY <1>0, <4>1, LeaveKeepsLive, Zenon
      <4>2. CASE UNCHANGED list
        BY <4>2, EqualSameOrder, Zenon DEF list, OnList, Live
      <4>3. QED
        BY <3>2, <4>1, <4>2, Zenon
    <3>4. QED
      BY <1>0, <3>1, <3>3, UnderwayKept, Zenon DEF Progress
  <2>3. QED
    BY <2>1, <2>2, Zenon DEF Progress
<1>3. QED
  BY <1>1, <1>2, Zenon DEF Iterate, klist_next, klist_prev

LEMMA ProgressStep == IInv /\ Progress /\ [Next]_vars => Progress'
<1> SUFFICES ASSUME IInv, Progress, [Next]_vars PROVE Progress'
  BY Zenon
<1>0. HistoryTypes
  BY Zenon DEF IInv
<1>1. CASE UNCHANGED <<k_list, n_klist, i_cur, i_dir, stayed, seen>>
  BY <1>1 DEF Progress, Underway, Passed, OnList, Live
<1>2. ASSUME NEW i \in Iters, NEW n \in Nodes \cup {NULL}, klist_iter_init_node(i, n)
      PROVE  Progress'
  <2>1. /\ i_dir[i] = "idle" /\ i_dir' = [i_dir EXCEPT ![i] = "start"]
        /\ UNCHANGED <<k_list, n_klist, stayed, seen>>
        /\ \A k \in Iters \ {i} : i_cur'[k] = i_cur[k]
    BY <1>2, Zenon DEF klist_iter_init_node, IInv, Core
  <2>2. Underway(i)'
    BY <1>0, <2>1, Zenon DEF Progress, Underway, HistoryTypes
  <2>3. ASSUME NEW k \in Iters \ {i} PROVE Underway(k)'
    BY <1>0, <2>1 DEF Progress, Underway, Passed, OnList, Live, HistoryTypes
  <2>4. QED
    BY <2>2, <2>3, Zenon DEF Progress
<1>3. ASSUME NEW x \in Contexts, Put(x)
      PROVE  Progress'
  BY <1>1, <1>3, Zenon DEF Put, list, history
<1>4. CASE UNCHANGED vars
  BY <1>1, <1>4, Zenon DEF vars, list, history
<1>5. QED
  BY <1>2, <1>3, <1>4, ProgressOwner, ProgressIterate, Zenon DEF Next

(* The step of IterationSound, for iterator i.                             *)
SoundStep(i) ==
  /\ i_dir'[i] \in {"next", "prev"} /\ i_cur'[i] # i_cur[i] =>
       i_cur'[i] \notin seen[i] \cap stayed[i]
  /\ i_dir[i] # "idle" /\ i_cur'[i] \notin {i_cur[i], NULL} =>
       n_klist'[i_cur'[i]] = "live"

LEMMA AdvanceSound ==
  ASSUME IInv, NEW i \in Iters, Underway(i), NEW dir \in {"next", "prev"},
         Advance(i, dir)
  PROVE  SoundStep(i)
<1> DEFINE cur == First(i_cur[i], dir)
<1>0. Core
  BY Zenon DEF IInv
<1>1. /\ i_cur'[i] = cur
      /\ i_dir'[i] = IF i_dir[i] \notin {"start", dir} THEN "mixed"
                     ELSE IF cur = NULL THEN "end" ELSE dir
  BY <1>0, Zenon DEF Advance, IInv, HistoryTypes, Core
<1>2. ASSUME i_dir'[i] \in {"next", "prev"}
      PROVE  cur \notin seen[i] \cap stayed[i]
  <2>1. i_dir[i] \in {"start", dir} /\ cur # NULL
    BY <1>1, <1>2, Zenon
  <2>2. CASE i_dir[i] = "start"
    BY <2>2, Zenon DEF Underway
  <2>3. CASE i_dir[i] = dir
    <3>1. PICK j \in LiveAhead(i_cur[i], dir) : j \in 1 .. Len(k_list) /\ cur = k_list[j]
      BY <1>0, <2>1, FirstIsNearest, Zenon
    <3>2. QED
      BY <2>3, <3>1, BehindIsSeen, Zenon
  <2>4. QED
    BY <2>1, <2>2, <2>3, Zenon
<1>3. cur # NULL => n_klist'[cur] = "live"
  <2>1. cur # NULL => cur \in OnList /\ cur \in Nodes /\ Live(cur)
    BY <1>0, FirstIsLive, Zenon
  <2> HIDE DEF cur
  <2>2. QED
    BY <1>0, <2>1, LeaveKeepsLive, Zenon DEF Advance, Live
<1>4. QED
  BY <1>1, <1>2, <1>3, Zenon DEF SoundStep

LEMMA StepSound ==
  ASSUME IInv, Progress, Next, NEW k \in Iters
  PROVE  SoundStep(k)
<1>0. Core /\ HistoryTypes
  BY Zenon DEF IInv
<1>1. CASE i_cur'[k] = i_cur[k]
  BY <1>1, Zenon DEF SoundStep
<1>2. ASSUME NEW i \in Iters, Iterate(i)
      PROVE  SoundStep(k)
  <2>1. ASSUME NEW dir \in {"next", "prev"}, Advance(i, dir)
        PROVE  SoundStep(k)
    <3>1. CASE i = k
      BY <2>1, <3>1, AdvanceSound, Zenon DEF Progress
    <3>2. CASE i # k
      BY <1>0, <1>1, <2>1, <3>2, Zenon DEF Advance, Core
    <3>3. QED
      BY <3>1, <3>2, Zenon
  <2>2. CASE klist_iter_exit(i)
    BY <1>0, <2>2, Zenon DEF klist_iter_exit, SoundStep, Core, HistoryTypes
  <2>3. QED
    BY <1>2, <2>1, <2>2, Zenon DEF Iterate, klist_next, klist_prev
<1>3. ASSUME NEW i \in Iters, NEW n \in Nodes \cup {NULL}, klist_iter_init_node(i, n)
      PROVE  SoundStep(k)
  BY <1>0, <1>3, Zenon DEF klist_iter_init_node, SoundStep, Core, HistoryTypes
<1>4. ASSUME NEW n \in Nodes, Owner(n)
      PROVE  SoundStep(k)
  <2>1. i_cur' = i_cur
    BY <1>4, Zenon DEF Owner, klist_node_init, klist_add_head, klist_add_tail, klist_add_behind,
                klist_add_before, ListAdd, klist_del, klist_remove
  <2>2. QED
    BY <1>1, <2>1, Zenon
<1>5. ASSUME NEW x \in Contexts, Put(x)
      PROVE  SoundStep(k)
  BY <1>1, <1>5, Zenon DEF Put
<1>6. QED
  BY <1>2, <1>3, <1>4, <1>5, Zenon DEF Next

(* An iteration that klist_next() or klist_prev() has ended with NULL has  *)
(* returned every node that was ahead when it set off and was never        *)
(* deleted, however many nodes were added, deleted and released meanwhile. *)
THEOREM EveryNodeReturned == Spec => []IterationComplete
<1>1. Progress => IterationComplete
  BY Zenon DEF Progress, Underway, IterationComplete
<1>2. QED
  BY InvInit, StepNext, ProgressInit, ProgressStep, <1>1, PTL DEF Spec

(* ... and returns no such node twice, and no node that is deleted at that *)
(* moment.                                                                 *)
THEOREM NoNodeTwice == Spec => IterationSound
<1>1. IInv /\ Progress /\ [Next]_vars => [\A i \in Iters : SoundStep(i)]_vars
  BY StepSound, Zenon
<1>2. QED
  BY InvInit, StepNext, ProgressInit, ProgressStep, <1>1, PTL
     DEF Spec, IterationSound, SoundStep

=============================================================================
