--------------------------- MODULE VringSplitLists ---------------------------
(***************************************************************************)
(* The descriptors of a split ring are partitioned into the free list and  *)
(* the chains of the buffers, for every size of the ring and any number    *)
(* of buffers, and the chain of a buffer is its scatterlist.               *)
(*                                                                         *)
(* FreeChain and ChainOf are recursive functions.  What they return is     *)
(* shown by giving the function that solves their equation, from a         *)
(* labelling of the descriptors, and by the least index at which another   *)
(* solution would differ.                                                  *)
(***************************************************************************)
EXTENDS VringSplit, TLAPS

(* Facts about finite sets and numbers that the lemmas are given as a      *)
(* hypothesis; VringSplitProofs takes them from FiniteSetTheorems.         *)
FiniteLaws ==
  /\ \A T \in SUBSET Nat : T # {} => \E x \in T : \A y \in T : x <= y
  /\ \A m \in Nat : \A f \in [1 .. m -> Descs] :
       (\A j, k \in 1 .. m : f[j] = f[k] => j = k) => m <= Num
  /\ \A m \in Nat : Cardinality(1 .. m) = m
  /\ \A S \in SUBSET Descs : IsFiniteSet(S) /\ Cardinality(S) \in 0 .. Num
  /\ \A S \in SUBSET Descs, x \in Descs :
       /\ Cardinality(S \cup {x}) = IF x \in S THEN Cardinality(S) ELSE Cardinality(S) + 1
       /\ Cardinality(S \ {x}) = IF x \in S THEN Cardinality(S) - 1 ELSE Cardinality(S)
  /\ Cardinality({}) = 0

-----------------------------------------------------------------------------
(* The list a descriptor is in, the chain of a head or the free list, for  *)
(* which NoDesc stands, and its place there.                               *)
Lists == Heads \cup {NoDesc}

Size(o) ==
  IF o = NoDesc THEN num_free
  ELSE IF indir_desc[o] THEN 1 ELSE TotalSg[data[o]]

(* Every list has a descriptor at each of its places, and only one.        *)
Placed(own, rank) ==
  /\ \A i \in Descs : own[i] \in Lists /\ rank[i] <= Size(own[i])
  /\ \A i, j \in Descs : own[i] = own[j] /\ rank[i] = rank[j] => i = j
  /\ \A o \in Lists : \A k \in 1 .. Size(o) :
       \E i \in Descs : own[i] = o /\ rank[i] = k

(* extra_next leads from each place to the next.                           *)
Linked(own, rank) ==
  /\ \A h \in Heads : own[h] = h /\ rank[h] = 1
  /\ num_free > 0 => own[free_head] = NoDesc /\ rank[free_head] = 1
  /\ \A i \in Descs :
       rank[i] < Size(own[i]) => /\ own[extra_next[i]] = own[i]
                                 /\ rank[extra_next[i]] = rank[i] + 1

(* What virtqueue_add_desc_split() has written.                            *)
Content(o, k, next) ==
  IF o = NoDesc THEN Unmapped
  ELSE [segs |-> IF indir_desc[o] THEN SegsOf(data[o]) ELSE << <<data[o], k>> >>,
        next |-> IF k < Size(o) THEN next ELSE NoDesc]

Filled(own, rank) ==
  /\ \A h \in Heads : indir_desc[h] => TotalSg[data[h]] > 1
  /\ desc = [i \in Descs |-> Content(own[i], rank[i], extra_next[i])]

Labelling(own, rank) ==
  /\ own \in [Descs -> Descs \cup {NoDesc}]
  /\ rank \in [Descs -> Nat \ {0}]
  /\ Placed(own, rank) /\ Linked(own, rank) /\ Filled(own, rank)

ListTypes ==
  /\ free_head \in Descs /\ num_free \in Nat /\ extra_next \in [Descs -> Descs]
  /\ data \in [Descs -> Bufs \cup {NoBuf}] /\ indir_desc \in [Descs -> BOOLEAN]

(* The inductive invariant.                                                *)
Structure == ListTypes /\ \E own, rank : Labelling(own, rank)

LEMMA Constants ==
  /\ Num \in Nat \ {0} /\ Num \notin Descs /\ NoDesc = Num
  /\ \A i \in Descs : i \in Nat
  /\ Heads \subseteq Descs /\ \A h \in Heads : h # NoDesc
  BY SplitAssumption DEF Descs, NoDesc, Heads

LEMMA SizeType ==
  ASSUME FiniteLaws, ListTypes, NEW own, NEW rank, Labelling(own, rank), NEW o \in Lists
  PROVE  Size(o) \in 0 .. Num /\ (o \in Heads => Size(o) # 0)
<1>1. Size(o) \in Nat /\ (o \in Heads => Size(o) # 0)
  BY Constants, SplitAssumption DEF Size, ListTypes, Lists, Heads
<1> DEFINE f == [k \in 1 .. Size(o) |-> CHOOSE i \in Descs : own[i] = o /\ rank[i] = k]
<1>2. \A k \in 1 .. Size(o) : f[k] \in Descs /\ own[f[k]] = o /\ rank[f[k]] = k
  BY Zenon DEF Labelling, Placed
<1>3. f \in [1 .. Size(o) -> Descs]
  BY <1>2, Zenon
<1> HIDE DEF f
<1>4. \A j, k \in 1 .. Size(o) : f[j] = f[k] => j = k
  BY <1>2, Zenon
<1>5. Size(o) <= Num
  <2>1. \A n \in Nat : \A g \in [1 .. n -> Descs] :
          (\A j, k \in 1 .. n : g[j] = g[k] => j = k) => n <= Num
    BY Zenon DEF FiniteLaws
  <2>2. QED
    BY <1>1, <1>3, <1>4, <2>1, Zenon
<1>6. QED
  BY <1>1, <1>5, Constants

(* The first n descriptors of the free list.                               *)
LEMMA FreeChainIs ==
  ASSUME FiniteLaws, ListTypes, NEW own, NEW rank, Labelling(own, rank), NEW n \in 0 .. num_free
  PROVE  LET c == FreeChain(free_head, n)
         IN  /\ c \in Seq(Descs) /\ Len(c) = n
             /\ \A k \in 1 .. n : c[k] \in Descs /\ own[c[k]] = NoDesc /\ rank[c[k]] = k
<1> DEFINE c == FreeChain(free_head, n)
           d == [k \in 1 .. n |-> CHOOSE i \in Descs : own[i] = NoDesc /\ rank[i] = k]
<1>0. num_free \in Nat /\ n \in Nat /\ n <= num_free
  BY Constants DEF ListTypes
<1>1. /\ d = [k \in 1 .. n |-> d[k]]
      /\ \A k \in 1 .. n : d[k] \in Descs /\ own[d[k]] = NoDesc /\ rank[d[k]] = k
  BY <1>0 DEF Labelling, Placed, Lists, Size
<1> HIDE DEF d
<1>2. \A k \in 1 .. n : d[k] = IF k = 1 THEN free_head ELSE extra_next[d[k - 1]]
  <2> TAKE k \in 1 .. n
  <2>1. CASE k = 1
    <3>1. own[free_head] = NoDesc /\ rank[free_head] = 1 /\ free_head \in Descs
      BY <1>0, <2>1 DEF Labelling, Linked, ListTypes
    <3>2. QED
      BY <1>1, <2>1, <3>1 DEF Labelling, Placed
  <2>2. CASE k # 1
    <3>1. k - 1 \in 1 .. n /\ k - 1 < num_free
      BY <1>0, <2>2
    <3>2. d[k - 1] \in Descs /\ own[d[k - 1]] = NoDesc /\ rank[d[k - 1]] = k - 1
      BY <1>1, <3>1, Zenon
    <3>3. own[extra_next[d[k - 1]]] = NoDesc /\ rank[extra_next[d[k - 1]]] = (k - 1) + 1
      BY <3>1, <3>2, Zenon DEF Labelling, Linked, Size
    <3>4. extra_next[d[k - 1]] \in Descs
      BY <3>2, Zenon DEF ListTypes
    <3>5. QED
      BY <1>1, <2>2, <3>3, <3>4 DEF Labelling, Placed
  <2>3. QED
    BY <2>1, <2>2, Zenon
<1>3. d = [k \in 1 .. n |-> IF k = 1 THEN free_head ELSE extra_next[d[k - 1]]]
  BY <1>1, <1>2, Zenon
<1>4. c = [k \in 1 .. n |-> IF k = 1 THEN free_head ELSE extra_next[c[k - 1]]]
  <2>1. \E e : e = [k \in 1 .. n |-> IF k = 1 THEN free_head ELSE extra_next[e[k - 1]]]
    BY <1>3, Zenon
  <2>2. QED
    BY <2>1, Zenon DEF FreeChain
<1> HIDE DEF c
<1>5. \A k \in 1 .. n : c[k] = d[k]
  <2> DEFINE T == {k \in 1 .. n : c[k] # d[k]}
  <2>1. SUFFICES ASSUME T # {} PROVE FALSE
    BY Zenon
  <2>2. PICK k \in T : \A j \in T : k =< j
    <3>1. T \in SUBSET Nat
      OBVIOUS
    <3> HIDE DEF T
    <3>2. QED
      BY <2>1, <3>1, Zenon DEF FiniteLaws
  <2>3. CASE k = 1
    BY <1>3, <1>4, <2>3, Zenon
  <2>4. CASE k # 1
    <3>1. k - 1 \in 1 .. n /\ k - 1 \notin T
      BY <1>0, <2>2, <2>4
    <3>2. c[k - 1] = d[k - 1]
      BY <3>1, Zenon
    <3>3. QED
      BY <1>3, <1>4, <2>4, <3>2
  <2>5. QED
    BY <2>3, <2>4, Zenon
<1>6. c \in Seq(Descs) /\ Len(c) = n
  <2>1. c \in [1 .. n -> Descs]
    BY <1>1, <1>4, <1>5, Zenon
  <2>2. QED
    BY <1>0, <2>1
<1>7. QED
  BY <1>1, <1>5, <1>6, Zenon DEF c

(* The chain of a buffer.                                                  *)
LEMMA ChainIs ==
  ASSUME FiniteLaws, ListTypes, NEW own, NEW rank, Labelling(own, rank), NEW h \in Heads
  PROVE  LET c == ChainOf(h)
         IN  /\ c \in Seq(Descs) /\ Len(c) = Size(h) /\ Len(c) \in Nat \ {0}
             /\ \A k \in 1 .. Len(c) : c[k] \in Descs /\ own[c[k]] = h /\ rank[c[k]] = k
<1> DEFINE m == Size(h)
           d == [k \in 1 .. Num |->
                   IF k <= m THEN CHOOSE i \in Descs : own[i] = h /\ rank[i] = k ELSE NoDesc]
           Step(e, k) == IF k = 1 THEN h
                         ELSE IF e[k - 1] = NoDesc THEN NoDesc ELSE desc[e[k - 1]].next
           c == CHOOSE e : e = [k \in 1 .. Num |-> Step(e, k)]
<1>0. m \in 1 .. Num /\ m \in Nat /\ Num \in Nat /\ h \in Lists /\ h \in Descs /\ h # NoDesc
  BY Constants, SizeType DEF Lists
<1>1. ChainOf(h) = SubSeq(c, 1, Cardinality({k \in 1 .. Num : c[k] # NoDesc}))
  BY Zenon DEF ChainOf
<1> HIDE DEF m
<1>2. d = [k \in 1 .. Num |-> d[k]]
  OBVIOUS
<1>3. /\ \A k \in 1 .. m : d[k] \in Descs /\ own[d[k]] = h /\ rank[d[k]] = k
      /\ \A k \in 1 .. Num : k > m => d[k] = NoDesc
  <2>1. \A k \in 1 .. m : \E i \in Descs : own[i] = h /\ rank[i] = k
    BY <1>0, Zenon DEF Labelling, Placed, m
  <2>2. QED
    BY <1>0, <2>1
<1> HIDE DEF d
<1>4. ASSUME NEW k \in 1 .. Num PROVE d[k] = Step(d, k)
  <2>1. CASE k = 1
    <3>1. own[h] = h /\ rank[h] = 1
      BY Zenon DEF Labelling, Linked
    <3>2. d[1] \in Descs /\ own[d[1]] = h /\ rank[d[1]] = 1
      BY <1>0, <1>3
    <3>3. QED
      BY <1>0, <2>1, <3>1, <3>2 DEF Labelling, Placed
  <2>2. CASE k # 1 /\ k - 1 <= m
    <3> DEFINE i == d[k - 1]
    <3>1. i \in Descs /\ own[i] = h /\ rank[i] = k - 1 /\ i # NoDesc
      BY <1>0, <1>3, <2>2, Constants
    <3>2. desc[i].next = IF k - 1 < m THEN extra_next[i] ELSE NoDesc
      BY <1>0, <3>1, Zenon DEF Labelling, Filled, Content, m
    <3>3. CASE k - 1 < m
      <4>1. own[extra_next[i]] = h /\ rank[extra_next[i]] = (k - 1) + 1
        BY <3>1, <3>3, Zenon DEF Labelling, Linked, m
      <4>2. extra_next[i] \in Descs
        BY <3>1, Zenon DEF ListTypes
      <4>3. d[k] \in Descs /\ own[d[k]] = h /\ rank[d[k]] = k
        BY <1>0, <1>3, <3>3
      <4> HIDE DEF i
      <4>4. extra_next[i] = d[k]
        BY <4>1, <4>2, <4>3 DEF Labelling, Placed
      <4>5. QED
        BY <2>2, <3>1, <3>2, <3>3, <4>4, Zenon DEF i
    <3>4. CASE k - 1 >= m
      <4>1. d[k] = NoDesc /\ ~(k - 1 < m)
        BY <1>0, <1>3, <3>4
      <4>2. QED
        BY <2>2, <3>1, <3>2, <4>1, Zenon
    <3>5. QED
      BY <1>0, <3>3, <3>4
  <2>3. CASE k # 1 /\ k - 1 > m
    <3>1. d[k] = NoDesc /\ d[k - 1] = NoDesc
      BY <1>0, <1>3, <2>3
    <3>2. QED
      BY <2>3, <3>1, Zenon
  <2>4. QED
    BY <1>0, <2>1, <2>2, <2>3
<1>5. c = [k \in 1 .. Num |-> Step(c, k)]
  <2>1. d = [k \in 1 .. Num |-> Step(d, k)]
    BY <1>4, <1>2, Zenon
  <2>2. \E e : e = [k \in 1 .. Num |-> Step(e, k)]
    BY <2>1, Zenon
  <2>3. QED
    BY <2>2, Zenon
<1> HIDE DEF c
<1>6. \A k \in 1 .. Num : c[k] = d[k]
  <2> DEFINE T == {k \in 1 .. Num : c[k] # d[k]}
  <2>1. SUFFICES ASSUME T # {} PROVE FALSE
    BY Zenon
  <2>2. PICK k \in T : \A j \in T : k =< j
    <3>1. T \in SUBSET Nat
      OBVIOUS
    <3> HIDE DEF T
    <3>2. QED
      BY <2>1, <3>1, Zenon DEF FiniteLaws
  <2>3. c[k] = Step(c, k) /\ d[k] = Step(d, k)
    BY <1>4, <1>5, Zenon
  <2>4. CASE k = 1
    BY <2>3, <2>4, Zenon
  <2>5. CASE k # 1
    <3>1. k - 1 \in 1 .. Num /\ k - 1 \notin T
      BY <1>0, <2>2, <2>5
    <3>2. c[k - 1] = d[k - 1]
      BY <3>1, Zenon
    <3>3. QED
      BY <2>3, <3>2, Zenon
  <2>6. QED
    BY <2>4, <2>5, Zenon
<1>7. {k \in 1 .. Num : c[k] # NoDesc} = 1 .. m
  BY <1>0, <1>3, <1>6, Constants
<1>8. Cardinality(1 .. m) = m
  BY <1>0, Zenon DEF FiniteLaws
<1>9. c \in Seq(Descs \cup {NoDesc}) /\ Len(c) = Num
  <2>1. c = [k \in 1 .. Num |-> c[k]]
    BY <1>5, Zenon
  <2>2. \A k \in 1 .. Num : c[k] \in Descs \cup {NoDesc}
    BY <1>0, <1>3, <1>6
  <2>3. c \in [1 .. Num -> Descs \cup {NoDesc}]
    BY <2>1, <2>2, Zenon
  <2>4. QED
    BY <1>0, <2>3
<1>10. /\ Len(SubSeq(c, 1, m)) = m /\ SubSeq(c, 1, m) \in Seq(Descs)
      /\ \A k \in 1 .. m : SubSeq(c, 1, m)[k] = c[k]
  BY <1>0, <1>3, <1>6, <1>9
<1>11. ChainOf(h) = SubSeq(c, 1, m)
  BY <1>1, <1>7, <1>8, Zenon
<1>12. \A k \in 1 .. m : c[k] \in Descs /\ own[c[k]] = h /\ rank[c[k]] = k
  BY <1>0, <1>3, <1>6
<1>13. QED
  BY <1>0, <1>10, <1>11, <1>12 DEF m

-----------------------------------------------------------------------------
LEMMA StructureInit == SplitInit => Structure
<1> SUFFICES ASSUME SplitInit PROVE Structure
  BY Zenon
<1> DEFINE own == [i \in Descs |-> NoDesc]
           rank == [i \in Descs |-> i + 1]
<1>0. Num \in Nat \ {0} /\ Descs = 0 .. Num - 1 /\ NoDesc = Num
  BY SplitAssumption, Zenon DEF Descs, NoDesc
<1>1. ListTypes
  BY <1>0 DEF SplitInit, ListTypes
<1>2. Heads = {} /\ num_free = Num
  BY <1>0, Zenon DEF SplitInit, Heads
<1>3. Placed(own, rank)
  <2>1. \A k \in 1 .. Num : k - 1 \in Descs /\ rank[k - 1] = k
    BY <1>0
  <2>2. \A o \in Lists : \A k \in 1 .. Size(o) : \E i \in Descs : own[i] = o /\ rank[i] = k
    BY <1>2, <2>1, Zenon DEF Lists, Size
  <2>3. QED
    BY <1>0, <1>2, <2>2 DEF Placed, Lists, Size
<1>4. Linked(own, rank)
  BY <1>0, <1>2 DEF Linked, Size, SplitInit
<1>5. Filled(own, rank)
  BY <1>2, Zenon DEF Filled, Content, SplitInit
<1>6. Labelling(own, rank)
  BY <1>0, <1>3, <1>4, <1>5 DEF Labelling
<1>7. QED
  BY <1>1, <1>6, Zenon DEF Structure

LEMMA StructureUnchanged ==
  ASSUME Structure, UNCHANGED listVars
  PROVE  Structure'
<1>1. ListTypes'
  BY Zenon DEF Structure, ListTypes, listVars
<1>2. PICK own, rank : Labelling(own, rank)
  BY Zenon DEF Structure
<1>3. Heads' = Heads /\ \A o : Size(o)' = Size(o)
  BY Zenon DEF Heads, Size, listVars
<1>4. Placed(own, rank)' /\ Linked(own, rank)' /\ Filled(own, rank)'
  BY <1>2, <1>3, Zenon DEF Labelling, Placed, Linked, Filled, Content, Lists, listVars
<1>5. Labelling(own, rank)'
  BY <1>2, <1>4, Zenon DEF Labelling
<1>6. QED
  BY <1>1, <1>5, Zenon DEF Structure

(* virtqueue_add_split() takes the first n descriptors of the free list    *)
(* as the chain of the buffer.                                             *)
LEMMA AddStructure ==
  ASSUME FiniteLaws, Structure, NEW b \in Bufs, NEW table \in BOOLEAN, virtqueue_add_split(b, table)
  PROVE  /\ Structure'
         /\ free_head \in Descs \ Heads /\ Heads' = Heads \cup {free_head}
         /\ avail_ring' = [avail_ring EXCEPT ![AvailSlot] = free_head]
<1> DEFINE n == IF table THEN 1 ELSE TotalSg[b]
           chain == FreeChain(free_head, n)
<1>0. ListTypes
  BY Zenon DEF Structure
<1>1. PICK own, rank : Labelling(own, rank)
  BY Zenon DEF Structure
<1>2. /\ own \in [Descs -> Descs \cup {NoDesc}] /\ rank \in [Descs -> Nat \ {0}]
      /\ Placed(own, rank) /\ Linked(own, rank) /\ Filled(own, rank)
  BY <1>1, Zenon DEF Labelling
<1>3. n \in Nat \ {0} /\ num_free \in Nat /\ n <= num_free /\ NoDesc \notin Descs
  BY <1>0, SplitAssumption, Constants DEF virtqueue_add_split, ListTypes
<1>4. /\ chain \in Seq(Descs) /\ Len(chain) = n
      /\ \A k \in 1 .. n : chain[k] \in Descs /\ own[chain[k]] = NoDesc /\ rank[chain[k]] = k
  BY <1>0, <1>1, <1>3, FreeChainIs
<1>5. PICK head \in Descs : head = free_head /\ own[head] = NoDesc /\ rank[head] = 1
  BY <1>0, <1>2, <1>3 DEF Linked, ListTypes
<1>6. chain[1] = head
  BY <1>2, <1>3, <1>4, <1>5 DEF Placed
<1>7. head \notin Heads
  BY <1>2, <1>5, Constants, Zenon DEF Linked
<1>8. /\ num_free' = num_free - n
      /\ free_head' = extra_next[chain[n]]
      /\ data' = [data EXCEPT ![head] = b]
      /\ indir_desc' = [indir_desc EXCEPT ![head] = table]
      /\ avail_ring' = [avail_ring EXCEPT ![AvailSlot] = head]
      /\ extra_next' = extra_next
      /\ table => TotalSg[b] > 1
  BY <1>6, Zenon DEF virtqueue_add_split, virtqueue_use_indirect
<1>9. desc' = [i \in Descs |->
         IF \E k \in 1 .. n : chain[k] = i
         THEN LET k == CHOOSE j \in 1 .. n : chain[j] = i
              IN  [segs |-> IF table THEN SegsOf(b) ELSE << <<b, k>> >>,
                   next |-> NextOf(chain, k)]
         ELSE desc[i]]
  BY Zenon DEF virtqueue_add_split
<1> HIDE DEF chain
<1>10. Heads' = Heads \cup {head}
  <2>1. \A i \in Descs : data'[i] = IF i = head THEN b ELSE data[i]
    BY <1>0, <1>8, Zenon DEF ListTypes
  <2>2. b # NoBuf
    BY SplitAssumption, Zenon
  <2>3. QED
    BY <1>5, <2>1, <2>2, Zenon DEF Heads
<1>11. ListTypes'
  <2>1. num_free' \in Nat
    BY <1>3, <1>8
  <2>2. free_head' \in Descs
    BY <1>0, <1>3, <1>4, <1>8 DEF ListTypes
  <2>3. QED
    BY <1>0, <1>8, <2>1, <2>2, Zenon DEF ListTypes
<1>12. /\ \A h \in Heads : /\ Size(h)' = Size(h) /\ data'[h] = data[h]
                           /\ indir_desc'[h] = indir_desc[h]
       /\ data'[head] = b /\ indir_desc'[head] = table
  BY <1>0, <1>5, <1>7, <1>8, Constants, Zenon DEF Size, ListTypes
<1>13. Size(head)' = n /\ Size(NoDesc)' = num_free - n /\ Size(NoDesc) = num_free
  BY <1>5, <1>8, <1>12, Constants DEF Size
<1>14. PICK own2 : own2 = [i \in Descs |->
                     IF own[i] = NoDesc /\ rank[i] <= n THEN head ELSE own[i]]
  BY Zenon
<1>15. PICK rank2 : rank2 = [i \in Descs |->
                      IF own[i] = NoDesc /\ rank[i] > n THEN rank[i] - n ELSE rank[i]]
  BY Zenon
<1> HIDE DEF n
<1>16. \A i \in Descs : own[i] \in Lists /\ rank[i] \in Nat \ {0} /\ rank[i] <= Size(own[i])
  BY <1>2, Zenon DEF Placed
<1>17. ASSUME NEW i \in Descs
       PROVE  \/ /\ own[i] = NoDesc /\ rank[i] <= n
                 /\ own2[i] = head /\ rank2[i] = rank[i] /\ Size(own2[i])' = n
              \/ /\ own[i] = NoDesc /\ rank[i] > n /\ rank[i] <= num_free
                 /\ own2[i] = NoDesc /\ rank2[i] = rank[i] - n /\ Size(own2[i])' = num_free - n
              \/ /\ own[i] \in Heads /\ own[i] # NoDesc /\ own[i] # head
                 /\ own2[i] = own[i] /\ rank2[i] = rank[i] /\ Size(own2[i])' = Size(own[i])
  BY <1>3, <1>7, <1>12, <1>13, <1>14, <1>15, <1>16 DEF Lists
<1>18. Placed(own2, rank2)'
  <2>1. ASSUME NEW i \in Descs
        PROVE  own2[i] \in Lists' /\ rank2[i] <= Size(own2[i])'
    BY <1>3, <1>10, <1>16, <1>17 DEF Lists, NoDesc
  <2>2. ASSUME NEW i \in Descs, NEW j \in Descs, own2[i] = own2[j], rank2[i] = rank2[j]
        PROVE  i = j
    <3>1. own[i] = own[j] /\ rank[i] = rank[j]
      BY <1>3, <1>5, <1>7, <1>16, <1>17, <2>2
    <3>2. QED
      BY <1>2, <3>1, Zenon DEF Placed
  <2>3. ASSUME NEW o \in Lists', NEW k \in 1 .. Size(o)'
        PROVE  \E i \in Descs : own2[i] = o /\ rank2[i] = k
    <3>1. CASE o = head
      <4>1. k \in 1 .. Size(NoDesc) /\ k <= n /\ NoDesc \in Lists
        BY <1>3, <1>13, <3>1 DEF Lists
      <4>2. PICK i \in Descs : own[i] = NoDesc /\ rank[i] = k
        BY <1>2, <4>1, Zenon DEF Placed
      <4>3. QED
        BY <1>3, <1>17, <3>1, <4>1, <4>2
    <3>2. CASE o = NoDesc
      <4>1. k + n \in 1 .. Size(NoDesc) /\ ~(k + n <= n) /\ NoDesc \in Lists
        BY <1>3, <1>13, <3>2 DEF Lists
      <4>2. PICK i \in Descs : own[i] = NoDesc /\ rank[i] = k + n
        BY <1>2, <4>1, Zenon DEF Placed
      <4>3. k \in Nat /\ (k + n) - n = k
        BY <1>3, <1>13, <3>2
      <4>4. own2[i] = NoDesc /\ rank2[i] = (k + n) - n
        BY <1>14, <1>15, <1>3, <4>1, <4>2
      <4>5. QED
        BY <3>2, <4>3, <4>4, Zenon
    <3>3. CASE o \in Heads
      <4>1. k \in 1 .. Size(o) /\ o \in Lists /\ o # NoDesc
        BY <1>12, <3>3, Constants, Zenon DEF Lists
      <4>2. PICK i \in Descs : own[i] = o /\ rank[i] = k
        BY <1>2, <4>1, Zenon DEF Placed
      <4>3. QED
        BY <1>17, <4>1, <4>2, Zenon
    <3>4. QED
      BY <1>10, <3>1, <3>2, <3>3, Zenon DEF Lists, NoDesc
  <2>4. QED
    BY <2>1, <2>2, <2>3, Zenon DEF Placed
<1>19. Linked(own2, rank2)'
  <2>1. \A h \in Heads' : own2[h] = h /\ rank2[h] = 1
    <3>1. own2[head] = head /\ rank2[head] = 1
      BY <1>3, <1>5, <1>7, <1>17
    <3>2. ASSUME NEW h \in Heads PROVE own2[h] = h /\ rank2[h] = 1
      <4>1. own[h] = h /\ rank[h] = 1 /\ h \in Descs /\ h # NoDesc
        BY <1>2, Constants, Zenon DEF Linked
      <4>2. QED
        BY <1>17, <4>1, Zenon
    <3>3. QED
      BY <1>10, <3>1, <3>2, Zenon
  <2>2. ASSUME NEW i \in Descs, rank2[i] < Size(own2[i])'
        PROVE  own2[extra_next[i]] = own2[i] /\ rank2[extra_next[i]] = rank2[i] + 1
    <3>1. rank[i] < Size(own[i])
      BY <1>3, <1>13, <1>16, <1>17, <2>2
    <3>2. /\ extra_next[i] \in Descs /\ own[extra_next[i]] = own[i]
          /\ rank[extra_next[i]] = rank[i] + 1
      BY <1>0, <1>2, <3>1, Zenon DEF Linked, ListTypes
    <3>3. QED
      BY <1>3, <1>16, <1>17, <2>2, <3>2
  <2>3. num_free' > 0 => own2[free_head'] = NoDesc /\ rank2[free_head'] = 1
    <3>1. SUFFICES ASSUME num_free > n
                   PROVE  own2[free_head'] = NoDesc /\ rank2[free_head'] = 1
      BY <1>3, <1>8
    <3>2. chain[n] \in Descs /\ own[chain[n]] = NoDesc /\ rank[chain[n]] = n
      BY <1>3, <1>4
    <3>3. /\ free_head' \in Descs /\ own[free_head'] = NoDesc
          /\ rank[free_head'] = n + 1
      BY <1>0, <1>2, <1>8, <1>13, <3>1, <3>2 DEF Linked, ListTypes
    <3>4. QED
      BY <1>3, <1>14, <1>15, <3>3
  <2>4. QED
    BY <1>8, <2>1, <2>2, <2>3, Zenon DEF Linked, NoDesc
<1>20. Filled(own2, rank2)'
  <2>1. \A h \in Heads' : indir_desc'[h] => TotalSg[data'[h]] > 1
    BY <1>2, <1>8, <1>10, <1>12, Zenon DEF Filled
  <2>2. ASSUME NEW i \in Descs
        PROVE  desc'[i] = Content(own2[i], rank2[i], extra_next[i])'
    <3>1. /\ Content(own2[i], rank2[i], extra_next[i])' =
              IF own2[i] = NoDesc THEN Unmapped
              ELSE [segs |-> IF indir_desc'[own2[i]] THEN SegsOf(data'[own2[i]])
                             ELSE << <<data'[own2[i]], rank2[i]>> >>,
                    next |-> IF rank2[i] < Size(own2[i])' THEN extra_next[i] ELSE NoDesc]
      BY <1>8, Zenon DEF Content, NoDesc, Unmapped, SegsOf
    <3>2. CASE own[i] = NoDesc /\ rank[i] <= n
      <4>1. rank[i] \in 1 .. n /\ chain[rank[i]] = i
        BY <1>2, <1>3, <1>4, <1>16, <3>2 DEF Placed
      <4>2. \A j \in 1 .. n : chain[j] = i <=> j = rank[i]
        BY <1>4, <4>1, Zenon
      <4>3. (CHOOSE j \in 1 .. n : chain[j] = i) = rank[i]
        BY <4>1, <4>2, Zenon
      <4>4. desc'[i] = [segs |-> IF table THEN SegsOf(b) ELSE << <<b, rank[i]>> >>,
                        next |-> NextOf(chain, rank[i])]
        BY <1>9, <4>1, <4>3, Zenon
      <4>5. NextOf(chain, rank[i]) = IF rank[i] < n THEN extra_next[i] ELSE NoDesc
        BY <1>3, <1>4, <4>1 DEF NextOf
      <4>6. own2[i] = head /\ rank2[i] = rank[i] /\ Size(own2[i])' = n /\ head # NoDesc
        BY <1>3, <1>5, <1>16, <1>17, <3>2
      <4>7. QED
        BY <1>12, <3>1, <4>4, <4>5, <4>6, Zenon
    <3>3. CASE ~(own[i] = NoDesc /\ rank[i] <= n)
      <4>1. desc'[i] = desc[i]
        <5>1. ~ \E k \in 1 .. n : chain[k] = i
          BY <1>4, <3>3
        <5>2. QED
          BY <1>9, <5>1, Zenon
      <4>2. desc[i] = Content(own[i], rank[i], extra_next[i])
        BY <1>2, Zenon DEF Filled
      <4>3. CASE own[i] = NoDesc
        <5>1. own2[i] = NoDesc
          BY <1>17, <3>3, <4>3, Zenon
        <5>2. QED
          BY <3>1, <4>1, <4>2, <4>3, <5>1, Zenon DEF Content
      <4>4. CASE own[i] # NoDesc
        BY <1>12, <1>17, <3>1, <4>1, <4>2, <4>4, Zenon DEF Content
      <4>5. QED
        BY <4>3, <4>4, Zenon
    <3>4. QED
      BY <3>2, <3>3, Zenon
  <2>3. QED
    <3>1. desc' = [i \in Descs |-> desc'[i]]
      BY <1>9, Zenon
    <3>2. QED
      BY <2>1, <2>2, <3>1, Zenon DEF Filled
<1>21. Labelling(own2, rank2)'
  <2>1. own2 \in [Descs -> Descs \cup {NoDesc}]
    BY <1>2, <1>14, Zenon
  <2>2. rank2 \in [Descs -> Nat \ {0}]
    <3>1. \A i \in Descs : rank2[i] \in Nat \ {0}
      BY <1>3, <1>16, <1>17
    <3>2. QED
      BY <1>15, <3>1, Zenon
  <2>3. QED
    BY <1>18, <1>19, <1>20, <2>1, <2>2, Zenon DEF Labelling, NoDesc, Descs
<1>22. QED
  BY <1>5, <1>7, <1>8, <1>10, <1>11, <1>21, Zenon DEF Structure

(* detach_buf_split() puts the chain of a buffer in front of the free      *)
(* list.                                                                   *)
LEMMA DetachStructure ==
  ASSUME FiniteLaws, Structure, NEW h \in Heads, detach_buf_split(h)
  PROVE  Structure' /\ Heads' = Heads \ {h}
<1> DEFINE chain == ChainOf(h)
<1>0. ListTypes /\ h \in Descs /\ h # NoDesc /\ h \in Lists
  BY Constants, Zenon DEF Structure, Lists
<1>1. PICK own, rank : Labelling(own, rank)
  BY Zenon DEF Structure
<1>2. /\ own \in [Descs -> Descs \cup {NoDesc}] /\ rank \in [Descs -> Nat \ {0}]
      /\ Placed(own, rank) /\ Linked(own, rank) /\ Filled(own, rank)
  BY <1>1, Zenon DEF Labelling
<1>3. PICK m \in Nat \ {0} :
        /\ m = Size(h) /\ chain \in Seq(Descs) /\ Len(chain) = m
        /\ \A k \in 1 .. m : chain[k] \in Descs /\ own[chain[k]] = h /\ rank[chain[k]] = k
  BY <1>0, <1>1, ChainIs
<1>4. /\ data' = [data EXCEPT ![h] = NoBuf]
      /\ desc' = [i \in Descs |-> IF i \in Range(chain) THEN Unmapped ELSE desc[i]]
      /\ extra_next' = [extra_next EXCEPT ![chain[Len(chain)]] = free_head]
      /\ free_head' = h
      /\ num_free' = num_free + m
      /\ indir_desc' = [indir_desc EXCEPT ![h] = FALSE]
  BY <1>3, Zenon DEF detach_buf_split
<1> HIDE DEF chain
<1>5. num_free \in Nat /\ NoDesc \notin Descs /\ Size(NoDesc) = num_free
  BY <1>0, Constants, Zenon DEF ListTypes, Size
<1>6. \A i \in Descs : own[i] \in Lists /\ rank[i] \in Nat \ {0} /\ rank[i] <= Size(own[i])
  BY <1>2, Zenon DEF Placed
<1>7. PICK last \in Descs : last = chain[m] /\ own[last] = h /\ rank[last] = m
  BY <1>3
<1>8. \A i \in Descs : i \in Range(chain) <=> own[i] = h
  <2>1. DOMAIN chain = 1 .. m
    BY <1>3
  <2>2. ASSUME NEW i \in Descs, own[i] = h PROVE i \in Range(chain)
    <3>1. rank[i] \in 1 .. m
      BY <1>3, <1>6, <2>2
    <3>2. chain[rank[i]] = i
      BY <1>2, <1>3, <2>2, <3>1 DEF Placed
    <3>3. QED
      BY <2>1, <3>1, <3>2, Zenon DEF Range
  <2>3. QED
    BY <1>3, <2>1, <2>2 DEF Range
<1>9. Heads' = Heads \ {h}
  <2>1. \A i \in Descs : data'[i] = IF i = h THEN NoBuf ELSE data[i]
    BY <1>0, <1>4, Zenon DEF ListTypes
  <2>2. QED
    BY <2>1, Zenon DEF Heads
<1>10. ListTypes'
  BY <1>0, <1>3, <1>4, <1>5, <1>7 DEF ListTypes
<1>11. \A g \in Heads \ {h} : /\ Size(g)' = Size(g) /\ data'[g] = data[g]
                              /\ indir_desc'[g] = indir_desc[g]
  BY <1>0, <1>4, Constants, Zenon DEF Size, ListTypes
<1>12. Size(NoDesc)' = num_free + m
  BY <1>4, Zenon DEF Size, NoDesc
<1>13. PICK own2 : own2 = [i \in Descs |-> IF own[i] = h THEN NoDesc ELSE own[i]]
  BY Zenon
<1>14. PICK rank2 : rank2 = [i \in Descs |-> IF own[i] = NoDesc THEN rank[i] + m ELSE rank[i]]
  BY Zenon
<1>15. ASSUME NEW i \in Descs
       PROVE  \/ /\ own[i] = h /\ rank[i] <= m
                 /\ own2[i] = NoDesc /\ rank2[i] = rank[i] /\ Size(own2[i])' = num_free + m
              \/ /\ own[i] = NoDesc /\ rank[i] <= num_free
                 /\ own2[i] = NoDesc /\ rank2[i] = rank[i] + m /\ Size(own2[i])' = num_free + m
              \/ /\ own[i] \in Heads \ {h} /\ own[i] # NoDesc
                 /\ own2[i] = own[i] /\ rank2[i] = rank[i] /\ Size(own2[i])' = Size(own[i])
  BY <1>0, <1>3, <1>5, <1>6, <1>11, <1>12, <1>13, <1>14, Constants DEF Lists
<1>16. Placed(own2, rank2)'
  <2>1. ASSUME NEW i \in Descs
        PROVE  own2[i] \in Lists' /\ rank2[i] <= Size(own2[i])'
    BY <1>5, <1>6, <1>9, <1>15 DEF Lists, NoDesc
  <2>2. ASSUME NEW i \in Descs, NEW j \in Descs, own2[i] = own2[j], rank2[i] = rank2[j]
        PROVE  i = j
    <3>1. own[i] = own[j] /\ rank[i] = rank[j]
      BY <1>0, <1>5, <1>6, <1>15, <2>2
    <3>2. QED
      BY <1>2, <3>1, Zenon DEF Placed
  <2>3. ASSUME NEW o \in Lists', NEW k \in 1 .. Size(o)'
        PROVE  \E i \in Descs : own2[i] = o /\ rank2[i] = k
    <3>1. CASE o = NoDesc /\ k <= m
      <4>1. k \in 1 .. Size(h)
        BY <1>3, <1>5, <1>12, <3>1
      <4>2. PICK i \in Descs : own[i] = h /\ rank[i] = k
        BY <1>0, <1>2, <4>1, Zenon DEF Placed
      <4>3. QED
        BY <1>0, <1>13, <1>14, <3>1, <4>2, Zenon
    <3>2. CASE o = NoDesc /\ k > m
      <4>1. k - m \in 1 .. Size(NoDesc) /\ NoDesc \in Lists /\ (k - m) + m = k
        BY <1>5, <1>12, <3>2 DEF Lists
      <4>2. PICK i \in Descs : own[i] = NoDesc /\ rank[i] = k - m
        BY <1>2, <4>1 DEF Placed
      <4>3. QED
        BY <1>0, <1>13, <1>14, <3>2, <4>1, <4>2, Zenon
    <3>3. CASE o \in Heads \ {h}
      <4>1. k \in 1 .. Size(o) /\ o \in Lists /\ o # NoDesc
        BY <1>11, <3>3, Constants, Zenon DEF Lists
      <4>2. PICK i \in Descs : own[i] = o /\ rank[i] = k
        BY <1>2, <4>1, Zenon DEF Placed
      <4>3. QED
        BY <1>13, <1>14, <3>3, <4>1, <4>2, Zenon
    <3>4. QED
      BY <1>5, <1>9, <1>12, <3>1, <3>2, <3>3 DEF Lists, NoDesc
  <2>4. QED
    BY <2>1, <2>2, <2>3, Zenon DEF Placed
<1>17. Linked(own2, rank2)'
  <2>1. ASSUME NEW g \in Heads' PROVE own2[g] = g /\ rank2[g] = 1
    <3>1. own[g] = g /\ rank[g] = 1 /\ g \in Descs /\ g # NoDesc /\ g # h
      BY <1>2, <1>9, Constants, Zenon DEF Linked
    <3>2. QED
      BY <1>13, <1>14, <3>1, Zenon
  <2>2. own2[free_head'] = NoDesc /\ rank2[free_head'] = 1
    <3>1. own[h] = h /\ rank[h] = 1
      BY <1>2, Zenon DEF Linked
    <3>2. QED
      BY <1>0, <1>4, <1>13, <1>14, <3>1, Zenon
  <2>3. ASSUME NEW i \in Descs, rank2[i] < Size(own2[i])'
        PROVE  own2[extra_next'[i]] = own2[i] /\ rank2[extra_next'[i]] = rank2[i] + 1
    <3>1. CASE i = last
      <4>1. extra_next'[i] = free_head /\ num_free > 0
        <5>1. extra_next'[i] = free_head
          BY <1>0, <1>3, <1>4, <1>7, <3>1, Zenon DEF ListTypes
        <5>2. rank2[i] = m /\ Size(own2[i])' = num_free + m
          BY <1>0, <1>7, <1>15, <3>1, Zenon
        <5>3. QED
          BY <1>0, <1>3, <1>5, <2>3, <5>1, <5>2 DEF ListTypes
      <4>2. free_head \in Descs /\ own[free_head] = NoDesc /\ rank[free_head] = 1
        BY <1>0, <1>2, <4>1, Zenon DEF Linked, ListTypes
      <4>3. own2[i] = NoDesc /\ rank2[i] = m
        BY <1>0, <1>7, <1>13, <1>14, <3>1, Zenon
      <4>4. own2[free_head] = NoDesc /\ rank2[free_head] = m + 1
        BY <1>0, <1>13, <1>14, <4>2
      <4>5. QED
        BY <4>1, <4>3, <4>4, Zenon
    <3>2. CASE i # last
      <4>1. extra_next'[i] = extra_next[i]
        BY <1>0, <1>3, <1>4, <1>7, <3>2, Zenon DEF ListTypes
      <4>2. own[i] = h => rank[i] # m
        BY <1>2, <1>7, <3>2 DEF Placed
      <4>3. rank[i] < Size(own[i])
        BY <1>3, <1>5, <1>6, <1>15, <2>3, <4>2
      <4>4. /\ extra_next[i] \in Descs /\ own[extra_next[i]] = own[i]
            /\ rank[extra_next[i]] = rank[i] + 1
        BY <1>0, <1>2, <4>3, Zenon DEF Linked, ListTypes
      <4>5. QED
        BY <1>6, <1>13, <1>14, <4>1, <4>4
    <3>3. QED
      BY <3>1, <3>2, Zenon
  <2>4. QED
    BY <2>1, <2>2, <2>3, Zenon DEF Linked, NoDesc
<1>18. Filled(own2, rank2)'
  <2>1. \A g \in Heads' : indir_desc'[g] => TotalSg[data'[g]] > 1
    BY <1>2, <1>9, <1>11, Zenon DEF Filled
  <2>2. ASSUME NEW i \in Descs
        PROVE  desc'[i] = Content(own2[i], rank2[i], extra_next[i])'
    <3>1. Content(own2[i], rank2[i], extra_next[i])' =
            IF own2[i] = NoDesc THEN Unmapped
            ELSE [segs |-> IF indir_desc'[own2[i]] THEN SegsOf(data'[own2[i]])
                           ELSE << <<data'[own2[i]], rank2[i]>> >>,
                  next |-> IF rank2[i] < Size(own2[i])' THEN extra_next'[i] ELSE NoDesc]
      BY Zenon DEF Content, NoDesc, Unmapped, SegsOf
    <3>2. desc[i] = Content(own[i], rank[i], extra_next[i])
      BY <1>2, Zenon DEF Filled
    <3>3. desc'[i] = IF own[i] = h THEN Unmapped ELSE desc[i]
      BY <1>4, <1>8, Zenon
    <3>4. CASE own[i] \in {h, NoDesc}
      BY <1>0, <1>13, <3>1, <3>2, <3>3, <3>4, Zenon DEF Content
    <3>5. CASE own[i] \in Heads \ {h} /\ own[i] # NoDesc
      <4>1. extra_next'[i] = extra_next[i]
        BY <1>0, <1>3, <1>4, <1>7, <3>5, Zenon DEF ListTypes
      <4>2. own2[i] = own[i] /\ rank2[i] = rank[i] /\ Size(own2[i])' = Size(own[i])
        BY <1>0, <1>15, <3>5, Zenon
      <4>3. QED
        BY <1>11, <3>1, <3>2, <3>3, <3>5, <4>1, <4>2, Zenon DEF Content
    <3>6. QED
      BY <1>15, <3>4, <3>5, Zenon
  <2>3. QED
    <3>1. desc' = [i \in Descs |-> desc'[i]]
      BY <1>4, Zenon
    <3>2. QED
      BY <2>1, <2>2, <3>1, Zenon DEF Filled
<1>19. Labelling(own2, rank2)'
  <2>1. own2 \in [Descs -> Descs \cup {NoDesc}]
    BY <1>2, <1>13, Zenon
  <2>2. rank2 \in [Descs -> Nat \ {0}]
    <3>1. ASSUME NEW i \in Descs PROVE rank2[i] \in Nat \ {0}
      <4>1. rank[i] \in Nat \ {0} /\ rank2[i] \in {rank[i], rank[i] + m}
        BY <1>6, <1>14, Zenon
      <4>2. QED
        BY <4>1
    <3>2. QED
      BY <1>14, <3>1, Zenon
  <2>3. QED
    BY <1>16, <1>17, <1>18, <2>1, <2>2, Zenon DEF Labelling, NoDesc, Descs
<1>20. QED
  BY <1>9, <1>10, <1>19, Zenon DEF Structure

LEMMA StructureStep ==
  ASSUME FiniteLaws, Structure, [SplitNext]_vars
  PROVE  Structure'
<1>1. CASE \E b \in Bufs, table \in BOOLEAN : virtqueue_add_split(b, table)
  BY <1>1, AddStructure, Zenon
<1>2. CASE virtqueue_get_buf_ctx_split
  <2>1. CASE used_ring[UsedSlot] \in Heads
    <3>1. detach_buf_split(used_ring[UsedSlot])
      BY <1>2, <2>1, Zenon DEF virtqueue_get_buf_ctx_split, Heads
    <3>2. QED
      BY <2>1, <3>1, DetachStructure, Zenon
  <2>2. CASE used_ring[UsedSlot] \notin Heads
    <3>1. UNCHANGED listVars
      BY <1>2, <2>2, Zenon DEF virtqueue_get_buf_ctx_split, Heads
    <3>2. QED
      BY <3>1, StructureUnchanged, Zenon
  <2>3. QED
    BY <2>1, <2>2, Zenon
<1>3. CASE virtqueue_detach_unused_buf_split
  <2>1. PICK i \in Heads : detach_buf_split(i)
    BY <1>3, Zenon DEF virtqueue_detach_unused_buf_split, Heads
  <2>2. QED
    BY <2>1, DetachStructure, Zenon
<1>4. CASE UNCHANGED listVars
  BY <1>4, StructureUnchanged, Zenon
<1>5. DriverNext => \/ \E b \in Bufs, table \in BOOLEAN : virtqueue_add_split(b, table)
                    \/ virtqueue_get_buf_ctx_split \/ virtqueue_detach_unused_buf_split
                    \/ UNCHANGED listVars
  BY Zenon DEF DriverNext, AddNoSpace, AddPublish, virtqueue_kick_prepare_split, virtqueue_notify,
     GetBufNone, GetBufStore, virtqueue_disable_cb, virtqueue_enable_cb_prepare,
     virtqueue_enable_cb_delayed, EnableAt, virtqueue_poll, vring_interrupt,
     virtio_break_device, DetachNone, vars
<1>6. DeviceNext => UNCHANGED listVars
  BY Zenon DEF DeviceNext, DevFetch, DevAskKick, DevSleep, DevWake, DevSignal, DevReset,
     DevUse, DevBadUse
<1>7. QED
  BY <1>1, <1>2, <1>3, <1>4, <1>5, <1>6, Zenon DEF SplitNext, vars

-----------------------------------------------------------------------------
(* The indexes of a split ring, for every size of the ring and every width  *)
(* of the indexes: an index stays in its width, and the rings never hold    *)
(* more entries than the driver has buffers in them.                        *)

(* Division with remainder by a constant that has no value.                *)
LEMMA Division ==
  ASSUME NEW n \in Nat \ {0}, NEW x \in Int
  PROVE  /\ x \div n \in Int /\ x % n \in 0 .. n - 1
         /\ x = n * (x \div n) + (x % n)
<1>1. x \div n \in Int /\ x % n \in 0 .. n - 1
  OBVIOUS
<1>2. x = n * (x \div n) + (x % n)
  OBVIOUS
<1>3. QED
  BY <1>1, <1>2, Zenon

LEMMA Remainder ==
  ASSUME NEW n \in Nat \ {0}, NEW q \in Int, NEW r \in 0 .. n - 1
  PROVE  (n * q + r) % n = r
  OBVIOUS

(* A multiple of the size of the ring does not change a slot.              *)
LEMMA SlotOfSum ==
  ASSUME NEW n \in Nat \ {0}, NEW x \in Int, NEW q \in Int
  PROVE  (x + n * q) % n = x % n
<1>1. PICK p \in Int, r \in 0 .. n - 1 : x = n * p + r /\ r = x % n
  BY Division, Zenon
<1>2. x + n * q = n * (p + q) + r
  BY <1>1
<1>3. (n * (p + q) + r) % n = r
  <2>1. p + q \in Int
    OBVIOUS
  <2>2. QED
    BY <2>1, Remainder, Zenon
<1>4. QED
  BY <1>1, <1>2, <1>3, Zenon

LEMMA Widths ==
  /\ Num \in Nat \ {0} /\ Word \in Nat \ {0} /\ Num < Word /\ Word % Num = 0
  /\ NoIdx = Word /\ NoDesc = Num /\ BadId = Num + 1
  BY SplitAssumption DEF NoIdx, NoDesc, BadId

LEMMA Turns == \E p \in Int : Word = Num * p
<1>1. Word \in Int /\ Word = Num * (Word \div Num) + (Word % Num) /\ Word \div Num \in Int
  BY Widths, Division
<1>2. QED
  BY <1>1, Widths

(* The slot of an index does not depend on how often it wrapped: this is   *)
(* what a size that divides 2^16 is for.                                   *)
LEMMA SlotOfIndex ==
  ASSUME NEW x \in Int
  PROVE  (x % Word) % Num = x % Num
<1>1. PICK p \in Int : Word = Num * p
  BY Turns, Zenon
<1>2. PICK q \in Int, r \in Int : x = Word * q + r /\ r = x % Word
  <2>1. /\ x \div Word \in Int /\ x % Word \in 0 .. Word - 1
        /\ x = Word * (x \div Word) + (x % Word)
    BY Widths, Division, Zenon
  <2>2. x % Word \in Int
    BY <2>1, Widths
  <2>3. QED
    BY <2>1, <2>2, Zenon
<1>3. x = r + Num * (p * q)
  <2>1. (Num * p) * q = Num * (p * q)
    BY Widths
  <2>2. QED
    BY <1>1, <1>2, <2>1
<1>4. (r + Num * (p * q)) % Num = r % Num
  <2>1. p * q \in Int
    OBVIOUS
  <2>2. QED
    BY <2>1, SlotOfSum, Widths, Zenon
<1>5. QED
  BY <1>2, <1>3, <1>4, Zenon

LEMMA SlotType ==
  ASSUME NEW x \in Int
  PROVE  x % Num \in Descs
  BY Widths, Division, Zenon DEF Descs

(* Entries that lie less than a turn apart have different slots.           *)
LEMMA SlotsApart ==
  ASSUME NEW x \in Int, NEW k \in 1 .. Num - 1
  PROVE  (x + k) % Num # x % Num
<1>0. Num \in Nat \ {0}
  BY Widths, Zenon
<1>1. PICK p \in Int, r \in 0 .. Num - 1 : x = Num * p + r /\ r = x % Num
  BY <1>0, Division, Zenon
<1>2. CASE r + k < Num
  <2>1. r + k \in 0 .. Num - 1 /\ x + k = Num * p + (r + k)
    BY <1>0, <1>1, <1>2
  <2>2. (Num * p + (r + k)) % Num = r + k
    BY <1>0, <2>1, Remainder, Zenon
  <2>3. QED
    BY <1>1, <2>1, <2>2
<1>3. CASE r + k >= Num
  <2>1. r + k - Num \in 0 .. Num - 1 /\ p + 1 \in Int
    BY <1>0, <1>3
  <2>2. x + k = Num * (p + 1) + (r + k - Num)
    BY <1>0, <1>1
  <2>3. (Num * (p + 1) + (r + k - Num)) % Num = r + k - Num
    BY <1>0, <2>1, Remainder, Zenon
  <2>4. QED
    BY <1>0, <1>1, <2>2, <2>3
<1>4. QED
  BY <1>0, <1>2, <1>3

LEMMA InWidth ==
  ASSUME NEW x \in Idx
  PROVE  x % Word = x
<1>1. Word \in Nat \ {0} /\ x \in 0 .. Word - 1
  BY Widths, Zenon DEF Idx
<1>2. QED
  BY <1>1

LEMMA OneTurn ==
  ASSUME NEW x \in Idx
  PROVE  (x + Word) % Word = x
<1>1. Word \in Nat \ {0} /\ x \in 0 .. Word - 1
  BY Widths, Zenon DEF Idx
<1>2. QED
  BY <1>1

LEMMA BelowZero ==
  ASSUME NEW x \in Int, x < 0, -Word <= x
  PROVE  x % Word = x + Word
<1>1. Word \in Nat \ {0}
  BY Widths, Zenon
<1>2. QED
  BY <1>1

LEMMA MinusIs ==
  ASSUME NEW i \in Idx, NEW j \in Idx
  PROVE  /\ Minus(i, j) = IF j <= i THEN i - j ELSE i - j + Word
         /\ Minus(i, j) \in Idx
<1>1. i - j \in Int /\ i - j < Word /\ -Word <= i - j
  BY Widths DEF Idx
<1>2. CASE j <= i
  <2>1. i - j \in 0 .. Word - 1
    BY <1>1, <1>2, Widths DEF Idx
  <2>2. (i - j) % Word = i - j
    BY <2>1, Widths
  <2>3. QED
    BY <1>2, <2>1, <2>2, Zenon DEF Minus, Idx
<1>3. CASE ~(j <= i)
  <2>1. i - j < 0
    BY <1>3 DEF Idx
  <2>2. (i - j) % Word = i - j + Word
    BY <1>1, <2>1, BelowZero, Zenon
  <2>3. QED
    BY <1>1, <1>3, <2>1, <2>2, Widths DEF Minus, Idx
<1>4. QED
  BY <1>2, <1>3, Zenon

LEMMA IncIs ==
  ASSUME NEW i \in Idx
  PROVE  /\ Inc(i) = IF i = Word - 1 THEN 0 ELSE i + 1
         /\ Inc(i) \in Idx
<1>1. CASE i = Word - 1
  <2>1. Word % Word = 0
    BY Widths
  <2>2. i + 1 = Word /\ 0 \in Idx
    BY <1>1, Widths DEF Idx
  <2>3. QED
    BY <1>1, <2>1, <2>2, Zenon DEF Inc
<1>2. CASE i # Word - 1
  <2>1. i + 1 \in 0 .. Word - 1
    BY <1>2, Widths DEF Idx
  <2>2. (i + 1) % Word = i + 1
    BY <2>1, Widths
  <2>3. QED
    BY <1>2, <2>1, <2>2, Zenon DEF Inc, Idx
<1>3. QED
  BY <1>1, <1>2, Zenon

(* An index ahead of another moves on, and the one behind follows.         *)
LEMMA MinusInc ==
  ASSUME NEW i \in Idx, NEW j \in Idx
  PROVE  /\ Minus(i, j) = 0 <=> i = j
         /\ Minus(i, j) + 1 < Word => Minus(Inc(i), j) = Minus(i, j) + 1
         /\ Minus(Inc(i), j) <= Minus(i, j) + 1
         /\ i # j => Minus(i, Inc(j)) = Minus(i, j) - 1
<1>1. i \in Int /\ j \in Int /\ 0 <= i /\ i < Word /\ 0 <= j /\ j < Word /\ Word \in Nat
  BY Widths DEF Idx
<1>2. Minus(i, j) = IF j <= i THEN i - j ELSE i - j + Word
  BY MinusIs, Zenon
<1>3. /\ Inc(i) = (IF i = Word - 1 THEN 0 ELSE i + 1) /\ Inc(i) \in Idx
      /\ Inc(j) = (IF j = Word - 1 THEN 0 ELSE j + 1) /\ Inc(j) \in Idx
  BY IncIs, Zenon
<1>4. Minus(Inc(i), j) = IF j <= Inc(i) THEN Inc(i) - j ELSE Inc(i) - j + Word
  BY <1>3, MinusIs, Zenon
<1>5. Minus(i, Inc(j)) = IF Inc(j) <= i THEN i - Inc(j) ELSE i - Inc(j) + Word
  BY <1>3, MinusIs, Zenon
<1>6. QED
  BY <1>1, <1>2, <1>3, <1>4, <1>5

(* What vring_need_event() asks: the event index lies behind the new       *)
(* index, counted from the old one.                                        *)
LEMMA NeedEvent ==
  ASSUME NEW e \in Idx, NEW new \in Idx, NEW old \in Idx
  PROVE  vring_need_event(e, new, old) <=> Minus(e, old) < Minus(new, old)
<1>1. /\ e \in Int /\ new \in Int /\ old \in Int /\ Word \in Nat
      /\ 0 <= e /\ e < Word /\ 0 <= new /\ new < Word /\ 0 <= old /\ old < Word
  BY Widths DEF Idx
<1>2. /\ Minus(e, old) = IF old <= e THEN e - old ELSE e - old + Word
      /\ Minus(new, old) = IF old <= new THEN new - old ELSE new - old + Word
  BY MinusIs, Zenon
<1>3. Minus(new, e + 1) = IF e < new THEN new - (e + 1) ELSE new - (e + 1) + Word
  <2>1. CASE e < new
    <3>1. new - (e + 1) \in 0 .. Word - 1
      BY <1>1, <2>1
    <3>2. QED
      BY <2>1, <3>1, Widths DEF Minus
  <2>2. CASE ~(e < new)
    <3>1. new - (e + 1) \in Int /\ new - (e + 1) < 0 /\ -Word <= new - (e + 1)
      BY <1>1, <2>2
    <3>2. (new - (e + 1)) % Word = new - (e + 1) + Word
      BY <3>1, BelowZero, Zenon
    <3>3. QED
      BY <2>2, <3>2, Zenon DEF Minus
  <2>3. QED
    BY <2>1, <2>2, Zenon
<1>4. QED
  BY <1>1, <1>2, <1>3 DEF vring_need_event

-----------------------------------------------------------------------------
(* The types of everything but the lists.                                  *)
Indices ==
  /\ event \in BOOLEAN
  /\ avail_ring \in [Descs -> Descs \cup {NoDesc}]
  /\ used_ring \in [Descs -> Descs \cup {NoDesc, BadId}]
  /\ avail_idx \in Idx /\ avail_idx_shadow \in Idx /\ last_used_idx \in Idx
  /\ used_event \in Idx /\ used_idx \in Idx /\ avail_event \in Idx
  /\ last_avail \in Idx /\ signalled \in Idx
  /\ num_added \in Nat /\ num_added < Word /\ bufs \in Idx /\ armed \in Idx \cup {NoIdx}
  /\ no_int_shadow \in BOOLEAN /\ no_interrupt \in BOOLEAN /\ no_notify \in BOOLEAN
  /\ event_triggered \in BOOLEAN /\ broken \in BOOLEAN /\ wanted \in BOOLEAN
  /\ notified \in BOOLEAN /\ irq \in BOOLEAN
  /\ pc \in {"idle", "publish", "kick", "notify", "store", "poll"}
  /\ dev \in {"awake", "asking", "asleep", "reset"} /\ fetched \subseteq Descs

Pub == IF pc = "publish" THEN 1 ELSE 0

(* A working device and its driver never have more entries between them    *)
(* than there are buffers, and every entry the device has yet to fetch     *)
(* holds a head.  virtqueue_add_split() kicks before num_added would wrap. *)
Counts ==
  /\ avail_idx = avail_idx_shadow
  /\ dev # "reset" =>
       /\ Minus(avail_idx, last_avail) + Minus(last_avail, used_idx)
            + Minus(used_idx, last_used_idx) + Pub <= Cardinality(Heads)
       /\ Cardinality(fetched) <= Minus(last_avail, used_idx)
       /\ \A k \in Nat : k < Minus(avail_idx, last_avail) + Pub =>
            avail_ring[(last_avail + k) % Num] \in Descs
       /\ Minus(used_idx, signalled) <= Num
  /\ num_added = Word - 1 => pc = "kick"

LEMMA IndicesInit == SplitInit => Indices
<1> SUFFICES ASSUME SplitInit PROVE Indices
  BY Zenon
<1>1. 0 \in Idx /\ 0 # NoIdx
  BY Widths DEF Idx
<1>2. event \in BOOLEAN
  BY SplitAssumption, Zenon DEF SplitInit
<1>3. /\ avail_ring \in [Descs -> Descs \cup {NoDesc}]
      /\ used_ring \in [Descs -> Descs \cup {NoDesc, BadId}]
  BY Zenon DEF SplitInit
<1>4. num_added \in Nat /\ num_added < Word /\ fetched \subseteq Descs
  BY Widths DEF SplitInit
<1>5. QED
  BY <1>1, <1>2, <1>3, <1>4, Zenon DEF SplitInit, Indices

LEMMA CountsInit ==
  ASSUME FiniteLaws, SplitInit
  PROVE  Counts
<1>1. Minus(0, 0) = 0
  <2>1. 0 \in Idx
    BY Widths DEF Idx
  <2>2. QED
    BY <2>1, MinusInc, Widths, Zenon
<1>2. Heads = {}
  BY Zenon DEF SplitInit, Heads
<1>3. Cardinality(Heads) = 0 /\ Cardinality(fetched) = 0
  BY <1>2, Zenon DEF FiniteLaws, SplitInit
<1>4. QED
  BY <1>1, <1>3, Widths DEF SplitInit, Counts, Pub

LEMMA Sizes ==
  ASSUME FiniteLaws, NEW S \in SUBSET Descs, NEW x \in Descs
  PROVE  /\ Cardinality(S) \in Nat /\ Cardinality(S) <= Num
         /\ Cardinality(S \cup {x}) = IF x \in S THEN Cardinality(S) ELSE Cardinality(S) + 1
         /\ Cardinality(S \ {x}) = IF x \in S THEN Cardinality(S) - 1 ELSE Cardinality(S)
<1>1. Cardinality(S) \in 0 .. Num
  BY Zenon DEF FiniteLaws
<1>2. /\ Cardinality(S \cup {x}) = (IF x \in S THEN Cardinality(S) ELSE Cardinality(S) + 1)
      /\ Cardinality(S \ {x}) = (IF x \in S THEN Cardinality(S) - 1 ELSE Cardinality(S))
  BY Zenon DEF FiniteLaws
<1>3. QED
  BY <1>1, <1>2, Widths

(* What the counts say as long as the device works.                        *)
LEMMA CountTypes ==
  ASSUME FiniteLaws, Structure, Indices, Counts, dev # "reset"
  PROVE  /\ Minus(avail_idx, last_avail) \in Nat /\ Minus(last_avail, used_idx) \in Nat
         /\ Minus(used_idx, last_used_idx) \in Nat /\ Pub \in {0, 1}
         /\ Minus(avail_idx, last_avail) + Minus(last_avail, used_idx)
              + Minus(used_idx, last_used_idx) + Pub <= Num
         /\ Minus(used_idx, signalled) \in Nat /\ Minus(used_idx, signalled) <= Num
         /\ Cardinality(Heads) \in Nat /\ Cardinality(fetched) \in Nat
<1>1. \A i \in Idx : i \in Nat
  BY DEF Idx
<1>2. /\ Minus(avail_idx, last_avail) \in Nat /\ Minus(last_avail, used_idx) \in Nat
      /\ Minus(used_idx, last_used_idx) \in Nat /\ Minus(used_idx, signalled) \in Nat
  BY <1>1, MinusIs, Zenon DEF Indices
<1>3. /\ Cardinality(Heads) \in Nat /\ Cardinality(Heads) <= Num /\ Cardinality(fetched) \in Nat
  <2>1. 0 \in Descs /\ Heads \in SUBSET Descs /\ fetched \in SUBSET Descs
    BY Widths DEF Descs, Heads, Indices
  <2>2. QED
    BY <2>1, Sizes, Zenon
<1>4. Pub \in {0, 1}
  BY Zenon DEF Pub
<1>5. QED
  BY <1>2, <1>3, <1>4, Widths DEF Counts

LEMMA IndicesStep ==
  ASSUME FiniteLaws, Structure, Indices, Counts, [SplitNext]_vars
  PROVE  Indices'
<1> USE DEF Indices
<1>0. /\ 0 \in Idx /\ AvailSlot \in Descs /\ UsedSlot \in Descs
      /\ \A i \in Idx : Inc(i) \in Idx /\ i % Num \in Descs
      /\ \A i, j \in Idx : Minus(i, j) \in Idx
      /\ \A i \in Int : i % Word \in Idx
  <2>1. Idx \subseteq Int /\ 0 \in Idx
    BY Widths DEF Idx
  <2>2. \A i \in Int : i % Word \in Idx
    BY Widths DEF Idx
  <2>3. QED
    BY <2>1, <2>2, SlotType, MinusIs, IncIs, Zenon DEF AvailSlot, UsedSlot
<1>1. ASSUME NEW b \in Bufs, NEW table \in BOOLEAN, virtqueue_add_split(b, table) PROVE Indices'
  <2>1. avail_ring' = [avail_ring EXCEPT ![AvailSlot] = free_head] /\ free_head \in Descs
    BY <1>1, AddStructure, Zenon
  <2>2. avail_ring' \in [Descs -> Descs \cup {NoDesc}]
    BY <2>1, Zenon
  <2>3. /\ pc' = "publish"
        /\ UNCHANGED <<event, avail_idx, avail_idx_shadow, num_added, last_used_idx, broken, bufs,
                       notified, irq>>
        /\ UNCHANGED <<cbVars, usedVars, devVars>>
    BY <1>1, Zenon DEF virtqueue_add_split
  <2>4. QED
    BY <2>2, <2>3 DEF cbVars, usedVars, devVars
<1>2. ASSUME NEW b \in Bufs, NEW table \in BOOLEAN, AddNoSpace(b, table) PROVE Indices'
  BY <1>2 DEF AddNoSpace, availVars, cbVars, usedVars, devVars
<1>3. CASE AddPublish
  <2>1. num_added # Word - 1
    BY <1>3, Zenon DEF Counts, AddPublish
  <2>2. num_added' \in Nat /\ num_added' < Word
    BY <1>3, <2>1, Widths DEF AddPublish
  <2>3. pc' \in {"idle", "publish", "kick", "notify", "store", "poll"}
    BY <1>3 DEF AddPublish
  <2>4. /\ avail_idx_shadow' \in Idx /\ avail_idx' \in Idx
        /\ UNCHANGED <<event, avail_ring, last_used_idx, broken, bufs, notified, irq>>
        /\ UNCHANGED <<cbVars, usedVars, devVars>>
    BY <1>0, <1>3, Zenon DEF AddPublish
  <2>5. QED
    BY <2>2, <2>3, <2>4 DEF cbVars, usedVars, devVars
<1>4. CASE virtqueue_kick_prepare_split
  <2>1. num_added' \in Nat /\ num_added' < Word
    BY <1>4, Widths DEF virtqueue_kick_prepare_split
  <2>2. QED
    BY <1>4, <2>1 DEF virtqueue_kick_prepare_split, cbVars, usedVars, devVars
<1>5. ASSUME NEW ok \in BOOLEAN, virtqueue_notify(ok) PROVE Indices'
  BY <1>5, Zenon DEF virtqueue_notify, availVars, cbVars, usedVars, devVars
<1>6. CASE GetBufNone
  BY <1>6, Zenon DEF GetBufNone, availVars, usedVars, devVars
<1>7. CASE virtqueue_get_buf_ctx_split
  <2>1. /\ used_ring' \in [Descs -> Descs \cup {NoDesc, BadId}] /\ last_used_idx' \in Idx
        /\ pc' \in {pc, "store"} /\ armed' \in {armed, NoIdx} /\ broken' \in BOOLEAN
    <3>1. CASE used_ring[UsedSlot] \in Descs /\ data[used_ring[UsedSlot]] # NoBuf
      BY <1>0, <1>7, <3>1, Zenon DEF virtqueue_get_buf_ctx_split
    <3>2. CASE ~(used_ring[UsedSlot] \in Descs /\ data[used_ring[UsedSlot]] # NoBuf)
      BY <1>7, <3>2, Zenon DEF virtqueue_get_buf_ctx_split
    <3>3. QED
      BY <3>1, <3>2, Zenon
  <2>2. QED
    BY <1>7, <2>1 DEF virtqueue_get_buf_ctx_split, availVars, devVars
<1>8. CASE GetBufStore
  BY <1>8 DEF GetBufStore, availVars, usedVars, devVars
<1>9. CASE virtqueue_disable_cb
  <2>1. no_int_shadow' \in BOOLEAN /\ no_interrupt' \in BOOLEAN /\ used_event' \in Idx
    BY <1>0, <1>9, Zenon DEF virtqueue_disable_cb
  <2>2. QED
    BY <1>9, <2>1, Zenon DEF virtqueue_disable_cb, availVars, usedVars, devVars
<1>10. CASE virtqueue_enable_cb_prepare
  BY <1>0, <1>10, Zenon DEF virtqueue_enable_cb_prepare, EnableAt, availVars, usedVars, devVars
<1>11. CASE virtqueue_enable_cb_delayed
  <2>1. PICK m \in Nat : m = Minus(avail_idx_shadow, last_used_idx) /\ m < Word
    <3>1. Minus(avail_idx_shadow, last_used_idx) \in Idx
      BY <1>0, Zenon
    <3>2. QED
      BY <3>1, Widths DEF Idx
  <2>2. (m * 3) \div 4 \in Nat /\ (m * 3) \div 4 < Word
    BY <2>1, Widths
  <2>3. bufs' \in Idx /\ used_event' \in Idx
    <3>1. bufs' = (m * 3) \div 4 /\ used_event' = (last_used_idx + (m * 3) \div 4) % Word
      BY <1>11, <2>1, Zenon DEF virtqueue_enable_cb_delayed, EnableAt
    <3>2. (m * 3) \div 4 \in Idx
      BY <2>2, Widths DEF Idx
    <3>3. last_used_idx + (m * 3) \div 4 \in Int
      BY <2>2 DEF Idx
    <3>4. QED
      BY <1>0, <3>1, <3>2, <3>3, Zenon
  <2>4. QED
    BY <1>11, <2>3, Zenon DEF virtqueue_enable_cb_delayed, EnableAt, availVars, usedVars, devVars
<1>12. CASE virtqueue_poll
  <2>1. last_used_idx + bufs \in Int
    BY DEF Idx
  <2>2. QED
    BY <1>0, <1>12, <2>1 DEF virtqueue_poll, availVars, usedVars, devVars
<1>13. CASE vring_interrupt
  <2>1. event_triggered' \in BOOLEAN /\ armed' \in Idx \cup {NoIdx}
    BY <1>13, Zenon DEF vring_interrupt
  <2>2. /\ irq' \in BOOLEAN
        /\ UNCHANGED <<event, availVars, no_int_shadow, no_interrupt, used_event, wanted,
                       usedVars, devVars, last_used_idx, broken, pc, bufs, notified>>
    BY <1>13, Zenon DEF vring_interrupt
  <2>3. QED
    BY <2>1, <2>2 DEF availVars, usedVars, devVars
<1>14. CASE virtio_break_device
  BY <1>14 DEF virtio_break_device, availVars, cbVars, usedVars, devVars
<1>15. CASE virtqueue_detach_unused_buf_split
  <2>1. 1 \in Idx
    BY Widths DEF Idx
  <2>2. QED
    BY <1>0, <1>15, <2>1 DEF virtqueue_detach_unused_buf_split, cbVars, usedVars, devVars
<1>16. CASE DevFetch
  <2>1. avail_ring[last_avail % Num] \in Descs
    <3>1. Minus(avail_idx, last_avail) \in Nat /\ Minus(avail_idx, last_avail) # 0 /\ Pub \in {0, 1}
      BY <1>16, CountTypes, MinusInc, Zenon DEF DevFetch
    <3>2. 0 < Minus(avail_idx, last_avail) + Pub /\ last_avail + 0 = last_avail
      BY <3>1 DEF Idx
    <3>3. avail_ring[(last_avail + 0) % Num] \in Descs
      BY <1>16, <3>2, Zenon DEF Counts, DevFetch
    <3>4. QED
      BY <3>2, <3>3, Zenon
  <2>2. avail_ring' \in [Descs -> Descs \cup {NoDesc}]
    BY <1>0, <1>16, Zenon DEF DevFetch
  <2>3. QED
    BY <1>0, <1>16, <2>1, <2>2 DEF DevFetch, cbVars, usedVars
<1>17. CASE DevAskKick
  <2>1. avail_event' \in Idx /\ no_notify' \in BOOLEAN
    BY <1>17, Zenon DEF DevAskKick
  <2>2. /\ dev' = "asking"
        /\ UNCHANGED <<event, availVars, cbVars, usedVars, last_avail, fetched, last_used_idx,
                       broken, pc, bufs, notified, irq>>
    BY <1>17, Zenon DEF DevAskKick
  <2>3. QED
    BY <2>1, <2>2 DEF availVars, cbVars, usedVars
<1>18. CASE DevSleep
  BY <1>18 DEF DevSleep, availVars, cbVars, usedVars
<1>19. CASE DevWake
  <2>1. /\ notified' \in BOOLEAN /\ no_notify' \in BOOLEAN
        /\ dev' \in {"awake", "asking", "asleep", "reset"}
    BY <1>19, Zenon DEF DevWake
  <2>2. UNCHANGED <<event, availVars, cbVars, usedVars, last_avail, fetched, avail_event,
                    last_used_idx, broken, pc, bufs, irq>>
    BY <1>19, Zenon DEF DevWake
  <2>3. QED
    BY <2>1, <2>2, Zenon DEF availVars, cbVars, usedVars
<1>20. CASE DevSignal
  BY <1>20 DEF DevSignal, availVars, cbVars, devVars
<1>21. CASE DevReset
  BY <1>0, <1>21, Zenon DEF DevReset, availVars
<1>22. ASSUME NEW h \in fetched, DevUse(h) \/ DevBadUse(h) PROVE Indices'
  <2>1. used_ring' \in [Descs -> Descs \cup {NoDesc, BadId}]
    BY <1>0, <1>22, Zenon DEF DevUse, DevBadUse
  <2>2. QED
    BY <1>0, <1>22, <2>1 DEF DevUse, DevBadUse, availVars, cbVars
<1>23. CASE UNCHANGED vars
  BY <1>23 DEF vars, availVars, cbVars, usedVars, devVars
<1>24. QED
  BY <1>1, <1>2, <1>3, <1>4, <1>5, <1>6, <1>7, <1>8, <1>9, <1>10, <1>11, <1>12, <1>13, <1>14,
     <1>15, <1>16, <1>17, <1>18, <1>19, <1>20, <1>21, <1>22, <1>23, Zenon
     DEF SplitNext, DriverNext, DeviceNext, DetachNone

(* Steps that move no entry.                                               *)
LEMMA CountsQuiet ==
  ASSUME Counts,
         UNCHANGED <<data, avail_ring, avail_idx, avail_idx_shadow, used_idx, signalled,
                     last_used_idx, last_avail, fetched>>,
         Pub' = Pub, dev = "reset" => dev' = "reset",
         num_added' = Word - 1 => pc' = "kick"
  PROVE  Counts'
<1>1. Heads' = Heads
  BY Zenon DEF Heads
<1>2. /\ Minus(avail_idx, last_avail)' = Minus(avail_idx, last_avail)
      /\ Minus(last_avail, used_idx)' = Minus(last_avail, used_idx)
      /\ Minus(used_idx, last_used_idx)' = Minus(used_idx, last_used_idx)
      /\ Minus(used_idx, signalled)' = Minus(used_idx, signalled)
  BY Zenon DEF Minus
<1>3. QED
  BY <1>1, <1>2, Zenon DEF Counts

(* virtqueue_add_split() fills the slot after those the device can see.    *)
LEMMA AddCounts ==
  ASSUME FiniteLaws, Structure, Indices, Counts, NEW b \in Bufs, NEW table \in BOOLEAN,
         virtqueue_add_split(b, table)
  PROVE  Counts'
<1>1. PICK A \in Nat, B \in Nat, C \in Nat :
        /\ A = Minus(avail_idx, last_avail) /\ B = Minus(last_avail, used_idx)
        /\ C = Minus(used_idx, last_used_idx)
  BY CountTypes, Zenon DEF virtqueue_add_split
<1>2. /\ pc = "idle" /\ dev # "reset" /\ pc' = "publish"
      /\ UNCHANGED <<avail_idx, avail_idx_shadow, num_added, used_idx, signalled, last_used_idx,
                     dev, last_avail, fetched>>
  BY Zenon DEF virtqueue_add_split, usedVars, devVars
<1>3. PICK head \in Descs \ Heads :
        /\ Heads' = Heads \cup {head}
        /\ avail_ring' = [avail_ring EXCEPT ![AvailSlot] = head]
  BY AddStructure, Zenon
<1>4. Cardinality(Heads') = Cardinality(Heads) + 1 /\ Cardinality(Heads) \in Nat
  BY <1>3, Sizes, Constants, Zenon
<1>5. /\ A = Minus(avail_idx, last_avail)' /\ B = Minus(last_avail, used_idx)'
      /\ C = Minus(used_idx, last_used_idx)'
      /\ Minus(used_idx, signalled)' = Minus(used_idx, signalled)
  BY <1>1, <1>2, Zenon DEF Minus
<1>6. Pub = 0 /\ Pub' = 1
  BY <1>2, Zenon DEF Pub
<1>7. A + B + C + 1 <= Cardinality(Heads')
  <2>1. A + B + C + 0 <= Cardinality(Heads)
    BY <1>1, <1>2, <1>6, Zenon DEF Counts
  <2>2. QED
    BY <1>4, <2>1
<1>8. ASSUME NEW k \in Nat, k < A + 1
      PROVE  avail_ring'[(last_avail + k) % Num] \in Descs
  <2>1. (last_avail + k) % Num \in Descs /\ last_avail \in Int
    BY SlotType DEF Indices, Idx
  <2>2. CASE k < A
    <3>1. k < A + 0
      BY <2>2
    <3>2. avail_ring[(last_avail + k) % Num] \in Descs
      BY <1>1, <1>2, <1>6, <3>1, Zenon DEF Counts
    <3>3. QED
      BY <1>3, <2>1, <3>2, Zenon DEF Indices
  <2>3. CASE k = A
    <3>1. avail_idx_shadow = (last_avail + A) % Word
      <4>1. avail_idx \in Int /\ 0 <= avail_idx /\ avail_idx < Word /\ last_avail \in Int
        BY Widths DEF Indices, Idx
      <4>2. A = (IF last_avail <= avail_idx THEN avail_idx - last_avail
                 ELSE avail_idx - last_avail + Word)
        BY <1>1, MinusIs, Zenon DEF Indices
      <4>3. CASE last_avail <= avail_idx
        <5>1. last_avail + A = avail_idx
          BY <4>1, <4>2, <4>3, Widths
        <5>2. avail_idx % Word = avail_idx
          BY InWidth, Zenon DEF Indices
        <5>3. QED
          BY <5>1, <5>2, Zenon DEF Counts
      <4>4. CASE ~(last_avail <= avail_idx)
        <5>1. last_avail + A = avail_idx + Word /\ avail_idx + Word \in Word .. 2 * Word - 1
          BY <4>1, <4>2, <4>4, Widths
        <5>2. (avail_idx + Word) % Word = avail_idx
          BY OneTurn, Zenon DEF Indices
        <5>3. QED
          BY <5>1, <5>2, Zenon DEF Counts
      <4>5. QED
        BY <4>3, <4>4, Zenon
    <3>2. AvailSlot = (last_avail + k) % Num
      <4>1. last_avail + A \in Int
        BY <2>1
      <4>2. QED
        BY <2>3, <3>1, <4>1, SlotOfIndex, Zenon DEF AvailSlot
    <3>3. QED
      BY <1>3, <2>1, <3>2, Zenon DEF Indices
  <2>4. QED
    BY <1>1, <1>8, <2>2, <2>3
<1>9. Cardinality(fetched) <= B /\ Minus(used_idx, signalled) <= Num
      /\ avail_idx = avail_idx_shadow /\ num_added # Word - 1
  BY <1>1, <1>2, Zenon DEF Counts
<1>10. QED
  BY <1>2, <1>5, <1>6, <1>7, <1>8, <1>9, Zenon DEF Counts

(* The entry is published.                                                 *)
LEMMA PublishCounts ==
  ASSUME FiniteLaws, Structure, Indices, Counts, AddPublish
  PROVE  Counts'
<1>1. /\ pc = "publish" /\ avail_idx' = Inc(avail_idx) /\ avail_idx_shadow' = avail_idx'
      /\ num_added' = num_added + 1 /\ pc' # "publish"
      /\ num_added' = Word - 1 => pc' = "kick"
      /\ UNCHANGED <<data, avail_ring, used_idx, signalled, last_used_idx, dev, last_avail, fetched>>
  BY Zenon DEF AddPublish, Counts, listVars, usedVars, devVars
<1>2. Pub = 1 /\ Pub' = 0 /\ Heads' = Heads
  BY <1>1, Zenon DEF Pub, Heads
<1>3. /\ Minus(last_avail, used_idx)' = Minus(last_avail, used_idx)
      /\ Minus(used_idx, last_used_idx)' = Minus(used_idx, last_used_idx)
      /\ Minus(used_idx, signalled)' = Minus(used_idx, signalled)
  BY <1>1, Zenon DEF Minus
<1>4. CASE dev # "reset"
  <2>1. PICK A \in Nat, B \in Nat, C \in Nat :
        /\ A = Minus(avail_idx, last_avail) /\ B = Minus(last_avail, used_idx)
        /\ C = Minus(used_idx, last_used_idx) /\ A + B + C + 1 <= Num
    BY <1>2, <1>4, CountTypes, Zenon
  <2>2. A + 1 < Word
    BY <2>1, Widths
  <2>3. Minus(avail_idx, last_avail)' = A + 1
    BY <1>1, <2>1, <2>2, MinusInc, Zenon DEF Indices
  <2>4. A + B + C + 1 <= Cardinality(Heads) /\ (A + 1) + B + C + 0 = A + B + C + 1
        /\ (A + 1) + 0 = A + 1
    BY <1>2, <1>4, <2>1 DEF Counts
  <2>5. \A k \in Nat : k < A + 1 => avail_ring[(last_avail + k) % Num] \in Descs
    BY <1>2, <1>4, <2>1, Zenon DEF Counts
  <2>6. Cardinality(fetched) <= B /\ Minus(used_idx, signalled) <= Num
    BY <1>4, <2>1, Zenon DEF Counts
  <2>7. QED
    BY <1>1, <1>2, <1>3, <2>1, <2>3, <2>4, <2>5, <2>6, Zenon DEF Counts
<1>5. CASE dev = "reset"
  BY <1>1, <1>5, Zenon DEF Counts
<1>6. QED
  BY <1>4, <1>5, Zenon

(* A buffer is returned: virtqueue_get_buf_ctx_split() takes an entry of   *)
(* the used ring, and its head is a head no longer.                        *)
LEMMA GetBufCounts ==
  ASSUME FiniteLaws, Structure, Indices, Counts, virtqueue_get_buf_ctx_split
  PROVE  Counts'
<1>1. CASE used_ring[UsedSlot] \in Heads
  <2>1. /\ dev # "reset" /\ used_idx # last_used_idx /\ pc = "idle" /\ pc' = "store"
        /\ last_used_idx' = Inc(last_used_idx)
        /\ UNCHANGED <<avail_ring, avail_idx, avail_idx_shadow, num_added, used_idx, signalled,
                       dev, last_avail, fetched>>
    BY <1>1, Zenon DEF virtqueue_get_buf_ctx_split, more_used_split, Heads, availVars, devVars
  <2>2. PICK h \in Heads : Heads' = Heads \ {h}
    <3>1. detach_buf_split(used_ring[UsedSlot])
      BY <1>1, Zenon DEF virtqueue_get_buf_ctx_split, Heads
    <3>2. QED
      BY <1>1, <3>1, DetachStructure, Zenon
  <2>3. Cardinality(Heads') = Cardinality(Heads) - 1 /\ Cardinality(Heads) \in Nat
    BY <2>2, Sizes, Constants, Zenon
  <2>4. PICK A \in Nat, B \in Nat, C \in Nat :
        /\ A = Minus(avail_idx, last_avail) /\ B = Minus(last_avail, used_idx)
        /\ C = Minus(used_idx, last_used_idx)
    BY <2>1, CountTypes, Zenon
  <2>5. Pub = 0 /\ Pub' = 0
    BY <2>1, Zenon DEF Pub
  <2>6. /\ A = Minus(avail_idx, last_avail)' /\ B = Minus(last_avail, used_idx)'
        /\ Minus(used_idx, signalled)' = Minus(used_idx, signalled)
    BY <2>1, <2>4, Zenon DEF Minus
  <2>7. Minus(used_idx, last_used_idx)' = C - 1
    BY <2>1, <2>4, MinusInc DEF Indices
  <2>8. A + B + (C - 1) + 0 <= Cardinality(Heads')
    <3>1. A + B + C + 0 <= Cardinality(Heads)
      BY <2>1, <2>4, <2>5, Zenon DEF Counts
    <3>2. QED
      BY <2>3, <3>1
  <2>9. QED
    BY <2>1, <2>4, <2>5, <2>6, <2>7, <2>8, Zenon DEF Counts
<1>2. CASE used_ring[UsedSlot] \notin Heads
  <2>1. /\ pc = "idle"
        /\ UNCHANGED <<data, avail_ring, avail_idx, avail_idx_shadow, num_added, used_idx,
                       signalled, last_used_idx, dev, last_avail, fetched, pc>>
    BY <1>2, Zenon DEF virtqueue_get_buf_ctx_split, Heads, listVars, availVars, devVars
  <2>2. Pub' = Pub /\ num_added # Word - 1
    BY <2>1, Zenon DEF Pub, Counts
  <2>3. QED
    BY <2>1, <2>2, CountsQuiet, Zenon
<1>3. QED
  BY <1>1, <1>2, Zenon

(* The device moves an entry from the avail ring to those it has fetched.  *)
LEMMA FetchCounts ==
  ASSUME FiniteLaws, Structure, Indices, Counts, DevFetch
  PROVE  Counts'
<1>1. /\ dev # "reset" /\ avail_idx # last_avail /\ last_avail' = Inc(last_avail)
      /\ fetched' = fetched \cup {avail_ring[last_avail % Num]}
      /\ avail_ring' = [avail_ring EXCEPT ![last_avail % Num] = NoDesc]
      /\ UNCHANGED <<data, avail_idx, avail_idx_shadow, num_added, used_idx, signalled,
                     last_used_idx, dev, pc>>
  BY Zenon DEF DevFetch, listVars, usedVars
<1>2. PICK A \in Nat, B \in Nat, C \in Nat :
        /\ A = Minus(avail_idx, last_avail) /\ B = Minus(last_avail, used_idx)
        /\ C = Minus(used_idx, last_used_idx) /\ A + B + C + Pub <= Num /\ Pub \in {0, 1}
  BY <1>1, CountTypes, Zenon
<1>3. Pub' = Pub /\ Heads' = Heads
  BY <1>1, Zenon DEF Pub, Heads
<1>4. /\ C = Minus(used_idx, last_used_idx)'
      /\ Minus(used_idx, signalled)' = Minus(used_idx, signalled)
  BY <1>1, <1>2, Zenon DEF Minus
<1>5. A # 0 /\ Minus(avail_idx, last_avail)' = A - 1
  BY <1>1, <1>2, MinusInc DEF Indices
<1>6. Minus(last_avail, used_idx)' = B + 1
  <2>1. B + 1 < Word
    BY <1>2, <1>5, Widths
  <2>2. QED
    BY <1>1, <1>2, <2>1, MinusInc DEF Indices
<1>7. (A - 1) + (B + 1) + C + Pub <= Cardinality(Heads)
  <2>1. A + B + C + Pub <= Cardinality(Heads)
    BY <1>1, <1>2, Zenon DEF Counts
  <2>2. Cardinality(Heads) \in Nat
    BY <1>1, CountTypes, Zenon
  <2>3. QED
    BY <1>2, <2>1, <2>2
<1>8. Cardinality(fetched') <= B + 1
  <2>1. Cardinality(fetched) \in Nat /\ Cardinality(fetched) <= B
    BY <1>1, <1>2, CountTypes, Zenon DEF Counts
  <2>2. Cardinality(fetched') \in {Cardinality(fetched), Cardinality(fetched) + 1}
    <3>1. fetched' \subseteq Descs /\ fetched \subseteq Descs /\ avail_ring[last_avail % Num] \in fetched'
      BY <1>1, IndicesStep, Zenon DEF SplitNext, DeviceNext, Indices
    <3>2. QED
      BY <1>1, <3>1, Sizes, Zenon
  <2>3. QED
    BY <1>2, <2>1, <2>2
<1>9. ASSUME NEW k \in Nat, k < (A - 1) + Pub
      PROVE  avail_ring'[(last_avail' + k) % Num] \in Descs
  <2>1. last_avail \in Int /\ k + 1 \in 1 .. Num - 1 /\ k + 1 < A + Pub /\ k + 1 \in Nat
    BY <1>2, <1>9, Widths DEF Indices, Idx
  <2>2. (last_avail + (k + 1)) % Num # last_avail % Num
    BY <2>1, SlotsApart, Zenon
  <2>3. (last_avail' + k) % Num = (last_avail + (k + 1)) % Num
    <3>1. CASE last_avail = Word - 1
      <4>1. last_avail' = 0
        BY <1>1, <3>1, IncIs, Zenon DEF Indices
      <4>2. last_avail' + k = k /\ last_avail + (k + 1) = k + Word
        BY <3>1, <4>1, Widths
      <4>3. PICK p \in Int : Word = Num * p
        BY Turns, Zenon
      <4>4. (k + Num * p) % Num = k % Num
        <5>1. k \in Int /\ Num \in Nat \ {0}
          BY Widths
        <5>2. QED
          BY <5>1, SlotOfSum, Zenon
      <4>5. QED
        BY <4>2, <4>3, <4>4, Zenon
    <3>2. CASE last_avail # Word - 1
      <4>1. last_avail' = last_avail + 1
        BY <1>1, <3>2, IncIs, Zenon DEF Indices
      <4>2. last_avail' + k = last_avail + (k + 1)
        BY <2>1, <4>1
      <4>3. QED
        BY <4>2, Zenon
    <3>3. QED
      BY <3>1, <3>2, Zenon
  <2>4. avail_ring[(last_avail + (k + 1)) % Num] \in Descs
    BY <1>1, <1>2, <2>1, Zenon DEF Counts
  <2>5. (last_avail + (k + 1)) % Num \in Descs
    BY <2>1, SlotType
  <2>6. QED
    BY <1>1, <2>2, <2>3, <2>4, <2>5, Zenon DEF Indices
<1>10. QED
  BY <1>1, <1>2, <1>3, <1>4, <1>5, <1>6, <1>7, <1>8, <1>9, Zenon DEF Counts

(* The device moves an entry from those it has fetched to the used ring.   *)
LEMMA UseCounts ==
  ASSUME FiniteLaws, Structure, Indices, Counts, NEW h \in fetched, DevUse(h) \/ DevBadUse(h)
  PROVE  /\ Counts'
         /\ Minus(used_idx, last_used_idx) + 1 < Word /\ Minus(used_idx, signalled) + 1 < Word
<1>1. /\ dev # "reset" /\ Minus(used_idx, signalled) < Num
      /\ used_idx' = Inc(used_idx) /\ fetched' = fetched \ {h}
      /\ UNCHANGED <<data, avail_ring, avail_idx, avail_idx_shadow, num_added, signalled,
                     last_used_idx, dev, last_avail, pc>>
  BY Zenon DEF DevUse, DevBadUse, listVars, availVars
<1>2. PICK A \in Nat, B \in Nat, C \in Nat, D \in Nat :
        /\ A = Minus(avail_idx, last_avail) /\ B = Minus(last_avail, used_idx)
        /\ C = Minus(used_idx, last_used_idx) /\ D = Minus(used_idx, signalled)
        /\ A + B + C + Pub <= Num /\ Pub \in {0, 1}
  BY <1>1, CountTypes, Zenon
<1>3. Pub' = Pub /\ Heads' = Heads
  BY <1>1, Zenon DEF Pub, Heads
<1>4. A = Minus(avail_idx, last_avail)'
  BY <1>1, <1>2, Zenon DEF Minus
<1>5. /\ Cardinality(fetched) \in Nat /\ Cardinality(fetched') \in Nat
      /\ Cardinality(fetched') = Cardinality(fetched) - 1 /\ Cardinality(fetched) <= B
  <2>1. fetched \in SUBSET Descs /\ fetched' \in SUBSET Descs /\ h \in Descs
    BY <1>1, Zenon DEF Indices
  <2>2. /\ Cardinality(fetched) \in Nat /\ Cardinality(fetched') \in Nat
        /\ Cardinality(fetched') = Cardinality(fetched) - 1
    BY <1>1, <2>1, Sizes, Zenon
  <2>3. Cardinality(fetched) <= B
    BY <1>1, <1>2, Zenon DEF Counts
  <2>4. QED
    BY <2>2, <2>3, Zenon
<1>6. B # 0 /\ C + 1 < Word /\ D + 1 < Word /\ D + 1 <= Num
  BY <1>1, <1>2, <1>5, Widths
<1>7. Minus(last_avail, used_idx)' = B - 1
  BY <1>1, <1>2, <1>6, MinusInc DEF Indices
<1>8. Minus(used_idx, last_used_idx)' = C + 1 /\ Minus(used_idx, signalled)' = D + 1
  BY <1>1, <1>2, <1>6, MinusInc, Zenon DEF Indices
<1>9. A + (B - 1) + (C + 1) + Pub <= Cardinality(Heads)
  <2>1. A + B + C + Pub <= Cardinality(Heads)
    BY <1>1, <1>2, Zenon DEF Counts
  <2>2. Cardinality(Heads) \in Nat
    BY <1>1, CountTypes, Zenon
  <2>3. QED
    BY <1>2, <2>1, <2>2
<1>10. Cardinality(fetched') <= B - 1
  BY <1>2, <1>5
<1>11. Counts'
  BY <1>1, <1>2, <1>3, <1>4, <1>6, <1>7, <1>8, <1>9, <1>10, Zenon DEF Counts
<1>12. QED
  BY <1>2, <1>6, <1>11, Zenon

(* The steps that move no entry of the rings.                              *)
LEMMA QuietCounts ==
  ASSUME Indices, Counts,
         \/ \E b \in Bufs, table \in BOOLEAN : AddNoSpace(b, table)
         \/ virtqueue_kick_prepare_split \/ \E ok \in BOOLEAN : virtqueue_notify(ok)
         \/ GetBufNone \/ GetBufStore \/ virtqueue_disable_cb \/ virtqueue_enable_cb_prepare
         \/ virtqueue_enable_cb_delayed \/ virtqueue_poll \/ vring_interrupt
         \/ virtio_break_device \/ DevAskKick \/ DevSleep \/ DevWake \/ UNCHANGED vars
  PROVE  Counts'
<1>1. /\ UNCHANGED <<data, avail_ring, avail_idx, avail_idx_shadow, used_idx, signalled,
                     last_used_idx, last_avail, fetched>>
      /\ dev = "reset" => dev' = "reset"
  BY Zenon DEF AddNoSpace, virtqueue_kick_prepare_split, virtqueue_notify, GetBufNone, GetBufStore,
     virtqueue_disable_cb, virtqueue_enable_cb_prepare, virtqueue_enable_cb_delayed, EnableAt,
     virtqueue_poll, vring_interrupt, virtio_break_device, DevAskKick, DevSleep, DevWake,
     vars, listVars, availVars, usedVars, devVars
<1>2. \/ UNCHANGED <<pc, num_added>>
      \/ pc' # "publish" /\ pc \notin {"publish", "kick"} /\ UNCHANGED num_added
      \/ pc' # "publish" /\ pc # "publish" /\ num_added' = 0
  BY Zenon DEF AddNoSpace, virtqueue_kick_prepare_split, virtqueue_notify, GetBufNone, GetBufStore,
     virtqueue_disable_cb, virtqueue_enable_cb_prepare, virtqueue_enable_cb_delayed, EnableAt,
     virtqueue_poll, vring_interrupt, virtio_break_device, DevAskKick, DevSleep, DevWake,
     vars, availVars
<1>3. Pub' = Pub
  BY <1>2, Zenon DEF Pub
<1>4. num_added' = Word - 1 => pc' = "kick"
  BY <1>2, Widths DEF Counts
<1>5. QED
  BY <1>1, <1>3, <1>4, CountsQuiet, Zenon

LEMMA CountsStep ==
  ASSUME FiniteLaws, Structure, Indices, Counts, [SplitNext]_vars
  PROVE  Counts'
<1>1. CASE \E b \in Bufs, table \in BOOLEAN : virtqueue_add_split(b, table)
  BY <1>1, AddCounts, Zenon
<1>2. CASE AddPublish
  BY <1>2, PublishCounts, Zenon
<1>3. CASE virtqueue_get_buf_ctx_split
  BY <1>3, GetBufCounts, Zenon
<1>4. CASE virtqueue_detach_unused_buf_split
  BY <1>4, Zenon DEF virtqueue_detach_unused_buf_split, devVars, Counts
<1>5. CASE DevFetch
  BY <1>5, FetchCounts, Zenon
<1>6. CASE \E h \in fetched : DevUse(h) \/ DevBadUse(h)
  BY <1>6, UseCounts, Zenon
<1>7. CASE DevSignal
  <2>1. /\ dev # "reset" /\ signalled' = used_idx
        /\ UNCHANGED <<data, avail_ring, avail_idx, avail_idx_shadow, num_added, used_idx,
                       last_used_idx, dev, last_avail, fetched, pc>>
    BY <1>7, Zenon DEF DevSignal, listVars, availVars, devVars
  <2>2. Heads' = Heads /\ Pub' = Pub
    BY <2>1, Zenon DEF Heads, Pub
  <2>3. /\ Minus(avail_idx, last_avail)' = Minus(avail_idx, last_avail)
        /\ Minus(last_avail, used_idx)' = Minus(last_avail, used_idx)
        /\ Minus(used_idx, last_used_idx)' = Minus(used_idx, last_used_idx)
    BY <2>1, Zenon DEF Minus
  <2>4. Minus(used_idx, signalled)' = 0 /\ 0 <= Num
    BY <2>1, MinusInc, Widths DEF Indices
  <2>5. QED
    BY <2>1, <2>2, <2>3, <2>4, Zenon DEF Counts
<1>8. CASE DevReset
  BY <1>8, Zenon DEF DevReset, availVars, Counts
<1>9. QED
  BY <1>1, <1>2, <1>3, <1>4, <1>5, <1>6, <1>7, <1>8, QuietCounts, Zenon
     DEF SplitNext, DriverNext, DeviceNext, DetachNone

=============================================================================
