------------------------------ MODULE MemProofs ------------------------------
(***************************************************************************)
(* Proofs about the kernel heap.  The inductive invariant HeapInv is the   *)
(* type of the headers, Tiled, and a free list that is sorted, complete    *)
(* and merged; HeapTiled and the refinement of Allocator follow from it.   *)
(* The lemmas are about headers h and lists q in general, so that they     *)
(* hold also in the middle of flux_alloc and flux_free.                    *)
(***************************************************************************)
EXTENDS MemProperties, SequenceLemmas, FiniteSetTheorems

HeaderType == [used: BOOLEAN, size: Nat \ {0}]

FreeIn(h) == {b \in DOMAIN h : ~h[b].used}

UsedIn(h) == {b \in DOMAIN h : h[b].used}

EndIn(h, b) == b + Header + h[b].size

\* The headers tile the heap.
TiledIn(h) ==
    /\ DOMAIN h \subseteq Nat
    /\ \A b \in DOMAIN h : h[b] \in HeaderType
    /\ 0 \in DOMAIN h
    /\ \A b \in DOMAIN h : EndIn(h, b) \in DOMAIN h \cup {HeapSize}
    /\ \A b \in DOMAIN h : EndIn(h, b) <= HeapSize
    /\ \A b, c \in DOMAIN h : b < c => EndIn(h, b) <= c

\* The list is the free blocks, in ascending order.
ListIn(h, q) ==
    /\ q \in Seq(Nat)
    /\ \A i \in 1 .. Len(q) : q[i] \in FreeIn(h)
    /\ \A b \in FreeIn(h) : \E i \in 1 .. Len(q) : q[i] = b
    /\ \A i, j \in 1 .. Len(q) : i < j => q[i] < q[j]

HeapInv ==
    /\ TiledIn(heap)
    /\ ListIn(heap, freeList)
    /\ Touching(heap, freeList) = {}

-----------------------------------------------------------------------------
(* The free list.                                                           *)

\* A block is put in where the list stays sorted.
LEMMA WithFreeIs ==
  ASSUME NEW q \in Seq(Nat), NEW b \in Nat,
         \A i, j \in 1 .. Len(q) : i < j => q[i] < q[j]
  PROVE  \E p \in 1 .. Len(q) + 1 :
            /\ WithFree(q, b) = InsertAt(q, p, b)
            /\ \A i \in 1 .. Len(q) : i < p => q[i] < b
            /\ \A i \in 1 .. Len(q) : p <= i => b <= q[i]
<1> DEFINE places == {i \in 1 .. Len(q) + 1 : i > Len(q) \/ q[i] >= b}
           p == CHOOSE i \in places : \A j \in places : i <= j
<1>1. Len(q) \in Nat /\ \A i \in 1 .. Len(q) : q[i] \in Nat OBVIOUS
<1>2. Len(q) + 1 \in places /\ places \in SUBSET Nat BY <1>1
<1>3. p \in places /\ \A j \in places : p <= j BY <1>2, LeastOf
<1>4. WithFree(q, b) = InsertAt(q, p, b) BY DEF WithFree
<1> HIDE DEF p
<1>5. p \in 1 .. Len(q) + 1 /\ (p > Len(q) \/ q[p] >= b) BY <1>3
<1>6. ASSUME NEW i \in 1 .. Len(q), i < p PROVE q[i] < b
  <2>1. i \notin places BY <1>1, <1>3, <1>5, <1>6
  <2> QED BY <1>1, <2>1
<1>7. ASSUME NEW i \in 1 .. Len(q), p <= i PROVE b <= q[i]
  <2>1. p \in 1 .. Len(q) /\ q[p] >= b BY <1>1, <1>5, <1>7
  <2>2. p = i \/ q[p] < q[i] BY <1>1, <1>7, <2>1
  <2> QED BY <1>1, <2>1, <2>2
<1> QED BY <1>4, <1>5, <1>6, <1>7

\* The list with a block that has become free.
LEMMA WithFreeOk ==
  ASSUME NEW h, NEW q, ListIn(h, q), NEW b \in Nat, b \notin FreeIn(h),
         NEW g, FreeIn(g) = FreeIn(h) \cup {b}
  PROVE  /\ ListIn(g, WithFree(q, b))
         /\ \E p \in 1 .. Len(q) + 1 :
               /\ Len(WithFree(q, b)) = Len(q) + 1
               /\ \A j \in 1 .. Len(q) + 1 :
                     WithFree(q, b)[j] = IF j < p THEN q[j]
                                         ELSE IF j = p THEN b ELSE q[j - 1]
<1>1. /\ q \in Seq(Nat)
      /\ \A i \in 1 .. Len(q) : q[i] \in FreeIn(h)
      /\ \A x \in FreeIn(h) : \E i \in 1 .. Len(q) : q[i] = x
      /\ \A i, j \in 1 .. Len(q) : i < j => q[i] < q[j]
  BY DEF ListIn
<1>2. Len(q) \in Nat /\ \A i \in 1 .. Len(q) : q[i] \in Nat BY <1>1
<1>3. PICK p \in 1 .. Len(q) + 1 :
        /\ WithFree(q, b) = InsertAt(q, p, b)
        /\ \A i \in 1 .. Len(q) : i < p => q[i] < b
        /\ \A i \in 1 .. Len(q) : p <= i => b <= q[i]
  BY <1>1, WithFreeIs
<1> DEFINE r == WithFree(q, b)
<1>4. /\ r \in Seq(Nat) /\ Len(r) = Len(q) + 1
      /\ \A j \in 1 .. Len(q) + 1 :
            r[j] = IF j < p THEN q[j] ELSE IF j = p THEN b ELSE q[j - 1]
  BY <1>1, <1>3, InsertAtOk
<1> HIDE DEF r
<1>5. \A i \in 1 .. Len(q) : p <= i => b < q[i] BY <1>1, <1>2, <1>3
<1>6. ASSUME NEW j \in 1 .. Len(r)
      PROVE  \/ j < p /\ j \in 1 .. Len(q) /\ r[j] = q[j]
             \/ j = p /\ r[j] = b
             \/ p < j /\ j - 1 \in 1 .. Len(q) /\ p <= j - 1 /\ r[j] = q[j - 1]
  BY <1>2, <1>4
<1>7. ListIn(g, r)
  <2>1. \A j \in 1 .. Len(r) : r[j] \in FreeIn(g) BY <1>1, <1>6
  <2>2. ASSUME NEW x \in FreeIn(g) PROVE \E j \in 1 .. Len(r) : r[j] = x
    <3>1. CASE x = b
      <4>1. p \in 1 .. Len(r) /\ r[p] = b BY <1>2, <1>4
      <4> QED BY <3>1, <4>1
    <3>2. CASE x \in FreeIn(h)
      <4>1. PICK i \in 1 .. Len(q) : q[i] = x BY <1>1, <3>2
      <4>2. CASE i < p
        <5>1. i \in 1 .. Len(r) /\ r[i] = q[i] BY <1>2, <1>4, <4>2
        <5> QED BY <4>1, <5>1
      <4>3. CASE ~(i < p)
        <5>1. i + 1 \in 1 .. Len(r) /\ ~(i + 1 < p) /\ i + 1 # p /\ (i + 1) - 1 = i
          BY <1>2, <1>4, <4>3
        <5>2. r[i + 1] = q[(i + 1) - 1] BY <1>4, <5>1
        <5> QED BY <4>1, <5>1, <5>2
      <4> QED BY <4>2, <4>3
    <3> QED BY <3>1, <3>2
  <2>3. ASSUME NEW i \in 1 .. Len(r), NEW j \in 1 .. Len(r), i < j PROVE r[i] < r[j]
    <3>1. CASE j < p BY <1>1, <1>2, <1>6, <2>3, <3>1
    <3>2. CASE j = p
      <4>1. i < p /\ i \in 1 .. Len(q) /\ r[i] = q[i] BY <1>2, <1>6, <2>3, <3>2
      <4> QED BY <1>3, <1>6, <3>2, <4>1
    <3>3. CASE p < j
      <4>1. j - 1 \in 1 .. Len(q) /\ p <= j - 1 /\ r[j] = q[j - 1] BY <1>2, <1>6, <3>3
      <4>2. CASE i < p
        <5>1. i \in 1 .. Len(q) /\ r[i] = q[i] /\ i < j - 1 BY <1>2, <1>6, <4>1, <4>2
        <5> QED BY <1>1, <4>1, <5>1
      <4>3. CASE i = p
        <5>1. r[i] = b BY <1>2, <1>6, <4>3
        <5> QED BY <1>5, <4>1, <5>1
      <4>4. CASE p < i
        <5>1. i - 1 \in 1 .. Len(q) /\ r[i] = q[i - 1] /\ i - 1 < j - 1
          BY <1>2, <1>6, <2>3, <4>4
        <5> QED BY <1>1, <4>1, <5>1
      <4> QED BY <1>2, <4>2, <4>3, <4>4
    <3> QED BY <1>2, <3>1, <3>2, <3>3
  <2> QED BY <1>4, <2>1, <2>2, <2>3 DEF ListIn
<1> QED BY <1>4, <1>7 DEF r

\* The list without one of its blocks.
LEMMA WithoutOk ==
  ASSUME NEW h, NEW q, ListIn(h, q), NEW k \in 1 .. Len(q),
         NEW g, FreeIn(g) = FreeIn(h) \ {q[k]}
  PROVE  ListIn(g, RemoveAt(q, k))
<1>1. /\ q \in Seq(Nat)
      /\ \A i \in 1 .. Len(q) : q[i] \in FreeIn(h)
      /\ \A x \in FreeIn(h) : \E i \in 1 .. Len(q) : q[i] = x
      /\ \A i, j \in 1 .. Len(q) : i < j => q[i] < q[j]
  BY DEF ListIn
<1>2. Len(q) \in Nat /\ \A i \in 1 .. Len(q) : q[i] \in Nat BY <1>1
<1> DEFINE r == RemoveAt(q, k)
<1>3. /\ r \in Seq(Nat) /\ Len(r) = Len(q) - 1
      /\ \A j \in 1 .. Len(q) - 1 : r[j] = IF j < k THEN q[j] ELSE q[j + 1]
  <2>1. q \in Seq(Nat) BY <1>1
  <2>2. k \in DOMAIN q BY <2>1
  <2> QED BY <2>1, <2>2, RemoveAtOk
<1> HIDE DEF r
<1>4. ASSUME NEW j \in 1 .. Len(r)
      PROVE  \/ j < k /\ j \in 1 .. Len(q) /\ r[j] = q[j]
             \/ k <= j /\ j + 1 \in 1 .. Len(q) /\ r[j] = q[j + 1]
  BY <1>2, <1>3
<1>5. ASSUME NEW i \in 1 .. Len(q), i # k PROVE q[i] # q[k]
  <2>1. i < k \/ k < i BY <1>2, <1>5
  <2> QED BY <1>1, <1>2, <2>1
<1>6. ASSUME NEW j \in 1 .. Len(r) PROVE r[j] \in FreeIn(g)
  <2>1. PICK i \in 1 .. Len(q) : i # k /\ r[j] = q[i] BY <1>2, <1>4
  <2> QED BY <1>1, <1>5, <2>1
<1>7. ASSUME NEW x \in FreeIn(g) PROVE \E j \in 1 .. Len(r) : r[j] = x
  <2>1. PICK i \in 1 .. Len(q) : q[i] = x BY <1>1, <1>7
  <2>2. CASE i < k
    <3>1. i \in 1 .. Len(r) /\ r[i] = q[i] BY <1>2, <1>3, <2>2
    <3> QED BY <2>1, <3>1
  <2>3. CASE k < i
    <3>1. i - 1 \in 1 .. Len(r) /\ ~(i - 1 < k) /\ (i - 1) + 1 = i BY <1>2, <1>3, <2>3
    <3>2. r[i - 1] = q[(i - 1) + 1] BY <1>3, <3>1
    <3> QED BY <2>1, <3>1, <3>2
  <2> QED BY <1>2, <1>7, <2>1, <2>2, <2>3
<1>8. ASSUME NEW i \in 1 .. Len(r), NEW j \in 1 .. Len(r), i < j PROVE r[i] < r[j]
  <2>1. CASE j < k BY <1>1, <1>2, <1>4, <1>8, <2>1
  <2>2. CASE i < k /\ k <= j
    <3>1. r[i] = q[i] /\ i \in 1 .. Len(q) BY <1>2, <1>4, <2>2
    <3>2. r[j] = q[j + 1] /\ j + 1 \in 1 .. Len(q) /\ i < j + 1 BY <1>2, <1>4, <1>8, <2>2
    <3> QED BY <1>1, <3>1, <3>2
  <2>3. CASE k <= i
    <3>1. r[i] = q[i + 1] /\ i + 1 \in 1 .. Len(q) BY <1>2, <1>4, <2>3
    <3>2. r[j] = q[j + 1] /\ j + 1 \in 1 .. Len(q) /\ i + 1 < j + 1
      BY <1>2, <1>4, <1>8, <2>3
    <3> QED BY <1>1, <3>1, <3>2
  <2> QED BY <1>2, <1>8, <2>1, <2>2, <2>3
<1> QED BY <1>3, <1>6, <1>7, <1>8 DEF ListIn, r
-----------------------------------------------------------------------------
(* Splitting and merging.                                                   *)

\* What mem_split_block leaves: b used up to the request, the rest free.
SplitOf(h, b, need, g) ==
    LET new == b + Header + need
    IN  /\ DOMAIN g = DOMAIN h \cup {b, new}
        /\ g[b] = [used |-> TRUE, size |-> need]
        /\ g[new] = [used |-> FALSE, size |-> h[b].size - need - Header]
        /\ \A c \in DOMAIN h \ {b, new} : g[c] = h[c]

LEMMA SplitOk ==
  ASSUME NEW h, TiledIn(h), NEW b \in FreeIn(h), NEW need \in Nat \ {0},
         h[b].size - need >= Header + Align, NEW g, SplitOf(h, b, need, g)
  PROVE  /\ TiledIn(g)
         /\ b + Header + need \notin DOMAIN h
         /\ EndIn(g, b) = b + Header + need
         /\ EndIn(g, b + Header + need) = EndIn(h, b)
         /\ FreeIn(g) = (FreeIn(h) \ {b}) \cup {b + Header + need}
<1> DEFINE new == b + Header + need
           size == h[b].size
<1>1. Header \in Nat \ {0} /\ Align \in Nat \ {0} /\ HeapSize \in Nat
  BY HeapAssumption
<1>2. /\ DOMAIN h \subseteq Nat
      /\ \A c \in DOMAIN h : h[c] \in HeaderType
      /\ 0 \in DOMAIN h
      /\ \A c \in DOMAIN h : EndIn(h, c) \in DOMAIN h \cup {HeapSize}
      /\ \A c \in DOMAIN h : EndIn(h, c) <= HeapSize
      /\ \A c, d \in DOMAIN h : c < d => EndIn(h, c) <= d
  BY DEF TiledIn
<1>3. b \in DOMAIN h /\ ~h[b].used /\ b \in Nat /\ size \in Nat \ {0}
  BY <1>2 DEF FreeIn, HeaderType
<1>4. EndIn(h, b) = b + Header + size BY DEF EndIn
<1> HIDE DEF new, size
<1>5. size \in Nat /\ size - need >= Header + Align /\ new = b + Header + need
  BY <1>3 DEF size, new
<1>6. b < new /\ new < EndIn(h, b) /\ new \in Nat BY <1>1, <1>3, <1>4, <1>5
<1>7. new \notin DOMAIN h BY <1>2, <1>3, <1>6, <1>4, <1>1, <1>5
<1>8. /\ DOMAIN g = DOMAIN h \cup {new}
      /\ g[b] = [used |-> TRUE, size |-> need]
      /\ g[new] = [used |-> FALSE, size |-> size - need - Header]
      /\ \A c \in DOMAIN h \ {b} : g[c] = h[c]
  BY <1>3, <1>7 DEF SplitOf, new, size
<1>9. EndIn(g, b) = new BY <1>5, <1>8 DEF EndIn
<1>10. EndIn(g, new) = EndIn(h, b)
  <2>1. EndIn(g, new) = new + Header + (size - need - Header) BY <1>8 DEF EndIn
  <2> QED BY <1>1, <1>3, <1>4, <1>5, <2>1
<1>11. \A c \in DOMAIN h \ {b} : EndIn(g, c) = EndIn(h, c) BY <1>8 DEF EndIn
<1>12. \A c \in DOMAIN h : EndIn(h, c) \in Nat
  BY <1>1, <1>2 DEF EndIn, HeaderType
<1>13. TiledIn(g)
  <2>1. DOMAIN g \subseteq Nat /\ 0 \in DOMAIN g BY <1>2, <1>6, <1>8
  <2>2. ASSUME NEW c \in DOMAIN g PROVE g[c] \in HeaderType
    <3>1. size - need - Header \in Nat \ {0} BY <1>1, <1>3, <1>5
    <3>2. g[b] \in HeaderType /\ g[new] \in HeaderType BY <1>8, <3>1 DEF HeaderType
    <3> QED BY <1>2, <1>8, <3>2
  <2>3. \A c \in DOMAIN g : EndIn(g, c) \in DOMAIN g \cup {HeapSize}
    BY <1>2, <1>3, <1>8, <1>9, <1>10, <1>11
  <2>5. \A c \in DOMAIN g : EndIn(g, c) <= HeapSize
    <3>1. EndIn(g, b) <= HeapSize BY <1>1, <1>2, <1>3, <1>6, <1>9, <1>12
    <3> QED BY <1>2, <1>3, <1>8, <1>10, <1>11, <3>1
  <2>4. ASSUME NEW c \in DOMAIN g, NEW d \in DOMAIN g, c < d PROVE EndIn(g, c) <= d
    <3>0. c \in Nat /\ d \in Nat BY <2>1
    <3>1. CASE c \in DOMAIN h \ {b}
      <4>1. CASE d = new
        <5>1. c < EndIn(h, b) BY <1>6, <1>12, <1>3, <2>4, <3>0, <4>1
        <5>2. c < b
          <6>1. ~(b < c) BY <1>2, <1>3, <1>12, <3>0, <3>1, <5>1
          <6> QED BY <1>3, <3>0, <3>1, <6>1
        <5>3. EndIn(h, c) <= b BY <1>2, <1>3, <3>1, <5>2
        <5> QED BY <1>3, <1>6, <1>11, <1>12, <3>1, <4>1, <5>3
      <4>2. CASE d \in DOMAIN h BY <1>2, <1>11, <2>4, <3>1, <4>2
      <4> QED BY <1>8, <4>1, <4>2
    <3>2. CASE c = b
      <4>1. CASE d = new BY <1>6, <1>9, <3>2, <4>1
      <4>2. CASE d \in DOMAIN h
        <5>1. EndIn(h, b) <= d BY <1>2, <1>3, <2>4, <3>2, <4>2
        <5> QED BY <1>3, <1>6, <1>9, <1>12, <3>0, <3>2, <5>1
      <4> QED BY <1>8, <4>1, <4>2
    <3>3. CASE c = new
      <4>1. d # new /\ d \in DOMAIN h BY <1>6, <1>8, <2>4, <3>3
      <4>2. b < d BY <1>3, <1>6, <2>4, <3>0, <3>3
      <4> QED BY <1>2, <1>3, <1>10, <3>3, <4>1, <4>2
    <3> QED BY <1>8, <3>1, <3>2, <3>3
  <2> QED BY <2>1, <2>2, <2>3, <2>4, <2>5 DEF TiledIn
<1>14. FreeIn(g) = (FreeIn(h) \ {b}) \cup {new}
  BY <1>3, <1>6, <1>7, <1>8 DEF FreeIn
<1> QED BY <1>7, <1>9, <1>10, <1>13, <1>14 DEF new

\* Only whether b is in use changes.
FlipOf(h, b, g) ==
    /\ DOMAIN g = DOMAIN h
    /\ g[b] \in HeaderType /\ g[b].size = h[b].size
    /\ \A c \in DOMAIN h \ {b} : g[c] = h[c]

LEMMA FlippedOk ==
  ASSUME NEW h, TiledIn(h), NEW b \in DOMAIN h, NEW g, FlipOf(h, b, g)
  PROVE  /\ TiledIn(g)
         /\ DOMAIN g = DOMAIN h
         /\ \A c \in DOMAIN h : g[c].size = h[c].size /\ EndIn(g, c) = EndIn(h, c)
         /\ g[b].used => /\ FreeIn(g) = FreeIn(h) \ {b}
                         /\ UsedIn(g) = UsedIn(h) \cup {b}
         /\ ~g[b].used => /\ FreeIn(g) = FreeIn(h) \cup {b}
                          /\ UsedIn(g) = UsedIn(h) \ {b}
<1>1. \A c \in DOMAIN h : g[c].size = h[c].size /\ EndIn(g, c) = EndIn(h, c)
  BY DEF FlipOf, EndIn
<1>2. TiledIn(g) BY <1>1 DEF TiledIn, FlipOf
<1> QED BY <1>1, <1>2 DEF FlipOf, FreeIn, UsedIn

\* One merge of mem_coalesce: b takes in the free block c behind it.
MergeOf(h, b, c, g) ==
    /\ DOMAIN g = DOMAIN h \ {c}
    /\ g[b] = [used |-> FALSE, size |-> h[b].size + Header + h[c].size]
    /\ \A x \in DOMAIN h \ {b, c} : g[x] = h[x]

LEMMA MergeOk ==
  ASSUME NEW h, TiledIn(h), NEW b \in FreeIn(h), NEW c \in FreeIn(h), c = EndIn(h, b),
         NEW g, MergeOf(h, b, c, g)
  PROVE  /\ TiledIn(g)
         /\ EndIn(g, b) = EndIn(h, c)
         /\ \A x \in DOMAIN h \ {b, c} : EndIn(g, x) = EndIn(h, x)
         /\ FreeIn(g) = FreeIn(h) \ {c}
<1>1. Header \in Nat \ {0} /\ HeapSize \in Nat BY HeapAssumption
<1>2. /\ DOMAIN h \subseteq Nat
      /\ \A x \in DOMAIN h : h[x] \in HeaderType
      /\ 0 \in DOMAIN h
      /\ \A x \in DOMAIN h : EndIn(h, x) \in DOMAIN h \cup {HeapSize}
      /\ \A x \in DOMAIN h : EndIn(h, x) <= HeapSize
      /\ \A x, y \in DOMAIN h : x < y => EndIn(h, x) <= y
  BY DEF TiledIn
<1>3. /\ b \in DOMAIN h /\ b \in Nat /\ h[b].size \in Nat \ {0}
      /\ c \in DOMAIN h /\ c \in Nat /\ h[c].size \in Nat \ {0}
      /\ ~h[b].used /\ ~h[c].used
  BY <1>2 DEF FreeIn, HeaderType
<1>4. c = b + Header + h[b].size /\ EndIn(h, c) = c + Header + h[c].size
  BY DEF EndIn
<1>5. b < c /\ b # c BY <1>1, <1>3, <1>4
<1>6. /\ DOMAIN g = DOMAIN h \ {c}
      /\ g[b] = [used |-> FALSE, size |-> h[b].size + Header + h[c].size]
      /\ \A x \in DOMAIN h \ {b, c} : g[x] = h[x]
  BY DEF MergeOf
<1>7. EndIn(g, b) = EndIn(h, c)
  <2>1. EndIn(g, b) = b + Header + (h[b].size + Header + h[c].size) BY <1>6 DEF EndIn
  <2> QED BY <1>1, <1>3, <1>4, <2>1
<1>8. \A x \in DOMAIN h \ {b, c} : EndIn(g, x) = EndIn(h, x) BY <1>6 DEF EndIn
<1>9. \A x \in DOMAIN h : EndIn(h, x) \in Nat /\ x < EndIn(h, x)
  BY <1>1, <1>2 DEF EndIn, HeaderType
<1>10. TiledIn(g)
  <2>1. DOMAIN g \subseteq Nat /\ 0 \in DOMAIN g BY <1>2, <1>3, <1>5, <1>6
  <2>2. ASSUME NEW x \in DOMAIN g PROVE g[x] \in HeaderType
    <3>1. h[b].size + Header + h[c].size \in Nat \ {0} BY <1>1, <1>3
    <3>2. g[b] \in HeaderType BY <1>6, <3>1 DEF HeaderType
    <3> QED BY <1>2, <1>6, <3>2
  <2>3. ASSUME NEW x \in DOMAIN g PROVE EndIn(g, x) \in DOMAIN g \cup {HeapSize}
    <3>1. CASE x = b
      <4>1. EndIn(h, c) \in DOMAIN h \cup {HeapSize} /\ EndIn(h, c) # c BY <1>2, <1>3, <1>9
      <4> QED BY <1>6, <1>7, <3>1, <4>1
    <3>2. CASE x # b
      <4>1. x \in DOMAIN h \ {b, c} /\ x \in Nat BY <1>2, <1>6, <3>2
      <4>2. EndIn(h, x) # c
        <5>1. CASE x < b
          <6>1. EndIn(h, x) <= b BY <1>2, <1>3, <4>1, <5>1
          <6> QED BY <1>3, <1>5, <1>9, <4>1, <6>1
        <5>2. CASE b < x
          <6>1. c <= x BY <1>2, <1>3, <4>1, <5>2
          <6> QED BY <1>3, <1>9, <4>1, <6>1
        <5> QED BY <1>3, <4>1, <5>1, <5>2
      <4>3. EndIn(h, x) \in DOMAIN h \cup {HeapSize} BY <1>2, <4>1
      <4> QED BY <1>6, <1>8, <4>1, <4>2, <4>3
    <3> QED BY <3>1, <3>2
  <2>4. ASSUME NEW x \in DOMAIN g, NEW y \in DOMAIN g, x < y PROVE EndIn(g, x) <= y
    <3>1. x \in DOMAIN h \ {c} /\ y \in DOMAIN h \ {c} /\ x \in Nat /\ y \in Nat
      BY <1>2, <1>6
    <3>2. CASE x = b
      <4>1. c <= y BY <1>2, <1>3, <2>4, <3>1, <3>2
      <4>2. c < y BY <1>3, <3>1, <4>1
      <4> QED BY <1>2, <1>3, <1>7, <3>1, <3>2, <4>2
    <3>3. CASE x # b BY <1>2, <1>8, <2>4, <3>1, <3>3
    <3> QED BY <3>2, <3>3
  <2>5. \A x \in DOMAIN g : EndIn(g, x) <= HeapSize BY <1>2, <1>3, <1>6, <1>7, <1>8
  <2> QED BY <2>1, <2>2, <2>3, <2>4, <2>5 DEF TiledIn
<1>11. FreeIn(g) = FreeIn(h) \ {c}
  <2>1. ~g[b].used /\ b \in DOMAIN g BY <1>3, <1>5, <1>6
  <2> QED BY <1>3, <1>5, <1>6, <2>1 DEF FreeIn
<1> QED BY <1>7, <1>8, <1>10, <1>11

\* The blocks in use are the same.
SameUsed(h, g) ==
    /\ UsedIn(g) = UsedIn(h)
    /\ \A b \in UsedIn(h) : g[b].size = h[b].size

\* One scan: the pairs that touch afterwards did so before, one place further
\* on, and behind one that was merged.
LEMMA ScannedOk ==
  ASSUME NEW h, NEW q, TiledIn(h), ListIn(h, q),
         NEW n, n = Scanned([heap |-> h, list |-> q])
  PROVE  /\ TiledIn(n.heap) /\ ListIn(n.heap, n.list)
         /\ n = [heap |-> n.heap, list |-> n.list]
         /\ SameUsed(h, n.heap)
         /\ \A j \in Touching(n.heap, n.list) :
               /\ j + 1 \in Touching(h, q)
               /\ \E i \in Touching(h, q) : i <= j
<1> DEFINE m == [heap |-> h, list |-> q]
           T == Touching(h, q)
<1>1. m.heap = h /\ m.list = q OBVIOUS
<1>2. CASE T = {}
  <2>1. n = m BY <1>1, <1>2 DEF Scanned
  <2> QED BY <1>2, <2>1 DEF SameUsed
<1>3. CASE T # {}
  <2> DEFINE i == CHOOSE k \in T : \A l \in T : k <= l
             b == q[i]
             c == q[i + 1]
             g == [x \in DOMAIN h \ {c} |->
                     IF x = b THEN [used |-> FALSE, size |-> h[b].size + Header + h[c].size]
                     ELSE h[x]]
             r == RemoveAt(q, i + 1)
  <2>1. n = [heap |-> g, list |-> r] BY <1>1, <1>3 DEF Scanned
  <2>2. /\ q \in Seq(Nat)
        /\ \A k \in 1 .. Len(q) : q[k] \in FreeIn(h)
        /\ \A k, l \in 1 .. Len(q) : k < l => q[k] < q[l]
    BY DEF ListIn
  <2>3. Len(q) \in Nat /\ \A k \in 1 .. Len(q) : q[k] \in Nat BY <2>2
  <2>4. T = {k \in 1 .. Len(q) - 1 : EndIn(h, q[k]) = q[k + 1]} BY DEF Touching, EndIn
  <2>5. T \in SUBSET Nat BY <2>3, <2>4
  <2>6. i \in T /\ \A l \in T : i <= l BY <1>3, <2>5, LeastOf
  <2> HIDE DEF i, T
  <2>7. i \in 1 .. Len(q) - 1 /\ i \in 1 .. Len(q) /\ i + 1 \in 1 .. Len(q) /\ i \in Nat
    BY <2>3, <2>4, <2>6
  <2>8. /\ b \in FreeIn(h) /\ c \in FreeIn(h) /\ c = EndIn(h, b)
        /\ b \in Nat /\ c \in Nat /\ b < c
    BY <2>2, <2>3, <2>4, <2>6, <2>7
  <2>9. MergeOf(h, b, c, g)
    <3>1. b # c /\ b \in DOMAIN h BY <2>8 DEF FreeIn
    <3> HIDE DEF b, c
    <3> QED BY <3>1 DEF MergeOf
  <2> HIDE DEF g, b, c
  <2>10. /\ TiledIn(g)
         /\ EndIn(g, b) = EndIn(h, c)
         /\ \A x \in DOMAIN h \ {b, c} : EndIn(g, x) = EndIn(h, x)
         /\ FreeIn(g) = FreeIn(h) \ {c}
    BY <2>8, <2>9, MergeOk
  <2>11. b = q[i] /\ c = q[i + 1] BY DEF b, c
  <2>12. ListIn(g, r) BY <2>7, <2>10, <2>11, WithoutOk
  <2>13. SameUsed(h, g)
    <3>1. ~h[b].used /\ ~h[c].used BY <2>8 DEF FreeIn
    <3>2. ~g[b].used BY <2>9 DEF MergeOf
    <3> QED BY <3>1, <3>2, <2>9 DEF SameUsed, UsedIn, MergeOf
  <2>14. /\ r \in Seq(Nat) /\ Len(r) = Len(q) - 1
         /\ \A j \in 1 .. Len(q) - 1 : r[j] = IF j < i + 1 THEN q[j] ELSE q[j + 1]
    <3>1. i + 1 \in DOMAIN q BY <2>2, <2>7
    <3> QED BY <2>2, <3>1, RemoveAtOk
  <2> HIDE DEF r
  <2>15. Touching(g, r) = {k \in 1 .. Len(r) - 1 : EndIn(g, r[k]) = r[k + 1]}
    BY DEF Touching, EndIn
  <2>16. ASSUME NEW j \in Touching(g, r) PROVE j + 1 \in T /\ i <= j
    <3>1. /\ j \in 1 .. Len(q) - 2 /\ j \in 1 .. Len(q) - 1 /\ j + 1 \in 1 .. Len(q) - 1
          /\ j \in 1 .. Len(q) /\ j + 1 \in 1 .. Len(q) /\ j + 2 \in 1 .. Len(q)
          /\ (j + 1) + 1 = j + 2
      <4>1. j \in 1 .. Len(r) - 1 BY <2>15, <2>16
      <4>2. Len(r) = Len(q) - 1 BY <2>14
      <4> QED BY <2>3, <4>1, <4>2
    <3>2. EndIn(g, r[j]) = r[j + 1] BY <2>15, <2>16
    <3>3. \A k \in 1 .. Len(q) : k # i /\ k # i + 1 => EndIn(g, q[k]) = EndIn(h, q[k])
      <4>1. ASSUME NEW k \in 1 .. Len(q), k # i, k # i + 1
            PROVE EndIn(g, q[k]) = EndIn(h, q[k])
        <5>1. q[k] # b
          <6>1. k < i \/ i < k BY <2>3, <2>7, <4>1
          <6> QED BY <2>2, <2>3, <2>7, <2>11, <6>1
        <5>2. q[k] # c
          <6>1. k < i + 1 \/ i + 1 < k BY <2>3, <2>7, <4>1
          <6> QED BY <2>2, <2>3, <2>7, <2>11, <6>1
        <5>3. q[k] \in DOMAIN h BY <2>2 DEF FreeIn
        <5> QED BY <2>10, <5>1, <5>2, <5>3
      <4> QED BY <4>1
    <3>4. CASE j < i
      <4>1. r[j] = q[j] /\ r[j + 1] = q[j + 1] BY <2>7, <2>14, <3>1, <3>4
      <4>2. EndIn(h, q[j]) = q[j + 1] BY <2>7, <3>1, <3>2, <3>3, <3>4, <4>1
      <4>3. j \in T BY <2>4, <3>1, <4>2
      <4> QED BY <2>6, <2>7, <3>1, <3>4, <4>3
    <3>5. CASE j = i
      <4>1. r[j] = q[j] /\ r[j + 1] = q[j + 2]
        BY <2>7, <2>14, <3>1, <3>5
      <4>2. EndIn(h, q[j + 1]) = q[j + 2] BY <2>10, <2>11, <3>2, <3>5, <4>1
      <4>3. j + 1 \in T BY <2>4, <3>1, <4>2
      <4> QED BY <2>7, <3>5, <4>3
    <3>6. CASE i < j
      <4>1. r[j] = q[j + 1] /\ r[j + 1] = q[j + 2]
        BY <2>7, <2>14, <3>1, <3>6
      <4>2. EndIn(h, q[j + 1]) = q[j + 2]
        BY <2>7, <3>1, <3>2, <3>3, <3>6, <4>1
      <4>3. j + 1 \in T BY <2>4, <3>1, <4>2
      <4> QED BY <2>7, <3>1, <3>6, <4>3
    <3> QED BY <2>7, <3>1, <3>4, <3>5, <3>6
  <2>17. n.heap = g /\ n.list = r BY <2>1
  <2> QED BY <2>1, <2>6, <2>10, <2>12, <2>13, <2>16, <2>17 DEF T
<1> QED BY <1>2, <1>3

\* No free block ends where another one starts.
ApartIn(h) == \A x, y \in FreeIn(h) : EndIn(h, x) # y

LEMMA ApartIs ==
  ASSUME NEW h, NEW q, TiledIn(h), ListIn(h, q)
  PROVE  Touching(h, q) = {} <=> ApartIn(h)
<1>1. /\ q \in Seq(Nat)
      /\ \A i \in 1 .. Len(q) : q[i] \in FreeIn(h)
      /\ \A x \in FreeIn(h) : \E i \in 1 .. Len(q) : q[i] = x
      /\ \A i, j \in 1 .. Len(q) : i < j => q[i] < q[j]
  BY DEF ListIn
<1>2. Len(q) \in Nat /\ \A i \in 1 .. Len(q) : q[i] \in Nat BY <1>1
<1>3. Touching(h, q) = {k \in 1 .. Len(q) - 1 : EndIn(h, q[k]) = q[k + 1]}
  BY DEF Touching, EndIn
<1>4. ASSUME ApartIn(h), NEW k \in Touching(h, q) PROVE FALSE
  <2>1. k \in 1 .. Len(q) /\ k + 1 \in 1 .. Len(q) BY <1>2, <1>3, <1>4
  <2> QED BY <1>1, <1>3, <1>4, <2>1 DEF ApartIn
<1>5. ASSUME Touching(h, q) = {}, NEW x \in FreeIn(h), NEW y \in FreeIn(h), EndIn(h, x) = y
      PROVE  FALSE
  <2>1. PICK k \in 1 .. Len(q) : q[k] = x BY <1>1
  <2>2. PICK l \in 1 .. Len(q) : q[l] = y BY <1>1
  <2>3. x \in DOMAIN h /\ y \in DOMAIN h /\ x \in Nat /\ y \in Nat /\ x < EndIn(h, x)
    <3>1. x \in DOMAIN h /\ y \in DOMAIN h /\ x \in Nat /\ y \in Nat /\ h[x] \in HeaderType
      BY DEF TiledIn, FreeIn
    <3> QED BY <3>1, HeapAssumption DEF HeaderType, EndIn
  <2>4. k < l BY <1>1, <1>2, <1>5, <2>1, <2>2, <2>3
  <2>5. k \in 1 .. Len(q) - 1 /\ k + 1 \in 1 .. Len(q) /\ k < k + 1
    BY <1>2, <2>4
  <2>6. q[k + 1] \in DOMAIN h /\ q[k] < q[k + 1] BY <1>1, <2>5 DEF FreeIn
  <2>7. EndIn(h, x) <= q[k + 1] BY <2>1, <2>3, <2>6 DEF TiledIn
  <2>8. k + 1 = l \/ q[k + 1] < q[l] BY <1>1, <2>4, <2>5
  <2>9. EndIn(h, q[k]) = q[k + 1] BY <1>2, <1>5, <2>1, <2>2, <2>5, <2>7, <2>8
  <2> QED BY <1>3, <1>5, <2>5, <2>9
<1> QED BY <1>4, <1>5 DEF ApartIn

-----------------------------------------------------------------------------
(* flux_alloc and flux_free.                                                *)

LEMMA AlignUpOk ==
  ASSUME NEW n \in Nat \ {0}
  PROVE  AlignUp(n) \in Nat \ {0} /\ AlignUp(n) >= n
<1>1. Align \in Nat \ {0} BY HeapAssumption
<1> DEFINE d == (n + Align - 1) \div Align
<1>2. d \in Int /\ d * Align <= n + Align - 1 /\ n + Align - 1 < d * Align + Align
  BY <1>1
<1>3. AlignUp(n) = d * Align BY DEF AlignUp
<1> HIDE DEF d
<1>4. d * Align \in Int BY <1>1, <1>2
<1> QED BY <1>1, <1>2, <1>3, <1>4

\* mem_find_free_block finds one when there is one.
LEMMA BestFitOk ==
  ASSUME HeapInv, NEW need \in Nat, Fitting(need) # {}
  PROVE  BestFit(need) \in Fitting(need)
<1> DEFINE F == Fitting(need)
           sizeOf(i) == heap[freeList[i]].size
           sizes == {sizeOf(i) : i \in F}
<1>1. \A i \in F : i \in Nat /\ sizeOf(i) \in Nat
  BY DEF HeapInv, ListIn, TiledIn, FreeIn, HeaderType, Fitting
<1> HIDE DEF F, sizeOf
<1>2. sizes \in SUBSET Nat /\ sizes # {} BY <1>1 DEF F
<1>3. PICK v \in sizes : \A w \in sizes : v <= w BY <1>2, LeastOf
<1> DEFINE least == {i \in F : sizeOf(i) = v}
<1>4. least \in SUBSET Nat /\ least # {} BY <1>1, <1>3
<1>5. PICK i \in least : \A j \in least : i <= j BY <1>4, LeastOf
<1>6. \A j \in F : sizeOf(i) < sizeOf(j) \/ (sizeOf(i) = sizeOf(j) /\ i <= j)
  <2>1. ASSUME NEW j \in F
        PROVE  sizeOf(i) < sizeOf(j) \/ (sizeOf(i) = sizeOf(j) /\ i <= j)
    <3>1. sizeOf(i) = v /\ v <= sizeOf(j) /\ sizeOf(j) \in Nat /\ v \in Nat
      BY <1>1, <1>2, <1>3, <1>5
    <3> QED BY <1>5, <3>1
  <2> QED BY <2>1
<1>7. i \in F /\ \A j \in F : \/ heap[freeList[i]].size < heap[freeList[j]].size
                              \/ heap[freeList[i]].size = heap[freeList[j]].size /\ i <= j
  BY <1>5, <1>6 DEF sizeOf
<1> QED BY <1>7 DEF BestFit, F

\* flux_alloc: the free block b is used up to v.
GivesOut(b, v) ==
    /\ b \in FreeIn(heap)
    /\ UsedIn(heap') = UsedIn(heap) \cup {b}
    /\ heap'[b].size = v
    /\ \A c \in UsedIn(heap) : heap'[c].size = heap[c].size
    /\ memMap' = MapAdd(PtrOf(b))

LEMMA TakeIs ==
  ASSUME HeapInv, NEW need \in Nat \ {0}, Fitting(need) # {}, Take(need)
  PROVE  /\ HeapInv'
         /\ \E b \in FreeIn(heap), v \in Nat \ {0} : GivesOut(b, v) /\ need <= v
<1> DEFINE i == BestFit(need)
           b == freeList[i]
           rest == RemoveAt(freeList, i)
           new == b + Header + need
           size == heap[b].size
<1>1. i \in Fitting(need) BY BestFitOk
<1> HIDE DEF i
<1>2. /\ freeList \in Seq(Nat)
      /\ \A k \in 1 .. Len(freeList) : freeList[k] \in FreeIn(heap)
      /\ \A k, l \in 1 .. Len(freeList) : k < l => freeList[k] < freeList[l]
  BY DEF HeapInv, ListIn
<1>3. i \in 1 .. Len(freeList) /\ b \in FreeIn(heap) /\ size >= need
  BY <1>1, <1>2 DEF Fitting
<1>4. TiledIn(heap) /\ ListIn(heap, freeList) /\ Touching(heap, freeList) = {}
  BY DEF HeapInv
<1>5. b \in Nat /\ b \in DOMAIN heap /\ size \in Nat \ {0} /\ ~heap[b].used
  BY <1>3, <1>4 DEF FreeIn, TiledIn, HeaderType
<1>6. Header \in Nat \ {0} /\ Align \in Nat \ {0} BY HeapAssumption
<1>7. /\ rest \in Seq(Nat) /\ Len(rest) = Len(freeList) - 1
      /\ \A j \in 1 .. Len(freeList) - 1 :
            rest[j] = IF j < i THEN freeList[j] ELSE freeList[j + 1]
  <2>1. i \in DOMAIN freeList BY <1>2, <1>3
  <2> QED BY <1>2, <2>1, RemoveAtOk
<1>8. ApartIn(heap) BY <1>4, ApartIs
<1> DEFINE held == [heap EXCEPT ![b].used = TRUE]
<1>9. /\ TiledIn(held) /\ DOMAIN held = DOMAIN heap
      /\ \A c \in DOMAIN heap : held[c].size = heap[c].size /\ EndIn(held, c) = EndIn(heap, c)
      /\ FreeIn(held) = FreeIn(heap) \ {b}
      /\ UsedIn(held) = UsedIn(heap) \cup {b}
  <2> DEFINE u == [heap[b] EXCEPT !.used = TRUE]
  <2>1. heap[b] \in HeaderType BY <1>4, <1>5 DEF TiledIn
  <2>2. u \in HeaderType /\ u.size = heap[b].size /\ u.used = TRUE
    BY <2>1 DEF HeaderType
  <2>3. held = [heap EXCEPT ![b] = u] OBVIOUS
  <2> HIDE DEF u, held
  <2>4. FlipOf(heap, b, held) /\ held[b].used BY <1>4, <1>5, <2>2, <2>3 DEF FlipOf
  <2> QED BY <1>4, <1>5, <2>4, FlippedOk
<1> HIDE DEF held
<1>11. ListIn(held, rest) BY <1>3, <1>4, <1>9, WithoutOk
<1>12. memMap' = MapAdd(PtrOf(b)) BY DEF Take, i
<1> HIDE DEF rest
<1>13. CASE Splits(b, need)
  <2> DEFINE g == heap'
  <2>1. size - need >= Header + Align BY <1>13 DEF Splits
  <2>2. g = [x \in DOMAIN heap \cup {b, new} |->
                   IF x = b THEN [used |-> TRUE, size |-> need]
                   ELSE IF x = new THEN [used |-> FALSE, size |-> Remainder(b, need)]
                   ELSE heap[x]]
    BY <1>13 DEF Take, i
  <2>3. freeList' = WithFree(rest, new) BY <1>13 DEF Take, i, rest
  <2> HIDE DEF b, g
  <2>4. new # b /\ new \in Nat BY <1>5, <1>6
  <2>5. SplitOf(heap, b, need, g) BY <2>2, <2>4 DEF SplitOf, Remainder
  <2>6. /\ TiledIn(g)
        /\ new \notin DOMAIN heap
        /\ EndIn(g, b) = new
        /\ EndIn(g, new) = EndIn(heap, b)
        /\ FreeIn(g) = (FreeIn(heap) \ {b}) \cup {new}
    BY <1>3, <1>4, <2>1, <2>5, SplitOk
  <2>7. /\ DOMAIN g = DOMAIN heap \cup {new}
        /\ g[b].size = need /\ g[b].used
        /\ g[new].used = FALSE
        /\ \A c \in DOMAIN heap \ {b} : g[c] = heap[c]
    BY <1>5, <2>5, <2>6 DEF SplitOf
  <2> HIDE DEF new
  <2>8. ListIn(g, freeList')
    <3>1. FreeIn(g) = FreeIn(held) \cup {new} /\ new \notin FreeIn(held)
      BY <1>9, <2>6 DEF FreeIn
    <3> QED BY <1>11, <2>3, <2>4, <3>1, WithFreeOk
  <2>9. ApartIn(g)
    <3>1. ASSUME NEW x \in FreeIn(g), NEW y \in FreeIn(g), EndIn(g, x) = y
          PROVE  FALSE
      <4>1. EndIn(heap, b) \in Nat /\ b < new /\ new < EndIn(heap, b)
        BY <1>5, <1>6, <2>1, <2>4 DEF EndIn, new
      <4>2. CASE x = new
        <5>1. EndIn(heap, b) = y BY <2>6, <3>1, <4>2
        <5>2. y # new BY <2>4, <4>1, <5>1
        <5>3. y \in FreeIn(heap) BY <2>6, <5>2
        <5> QED BY <1>3, <1>8, <5>1, <5>3 DEF ApartIn
      <4>3. CASE x # new
        <5>1. x \in FreeIn(heap) \ {b} /\ x \in DOMAIN heap /\ x \in Nat /\ x # b
          BY <1>4, <2>6, <4>3 DEF FreeIn, TiledIn
        <5>2. EndIn(g, x) = EndIn(heap, x) BY <2>7, <5>1 DEF EndIn
        <5>3. y = new BY <1>8, <2>6, <3>1, <5>1, <5>2 DEF ApartIn
        <5>4. CASE x < b
          <6>1. EndIn(heap, x) <= b BY <1>4, <1>5, <5>1, <5>4 DEF TiledIn
          <6>2. EndIn(heap, x) = new BY <3>1, <5>2, <5>3
          <6> QED BY <1>5, <2>4, <4>1, <6>1, <6>2
        <5>5. CASE b < x
          <6>1. EndIn(heap, b) <= x BY <1>4, <1>5, <5>1, <5>5 DEF TiledIn
          <6>2. x < EndIn(heap, x) /\ EndIn(heap, x) \in Nat
            BY <1>4, <1>6, <5>1 DEF EndIn, TiledIn, HeaderType
          <6>3. EndIn(heap, x) = new BY <3>1, <5>2, <5>3
          <6> QED BY <2>4, <4>1, <5>1, <6>1, <6>2, <6>3
        <5> QED BY <1>5, <5>1, <5>4, <5>5
      <4> QED BY <4>2, <4>3
    <3> QED BY <3>1 DEF ApartIn
  <2>10. HeapInv' BY <2>6, <2>8, <2>9, ApartIs DEF HeapInv, g
  <2>11. GivesOut(b, need)
    <3>1. UsedIn(g) = UsedIn(heap) \cup {b}
      BY <1>5, <2>6, <2>7 DEF UsedIn
    <3>2. \A c \in UsedIn(heap) : g[c].size = heap[c].size
      BY <1>5, <2>7 DEF UsedIn
    <3> QED BY <1>3, <1>12, <2>7, <3>1, <3>2 DEF GivesOut, g
  <2> QED BY <1>3, <2>10, <2>11
<1>14. CASE ~Splits(b, need)
  <2>1. heap' = held /\ freeList' = rest BY <1>14 DEF Take, i, held, rest
  <2> HIDE DEF b, new
  <2>2. ApartIn(held) BY <1>8, <1>9 DEF ApartIn, FreeIn
  <2>3. HeapInv' BY <1>9, <1>11, <2>1, <2>2, ApartIs DEF HeapInv
  <2>4. UsedIn(held) = UsedIn(heap) \cup {b} BY <1>5, <1>9
  <2>5. \A c \in UsedIn(heap) : held[c].size = heap[c].size BY <1>9 DEF UsedIn
  <2>6. GivesOut(b, size) BY <1>3, <1>5, <1>9, <1>12, <2>1, <2>4, <2>5 DEF GivesOut
  <2> QED BY <1>3, <1>5, <2>3, <2>6
<1> QED BY <1>13, <1>14

\* flux_free: the block b is no longer in use.
TakesBack(b) ==
    /\ b \in UsedIn(heap)
    /\ UsedIn(heap') = UsedIn(heap) \ {b}
    /\ \A c \in UsedIn(heap') : heap'[c].size = heap[c].size

LEMMA ReleaseIs ==
  ASSUME HeapInv, NEW p, Release(p)
  PROVE  HeapInv' /\ TakesBack(BlockOf(p))
<1> DEFINE b == BlockOf(p)
           freed == [heap EXCEPT ![b].used = FALSE]
           list == WithFree(freeList, b)
           one == Scanned([heap |-> freed, list |-> list])
           two == Scanned(one)
<1>1. b \in DOMAIN heap /\ heap[b].used BY DEF Release, MayFree, IsAllocated, Used
<1>2. heap' = two.heap /\ freeList' = two.list BY DEF Release, Coalesced
<1> HIDE DEF b, two
<1>3. TiledIn(heap) /\ ListIn(heap, freeList) /\ ApartIn(heap)
  BY ApartIs DEF HeapInv
<1>4. b \in Nat /\ b \notin FreeIn(heap) BY <1>1, <1>3 DEF TiledIn, FreeIn
<1>5. /\ TiledIn(freed) /\ DOMAIN freed = DOMAIN heap
      /\ \A c \in DOMAIN heap : freed[c].size = heap[c].size
                                /\ EndIn(freed, c) = EndIn(heap, c)
      /\ FreeIn(freed) = FreeIn(heap) \cup {b}
      /\ UsedIn(freed) = UsedIn(heap) \ {b}
  <2> DEFINE u == [heap[b] EXCEPT !.used = FALSE]
  <2>1. heap[b] \in HeaderType BY <1>1, <1>3 DEF TiledIn
  <2>2. u \in HeaderType /\ u.size = heap[b].size /\ u.used = FALSE
    BY <2>1 DEF HeaderType
  <2>3. freed = [heap EXCEPT ![b] = u] OBVIOUS
  <2> HIDE DEF u, freed
  <2>4. FlipOf(heap, b, freed) /\ ~freed[b].used BY <1>1, <1>3, <2>2, <2>3 DEF FlipOf
  <2> QED BY <1>1, <1>3, <2>4, FlippedOk
<1> HIDE DEF freed, one
<1>7. /\ freeList \in Seq(Nat) /\ Len(freeList) \in Nat
      /\ \A j \in 1 .. Len(freeList) : freeList[j] \in FreeIn(heap)
  BY <1>3 DEF ListIn
<1>8. /\ ListIn(freed, list)
      /\ \E k \in 1 .. Len(freeList) + 1 :
            /\ Len(list) = Len(freeList) + 1
            /\ \A j \in 1 .. Len(freeList) + 1 :
                  list[j] = IF j < k THEN freeList[j]
                            ELSE IF j = k THEN b ELSE freeList[j - 1]
  BY <1>3, <1>4, <1>5, WithFreeOk
<1>9. PICK k \in 1 .. Len(freeList) + 1 :
        /\ Len(list) = Len(freeList) + 1
        /\ \A j \in 1 .. Len(freeList) + 1 :
              list[j] = IF j < k THEN freeList[j]
                        ELSE IF j = k THEN b ELSE freeList[j - 1]
  BY <1>8
<1> HIDE DEF list
<1>10. ASSUME NEW j \in 1 .. Len(list), j # k PROVE list[j] \in FreeIn(heap)
  <2>1. CASE j < k
    <3>1. j \in 1 .. Len(freeList) BY <1>7, <1>9, <2>1
    <3> QED BY <1>7, <1>9, <2>1, <3>1
  <2>2. CASE k < j
    <3>1. j - 1 \in 1 .. Len(freeList) /\ ~(j < k) BY <1>7, <1>9, <2>2
    <3>2. list[j] = freeList[j - 1] BY <1>9, <1>10, <3>1
    <3> QED BY <1>7, <3>1, <3>2
  <2> QED BY <1>7, <1>9, <1>10, <2>1, <2>2
<1>11. \A j \in Touching(freed, list) : j = k - 1 \/ j = k
  <2>1. ASSUME NEW j \in Touching(freed, list), j # k - 1, j # k PROVE FALSE
    <3>1. j \in 1 .. Len(list) - 1 /\ EndIn(freed, list[j]) = list[j + 1]
      BY <2>1 DEF Touching, EndIn
    <3>2. /\ j \in 1 .. Len(list) /\ j + 1 \in 1 .. Len(list) /\ j + 1 # k /\ j # k
      BY <1>7, <1>9, <2>1, <3>1
    <3>3. list[j] \in FreeIn(heap) /\ list[j + 1] \in FreeIn(heap) BY <1>10, <3>2
    <3>4. EndIn(freed, list[j]) = EndIn(heap, list[j]) BY <1>5, <3>3 DEF FreeIn
    <3> QED BY <1>3, <3>1, <3>3, <3>4 DEF ApartIn
  <2> QED BY <2>1
<1>12. /\ TiledIn(one.heap) /\ ListIn(one.heap, one.list)
       /\ one = [heap |-> one.heap, list |-> one.list]
       /\ SameUsed(freed, one.heap)
       /\ \A j \in Touching(one.heap, one.list) :
             /\ j + 1 \in Touching(freed, list)
             /\ \E i \in Touching(freed, list) : i <= j
  BY <1>5, <1>8, ScannedOk DEF one
<1>13. two = Scanned([heap |-> one.heap, list |-> one.list]) BY <1>12 DEF two
<1>14. /\ TiledIn(two.heap) /\ ListIn(two.heap, two.list)
       /\ SameUsed(one.heap, two.heap)
       /\ \A j \in Touching(two.heap, two.list) :
             /\ j + 1 \in Touching(one.heap, one.list)
             /\ \E i \in Touching(one.heap, one.list) : i <= j
  BY <1>12, <1>13, ScannedOk
<1>15. \A j \in Touching(one.heap, one.list) : j \in Int
  BY DEF Touching
<1>16. \A j \in Touching(one.heap, one.list) : j = k - 1
  <2>1. ASSUME NEW j \in Touching(one.heap, one.list) PROVE j = k - 1
    <3>1. j \in Int /\ (j + 1 = k - 1 \/ j + 1 = k) BY <1>11, <1>12, <1>15
    <3>2. PICK i \in Touching(freed, list) : i <= j BY <1>12
    <3>3. i = k - 1 \/ i = k BY <1>11
    <3> QED BY <1>7, <3>1, <3>2, <3>3
  <2> QED BY <2>1
<1>17. Touching(two.heap, two.list) = {}
  <2>1. ASSUME NEW j \in Touching(two.heap, two.list) PROVE FALSE
    <3>1. j \in Int BY DEF Touching
    <3>2. j + 1 = k - 1 BY <1>14, <1>16
    <3>3. PICK i \in Touching(one.heap, one.list) : i <= j BY <1>14
    <3>4. i = k - 1 BY <1>16
    <3> QED BY <1>7, <3>1, <3>2, <3>3, <3>4
  <2> QED BY <2>1
<1>18. HeapInv' BY <1>2, <1>14, <1>17 DEF HeapInv
<1>19. UsedIn(two.heap) = UsedIn(heap) \ {b}
       /\ \A c \in UsedIn(two.heap) : two.heap[c].size = heap[c].size
  BY <1>5, <1>12, <1>14 DEF SameUsed, UsedIn
<1>20. TakesBack(b) BY <1>1, <1>2, <1>19 DEF TakesBack, UsedIn
<1> QED BY <1>18, <1>20 DEF b

-----------------------------------------------------------------------------
(* The invariant.                                                           *)

LEMMA HeapInvInit == MemInit => HeapInv
<1> SUFFICES ASSUME MemInit PROVE HeapInv
  OBVIOUS
<1>1. Header \in Nat \ {0} /\ HeapSize \in Nat /\ HeapSize - Header \in Nat \ {0}
  BY HeapAssumption
<1>2. /\ DOMAIN heap = {0}
      /\ heap[0] = [used |-> FALSE, size |-> HeapSize - Header]
      /\ freeList = <<0>>
  BY DEF MemInit
<1>3. EndIn(heap, 0) = HeapSize
  <2>1. EndIn(heap, 0) = 0 + Header + (HeapSize - Header) BY <1>2 DEF EndIn
  <2> QED BY <1>1, <2>1
<1>4. heap[0] \in HeaderType BY <1>1, <1>2 DEF HeaderType
<1>5. TiledIn(heap)
  <2> DEFINE h == heap
  <2>1. DOMAIN h = {0} /\ EndIn(h, 0) = HeapSize /\ h[0] \in HeaderType
    BY <1>2, <1>3, <1>4
  <2> HIDE DEF h
  <2>2. TiledIn(h) BY <1>1, <2>1 DEF TiledIn
  <2> QED BY <2>2 DEF h
<1>6. FreeIn(heap) = {0} BY <1>2 DEF FreeIn
<1>7. ListIn(heap, freeList) BY <1>2, <1>6 DEF ListIn
<1>8. Touching(heap, freeList) = {} BY <1>2 DEF Touching
<1> QED BY <1>5, <1>7, <1>8 DEF HeapInv

\* What a step does to the headers.
Taking == \E b \in FreeIn(heap), v \in Nat \ {0} : GivesOut(b, v)

LEMMA AllocIs ==
  ASSUME HeapInv, NEW n \in Requests, Fitting(AlignUp(n)) # {}, Take(AlignUp(n))
  PROVE  HeapInv' /\ Taking
<1>1. AlignUp(n) \in Nat \ {0} BY RequestAssumption, AlignUpOk
<1> QED BY <1>1, TakeIs DEF Taking

LEMMA StepIs ==
  ASSUME HeapInv, [MemNext]_memVars
  PROVE  /\ HeapInv'
         /\ Taking \/ (\E p : Release(p)) \/ UNCHANGED heap
<1>1. CASE \E n \in Requests : Alloc(n)
  BY <1>1, AllocIs DEF Alloc
<1>2. CASE \E p \in Header .. HeapSize : Free(p)
  <2>1. PICK p : Release(p) BY <1>2 DEF Free
  <2> QED BY <2>1, ReleaseIs
<1>3. CASE \E t \in MemThreads, p \in Header .. HeapSize, n \in Requests : ReallocTake(t, p, n)
  BY <1>3, AllocIs DEF ReallocTake
<1>4. CASE \E t \in MemThreads : ReallocDone(t)
  <2>1. PICK t \in MemThreads : ReallocDone(t) BY <1>4
  <2>2. Release(moving[t]) \/ UNCHANGED <<heap, freeList>> BY <2>1 DEF ReallocDone
  <2>3. CASE Release(moving[t]) BY <2>3, ReleaseIs
  <2>4. CASE UNCHANGED <<heap, freeList>> BY <2>4 DEF HeapInv
  <2> QED BY <2>2, <2>3, <2>4
<1>5. CASE \E b \in Used, perm \in Perms : Protect(PtrOf(b), heap[b].size, perm)
  BY <1>5 DEF Protect, HeapInv
<1>6. CASE UNCHANGED memVars BY <1>6 DEF memVars, HeapInv
<1> QED BY <1>1, <1>2, <1>3, <1>4, <1>5, <1>6 DEF MemNext

LEMMA HeapInvHolds == MemSpec => []HeapInv
  BY HeapInvInit, StepIs, PTL DEF MemSpec

-----------------------------------------------------------------------------
(* What it says.                                                            *)

\* The block an address is in, header included.
LEMMA BlockAt ==
  ASSUME HeapInv, NEW a \in Nat, a < HeapSize
  PROVE  \E b \in DOMAIN heap : b <= a /\ a < EndIn(heap, b)
<1> DEFINE S == {k \in 0 .. a : a - k \in DOMAIN heap}
<1>1. DOMAIN heap \subseteq Nat /\ 0 \in DOMAIN heap BY DEF HeapInv, TiledIn
<1>2. a \in S /\ S \in SUBSET Nat BY <1>1
<1>3. PICK k \in S : \A l \in S : k <= l BY <1>2, LeastOf
<1> DEFINE b == a - k
           e == EndIn(heap, b)
<1>4. b \in DOMAIN heap /\ b <= a /\ b \in Nat /\ k \in Nat /\ b = a - k BY <1>1, <1>3
<1>5. e \in Nat /\ b < e /\ (e \in DOMAIN heap \/ e = HeapSize)
  <2>1. heap[b] \in HeaderType /\ (EndIn(heap, b) \in DOMAIN heap \/ EndIn(heap, b) = HeapSize)
    BY <1>4 DEF HeapInv, TiledIn
  <2> HIDE DEF b
  <2> QED BY <1>4, <2>1, HeapAssumption DEF EndIn, HeaderType
<1> HIDE DEF b, e
<1>6. a < e
  <2>1. CASE e \in DOMAIN heap /\ e <= a
    <3>1. a - e \in 0 .. a /\ a - (a - e) = e /\ ~(k <= a - e) BY <1>4, <1>5, <2>1
    <3> QED BY <1>3, <2>1, <3>1
  <2> QED BY <1>5, <2>1
<1> QED BY <1>4, <1>6 DEF e

LEMMA SpaceIsFound ==
  ASSUME HeapInv, NEW need \in Nat \ {0}, NEW a \in Nat, a + Header + need <= HeapSize,
         \A b \in Used : EndOf(b) <= a \/ a + Header + need <= b
  PROVE  Fitting(need) # {}
<1>1. Header \in Nat \ {0} /\ HeapSize \in Nat BY HeapAssumption
<1>2. PICK c \in DOMAIN heap : c <= a /\ a < EndIn(heap, c) BY <1>1, BlockAt
<1>3. TiledIn(heap) /\ ListIn(heap, freeList) /\ ApartIn(heap) BY ApartIs DEF HeapInv
<1>4. \A b \in UsedIn(heap) : EndIn(heap, b) <= a \/ a + Header + need <= b
  BY DEF Used, UsedIn, EndOf, EndIn
<1> DEFINE e == EndIn(heap, c)
<1>5. c \in Nat /\ heap[c].size \in Nat /\ e \in Nat /\ e = c + Header + heap[c].size
      /\ (e \in DOMAIN heap \/ e = HeapSize)
  <2>1. c \in Nat /\ heap[c] \in HeaderType /\ (e \in DOMAIN heap \/ e = HeapSize)
    BY <1>2, <1>3 DEF TiledIn
  <2> QED BY <1>1, <2>1 DEF HeaderType, EndIn
<1> HIDE DEF e
<1>6. c \in FreeIn(heap)
  <2>1. c \notin UsedIn(heap) BY <1>1, <1>2, <1>4, <1>5 DEF e
  <2> QED BY <1>2, <2>1 DEF FreeIn, UsedIn
<1>7. a + Header + need <= e
  <2>1. SUFFICES ASSUME e < a + Header + need PROVE FALSE BY <1>1, <1>5
  <2>2. e \in DOMAIN heap /\ a < e BY <1>1, <1>2, <1>5, <2>1 DEF e
  <2>3. EndIn(heap, e) \in Nat /\ e < EndIn(heap, e)
    <3>1. heap[e] \in HeaderType BY <1>3, <2>2 DEF TiledIn
    <3>2. heap[e].size \in Nat \ {0} BY <3>1 DEF HeaderType
    <3>3. e \in Nat /\ EndIn(heap, e) = e + Header + heap[e].size BY <1>5 DEF EndIn
    <3> QED BY <1>1, <3>2, <3>3
  <2>4. e \notin UsedIn(heap) BY <1>1, <1>4, <1>5, <2>1, <2>2, <2>3
  <2>5. e \in FreeIn(heap) BY <2>2, <2>4 DEF FreeIn, UsedIn
  <2> QED BY <1>3, <1>6, <2>5 DEF ApartIn, e
<1>8. heap[c].size >= need BY <1>1, <1>2, <1>5, <1>7
<1>9. PICK i \in 1 .. Len(freeList) : freeList[i] = c BY <1>3, <1>6 DEF ListIn
<1>10. i \in DOMAIN freeList BY <1>3, <1>9 DEF ListIn
<1> QED BY <1>8, <1>9, <1>10 DEF Fitting

LEMMA HeapInvTiled == HeapInv => HeapTiled
<1> SUFFICES ASSUME HeapInv PROVE HeapTiled
  OBVIOUS
<1>1. TiledIn(heap) /\ ListIn(heap, freeList) /\ ApartIn(heap) BY ApartIs DEF HeapInv
<1>2. \A b : EndOf(b) = EndIn(heap, b) BY DEF EndOf, EndIn
<1>3. Tiled
  <2>1. \A b \in DOMAIN heap : heap[b].size > 0 BY <1>1 DEF TiledIn, HeaderType
  <2> QED BY <1>1, <1>2, <2>1 DEF Tiled, TiledIn
<1>4. FreeListed
  <2>1. FreeIn(heap) = DOMAIN heap \ Used BY DEF FreeIn, Used
  <2>2. /\ freeList \in Seq(Nat)
        /\ \A i \in 1 .. Len(freeList) : freeList[i] \in FreeIn(heap)
        /\ \A b \in FreeIn(heap) : \E i \in 1 .. Len(freeList) : freeList[i] = b
        /\ \A i, j \in 1 .. Len(freeList) : i < j => freeList[i] < freeList[j]
    BY <1>1 DEF ListIn
  <2>3. DOMAIN freeList = 1 .. Len(freeList) /\ Len(freeList) \in Nat BY <2>2
  <2>4. {freeList[i] : i \in DOMAIN freeList} = FreeIn(heap) BY <2>2, <2>3
  <2>5. ASSUME NEW i \in 1 .. Len(freeList) - 1
        PROVE  EndOf(freeList[i]) < freeList[i + 1]
    <3> DEFINE x == freeList[i]
               y == freeList[i + 1]
    <3>1. i \in 1 .. Len(freeList) /\ i + 1 \in 1 .. Len(freeList) /\ i < i + 1 BY <2>3
    <3>2. x \in FreeIn(heap) /\ y \in FreeIn(heap) /\ x < y BY <2>2, <3>1
    <3> HIDE DEF x, y
    <3>3. x \in DOMAIN heap /\ y \in DOMAIN heap /\ x \in Nat /\ y \in Nat
          /\ heap[x] \in HeaderType
      BY <1>1, <3>2 DEF FreeIn, TiledIn
    <3>4. EndIn(heap, x) \in Nat BY <3>3, HeapAssumption DEF EndIn, HeaderType
    <3>5. EndIn(heap, x) <= y /\ EndIn(heap, x) # y
      BY <1>1, <3>2, <3>3 DEF TiledIn, ApartIn
    <3> QED BY <1>2, <3>3, <3>4, <3>5 DEF x, y
  <2> QED BY <2>1, <2>4, <2>5 DEF FreeListed
<1>5. NoSpaceLost
  <2>1. ASSUME NEW n \in Requests, NEW a \in 0 .. HeapSize - Header - AlignUp(n),
               \A b \in Used : EndOf(b) <= a \/ a + Header + AlignUp(n) <= b
        PROVE  Fitting(AlignUp(n)) # {}
    <3>1. AlignUp(n) \in Nat \ {0} BY RequestAssumption, AlignUpOk
    <3>2. a \in Nat /\ a + Header + AlignUp(n) <= HeapSize BY <3>1, HeapAssumption
    <3> QED BY <2>1, <3>1, <3>2, SpaceIsFound
  <2> QED BY <2>1 DEF NoSpaceLost
<1> QED BY <1>3, <1>4, <1>5 DEF HeapTiled

\* Splitting and merging leave a tiling of the heap and a free list that is
\* sorted, complete and merged, so that flux_alloc never fails while a large
\* enough stretch of the heap belongs to nobody, for every heap, header and
\* request.
THEOREM HeapTiledHolds == MemSpec => []HeapTiled
  BY HeapInvHolds, HeapInvTiled, PTL

-----------------------------------------------------------------------------
(* The refinement.                                                          *)

LiveIn(h) == [p \in {b + Header : b \in UsedIn(h)} |-> h[p - Header].size]

LEMMA LiveIs == Live = LiveIn(heap) /\ Live' = LiveIn(heap')
<1>1. UsedIn(heap) = Used /\ UsedIn(heap') = Used' BY DEF UsedIn, Used
<1> QED BY <1>1 DEF Live, LiveIn, PtrOf, BlockOf

LEMMA LiveInOk ==
  ASSUME NEW h, TiledIn(h)
  PROVE  /\ \A b \in UsedIn(h) : b + Header \in DOMAIN LiveIn(h)
                                 /\ LiveIn(h)[b + Header] = h[b].size
         /\ \A p \in DOMAIN LiveIn(h) : \E b \in UsedIn(h) : p = b + Header
         /\ LiveIn(h) = [p \in DOMAIN LiveIn(h) |-> LiveIn(h)[p]]
         /\ UsedIn(h) \subseteq Nat
<1>1. UsedIn(h) \subseteq Nat BY DEF TiledIn, UsedIn
<1>2. \A b \in UsedIn(h) : (b + Header) - Header = b BY <1>1, HeapAssumption
<1> QED BY <1>1, <1>2 DEF LiveIn

LEMMA AllocatesInit == MemInit => Promise!Init
<1> SUFFICES ASSUME MemInit PROVE Promise!Init
  OBVIOUS
<1>1. UsedIn(heap) = {} BY DEF MemInit, UsedIn
<1>2. LiveIn(heap) = << >> BY <1>1 DEF LiveIn
<1> QED BY <1>2, LiveIs DEF Promise!Init

LEMMA AllocatesTake ==
  ASSUME HeapInv, HeapInv', NEW b \in FreeIn(heap), NEW v \in Nat \ {0}, GivesOut(b, v)
  PROVE  Promise!Next
<1> DEFINE g == heap'
           p == b + Header
           old == LiveIn(heap)
           new == LiveIn(g)
<1>1. TiledIn(heap) /\ TiledIn(g) BY DEF HeapInv
<1>2. /\ UsedIn(g) = UsedIn(heap) \cup {b} /\ g[b].size = v
      /\ \A c \in UsedIn(heap) : g[c].size = heap[c].size
  BY DEF GivesOut
<1> HIDE DEF g
<1>3. Header \in Nat \ {0} /\ HeapSize \in Nat BY HeapAssumption
<1>4. /\ \A c \in UsedIn(heap) : c + Header \in DOMAIN old /\ old[c + Header] = heap[c].size
      /\ \A q \in DOMAIN old : \E c \in UsedIn(heap) : q = c + Header
      /\ UsedIn(heap) \subseteq Nat
  BY <1>1, LiveInOk
<1>5. /\ \A c \in UsedIn(g) : c + Header \in DOMAIN new /\ new[c + Header] = g[c].size
      /\ \A q \in DOMAIN new : \E c \in UsedIn(g) : q = c + Header
      /\ new = [q \in DOMAIN new |-> new[q]]
      /\ UsedIn(g) \subseteq Nat
  BY <1>1, LiveInOk
<1> HIDE DEF old, new
<1>6. b \in UsedIn(g) /\ b \in Nat /\ b \notin UsedIn(heap)
  BY <1>2, <1>5 DEF FreeIn, UsedIn
<1>7. p \in DOMAIN new /\ new[p] = v BY <1>2, <1>5, <1>6
<1>8. DOMAIN new = DOMAIN old \cup {p}
  <2> HIDE DEF p
  <2>1. p = b + Header BY DEF p
  <2>2. ASSUME NEW q \in DOMAIN new PROVE q \in DOMAIN old \cup {p}
    <3>1. PICK c \in UsedIn(g) : q = c + Header BY <1>5
    <3> QED BY <1>2, <1>4, <2>1, <3>1
  <2>3. ASSUME NEW q \in DOMAIN old PROVE q \in DOMAIN new
    <3>1. PICK c \in UsedIn(heap) : q = c + Header BY <1>4
    <3> QED BY <1>2, <1>5, <3>1
  <2> QED BY <1>7, <2>2, <2>3
<1>9. \A q \in DOMAIN old : q # p /\ new[q] = old[q]
  <2>1. ASSUME NEW q \in DOMAIN old PROVE q # p /\ new[q] = old[q]
    <3>1. PICK c \in UsedIn(heap) : q = c + Header BY <1>4
    <3>2. c # b /\ c \in Nat /\ c \in UsedIn(g) BY <1>2, <1>4, <1>6, <3>1
    <3>3. new[q] = g[c].size /\ old[q] = heap[c].size BY <1>4, <1>5, <3>1, <3>2
    <3> QED BY <1>2, <1>3, <1>6, <3>1, <3>2, <3>3
  <2> QED BY <2>1
<1>10. new = [q \in DOMAIN old \cup {p} |-> IF q = p THEN v ELSE old[q]]
  BY <1>5, <1>7, <1>8, <1>9
<1>11. p >= Header /\ p + v <= HeapSize
  <2>1. EndIn(g, b) <= HeapSize /\ EndIn(g, b) = b + Header + v
    BY <1>1, <1>2, <1>6 DEF EndIn, TiledIn, UsedIn
  <2> QED BY <1>3, <1>6, <2>1
<1>12. ASSUME NEW q \in DOMAIN old
       PROVE  p + v <= q - Header \/ q + old[q] <= p - Header
  <2>1. PICK c \in UsedIn(heap) : q = c + Header /\ old[q] = heap[c].size BY <1>4
  <2>2. /\ c \in Nat /\ c # b /\ b \in DOMAIN g /\ c \in DOMAIN g
        /\ g[c].size = heap[c].size /\ g[c] \in HeaderType
    BY <1>1, <1>2, <1>4, <1>6 DEF UsedIn, TiledIn
  <2>3. EndIn(g, b) = b + Header + v /\ EndIn(g, c) = c + Header + heap[c].size
        /\ heap[c].size \in Nat
    BY <1>2, <2>2 DEF EndIn, HeaderType
  <2>4. b < c \/ c < b BY <1>6, <2>2
  <2>5. EndIn(g, b) <= c \/ EndIn(g, c) <= b BY <1>1, <2>2, <2>4 DEF TiledIn
  <2> QED BY <1>3, <1>6, <2>1, <2>2, <2>3, <2>5
<1>13. Live = old /\ Live' = new BY LiveIs DEF old, new, g
<1> HIDE DEF p
<1>14. Promise!Allocate(p, Live'[p])
  BY <1>7, <1>10, <1>11, <1>12, <1>13 DEF Promise!Allocate, Promise!Apart
<1> QED BY <1>7, <1>13, <1>14 DEF Promise!Next

LEMMA AllocatesFree ==
  ASSUME HeapInv, HeapInv', NEW b, TakesBack(b)
  PROVE  Promise!Next
<1> DEFINE g == heap'
           p == b + Header
           old == LiveIn(heap)
           new == LiveIn(g)
<1>1. TiledIn(heap) /\ TiledIn(g) BY DEF HeapInv
<1>2. /\ b \in UsedIn(heap) /\ UsedIn(g) = UsedIn(heap) \ {b}
      /\ \A c \in UsedIn(g) : g[c].size = heap[c].size
  BY DEF TakesBack
<1> HIDE DEF g
<1>3. Header \in Nat BY HeapAssumption
<1>4. /\ \A c \in UsedIn(heap) : c + Header \in DOMAIN old /\ old[c + Header] = heap[c].size
      /\ \A q \in DOMAIN old : \E c \in UsedIn(heap) : q = c + Header
      /\ UsedIn(heap) \subseteq Nat
  BY <1>1, LiveInOk
<1>5. /\ \A c \in UsedIn(g) : c + Header \in DOMAIN new /\ new[c + Header] = g[c].size
      /\ \A q \in DOMAIN new : \E c \in UsedIn(g) : q = c + Header
      /\ new = [q \in DOMAIN new |-> new[q]]
      /\ UsedIn(g) \subseteq Nat
  BY <1>1, LiveInOk
<1> HIDE DEF old, new
<1>6. p \in DOMAIN old BY <1>2, <1>4
<1>7. DOMAIN new = DOMAIN old \ {p}
  <2>1. \A c \in UsedIn(heap) : c # b => c + Header # p BY <1>2, <1>3, <1>4
  <2>2. ASSUME NEW q \in DOMAIN new PROVE q \in DOMAIN old /\ q # p
    <3>1. PICK c \in UsedIn(g) : q = c + Header BY <1>5
    <3> QED BY <1>2, <1>4, <2>1, <3>1
  <2>3. ASSUME NEW q \in DOMAIN old, q # p PROVE q \in DOMAIN new
    <3>1. PICK c \in UsedIn(heap) : q = c + Header BY <1>4
    <3>2. c \in UsedIn(g) BY <1>2, <2>3, <3>1
    <3> QED BY <1>5, <3>1, <3>2
  <2> QED BY <2>2, <2>3
<1>8. \A q \in DOMAIN new : new[q] = old[q] BY <1>2, <1>4, <1>5
<1>9. new = [q \in DOMAIN old \ {p} |-> old[q]] BY <1>5, <1>7, <1>8
<1>10. Live = old /\ Live' = new BY LiveIs DEF old, new, g
<1> HIDE DEF p
<1>11. Promise!Free(p) BY <1>6, <1>9, <1>10 DEF Promise!Free
<1> QED BY <1>6, <1>10, <1>11 DEF Promise!Next

LEMMA AllocatesStep == HeapInv /\ HeapInv' /\ [MemNext]_memVars => [Promise!Next]_Live
<1> SUFFICES ASSUME HeapInv, HeapInv', [MemNext]_memVars PROVE [Promise!Next]_Live
  OBVIOUS
<1>1. CASE Taking BY <1>1, AllocatesTake DEF Taking
<1>2. CASE \E p : Release(p) BY <1>2, ReleaseIs, AllocatesFree
<1>3. CASE UNCHANGED heap BY <1>3, LiveIs
<1> QED BY <1>1, <1>2, <1>3, StepIs

\* flux_alloc, flux_realloc and flux_free implement an Allocator: allocations
\* stay inside the heap and apart from each other and from every header, and a
\* free changes only what was allocated.
THEOREM AllocatesHolds == MemSpec => Allocates
  BY AllocatesInit, AllocatesStep, HeapInvHolds, PTL DEF MemSpec, Allocates, Promise!Spec

-----------------------------------------------------------------------------
(* The books.                                                               *)

EntryType == [base: Int, perms: {RWX} \cup Perms]

MappedIn(m) == {i \in MapIdx : m[i] # Null}

\* The entries are allocations or the heap itself, none of them twice.
MapIn(m, used) ==
    /\ m \in [MapIdx -> EntryType \cup {Null}]
    /\ \A i \in MappedIn(m) : m[i].base # 0 => m[i].base - Header \in used
    /\ \A i, j \in MappedIn(m) : m[i].base = m[j].base => i = j

\* The running totals of a function of addresses.
Totals(w, f, n) ==
    /\ f \in [0 .. n -> Int] /\ f[0] = 0
    /\ \A a \in 1 .. n : f[a] = f[a - 1] + w[a - 1]

LEMMA TotalsExist ==
  ASSUME NEW w \in [0 .. HeapSize - 1 -> Int]
  PROVE  \A n \in 0 .. HeapSize : \E f : Totals(w, f, n)
<1> DEFINE Bad == {n \in 0 .. HeapSize : ~\E f : Totals(w, f, n)}
<1>1. HeapSize \in Nat BY HeapAssumption
<1>2. SUFFICES ASSUME Bad # {} PROVE FALSE OBVIOUS
<1>3. Bad \in SUBSET Nat BY <1>1
<1>4. PICK n \in Bad : \A m \in Bad : n <= m BY <1>2, <1>3, LeastOf
<1>5. n \in 0 .. HeapSize /\ n \in Nat BY <1>1, <1>4
<1>6. CASE n = 0
  <2>1. Totals(w, [a \in 0 .. n |-> 0], n) BY <1>6 DEF Totals
  <2> QED BY <1>4, <2>1
<1>7. CASE n # 0
  <2>1. n - 1 \in 0 .. HeapSize /\ ~(n <= n - 1) BY <1>1, <1>5, <1>7
  <2>2. n - 1 \notin Bad BY <1>4, <2>1
  <2>3. PICK f : Totals(w, f, n - 1) BY <2>1, <2>2
  <2> DEFINE g == [a \in 0 .. n |-> IF a = n THEN f[n - 1] + w[n - 1] ELSE f[a]]
  <2>4. n - 1 \in 0 .. HeapSize - 1 BY <1>1, <1>5, <1>7
  <2>5. w[n - 1] \in Int /\ f[n - 1] \in Int BY <2>1, <2>3, <2>4, <1>5 DEF Totals
  <2>6. g \in [0 .. n -> Int] /\ g[n] = f[n - 1] + w[n - 1]
        /\ \A a \in 0 .. n - 1 : g[a] = f[a]
    BY <1>5, <2>3, <2>5 DEF Totals
  <2> HIDE DEF g
  <2>7. g[0] = 0 BY <1>5, <1>7, <2>3, <2>6 DEF Totals
  <2>8. ASSUME NEW a \in 1 .. n PROVE g[a] = g[a - 1] + w[a - 1]
    <3>1. CASE a = n BY <1>5, <1>7, <2>6, <3>1
    <3>2. CASE a # n
      <4>1. a \in 1 .. n - 1 /\ a \in 0 .. n - 1 /\ a - 1 \in 0 .. n - 1
        BY <1>5, <3>2
      <4> QED BY <2>3, <2>6, <4>1 DEF Totals
    <3> QED BY <3>1, <3>2
  <2>9. Totals(w, g, n) BY <2>6, <2>7, <2>8 DEF Totals
  <2> QED BY <1>4, <2>9
<1> QED BY <1>6, <1>7

LEMMA TotalIs ==
  ASSUME NEW w \in [0 .. HeapSize - 1 -> Int]
  PROVE  \E f : Totals(w, f, HeapSize) /\ Total(w) = f[HeapSize]
<1> DEFINE Step(f) == [a \in 0 .. HeapSize |-> IF a = 0 THEN 0 ELSE f[a - 1] + w[a - 1]]
           sum == CHOOSE f : f = Step(f)
<1>1. HeapSize \in Nat BY HeapAssumption
<1>2. PICK f : Totals(w, f, HeapSize) BY <1>1, TotalsExist
<1>3. f = Step(f) BY <1>1, <1>2 DEF Totals
<1>4. sum = Step(sum) BY <1>3
<1>5. Total(w) = sum[HeapSize] BY DEF Total
<1> HIDE DEF sum
<1>6. \A a \in 0 .. HeapSize : sum[a] = IF a = 0 THEN 0 ELSE sum[a - 1] + w[a - 1]
  BY <1>4
<1> DEFINE Bad == {a \in 0 .. HeapSize : sum[a] # f[a]}
<1>7. Bad = {}
  <2>1. SUFFICES ASSUME Bad # {} PROVE FALSE OBVIOUS
  <2>2. Bad \in SUBSET Nat BY <1>1
  <2>3. PICK n \in Bad : \A m \in Bad : n <= m BY <2>1, <2>2, LeastOf
  <2>4. n \in 0 .. HeapSize /\ n \in Nat /\ n # 0
    BY <1>1, <1>2, <1>6, <2>3 DEF Totals
  <2>5. n - 1 \in 0 .. HeapSize /\ ~(n <= n - 1) /\ n \in 1 .. HeapSize BY <1>1, <2>4
  <2>6. sum[n - 1] = f[n - 1] BY <2>3, <2>5
  <2>7. f[n] = f[n - 1] + w[n - 1] /\ sum[n] = sum[n - 1] + w[n - 1]
    BY <1>2, <1>6, <2>4, <2>5 DEF Totals
  <2> QED BY <2>3, <2>6, <2>7
<1>8. sum[HeapSize] = f[HeapSize] BY <1>1, <1>7
<1> QED BY <1>2, <1>5, <1>8

\* Of the total only the change at one address counts.
LEMMA TotalChanges ==
  ASSUME NEW w \in [0 .. HeapSize - 1 -> Int], NEW v \in [0 .. HeapSize - 1 -> Int],
         NEW b \in 0 .. HeapSize - 1, \A a \in (0 .. HeapSize - 1) \ {b} : v[a] = w[a]
  PROVE  Total(v) = Total(w) + (v[b] - w[b]) /\ Total(w) \in Int
<1>1. HeapSize \in Nat BY HeapAssumption
<1>2. PICK f : Totals(w, f, HeapSize) /\ Total(w) = f[HeapSize] BY TotalIs
<1>3. PICK g : Totals(v, g, HeapSize) /\ Total(v) = g[HeapSize] BY TotalIs
<1> DEFINE d == v[b] - w[b]
           Bad == {a \in 0 .. HeapSize : g[a] # f[a] + (IF a > b THEN d ELSE 0)}
<1>4. d \in Int /\ b \in Int OBVIOUS
<1>5. \A a \in 0 .. HeapSize : f[a] \in Int /\ g[a] \in Int BY <1>2, <1>3 DEF Totals
<1>6. Bad = {}
  <2>1. SUFFICES ASSUME Bad # {} PROVE FALSE OBVIOUS
  <2>2. Bad \in SUBSET Nat BY <1>1
  <2>3. PICK n \in Bad : \A m \in Bad : n <= m BY <2>1, <2>2, LeastOf
  <2>4. n \in 0 .. HeapSize /\ g[n] # f[n] + (IF n > b THEN d ELSE 0) BY <2>3
  <2>5. n # 0 BY <1>1, <1>2, <1>3, <2>4 DEF Totals
  <2>6. n - 1 \in 0 .. HeapSize /\ ~(n <= n - 1) /\ n \in 1 .. HeapSize /\ n \in Int
        /\ n - 1 \in 0 .. HeapSize - 1
    BY <1>1, <2>4, <2>5
  <2>7. g[n - 1] = f[n - 1] + (IF n - 1 > b THEN d ELSE 0) BY <2>3, <2>6
  <2>8. f[n] = f[n - 1] + w[n - 1] /\ g[n] = g[n - 1] + v[n - 1]
    BY <1>2, <1>3, <2>6 DEF Totals
  <2>9. f[n - 1] \in Int /\ g[n - 1] \in Int /\ w[n - 1] \in Int /\ v[n - 1] \in Int
    BY <1>5, <2>6
  <2>10. CASE n - 1 = b
    <3>1. v[n - 1] = w[n - 1] + d BY <2>9, <2>10
    <3> HIDE DEF d
    <3> QED BY <1>4, <2>4, <2>6, <2>7, <2>8, <2>9, <2>10, <3>1
  <2>11. CASE n - 1 # b
    <3>1. v[n - 1] = w[n - 1] BY <2>6, <2>11
    <3>2. n > b <=> n - 1 > b BY <1>4, <2>6, <2>11
    <3> HIDE DEF d
    <3> QED BY <1>4, <2>4, <2>7, <2>8, <2>9, <3>1, <3>2
  <2> QED BY <2>10, <2>11
<1>7. HeapSize \in 0 .. HeapSize /\ HeapSize > b BY <1>1
<1>8. g[HeapSize] = f[HeapSize] + d BY <1>6, <1>7
<1> QED BY <1>2, <1>3, <1>5, <1>7, <1>8

BooksInv ==
    /\ allocs \in Int /\ frees \in Int
    /\ usedHeap \in Int /\ usedHeap <= Total(Claimed)
    /\ IsFiniteSet(Used)
    /\ allocs - frees = Cardinality(Used)
    /\ MapIn(memMap, Used)
    /\ moving \in [MemThreads -> Int \cup {Null}]

\* mem_map_add keeps the map, mem_map_remove when the block is freed.
LEMMA MapAddOk ==
  ASSUME NEW used, MapIn(memMap, used), NEW b \in Int, b \notin used, b + Header # 0
  PROVE  MapIn(MapAdd(PtrOf(b)), used \cup {b})
<1> DEFINE unused == {i \in MapIdx : memMap[i] = Null}
           k == CHOOSE i \in unused : \A j \in unused : i <= j
           entry == [base |-> PtrOf(b), perms |-> RWX]
           m == MapAdd(PtrOf(b))
<1>1. CASE unused = {}
  <2>1. m = memMap BY <1>1 DEF MapAdd
  <2> QED BY <2>1 DEF MapIn
<1>2. CASE unused # {}
  <2>1. unused \subseteq Int BY DEF MapIdx
  <2>2. k \in unused
    <3>1. unused \subseteq Nat BY TableAssumption DEF MapIdx
    <3> HIDE DEF unused
    <3> QED BY <1>2, <3>1, LeastOf
  <2>3. m = [memMap EXCEPT ![k] = entry] BY <1>2 DEF MapAdd
  <2>4. PtrOf(b) \in Int /\ PtrOf(b) - Header = b /\ PtrOf(b) # 0
    BY HeapAssumption DEF PtrOf
  <2>5. entry \in EntryType /\ entry.base = PtrOf(b) BY <2>4 DEF EntryType
  <2>6. k \in MapIdx /\ memMap[k] = Null BY <2>2
  <2> HIDE DEF k, entry, m, unused
  <2>7. /\ m \in [MapIdx -> EntryType \cup {Null}] /\ m[k] = entry
        /\ \A i \in MapIdx \ {k} : m[i] = memMap[i]
    BY <2>3, <2>5, <2>6 DEF MapIn
  <2>8. \A i \in MappedIn(memMap) : memMap[i].base # PtrOf(b)
    BY <2>4 DEF MapIn
  <2>9. \A i \in MappedIn(m) : i = k \/ (i \in MappedIn(memMap) /\ m[i] = memMap[i])
    BY <2>7 DEF MappedIn
  <2>10. \A i \in MappedIn(m) : m[i].base # 0 => m[i].base - Header \in used \cup {b}
    BY <2>4, <2>5, <2>7, <2>9 DEF MapIn
  <2>11. \A i, j \in MappedIn(m) : m[i].base = m[j].base => i = j
    BY <2>5, <2>7, <2>8, <2>9 DEF MapIn
  <2> QED BY <2>7, <2>10, <2>11 DEF MapIn, m
<1> QED BY <1>1, <1>2

LEMMA MapRemoveOk ==
  ASSUME NEW used, MapIn(memMap, used), NEW p \in Int
  PROVE  MapIn(MapRemove(p), used \ {p - Header})
<1> DEFINE mine == {i \in MapIdx : memMap[i] # Null /\ memMap[i].base = p}
           k == CHOOSE i \in mine : \A j \in mine : i <= j
           m == MapRemove(p)
<1>1. \A i \in MappedIn(memMap) : memMap[i] \in EntryType BY DEF MapIn, MappedIn
<1>2. \A i \in MappedIn(memMap) : memMap[i].base \in Int BY <1>1 DEF EntryType
<1>3. CASE mine = {}
  <2>1. m = memMap BY <1>3 DEF MapRemove
  <2>2. \A i \in MappedIn(memMap) : memMap[i].base # p BY <1>3 DEF MappedIn
  <2>3. \A i \in MappedIn(memMap) :
           memMap[i].base # 0 => memMap[i].base - Header \in used \ {p - Header}
    BY <1>2, <2>2, HeapAssumption DEF MapIn
  <2> QED BY <2>1, <2>3 DEF MapIn
<1>4. CASE mine # {}
  <2>1. k \in mine
    <3>1. mine \subseteq Nat BY TableAssumption DEF MapIdx
    <3> HIDE DEF mine
    <3> QED BY <1>4, <3>1, LeastOf
  <2>2. m = [memMap EXCEPT ![k] = Null] BY <1>4 DEF MapRemove
  <2>3. k \in MappedIn(memMap) /\ k \in MapIdx /\ memMap[k].base = p
    BY <2>1 DEF MappedIn
  <2> HIDE DEF k, m, mine
  <2>4. /\ m \in [MapIdx -> EntryType \cup {Null}] /\ m[k] = Null
        /\ \A i \in MapIdx \ {k} : m[i] = memMap[i]
    BY <2>2, <2>3 DEF MapIn
  <2>5. \A i \in MappedIn(m) : i \in MappedIn(memMap) /\ i # k /\ m[i] = memMap[i]
    BY <2>4 DEF MappedIn
  <2>6. \A i \in MappedIn(m) : m[i].base # p BY <2>3, <2>5 DEF MapIn
  <2>7. \A i \in MappedIn(m) :
           m[i].base # 0 => m[i].base - Header \in used \ {p - Header}
    BY <1>2, <2>5, <2>6, HeapAssumption DEF MapIn
  <2>8. \A i, j \in MappedIn(m) : m[i].base = m[j].base => i = j
    BY <2>5 DEF MapIn
  <2> QED BY <2>4, <2>7, <2>8 DEF MapIn, m
<1> QED BY <1>3, <1>4

\* What the blocks take, before and after a step.
ClaimedFits ==
    /\ Used \subseteq 0 .. HeapSize - 1
    /\ Claimed \in [0 .. HeapSize - 1 -> Int]
    /\ \A b \in Used : Claimed[b] = Header + heap[b].size

LEMMA ClaimedOk == HeapInv => ClaimedFits
<1> SUFFICES ASSUME HeapInv PROVE ClaimedFits
  OBVIOUS
<1>1. ASSUME NEW b \in Used PROVE b \in 0 .. HeapSize - 1 /\ Header + heap[b].size \in Int
  <2>1. b \in Nat /\ heap[b] \in HeaderType /\ EndIn(heap, b) <= HeapSize
    BY DEF HeapInv, TiledIn, Used
  <2>2. heap[b].size \in Nat \ {0} BY <2>1 DEF HeaderType
  <2> QED BY <2>1, <2>2, HeapAssumption DEF EndIn
<1> QED BY <1>1 DEF Claimed, ClaimedFits

LEMMA ClaimedMore ==
  ASSUME HeapInv, HeapInv', NEW b, b \notin Used, Used' = Used \cup {b},
         \A c \in Used : heap'[c].size = heap[c].size
  PROVE  Total(Claimed)' = Total(Claimed) + Header + heap'[b].size /\ Total(Claimed) \in Int
<1> DEFINE w == Claimed
           v == Claimed'
<1>1. /\ Used \subseteq 0 .. HeapSize - 1 /\ w \in [0 .. HeapSize - 1 -> Int]
      /\ \A c \in Used : w[c] = Header + heap[c].size
  BY ClaimedOk DEF ClaimedFits
<1> ClaimedFits' BY ClaimedOk, PTL
<1>2. /\ Used' \subseteq 0 .. HeapSize - 1 /\ v \in [0 .. HeapSize - 1 -> Int]
      /\ \A c \in Used' : v[c] = Header + heap'[c].size
  BY DEF ClaimedFits
<1>3. b \in 0 .. HeapSize - 1 BY <1>2
<1>4. w[b] = 0 BY <1>3 DEF Claimed
<1>5. ASSUME NEW a \in (0 .. HeapSize - 1) \ {b} PROVE v[a] = w[a]
  BY DEF Claimed
<1> HIDE DEF w, v
<1>6. Total(v) = Total(w) + (v[b] - w[b]) /\ Total(w) \in Int
  BY <1>1, <1>2, <1>3, <1>5, TotalChanges
<1>7. v[b] = Header + heap'[b].size /\ v[b] \in Int BY <1>2, <1>3
<1>8. Total(v) = Total(w) + v[b] BY <1>4, <1>6, <1>7
<1>9. Total(Claimed)' = Total(v) BY DEF Total, v
<1>10. heap'[b].size \in Int /\ Header \in Int
  BY HeapAssumption DEF HeapInv, TiledIn, HeaderType, Used
<1> QED BY <1>6, <1>7, <1>8, <1>9, <1>10 DEF w

LEMMA ClaimedLess ==
  ASSUME HeapInv, HeapInv', NEW b \in Used, Used' = Used \ {b},
         \A c \in Used' : heap'[c].size = heap[c].size
  PROVE  Total(Claimed)' = Total(Claimed) - (Header + heap[b].size) /\ Total(Claimed) \in Int
<1> DEFINE w == Claimed
           v == Claimed'
<1>1. /\ Used \subseteq 0 .. HeapSize - 1 /\ w \in [0 .. HeapSize - 1 -> Int]
      /\ \A c \in Used : w[c] = Header + heap[c].size
  BY ClaimedOk DEF ClaimedFits
<1> ClaimedFits' BY ClaimedOk, PTL
<1>2. v \in [0 .. HeapSize - 1 -> Int] BY DEF ClaimedFits
<1>3. b \in 0 .. HeapSize - 1 /\ w[b] \in Int BY <1>1
<1>4. v[b] = 0 BY <1>3 DEF Claimed
<1>5. ASSUME NEW a \in (0 .. HeapSize - 1) \ {b} PROVE v[a] = w[a]
  BY DEF Claimed
<1> HIDE DEF w, v
<1>6. Total(v) = Total(w) + (v[b] - w[b]) /\ Total(w) \in Int
  BY <1>1, <1>2, <1>3, <1>5, TotalChanges
<1>7. w[b] = Header + heap[b].size BY <1>1
<1>8. Total(v) = Total(w) - w[b] BY <1>3, <1>4, <1>6
<1>9. Total(Claimed)' = Total(v) BY DEF Total, v
<1> QED BY <1>6, <1>7, <1>8, <1>9 DEF w

LEMMA BooksTake ==
  ASSUME HeapInv, BooksInv, NEW n \in Requests, Fitting(AlignUp(n)) # {}, Take(AlignUp(n)),
         moving' \in [MemThreads -> Int \cup {Null}]
  PROVE  BooksInv'
<1>1. AlignUp(n) \in Nat \ {0} BY RequestAssumption, AlignUpOk
<1>2. PICK b \in FreeIn(heap), v \in Nat \ {0} : GivesOut(b, v) /\ AlignUp(n) <= v
  BY <1>1, TakeIs
<1>3. /\ b \in Nat /\ b \notin Used /\ b + Header # 0
      /\ Used' = Used \cup {b}
      /\ memMap' = MapAdd(PtrOf(b))
  BY <1>2, HeapAssumption DEF GivesOut, HeapInv, TiledIn, FreeIn, UsedIn, Used
<1>4. allocs' = allocs + 1 /\ frees' = frees BY DEF Take
<1>5. IsFiniteSet(Used') /\ Cardinality(Used') = Cardinality(Used) + 1
  BY <1>3, FS_AddElement DEF BooksInv
<1>6. Cardinality(Used) \in Nat BY FS_CardinalityType DEF BooksInv
<1>7. allocs' \in Int /\ frees' \in Int /\ allocs' - frees' = Cardinality(Used')
  BY <1>4, <1>5, <1>6 DEF BooksInv
<1>8. MapIn(memMap', Used') BY <1>3, MapAddOk DEF BooksInv
<1>9. usedHeap' \in Int /\ usedHeap' <= Total(Claimed)'
  <2>1. usedHeap' = usedHeap + Header + AlignUp(n) BY DEF Take
  <2>2. HeapInv' BY <1>1, TakeIs
  <2>3. heap'[b].size = v /\ \A c \in Used : heap'[c].size = heap[c].size
    BY <1>2 DEF GivesOut, UsedIn, Used
  <2>4. Total(Claimed)' = Total(Claimed) + Header + v /\ Total(Claimed) \in Int
    BY <1>3, <2>2, <2>3, ClaimedMore
  <2>5. usedHeap \in Int /\ usedHeap <= Total(Claimed) BY DEF BooksInv
  <2> QED BY <1>1, <1>2, <2>1, <2>4, <2>5, HeapAssumption
<1> QED BY <1>5, <1>7, <1>8, <1>9 DEF BooksInv

LEMMA BooksRelease ==
  ASSUME HeapInv, BooksInv, NEW p \in Int, Release(p),
         moving' \in [MemThreads -> Int \cup {Null}]
  PROVE  BooksInv'
<1> DEFINE b == BlockOf(p)
<1>1. TakesBack(b) BY ReleaseIs
<1>2. b \in Used /\ Used' = Used \ {b} BY <1>1 DEF TakesBack, UsedIn, Used
<1>3. allocs' = allocs /\ frees' = frees + 1 /\ memMap' = MapRemove(p) BY DEF Release
<1>4. b = p - Header BY DEF BlockOf
<1> HIDE DEF b
<1>5. IsFiniteSet(Used') /\ Cardinality(Used') = Cardinality(Used) - 1
  BY <1>2, FS_RemoveElement DEF BooksInv
<1>6. Cardinality(Used) \in Nat BY FS_CardinalityType DEF BooksInv
<1>7. allocs' \in Int /\ frees' \in Int /\ allocs' - frees' = Cardinality(Used')
  BY <1>3, <1>5, <1>6 DEF BooksInv
<1>8. MapIn(memMap', Used') BY <1>2, <1>3, <1>4, MapRemoveOk DEF BooksInv
<1>9. usedHeap' \in Int /\ usedHeap' <= Total(Claimed)'
  <2>1. usedHeap' = usedHeap - (Header + heap[b].size) BY DEF Release, Extent, b
  <2>2. HeapInv' BY ReleaseIs
  <2>3. \A c \in Used' : heap'[c].size = heap[c].size BY <1>1 DEF TakesBack, UsedIn, Used
  <2>4. Total(Claimed)' = Total(Claimed) - (Header + heap[b].size) /\ Total(Claimed) \in Int
    BY <1>2, <2>2, <2>3, ClaimedLess
  <2>5. usedHeap \in Int /\ usedHeap <= Total(Claimed) BY DEF BooksInv
  <2>6. Header + heap[b].size \in Int BY <1>2, HeapAssumption DEF HeapInv, TiledIn, HeaderType, Used
  <2> QED BY <2>1, <2>4, <2>5, <2>6
<1> QED BY <1>5, <1>7, <1>8, <1>9 DEF BooksInv

\* flux_mem_protect changes no base.
LEMMA BooksProtect ==
  ASSUME HeapInv, BooksInv, NEW p, NEW n, NEW perm \in Perms, Protect(p, n, perm)
  PROVE  BooksInv'
<1> DEFINE mapped == {i \in MapIdx : memMap[i] # Null /\ memMap[i].base = p}
<1>1. /\ memMap' = [i \in MapIdx |->
                        IF i \in mapped THEN [memMap[i] EXCEPT !.perms = perm]
                        ELSE memMap[i]]
      /\ UNCHANGED <<heap, usedHeap, allocs, frees, moving>>
  BY DEF Protect
<1>2. \A i \in mapped : i \in MappedIn(memMap) /\ memMap[i] \in EntryType
  BY DEF BooksInv, MapIn, MappedIn
<1>3. \A i \in mapped : /\ [memMap[i] EXCEPT !.perms = perm] \in EntryType
                        /\ [memMap[i] EXCEPT !.perms = perm].base = memMap[i].base
  BY <1>2 DEF EntryType
<1> HIDE DEF mapped
<1>4. /\ memMap' \in [MapIdx -> EntryType \cup {Null}]
      /\ \A i \in MapIdx : i \in mapped => memMap'[i].base = memMap[i].base
      /\ \A i \in MapIdx : i \notin mapped => memMap'[i] = memMap[i]
  BY <1>1, <1>3 DEF BooksInv, MapIn
<1>5. \A i \in MappedIn(memMap') : /\ i \in MappedIn(memMap)
                                   /\ memMap'[i].base = memMap[i].base
  BY <1>2, <1>4 DEF MappedIn
<1>6. MapIn(memMap', Used) BY <1>4, <1>5 DEF BooksInv, MapIn
<1>7. Used' = Used /\ Total(Claimed)' = Total(Claimed)
  BY <1>1 DEF Used, Claimed, Total
<1> QED BY <1>1, <1>6, <1>7 DEF BooksInv

LEMMA BooksInvInit == MemInit => BooksInv
<1> SUFFICES ASSUME MemInit PROVE BooksInv
  OBVIOUS
<1>1. Used = {} BY DEF MemInit, Used
<1>2. allocs = 0 /\ frees = 0 /\ moving \in [MemThreads -> Int \cup {Null}]
  BY DEF MemInit
<1> DEFINE entry == [base |-> 0, perms |-> RWX]
<1>3. memMap = [i \in MapIdx |-> IF i = 0 THEN entry ELSE Null] BY DEF MemInit
<1>4. entry \in EntryType /\ entry.base = 0 BY DEF EntryType
<1> HIDE DEF entry
<1>5. MapIn(memMap, Used) BY <1>3, <1>4 DEF MapIn, MappedIn
<1>6. usedHeap = 0 /\ Total(Claimed) = 0
  <2>1. Claimed \in [0 .. HeapSize - 1 -> Int] /\ \A a \in 0 .. HeapSize - 1 : Claimed[a] = 0
    BY <1>1 DEF Claimed
  <2> DEFINE w == Claimed
  <2>2. PICK f : Totals(w, f, HeapSize) /\ Total(w) = f[HeapSize] BY <2>1, TotalIs
  <2> HIDE DEF w
  <2> DEFINE Bad == {a \in 0 .. HeapSize : f[a] # 0}
  <2>3. HeapSize \in Nat BY HeapAssumption
  <2>4. Bad = {}
    <3>1. SUFFICES ASSUME Bad # {} PROVE FALSE OBVIOUS
    <3> Bad \in SUBSET Nat BY <2>3
    <3>2. PICK n \in Bad : \A m \in Bad : n <= m BY <3>1, LeastOf
    <3>3. n # 0 /\ n \in 1 .. HeapSize BY <2>2, <2>3, <3>2 DEF Totals
    <3>4. n - 1 \in 0 .. HeapSize - 1 /\ n - 1 \in 0 .. HeapSize /\ ~(n <= n - 1)
      BY <2>3, <3>3
    <3>5. f[n - 1] = 0 /\ w[n - 1] = 0 BY <2>1, <3>2, <3>4 DEF w
    <3> QED BY <2>2, <3>2, <3>3, <3>5 DEF Totals
  <2>5. f[HeapSize] = 0 BY <2>3, <2>4
  <2> QED BY <2>2, <2>5 DEF MemInit, w
<1> QED BY <1>1, <1>2, <1>5, <1>6, FS_EmptySet DEF BooksInv

LEMMA BooksStep == HeapInv /\ BooksInv /\ [MemNext]_memVars => BooksInv'
<1> SUFFICES ASSUME HeapInv, BooksInv, [MemNext]_memVars PROVE BooksInv'
  OBVIOUS
<1>1. moving \in [MemThreads -> Int \cup {Null}] BY DEF BooksInv
<1>2. CASE \E n \in Requests : Alloc(n)
  BY <1>1, <1>2, BooksTake DEF Alloc
<1>3. CASE \E p \in Header .. HeapSize : Free(p)
  <2>1. PICK p \in Int : Free(p) BY <1>3
  <2> QED BY <1>1, <2>1, BooksRelease DEF Free
<1>4. CASE \E t \in MemThreads, p \in Header .. HeapSize, n \in Requests : ReallocTake(t, p, n)
  <2>1. PICK t \in MemThreads, p \in Int, n \in Requests : ReallocTake(t, p, n) BY <1>4
  <2>2. moving' \in [MemThreads -> Int \cup {Null}] BY <1>1, <2>1 DEF ReallocTake
  <2> QED BY <2>1, <2>2, BooksTake DEF ReallocTake
<1>5. CASE \E t \in MemThreads : ReallocDone(t)
  <2>1. PICK t \in MemThreads : ReallocDone(t) BY <1>5
  <2>2. moving' \in [MemThreads -> Int \cup {Null}] BY <1>1, <2>1 DEF ReallocDone
  <2>3. CASE MayFree(moving[t])
    <3>1. Release(moving[t]) BY <2>1, <2>3 DEF ReallocDone
    <3>2. moving[t] \in Int BY <1>1, <2>1 DEF ReallocDone, Idle
    <3> QED BY <2>2, <3>1, <3>2, BooksRelease
  <2>4. CASE ~MayFree(moving[t])
    <3>1. UNCHANGED <<heap, memMap, usedHeap, allocs, frees>> BY <2>1, <2>4 DEF ReallocDone
    <3>2. Used' = Used /\ Total(Claimed)' = Total(Claimed)
      BY <3>1 DEF Used, Claimed, Total
    <3> QED BY <2>2, <3>1, <3>2 DEF BooksInv
  <2> QED BY <2>3, <2>4
<1>6. CASE \E b \in Used, perm \in Perms : Protect(PtrOf(b), heap[b].size, perm)
  BY <1>6, BooksProtect
<1>7. CASE UNCHANGED memVars
  <2>1. Used' = Used /\ Total(Claimed)' = Total(Claimed)
    BY <1>7 DEF memVars, Used, Claimed, Total
  <2> QED BY <1>7, <2>1 DEF memVars, BooksInv
<1> QED BY <1>2, <1>3, <1>4, <1>5, <1>6, <1>7 DEF MemNext

\* No two entries are of one allocation, so that only the heap's own entry is
\* there beyond the allocations.
LEMMA BooksInvBalance == BooksInv => BooksBalance
<1> SUFFICES ASSUME BooksInv PROVE BooksBalance
  OBVIOUS
<1> DEFINE mapped == {i \in MapIdx : memMap[i] # Null}
           given == {i \in mapped : memMap[i].base # 0}
           block == [i \in given |-> memMap[i].base - Header]
<1>1. mapped = MappedIn(memMap) BY DEF MappedIn
<1>2. /\ \A i \in mapped : memMap[i].base \in Int
      /\ \A i \in mapped : memMap[i].base # 0 => memMap[i].base - Header \in Used
      /\ \A i, j \in mapped : memMap[i].base = memMap[j].base => i = j
  BY <1>1 DEF BooksInv, MapIn, EntryType
<1>3. IsFiniteSet(Used) /\ Cardinality(Used) \in Nat
  BY FS_CardinalityType DEF BooksInv
<1> HIDE DEF mapped
<1>4. block \in Injection(given, Used)
  <2>1. block \in [given -> Used] BY <1>2
  <2>2. \A i, j \in given : block[i] = block[j] => i = j BY <1>2, HeapAssumption
  <2> QED BY <2>1, <2>2 DEF Injection, IsInjective
<1>5. IsFiniteSet(given) /\ Cardinality(given) <= Cardinality(Used)
  BY <1>3, <1>4, FS_Injection
<1>6. Cardinality(given) \in Nat BY <1>5, FS_CardinalityType
<1> HIDE DEF block
<1>7. Cardinality(mapped) <= Cardinality(given) + 1 /\ Cardinality(mapped) \in Nat
  <2>1. CASE \A i \in mapped : memMap[i].base # 0
    <3>1. mapped = given BY <2>1
    <3> QED BY <1>6, <3>1
  <2>2. CASE \E i \in mapped : memMap[i].base = 0
    <3>1. PICK k \in mapped : memMap[k].base = 0 BY <2>2
    <3>2. mapped = given \cup {k} BY <1>2, <3>1
    <3>3. k \notin given BY <3>1
    <3> HIDE DEF given
    <3> QED BY <1>5, <1>6, <3>2, <3>3, FS_AddElement
  <2> QED BY <2>1, <2>2
<1>8. Cardinality(Used) >= Cardinality(mapped) - 1 BY <1>3, <1>5, <1>6, <1>7
<1>9. \A i \in mapped : memMap[i].base # 0 => IsAllocated(memMap[i].base)
  BY <1>2 DEF IsAllocated, BlockOf
<1>10. allocs - frees = Cardinality(Used) /\ usedHeap <= Total(Claimed) BY DEF BooksInv
<1> QED BY <1>2, <1>8, <1>9, <1>10 DEF BooksBalance, mapped

\* Every allocation and every free is counted once, whoever freed first, and
\* the memory map is of allocations only, one entry each, and s_used_heap never
\* claims more than the blocks in use take.
THEOREM BooksBalanceHolds == MemSpec => []BooksBalance
<1>1. MemSpec => []BooksInv
  BY BooksInvInit, BooksStep, HeapInvHolds, PTL DEF MemSpec
<1> QED BY <1>1, BooksInvBalance, PTL
=============================================================================
