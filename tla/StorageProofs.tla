----------------------------- MODULE StorageProofs -----------------------------
(***************************************************************************)
(* Proofs about the memory that connections live in, for any sizes asked   *)
(* for, blocks and nodes: what a user is given is large enough (BlocksFit: *)
(* the table of ranges and the pools' block sizes agree at every size), no *)
(* memory is with two users (MemoryIsApart), and every node of the object  *)
(* pool is in one place (NodesAreWhole).                                   *)
(*                                                                         *)
(* The two stacks are linked lists.  Of a size class's it is enough that   *)
(* some set holds its top and is closed under its links, and that no link  *)
(* leads to the top and no two to the same block.  Of the object pool's a  *)
(* sequence of nodes says where each link leads.                           *)
(***************************************************************************)
EXTENDS Storage, FiniteSetTheorems, WellFoundedInduction, TLAPS

\* Induction over the natural numbers, for a set.
LEMMA SetInduction ==
  ASSUME NEW S, 0 \in S, \A n \in Nat : n \in S => n + 1 \in S
  PROVE  Nat \subseteq S
<1> DEFINE R == {p \in Nat \X Nat : p[1] < p[2]}
           T == Nat \ S
<1>1. IsWellFoundedOn(R, Nat) BY NatLessThanWellFounded DEF OpToRel
<1>2. \A x, y \in Nat : x < y => <<x, y>> \in R OBVIOUS
<1> HIDE DEF R
<1>3. SUFFICES ASSUME T # {} PROVE FALSE OBVIOUS
<1>4. PICK x \in T : \A y \in T : <<y, x>> \notin R BY <1>1, <1>3, WFMin
<1>5. x \in Nat /\ x # 0 BY <1>4
<1>6. x - 1 \in Nat /\ x - 1 < x /\ (x - 1) + 1 = x BY <1>5
<1>7. x - 1 \in S BY <1>2, <1>4, <1>5, <1>6
<1> QED BY <1>4, <1>6, <1>7

\* What is defined step by step from a first value is a function.
LEMMA StepsExist ==
  ASSUME NEW len \in Nat, NEW V, NEW first \in V, NEW F \in [V -> V]
  PROVE  \E f \in [0 .. len -> V] :
             f = [n \in 0 .. len |-> IF n = 0 THEN first ELSE F[f[n - 1]]]
<1> DEFINE Good(m) == \E f \in [0 .. m -> V] :
               \A n \in 0 .. m : f[n] = IF n = 0 THEN first ELSE F[f[n - 1]]
           G == {m \in Nat : Good(m)}
<1>1. Good(0)
  <2> DEFINE f == [n \in 0 .. 0 |-> first]
  <2>1. f \in [0 .. 0 -> V] /\ \A n \in 0 .. 0 : n = 0 /\ f[n] = first OBVIOUS
  <2> HIDE DEF f
  <2> QED BY <2>1
<1>2. ASSUME NEW m \in Nat, Good(m) PROVE Good(m + 1)
  <2>1. PICK f \in [0 .. m -> V] :
            \A n \in 0 .. m : f[n] = IF n = 0 THEN first ELSE F[f[n - 1]]
    BY <1>2
  <2> DEFINE g == [n \in 0 .. m + 1 |-> IF n = m + 1 THEN F[f[m]] ELSE f[n]]
  <2>2. m \in 0 .. m /\ f[m] \in V /\ F[f[m]] \in V OBVIOUS
  <2>3. \A n \in 0 .. m + 1 : n = m + 1 \/ n \in 0 .. m OBVIOUS
  <2>4. g \in [0 .. m + 1 -> V] BY <2>2, <2>3
  <2>5. g[m + 1] = F[f[m]] /\ \A n \in 0 .. m : g[n] = f[n] OBVIOUS
  <2> HIDE DEF g
  <2>6. ASSUME NEW n \in 0 .. m + 1
        PROVE  g[n] = IF n = 0 THEN first ELSE F[g[n - 1]]
    <3>1. CASE n = m + 1
      <4>1. n # 0 /\ n - 1 = m BY <3>1
      <4> QED BY <2>2, <2>5, <3>1, <4>1
    <3>2. CASE n \in 0 .. m
      <4>1. n # 0 => n - 1 \in 0 .. m BY <3>2
      <4> QED BY <2>1, <2>5, <3>2, <4>1
    <3> QED BY <2>3, <3>1, <3>2
  <2> QED BY <2>4, <2>6
<1> HIDE DEF Good
<1>3. 0 \in G /\ \A m \in Nat : m \in G => m + 1 \in G BY <1>1, <1>2
<1> HIDE DEF G
<1>4. len \in G BY <1>3, SetInduction
<1>5. PICK f \in [0 .. len -> V] :
          \A n \in 0 .. len : f[n] = IF n = 0 THEN first ELSE F[f[n - 1]]
  BY <1>4 DEF G, Good
<1>6. f = [n \in 0 .. len |-> IF n = 0 THEN first ELSE F[f[n - 1]]] BY <1>5
<1> QED BY <1>6

-----------------------------------------------------------------------------
(* The size classes.                                                       *)

\* The table of the pools' block sizes, made up to whole pointers.
LEMMA TheBlockSizes ==
  /\ Pools = {1, 2, 3, 4, 5}
  /\ BlockSize(1) = 64 /\ BlockSize(2) = 128 /\ BlockSize(3) = 256
  /\ BlockSize(4) = 512 /\ BlockSize(5) = 1024
<1>1. Pools = {1, 2, 3, 4, 5} BY DEF Pools
<1>2. /\ MemBlockSize[1] = 64 /\ MemBlockSize[2] = 128 /\ MemBlockSize[3] = 256
      /\ MemBlockSize[4] = 512 /\ MemBlockSize[5] = 1024
  BY DEF MemBlockSize
<1>3. 64 \div 8 = 8 /\ 64 % 8 = 0 /\ 128 \div 8 = 16 /\ 128 % 8 = 0 OBVIOUS
<1>4. 256 \div 8 = 32 /\ 256 % 8 = 0 /\ 512 \div 8 = 64 /\ 512 % 8 = 0 OBVIOUS
<1>5. 1024 \div 8 = 128 /\ 1024 % 8 = 0 OBVIOUS
<1>6. BlockSize(1) = 64 /\ BlockSize(2) = 128 BY <1>2, <1>3 DEF BlockSize, PointerSize
<1>7. BlockSize(3) = 256 /\ BlockSize(4) = 512 BY <1>2, <1>4 DEF BlockSize, PointerSize
<1>8. BlockSize(5) = 1024 BY <1>2, <1>5 DEF BlockSize, PointerSize
<1> QED BY <1>1, <1>6, <1>7, <1>8

\* The table of the ranges of sizes.
LEMMA TheRanges ==
  ASSUME NEW size \in Nat
  PROVE  /\ InRange(size, 1) <=> 1 <= size /\ size <= 64
         /\ InRange(size, 2) <=> 65 <= size /\ size <= 128
         /\ InRange(size, 3) <=> 129 <= size /\ size <= 256
         /\ InRange(size, 4) <=> 257 <= size /\ size <= 512
         /\ InRange(size, 5) <=> 513 <= size /\ size <= 1024
BY DEF InRange, Ranges

\* The ranges leave out no size that is not too large, and none of them leads to a pool
\* whose blocks are smaller than it.
LEMMA PoolServes ==
  ASSUME NEW size \in Nat \ {0}, size <= MaxMemorySize
  PROVE  PoolFor(size) \in Pools /\ size <= BlockSize(PoolFor(size))
<1> DEFINE Last(p) == InRange(size, p) /\ \A q \in Pools : q > p => ~InRange(size, q)
<1>1. size \in 1 .. 1024 BY DEF MaxMemorySize
<1>2. \E p \in Pools : Last(p)
  <2>1. \/ InRange(size, 1) \/ InRange(size, 2) \/ InRange(size, 3)
        \/ InRange(size, 4) \/ InRange(size, 5)
    BY <1>1, TheRanges
  <2>2. Pools = {1, 2, 3, 4, 5} BY TheBlockSizes
  <2>3. CASE InRange(size, 5) BY <2>2, <2>3
  <2>4. CASE InRange(size, 4) /\ ~InRange(size, 5) BY <2>2, <2>4
  <2>5. CASE InRange(size, 3) /\ ~InRange(size, 4) /\ ~InRange(size, 5) BY <2>2, <2>5
  <2>6. CASE /\ InRange(size, 2) /\ ~InRange(size, 3) /\ ~InRange(size, 4)
             /\ ~InRange(size, 5)
    BY <2>2, <2>6
  <2>7. CASE /\ InRange(size, 1) /\ ~InRange(size, 2) /\ ~InRange(size, 3)
             /\ ~InRange(size, 4) /\ ~InRange(size, 5)
    BY <2>2, <2>7
  <2> QED BY <2>1, <2>3, <2>4, <2>5, <2>6, <2>7
<1>3. PoolFor(size) \in Pools /\ Last(PoolFor(size)) BY <1>2 DEF PoolFor
<1> DEFINE p == PoolFor(size)
<1>4. p \in {1, 2, 3, 4, 5} /\ InRange(size, p) BY <1>3, TheBlockSizes
<1> HIDE DEF p, Last
<1>5. size <= BlockSize(p) BY <1>1, <1>4, TheBlockSizes, TheRanges
<1> QED BY <1>3, <1>5 DEF p

\* A set that holds the top of a stack and what its links lead to, each block once, and
\* none that is with a user or that was given back twice.
Linked(p, free, head, next, r) ==
    /\ free \subseteq Ids
    /\ head # Nil => head \in free
    /\ \A i \in free : next[<<p, i>>] # Nil => next[<<p, i>>] \in free \ {head}
    /\ \A i, j \in free : next[<<p, i>>] = next[<<p, j>>] /\ i # j => next[<<p, i>>] = Nil
    /\ \A i \in free : <<p, i>> \notin held /\ r[<<p, i>>] \in {0, 1}

FreeList(p, free) == Linked(p, free, pHead[p], pNext, ref)

\* The invariant of the allocator.
MemoryInv ==
    /\ TypeOK
    /\ \A p \in Pools : \E free \in SUBSET Ids : FreeList(p, free)
    /\ \A b \in held : b[1] \in pBuf /\ ref[b] \in {0, 1} /\ asked[b] <= BlockSize(b[1])

\* The stack is inside of such a set.
LEMMA StackIsFree ==
  ASSUME TypeOK, NEW p \in Pools, NEW free \in SUBSET Ids, FreeList(p, free)
  PROVE  Stack(p) \subseteq free
<1> DEFINE V == SUBSET Ids
           first == {pHead[p]} \ {Nil}
           More(s) == s \union ({pNext[<<p, i>>] : i \in s} \ {Nil})
           F == [s \in V |-> More(s)]
           reach == CHOOSE reach : reach = [n \in 0 .. BlockCount |->
                        IF n = 0 THEN {pHead[p]} \ {Nil}
                        ELSE reach[n - 1] \union ({pNext[<<p, i>>] : i \in reach[n - 1]} \ {Nil})]
<1>1. BlockCount \in Nat BY MemoryAssumption
<1>2. first \in V BY DEF TypeOK
<1>3. \A s \in V : More(s) \in V BY DEF TypeOK, Blocks
<1>4. F \in [V -> V] BY <1>3
<1>5. PICK f \in [0 .. BlockCount -> V] :
          f = [n \in 0 .. BlockCount |-> IF n = 0 THEN first ELSE F[f[n - 1]]]
  <2> HIDE DEF V, first, F
  <2> QED BY <1>1, <1>2, <1>4, StepsExist
<1>6. \A n \in 0 .. BlockCount : n # 0 => F[f[n - 1]] = More(f[n - 1])
  <2>1. \A n \in 0 .. BlockCount : n # 0 => n - 1 \in 0 .. BlockCount BY <1>1
  <2> HIDE DEF V, More
  <2> QED BY <2>1
<1>7. f = [n \in 0 .. BlockCount |-> IF n = 0 THEN first ELSE More(f[n - 1])]
  <2> HIDE DEF F, More, first
  <2> QED BY <1>5, <1>6
<1>8. reach = [n \in 0 .. BlockCount |-> IF n = 0 THEN first ELSE More(reach[n - 1])]
  <2>1. \E g : g = [n \in 0 .. BlockCount |->
                        IF n = 0 THEN {pHead[p]} \ {Nil}
                        ELSE g[n - 1] \union ({pNext[<<p, i>>] : i \in g[n - 1]} \ {Nil})]
    BY <1>7
  <2> QED BY <2>1
<1>9. Stack(p) = reach[BlockCount] BY DEF Stack
<1> HIDE DEF reach
<1> DEFINE G == {n \in Nat : n <= BlockCount => reach[n] \subseteq free}
<1>10. \A n \in 0 .. BlockCount : reach[n] = IF n = 0 THEN first ELSE More(reach[n - 1])
  <2> HIDE DEF More, first
  <2> QED BY <1>8
<1>11. 0 \in G
  <2>1. reach[0] = first
    <3>1. 0 \in 0 .. BlockCount BY <1>1
    <3> HIDE DEF More, first
    <3> QED BY <1>10, <3>1
  <2>2. first \subseteq free BY DEF FreeList, Linked
  <2> QED BY <2>1, <2>2
<1>12. ASSUME NEW n \in Nat, n \in G PROVE n + 1 \in G
  <2>1. SUFFICES ASSUME n + 1 <= BlockCount PROVE reach[n + 1] \subseteq free OBVIOUS
  <2>2. reach[n + 1] = More(reach[n])
    <3>1. n + 1 \in 0 .. BlockCount /\ n + 1 # 0 /\ (n + 1) - 1 = n BY <1>1, <2>1
    <3> HIDE DEF More, first
    <3> QED BY <1>10, <3>1
  <2>3. reach[n] \subseteq free BY <1>1, <1>12, <2>1
  <2>4. More(reach[n]) \subseteq free BY <2>3 DEF FreeList, Linked
  <2> HIDE DEF More
  <2> QED BY <2>2, <2>4
<1> HIDE DEF G
<1>13. BlockCount \in G BY <1>1, <1>11, <1>12, SetInduction
<1> QED BY <1>1, <1>9, <1>13 DEF G

\* A stack that a step leaves alone.
LEMMA ListStays ==
  ASSUME NEW p \in Pools, NEW free \in SUBSET Ids, FreeList(p, free), pHead'[p] = pHead[p],
         \A i \in free : /\ pNext'[<<p, i>>] = pNext[<<p, i>>] /\ ref'[<<p, i>>] = ref[<<p, i>>]
                         /\ <<p, i>> \in held' => <<p, i>> \in held
  PROVE  FreeList(p, free)'
BY DEF FreeList, Linked

\* A block that is taken from the top of a stack, as it was or as initMemoryPool() made it.
LEMMA PopStep ==
  ASSUME MemoryInv, NEW p \in Pools, NEW size \in Nat, size <= BlockSize(p),
         NEW first \in Ids, NEW free \in SUBSET Ids,
         NEW next \in [Blocks -> Ids \union {Nil}], NEW r \in [Blocks -> -1 .. 1],
         Linked(p, free, first, next, r),
         \A b \in Blocks : b[1] # p => next[b] = pNext[b] /\ r[b] = ref[b],
         \A b \in held : r[b] \in {0, 1},
         PopBlock(p, size, first, next, r)
  PROVE  MemoryInv' /\ held' = held \union {<<p, first>>} /\ <<p, first>> \notin held
<1> DEFINE c == <<p, first>>
<1>0. TypeOK /\ held \subseteq Blocks BY DEF MemoryInv, TypeOK
<1>1. first # Nil /\ first \in free
  <2>1. first # Nil BY DEF PopBlock
  <2> QED BY <2>1 DEF Linked
<1>2. c \in Blocks /\ c \notin held /\ r[c] \in {0, 1} /\ c[1] = p
  BY <1>1 DEF Blocks, Linked
<1>3. /\ pHead' = [pHead EXCEPT ![p] = next[c]] /\ pNext' = next /\ ref' = r
      /\ held' = held \union {c} /\ asked' = [asked EXCEPT ![c] = size]
      /\ pBuf' = pBuf \union {p} /\ heap' = heap
  BY DEF PopBlock
<1> HIDE DEF c
<1>4. TypeOK'
  <2>1. pHead' \in [Pools -> Ids \union {Nil}] BY <1>0, <1>2, <1>3 DEF TypeOK
  <2>2. asked' \in [Blocks -> Nat] BY <1>0, <1>2, <1>3 DEF TypeOK
  <2> QED BY <1>0, <1>2, <1>3, <2>1, <2>2 DEF TypeOK
<1>5. \E f \in SUBSET Ids : FreeList(p, f)'
  <2> DEFINE f == free \ {first}
  <2>1. pHead'[p] = next[c] BY <1>0, <1>3 DEF TypeOK
  <2>2. next[c] # Nil => next[c] \in f BY <1>1 DEF Linked, c
  <2>3. ASSUME NEW i \in f, next[<<p, i>>] # Nil PROVE next[<<p, i>>] \in f \ {next[c]}
    <3>1. next[<<p, i>>] \in f BY <2>3 DEF Linked
    <3>2. next[<<p, i>>] # next[c] BY <1>1, <2>3 DEF Linked, c
    <3> QED BY <3>1, <3>2
  <2>4. ASSUME NEW i \in f PROVE <<p, i>> \notin held' /\ ref'[<<p, i>>] \in {0, 1}
    <3>1. <<p, i>> # c BY DEF c
    <3> QED BY <1>3, <3>1 DEF Linked
  <2>5. \A i, j \in f : next[<<p, i>>] = next[<<p, j>>] /\ i # j => next[<<p, i>>] = Nil
    BY DEF Linked
  <2>6. FreeList(p, f)' BY <1>3, <2>1, <2>2, <2>3, <2>4, <2>5 DEF FreeList, Linked
  <2>7. f \in SUBSET Ids OBVIOUS
  <2> QED BY <2>6, <2>7
<1>6. ASSUME NEW q \in Pools, q # p PROVE \E f \in SUBSET Ids : FreeList(q, f)'
  <2>1. PICK f \in SUBSET Ids : FreeList(q, f) BY DEF MemoryInv
  <2>2. pHead'[q] = pHead[q] BY <1>0, <1>3, <1>6 DEF TypeOK
  <2>3. ASSUME NEW i \in f
        PROVE  /\ pNext'[<<q, i>>] = pNext[<<q, i>>] /\ ref'[<<q, i>>] = ref[<<q, i>>]
               /\ <<q, i>> \in held' => <<q, i>> \in held
    <3>1. <<q, i>> \in Blocks /\ <<q, i>>[1] # p /\ <<q, i>> # c BY <1>6 DEF Blocks, c
    <3> QED BY <1>3, <3>1
  <2>4. FreeList(q, f)' BY <2>1, <2>2, <2>3, ListStays
  <2> QED BY <2>4
<1>7. ASSUME NEW b \in held'
      PROVE  b[1] \in pBuf' /\ ref'[b] \in {0, 1} /\ asked'[b] <= BlockSize(b[1])
  <2>1. CASE b = c BY <1>0, <1>2, <1>3, <2>1 DEF TypeOK
  <2>2. CASE b # c
    <3>1. b \in held /\ b \in Blocks /\ asked'[b] = asked[b]
      BY <1>0, <1>2, <1>3, <1>7, <2>2 DEF TypeOK
    <3> QED BY <1>3, <3>1 DEF MemoryInv
  <2> QED BY <2>1, <2>2
<1>8. \A q \in Pools : \E f \in SUBSET Ids : FreeList(q, f)' BY <1>5, <1>6
<1> QED BY <1>2, <1>3, <1>4, <1>7, <1>8 DEF MemoryInv, c

\* The blocks of a pool that is used for the first time.
LEMMA ChainedIsLinked ==
  ASSUME MemoryInv, NEW p \in Pools, p \notin pBuf
  PROVE  /\ Linked(p, Ids, 0, Chained(p, pNext), Counted(p, ref)) /\ 0 \in Ids
         /\ Chained(p, pNext) \in [Blocks -> Ids \union {Nil}]
         /\ Counted(p, ref) \in [Blocks -> -1 .. 1]
         /\ \A b \in Blocks : b[1] # p => /\ Chained(p, pNext)[b] = pNext[b]
                                          /\ Counted(p, ref)[b] = ref[b]
         /\ \A b \in held : Counted(p, ref)[b] \in {0, 1}
<1> DEFINE next == Chained(p, pNext)
           r == Counted(p, ref)
<1>0. TypeOK /\ BlockCount \in Nat \ {0} BY MemoryAssumption DEF MemoryInv
<1>1. \A i \in Ids : <<p, i>> \in Blocks /\ <<p, i>>[1] = p /\ <<p, i>>[2] = i BY DEF Blocks
<1>2. \A i \in Ids : next[<<p, i>>] = IF i + 1 < BlockCount THEN i + 1 ELSE Nil
  BY <1>1 DEF Chained
<1>3. \A i \in Ids : r[<<p, i>>] = 1 BY <1>1 DEF Counted
<1>4. \A b \in held : b \in Blocks /\ b[1] # p /\ ref[b] \in {0, 1}
  BY <1>0 DEF MemoryInv, TypeOK
<1>5. next \in [Blocks -> Ids \union {Nil}]
  <2>1. ASSUME NEW b \in Blocks
        PROVE  (IF b[1] # p THEN pNext[b] ELSE IF b[2] + 1 < BlockCount THEN b[2] + 1 ELSE Nil)
                   \in Ids \union {Nil}
    BY <1>0 DEF TypeOK, Blocks, Ids
  <2> QED BY <2>1 DEF Chained
<1>6. r \in [Blocks -> -1 .. 1]
  <2>1. ASSUME NEW b \in Blocks PROVE (IF b[1] = p THEN 1 ELSE ref[b]) \in -1 .. 1
    BY <1>0 DEF TypeOK
  <2> QED BY <2>1 DEF Counted
<1>7. \A b \in Blocks : b[1] # p => next[b] = pNext[b] /\ r[b] = ref[b]
  BY DEF Chained, Counted
<1> HIDE DEF next, r
<1>8. Linked(p, Ids, 0, next, r)
  <2>1. 0 \in Ids BY <1>0 DEF Ids
  <2>2. ASSUME NEW i \in Ids, next[<<p, i>>] # Nil PROVE next[<<p, i>>] \in Ids \ {0}
    BY <1>0, <1>2, <2>2 DEF Ids, Nil
  <2>3. ASSUME NEW i \in Ids, NEW j \in Ids, next[<<p, i>>] = next[<<p, j>>], i # j
        PROVE  next[<<p, i>>] = Nil
    BY <1>0, <1>2, <2>3 DEF Ids, Nil
  <2>4. \A i \in Ids : <<p, i>> \notin held BY <1>1, <1>4
  <2> QED BY <1>3, <2>1, <2>2, <2>3, <2>4 DEF Linked
<1>9. 0 \in Ids BY <1>0 DEF Ids
<1>10. \A b \in held : r[b] \in {0, 1} BY <1>4, <1>7
<1> QED BY <1>5, <1>6, <1>7, <1>8, <1>9, <1>10 DEF next, r

\* A block of malloc() is none of these.
LEMMA MemoryStays ==
  ASSUME MemoryInv, UNCHANGED <<pBuf, pHead, pNext, ref, held, asked>>, heap' \in 0 .. MaxHeap
  PROVE  MemoryInv'
<1>1. TypeOK' BY DEF MemoryInv, TypeOK
<1>2. \A p, free : FreeList(p, free)' <=> FreeList(p, free) BY DEF FreeList, Linked
<1> QED BY <1>1, <1>2 DEF MemoryInv

\* FromHeap, and what is freed of it.
LEMMA HeapStep ==
  ASSUME MemoryInv, FromHeap \/ DeAllocHeap
  PROVE  MemoryInv' /\ held' = held
<1>1. UNCHANGED <<pBuf, pHead, pNext, ref, held, asked>> BY DEF FromHeap, DeAllocHeap
<1>2. heap \in 0 .. MaxHeap /\ MaxHeap \in Nat BY MemoryAssumption DEF MemoryInv, TypeOK
<1>3. heap' \in 0 .. MaxHeap BY <1>2 DEF FromHeap, DeAllocHeap
<1> QED BY <1>1, <1>3, MemoryStays

\* allocMemory() by way of a pool: what it takes was with nobody.
LEMMA AllocStep ==
  ASSUME MemoryInv, NEW size \in Nat \ {0}, AllocFromPool(size)
  PROVE  LET p == PoolFor(size)
             i == IF p \in pBuf THEN pHead[p] ELSE 0
         IN  /\ MemoryInv'
             /\ i = Nil => held' = held
             /\ i # Nil => /\ <<p, i>> \in Blocks /\ <<p, i>> \notin held
                           /\ held' = held \union {<<p, i>>}
<1> DEFINE p == PoolFor(size)
<1>0. TypeOK BY DEF MemoryInv
<1>1. p \in Pools /\ size <= BlockSize(p) BY PoolServes DEF AllocFromPool
<1>2. CASE p \in pBuf
  <2>1. \/ PopBlock(p, size, pHead[p], pNext, ref)
        \/ pHead[p] = Nil /\ FromHeap
    BY <1>2 DEF AllocFromPool
  <2> HIDE DEF p
  <2>2. CASE PopBlock(p, size, pHead[p], pNext, ref)
    <3>1. PICK free \in SUBSET Ids : FreeList(p, free) BY <1>1 DEF MemoryInv
    <3>2. pHead[p] # Nil /\ pHead[p] \in Ids BY <1>0, <1>1, <2>2 DEF PopBlock, TypeOK
    <3>3. /\ Linked(p, free, pHead[p], pNext, ref)
          /\ \A b \in held : ref[b] \in {0, 1}
          /\ pNext \in [Blocks -> Ids \union {Nil}] /\ ref \in [Blocks -> -1 .. 1]
      BY <1>0, <3>1 DEF FreeList, MemoryInv, TypeOK
    <3>4. MemoryInv' /\ held' = held \union {<<p, pHead[p]>>} /\ <<p, pHead[p]>> \notin held
      BY <1>1, <2>2, <3>2, <3>3, PopStep
    <3>5. <<p, pHead[p]>> \in Blocks BY <1>1, <3>2 DEF Blocks
    <3> QED BY <1>2, <3>2, <3>4, <3>5 DEF p
  <2>3. CASE pHead[p] = Nil /\ FromHeap
    <3>1. MemoryInv' /\ held' = held BY <2>3, HeapStep
    <3> QED BY <1>2, <2>3, <3>1 DEF p
  <2> QED BY <2>1, <2>2, <2>3
<1>3. CASE p \notin pBuf
  <2>1. PopBlock(p, size, 0, Chained(p, pNext), Counted(p, ref))
    BY <1>3 DEF AllocFromPool
  <2> HIDE DEF p
  <2> DEFINE next == Chained(p, pNext)
             r == Counted(p, ref)
  <2>2. /\ Linked(p, Ids, 0, next, r) /\ 0 \in Ids
        /\ next \in [Blocks -> Ids \union {Nil}] /\ r \in [Blocks -> -1 .. 1]
        /\ \A b \in Blocks : b[1] # p => next[b] = pNext[b] /\ r[b] = ref[b]
        /\ \A b \in held : r[b] \in {0, 1}
        /\ PopBlock(p, size, 0, next, r)
    BY <1>1, <1>3, <2>1, ChainedIsLinked
  <2> HIDE DEF next, r
  <2>3. Ids \in SUBSET Ids OBVIOUS
  <2>4. MemoryInv' /\ held' = held \union {<<p, 0>>} /\ <<p, 0>> \notin held
    BY <1>1, <2>2, <2>3, PopStep
  <2>5. <<p, 0>> \in Blocks /\ 0 # Nil BY <1>1, <2>2 DEF Blocks, Nil
  <2> QED BY <1>3, <2>4, <2>5 DEF p
<1> QED BY <1>2, <1>3

\* deAllocMemory(): the block goes on top of the stack, or out of use.
LEMMA DeAllocStep ==
  ASSUME MemoryInv, NEW b \in Blocks, DeAlloc(b)
  PROVE  MemoryInv' /\ held' = held \ {b}
<1> DEFINE p == b[1]
           i == b[2]
<1>0. TypeOK BY DEF MemoryInv
<1>1. p \in Pools /\ i \in Ids /\ b = <<p, i>> BY DEF Blocks
<1>2. /\ b \in held /\ held' = held \ {b} /\ ref' = [ref EXCEPT ![b] = ref[b] - 1]
      /\ UNCHANGED <<pBuf, heap, asked>>
  BY DEF DeAlloc
<1>3. ref[b] \in {0, 1} BY <1>2 DEF MemoryInv
<1>4. CASE ref[b] - 1 # 0
  <2>1. pHead' = pHead /\ pNext' = pNext BY <1>4 DEF DeAlloc
  <2>2. ref' \in [Blocks -> -1 .. 1]
    <3>1. ref[b] - 1 \in -1 .. 1 BY <1>3
    <3> QED BY <1>0, <1>2, <3>1 DEF TypeOK
  <2>3. TypeOK' BY <1>0, <1>2, <2>1, <2>2 DEF TypeOK
  <2>4. ASSUME NEW q \in Pools PROVE \E f \in SUBSET Ids : FreeList(q, f)'
    <3>1. PICK f \in SUBSET Ids : FreeList(q, f) BY DEF MemoryInv
    <3>2. ASSUME NEW j \in f PROVE <<q, j>> # b /\ ref'[<<q, j>>] = ref[<<q, j>>]
      <4>1. <<q, j>> \notin held BY <3>1 DEF FreeList, Linked
      <4>2. <<q, j>> \in Blocks BY DEF Blocks
      <4> QED BY <1>0, <1>2, <4>1, <4>2 DEF TypeOK
    <3>3. FreeList(q, f)' BY <1>2, <2>1, <3>1, <3>2, ListStays
    <3> QED BY <3>3
  <2>5. ASSUME NEW c \in held' PROVE ref'[c] = ref[c] /\ c \in held
    BY <1>0, <1>2, <2>5 DEF TypeOK
  <2>6. \A c \in held' : c[1] \in pBuf' /\ ref'[c] \in {0, 1} /\ asked'[c] <= BlockSize(c[1])
    BY <1>2, <2>5 DEF MemoryInv
  <2> QED BY <1>2, <2>3, <2>4, <2>6 DEF MemoryInv
<1>5. CASE ref[b] - 1 = 0
  <2>1. /\ pNext' = [pNext EXCEPT ![b] = pHead[p]] /\ pHead' = [pHead EXCEPT ![p] = i]
    BY <1>5 DEF DeAlloc
  <2> HIDE DEF p, i
  <2>2. TypeOK'
    <3>1. pHead[p] \in Ids \union {Nil} BY <1>0, <1>1 DEF TypeOK
    <3>2. pNext' \in [Blocks -> Ids \union {Nil}] BY <1>0, <2>1, <3>1 DEF TypeOK
    <3>3. pHead' \in [Pools -> Ids \union {Nil}] BY <1>0, <1>1, <2>1 DEF TypeOK
    <3>4. ref' \in [Blocks -> -1 .. 1] BY <1>0, <1>2, <1>5 DEF TypeOK
    <3> QED BY <1>0, <1>2, <3>2, <3>3, <3>4 DEF TypeOK
  <2>3. \E f \in SUBSET Ids : FreeList(p, f)'
    <3>1. PICK free \in SUBSET Ids : FreeList(p, free) BY <1>1 DEF MemoryInv
    <3> DEFINE f == free \union {i}
    <3>2. i \notin free BY <1>1, <1>2, <3>1 DEF FreeList, Linked
    <3>3. pHead'[p] = i /\ pNext'[<<p, i>>] = pHead[p] /\ ref'[<<p, i>>] = 0
      BY <1>0, <1>1, <1>2, <1>5, <2>1 DEF TypeOK
    <3>4. ASSUME NEW j \in free
          PROVE  /\ pNext'[<<p, j>>] = pNext[<<p, j>>] /\ ref'[<<p, j>>] = ref[<<p, j>>]
                 /\ <<p, j>> \notin held
      <4>1. <<p, j>> \in Blocks /\ <<p, j>> # b BY <1>1, <3>2 DEF Blocks
      <4> QED BY <1>0, <1>2, <2>1, <3>1, <4>1 DEF TypeOK, FreeList, Linked
    <3>5. pHead[p] # Nil => pHead[p] \in free BY <3>1 DEF FreeList, Linked
    <3>6. ASSUME NEW j \in f, pNext'[<<p, j>>] # Nil
          PROVE  pNext'[<<p, j>>] \in f \ {i}
      <4>1. CASE j = i BY <3>2, <3>3, <3>5, <3>6, <4>1
      <4>2. CASE j \in free
        <5>1. pNext[<<p, j>>] \in free BY <3>1, <3>4, <3>6, <4>2 DEF FreeList, Linked
        <5> QED BY <3>2, <3>4, <4>2, <5>1
      <4> QED BY <4>1, <4>2
    <3>7. ASSUME NEW j \in f, NEW k \in f, pNext'[<<p, j>>] = pNext'[<<p, k>>], j # k
          PROVE  pNext'[<<p, j>>] = Nil
      <4>1. CASE j \in free /\ k \in free
        BY <3>1, <3>4, <3>7, <4>1 DEF FreeList, Linked
      <4>2. CASE j = i /\ k \in free
        <5>1. pNext[<<p, k>>] = pHead[p] BY <3>3, <3>4, <3>7, <4>2
        <5>2. pNext[<<p, k>>] = Nil BY <3>1, <4>2, <5>1 DEF FreeList, Linked
        <5> QED BY <3>3, <4>2, <5>1, <5>2
      <4>3. CASE j \in free /\ k = i
        <5>1. pNext[<<p, j>>] = pHead[p] BY <3>3, <3>4, <3>7, <4>3
        <5>2. pNext[<<p, j>>] = Nil BY <3>1, <4>3, <5>1 DEF FreeList, Linked
        <5> QED BY <3>4, <4>3, <5>2
      <4> QED BY <3>7, <4>1, <4>2, <4>3
    <3>8. ASSUME NEW j \in f PROVE <<p, j>> \notin held' /\ ref'[<<p, j>>] \in {0, 1}
      <4>1. CASE j = i BY <1>1, <1>2, <3>3, <4>1
      <4>2. CASE j \in free BY <1>2, <3>1, <3>4, <4>2 DEF FreeList, Linked
      <4> QED BY <4>1, <4>2
    <3>9. f \subseteq Ids /\ i \in f BY <1>1
    <3> HIDE DEF f
    <3>10. FreeList(p, f)' BY <3>3, <3>6, <3>7, <3>8, <3>9 DEF FreeList, Linked
    <3> QED BY <3>9, <3>10
  <2>4. ASSUME NEW q \in Pools, q # p PROVE \E f \in SUBSET Ids : FreeList(q, f)'
    <3>1. PICK f \in SUBSET Ids : FreeList(q, f) BY DEF MemoryInv
    <3>2. pHead'[q] = pHead[q] BY <1>0, <2>1, <2>4 DEF TypeOK
    <3>3. ASSUME NEW j \in f
          PROVE  /\ pNext'[<<q, j>>] = pNext[<<q, j>>] /\ ref'[<<q, j>>] = ref[<<q, j>>]
                 /\ <<q, j>> \in held' => <<q, j>> \in held
      <4>1. <<q, j>> \in Blocks /\ <<q, j>> # b BY <1>1, <2>4 DEF Blocks
      <4> QED BY <1>0, <1>2, <2>1, <4>1 DEF TypeOK
    <3>4. FreeList(q, f)' BY <3>1, <3>2, <3>3, ListStays
    <3> QED BY <3>4
  <2>5. ASSUME NEW c \in held' PROVE ref'[c] = ref[c] /\ c \in held
    BY <1>0, <1>2, <2>5 DEF TypeOK
  <2>6. \A c \in held' : c[1] \in pBuf' /\ ref'[c] \in {0, 1} /\ asked'[c] <= BlockSize(c[1])
    BY <1>2, <2>5 DEF MemoryInv
  <2>7. \A q \in Pools : \E f \in SUBSET Ids : FreeList(q, f)' BY <2>3, <2>4
  <2> QED BY <1>2, <2>2, <2>6, <2>7 DEF MemoryInv
<1> QED BY <1>4, <1>5

-----------------------------------------------------------------------------
(* The object pool.                                                        *)

\* A sequence of k nodes that is the stack of the object pool: each node once, from the
\* top along the links, and every node that is with nobody.
OnStack(k, s) ==
    /\ \A i, j \in 1 .. k : s[i] = s[j] => i = j
    /\ top = IF k = 0 THEN Nil ELSE s[1]
    /\ \A i \in 1 .. k : link[s[i]] = IF i < k THEN s[i + 1] ELSE Nil
    /\ {s[i] : i \in 1 .. k} = (1 .. made) \ (used \union leaving)

\* The invariant of the object pool.
PoolInv == Pool!TypeOK /\ \E k \in Nat : \E s \in [1 .. k -> Pool!Nodes] : OnStack(k, s)

\* What is assumed of it, and what its names stand for.
LEMMA PoolConstants ==
  /\ PoolSize \in Nat \ {0} /\ MaxNodes \in Nat /\ PoolSize <= MaxNodes
  /\ Pool!Nodes = 1 .. MaxNodes /\ Nil \notin Pool!Nodes
BY StorageAssumption DEF Pool!PoolAssumption, Pool!Nodes, Nil

\* initObjectPool() threads its nodes.
LEMMA PoolInit == Pool!Init => PoolInv
<1> SUFFICES ASSUME Pool!Init PROVE PoolInv OBVIOUS
<1> USE PoolConstants DEF Pool!Init
<1>1. Pool!TypeOK
  <2>1. top \in Pool!Nodes \union {Nil} OBVIOUS
  <2>2. link \in [Pool!Nodes -> Pool!Nodes \union {Nil}]
    <3>1. ASSUME NEW n \in Pool!Nodes
          PROVE  (IF n < PoolSize THEN n + 1 ELSE Nil) \in Pool!Nodes \union {Nil}
      OBVIOUS
    <3> QED BY <3>1
  <2>3. count \in [Pool!Nodes -> {0, 1}] OBVIOUS
  <2>4. made \in PoolSize .. MaxNodes OBVIOUS
  <2>5. used = {} /\ leaving = {} /\ aborted \in BOOLEAN OBVIOUS
  <2> QED BY ONLY <2>1, <2>2, <2>3, <2>4, <2>5 DEF Pool!TypeOK
<1> DEFINE s == [i \in 1 .. PoolSize |-> i]
<1>2. s \in [1 .. PoolSize -> Pool!Nodes] /\ \A i \in 1 .. PoolSize : s[i] = i OBVIOUS
<1> HIDE DEF s
<1>3. OnStack(PoolSize, s)
  <2>1. {s[i] : i \in 1 .. PoolSize} = (1 .. made) \ (used \union leaving) BY <1>2
  <2>2. top = IF PoolSize = 0 THEN Nil ELSE s[1] BY <1>2
  <2>3. ASSUME NEW i \in 1 .. PoolSize
        PROVE  link[s[i]] = IF i < PoolSize THEN s[i + 1] ELSE Nil
    <3>1. i \in Pool!Nodes /\ link[i] = IF i < PoolSize THEN i + 1 ELSE Nil OBVIOUS
    <3>2. i < PoolSize => s[i + 1] = i + 1 BY <1>2
    <3> QED BY <1>2, <3>1, <3>2
  <2> QED BY <1>2, <2>1, <2>2, <2>3 DEF OnStack
<1>4. PoolSize \in Nat OBVIOUS
<1> QED BY <1>1, <1>2, <1>3, <1>4 DEF PoolInv

\* A node is taken from the top.
LEMMA PopNodeStep == PoolInv /\ Pool!PopNode => PoolInv'
<1> SUFFICES ASSUME PoolInv, Pool!PopNode PROVE PoolInv' OBVIOUS
<1> USE PoolConstants
<1>0. Pool!TypeOK BY DEF PoolInv
<1>k. PICK k \in Nat : \E s \in [1 .. k -> Pool!Nodes] : OnStack(k, s) BY DEF PoolInv
<1>1. PICK s \in [1 .. k -> Pool!Nodes] : OnStack(k, s) BY <1>k
<1>2. /\ top # Nil /\ top' = link[top] /\ used' = used \union {top}
      /\ UNCHANGED <<link, count, made, leaving, aborted>>
  BY DEF Pool!PopNode
<1>3. k >= 1 /\ 1 \in 1 .. k /\ top = s[1]
  <2>1. k # 0 BY <1>1, <1>2 DEF OnStack
  <2> QED BY <1>1, <2>1 DEF OnStack
<1>4. top \in (1 .. made) \ (used \union leaving) BY <1>1, <1>3 DEF OnStack
<1>5. Pool!TypeOK'
  <2>1. top \in Pool!Nodes BY <1>3
  <2>2. top' \in Pool!Nodes \union {Nil} BY <1>0, <1>2, <2>1 DEF Pool!TypeOK
  <2> QED BY <1>0, <1>2, <1>4, <2>2 DEF Pool!TypeOK
<1> DEFINE t == [i \in 1 .. k - 1 |-> s[i + 1]]
<1>6. \A i \in 1 .. k - 1 : i + 1 \in 1 .. k OBVIOUS
<1>7. t \in [1 .. k - 1 -> Pool!Nodes] BY <1>6
<1>8. \A i \in 1 .. k - 1 : t[i] = s[i + 1] OBVIOUS
<1> HIDE DEF t
<1>9. OnStack(k - 1, t)'
  <2>1. ASSUME NEW i \in 1 .. k - 1, NEW j \in 1 .. k - 1, t[i] = t[j] PROVE i = j
    <3>1. i + 1 = j + 1 BY <1>1, <1>6, <1>8, <2>1 DEF OnStack
    <3> QED BY <3>1
  <2>2. top' = IF k - 1 = 0 THEN Nil ELSE t[1]
    <3>1. link[s[1]] = IF 1 < k THEN s[1 + 1] ELSE Nil BY <1>1, <1>3 DEF OnStack
    <3>2. CASE k = 1 BY <1>2, <1>3, <3>1, <3>2
    <3>3. CASE k # 1
      <4>1. 1 < k /\ 1 \in 1 .. k - 1 /\ k - 1 # 0 BY <1>3, <3>3
      <4> QED BY <1>2, <1>3, <1>8, <3>1, <4>1
    <3> QED BY <3>2, <3>3
  <2>3. ASSUME NEW i \in 1 .. k - 1
        PROVE  link[t[i]] = IF i < k - 1 THEN t[i + 1] ELSE Nil
    <3>1. link[s[i + 1]] = IF i + 1 < k THEN s[(i + 1) + 1] ELSE Nil
      BY <1>1, <1>6 DEF OnStack
    <3>2. i < k - 1 <=> i + 1 < k OBVIOUS
    <3>3. i < k - 1 => i + 1 \in 1 .. k - 1 OBVIOUS
    <3> QED BY <1>8, <3>1, <3>2, <3>3
  <2>4. {t[i] : i \in 1 .. k - 1} = (1 .. made) \ ((used \union {top}) \union leaving)
    <3> DEFINE A == {s[i] : i \in 1 .. k}
               B == {t[i] : i \in 1 .. k - 1}
    <3>1. B \subseteq A \ {top}
      <4>1. ASSUME NEW i \in 1 .. k - 1 PROVE t[i] \in A /\ t[i] # s[1]
        <5>1. i + 1 \in 1 .. k /\ i + 1 # 1 OBVIOUS
        <5>2. s[i + 1] # s[1] BY <1>1, <1>3, <5>1 DEF OnStack
        <5> QED BY <1>8, <5>1, <5>2
      <4> QED BY <1>3, <4>1
    <3>2. A \ {top} \subseteq B
      <4>1. ASSUME NEW i \in 1 .. k, s[i] # s[1] PROVE s[i] \in B
        <5>1. i # 1 BY <4>1
        <5>2. i - 1 \in 1 .. k - 1 /\ (i - 1) + 1 = i BY <5>1
        <5>3. t[i - 1] = s[i] BY <1>8, <5>2
        <5> QED BY <5>2, <5>3
      <4> QED BY <1>3, <4>1
    <3>3. A = (1 .. made) \ (used \union leaving) BY <1>1 DEF OnStack
    <3> HIDE DEF A
    <3>4. B = A \ {top} BY <3>1, <3>2
    <3> HIDE DEF B
    <3>5. B = (1 .. made) \ ((used \union {top}) \union leaving) BY <3>3, <3>4
    <3> QED BY <3>5 DEF B
  <2> QED BY <1>2, <2>1, <2>2, <2>3, <2>4 DEF OnStack
<1>10. k - 1 \in Nat BY <1>3
<1> QED BY <1>5, <1>7, <1>9, <1>10 DEF PoolInv

\* A new node, when the stack is empty.
LEMMA NewNodeStep == PoolInv /\ Pool!NewNode => PoolInv'
<1> SUFFICES ASSUME PoolInv, Pool!NewNode PROVE PoolInv' OBVIOUS
<1> USE PoolConstants
<1>0. Pool!TypeOK BY DEF PoolInv
<1>k. PICK k \in Nat : \E s \in [1 .. k -> Pool!Nodes] : OnStack(k, s) BY DEF PoolInv
<1>1. PICK s \in [1 .. k -> Pool!Nodes] : OnStack(k, s) BY <1>k
<1>2. /\ made < MaxNodes /\ made' = made + 1 /\ used' = used \union {made + 1}
      /\ UNCHANGED <<top, link, count, leaving, aborted>>
  BY DEF Pool!NewNode
<1>3. made \in Nat /\ made >= PoolSize BY <1>0 DEF Pool!TypeOK
<1>4. Pool!TypeOK' BY <1>0, <1>2, <1>3 DEF Pool!TypeOK
<1>5. OnStack(k, s)'
  <2>1. (1 .. made + 1) \ ((used \union {made + 1}) \union leaving)
            = (1 .. made) \ (used \union leaving)
    <3>1. 1 .. made + 1 = (1 .. made) \union {made + 1} /\ made + 1 \notin 1 .. made BY <1>3
    <3> QED BY <3>1
  <2> QED BY <1>1, <1>2, <2>1 DEF OnStack
<1> QED BY <1>1, <1>4, <1>5 DEF PoolInv

\* A node whose object is gone is on its way.
LEMMA LeaveStep == ASSUME PoolInv, NEW n \in Pool!Nodes, Pool!Leave(n) PROVE PoolInv'
<1>0. Pool!TypeOK BY DEF PoolInv
<1>k. PICK k \in Nat : \E s \in [1 .. k -> Pool!Nodes] : OnStack(k, s) BY DEF PoolInv
<1>1. PICK s \in [1 .. k -> Pool!Nodes] : OnStack(k, s) BY <1>k
<1>2. UNCHANGED <<top, link, made>> /\ n \in used BY DEF Pool!Leave
<1>3. CASE count[n] = 1
  <2>1. /\ count' = [count EXCEPT ![n] = 0] /\ used' = used \ {n}
        /\ leaving' = leaving \union {n} /\ aborted' = aborted
    BY <1>3 DEF Pool!Leave
  <2>2. Pool!TypeOK' BY <1>0, <1>2, <2>1 DEF Pool!TypeOK
  <2>3. used' \union leaving' = used \union leaving BY <1>2, <2>1
  <2>4. OnStack(k, s)' BY <1>1, <1>2, <2>3 DEF OnStack
  <2> QED BY <1>1, <2>2, <2>4 DEF PoolInv
<1>4. CASE count[n] # 1
  <2>1. aborted' = TRUE /\ UNCHANGED <<count, used, leaving>> BY <1>4 DEF Pool!Leave
  <2>2. Pool!TypeOK' BY <1>0, <1>2, <2>1 DEF Pool!TypeOK
  <2>3. OnStack(k, s)' BY <1>1, <1>2, <2>1 DEF OnStack
  <2> QED BY <1>1, <2>2, <2>3 DEF PoolInv
<1> QED BY <1>3, <1>4

\* It goes on top of the stack.
LEMMA PushNodeStep == ASSUME PoolInv, NEW n \in Pool!Nodes, Pool!PushNode(n) PROVE PoolInv'
<1> USE PoolConstants
<1>0. Pool!TypeOK BY DEF PoolInv
<1>k. PICK k \in Nat : \E s \in [1 .. k -> Pool!Nodes] : OnStack(k, s) BY DEF PoolInv
<1>1. PICK s \in [1 .. k -> Pool!Nodes] : OnStack(k, s) BY <1>k
<1>2. /\ n \in leaving /\ leaving' = leaving \ {n} /\ link' = [link EXCEPT ![n] = top]
      /\ top' = n /\ UNCHANGED <<count, made, used, aborted>>
  BY DEF Pool!PushNode
<1>3. Pool!TypeOK' BY <1>0, <1>2 DEF Pool!TypeOK
<1> DEFINE A == {s[i] : i \in 1 .. k}
<1>4. A = (1 .. made) \ (used \union leaving) BY <1>1 DEF OnStack
<1>5. n \notin A /\ n \in 1 .. made /\ n \notin used BY <1>0, <1>2, <1>4 DEF Pool!TypeOK
<1>6. \A i \in 1 .. k : s[i] # n /\ s[i] \in Pool!Nodes BY <1>5
<1> DEFINE t == [i \in 1 .. k + 1 |-> IF i = 1 THEN n ELSE s[i - 1]]
<1>7. \A i \in 1 .. k + 1 : i # 1 => i - 1 \in 1 .. k OBVIOUS
<1>8. t \in [1 .. k + 1 -> Pool!Nodes] BY <1>7
<1>9. t[1] = n /\ \A i \in 1 .. k : i + 1 \in 1 .. k + 1 /\ t[i + 1] = s[i] OBVIOUS
<1>10. \A i \in 1 .. k + 1 : i # 1 => t[i] = s[i - 1] OBVIOUS
<1> HIDE DEF t
<1>11. OnStack(k + 1, t)'
  <2>1. ASSUME NEW i \in 1 .. k + 1, NEW j \in 1 .. k + 1, t[i] = t[j] PROVE i = j
    <3>1. CASE i = 1 \/ j = 1 BY <1>6, <1>7, <1>9, <1>10, <2>1, <3>1
    <3>2. CASE i # 1 /\ j # 1
      <4>1. i - 1 = j - 1 BY <1>1, <1>7, <1>10, <2>1, <3>2 DEF OnStack
      <4> QED BY <4>1
    <3> QED BY <3>1, <3>2
  <2>2. top' = IF k + 1 = 0 THEN Nil ELSE t[1]
    <3>1. k + 1 # 0 OBVIOUS
    <3> QED BY <1>2, <1>9, <3>1
  <2>3. ASSUME NEW i \in 1 .. k + 1
        PROVE  link'[t[i]] = IF i < k + 1 THEN t[i + 1] ELSE Nil
    <3>1. CASE i = 1
      <4>1. link'[n] = top BY <1>0, <1>2 DEF Pool!TypeOK
      <4>2. CASE k = 0
        <5>1. top = Nil /\ ~(i < k + 1) BY <1>1, <3>1, <4>2 DEF OnStack
        <5> QED BY <1>9, <3>1, <4>1, <5>1
      <4>3. CASE k # 0
        <5>1. top = s[1] /\ 1 \in 1 .. k /\ i < k + 1 BY <1>1, <3>1, <4>3 DEF OnStack
        <5>2. t[1 + 1] = s[1] BY <1>9, <5>1
        <5> QED BY <1>9, <3>1, <4>1, <5>1, <5>2
      <4> QED BY <4>2, <4>3
    <3>2. CASE i # 1
      <4> DEFINE j == i - 1
      <4>1. j \in 1 .. k /\ i = j + 1 BY <1>7, <3>2
      <4> HIDE DEF j
      <4>2. t[i] = s[j] BY <1>9, <4>1
      <4>3. link'[s[j]] = link[s[j]] BY <1>0, <1>2, <1>6, <4>1 DEF Pool!TypeOK
      <4>4. link[s[j]] = IF j < k THEN s[j + 1] ELSE Nil BY <1>1, <4>1 DEF OnStack
      <4>5. j < k => j + 1 \in 1 .. k /\ t[(j + 1) + 1] = s[j + 1] BY <1>9, <4>1
      <4>6. i < k + 1 <=> j < k BY <4>1
      <4> QED BY <4>1, <4>2, <4>3, <4>4, <4>5, <4>6
    <3> QED BY <3>1, <3>2
  <2>4. {t[i] : i \in 1 .. k + 1} = (1 .. made) \ (used \union (leaving \ {n}))
    <3> DEFINE B == {t[i] : i \in 1 .. k + 1}
    <3>1. B \subseteq A \union {n}
      <4>1. ASSUME NEW i \in 1 .. k + 1 PROVE t[i] \in A \union {n}
        <5>1. CASE i = 1 BY <1>9, <5>1
        <5>2. CASE i # 1 BY <1>7, <1>10, <5>2
        <5> QED BY <5>1, <5>2
      <4> QED BY <4>1
    <3>2. A \subseteq B BY <1>9
    <3>3. n \in B
      <4>1. 1 \in 1 .. k + 1 OBVIOUS
      <4> QED BY <1>9, <4>1
    <3> HIDE DEF A, B
    <3>4. B = A \union {n} BY <3>1, <3>2, <3>3
    <3>5. B = (1 .. made) \ (used \union (leaving \ {n})) BY <1>4, <1>5, <3>4
    <3> QED BY <3>5 DEF B
  <2> QED BY <1>2, <2>1, <2>2, <2>3, <2>4 DEF OnStack
<1>12. k + 1 \in Nat OBVIOUS
<1> QED BY <1>3, <1>8, <1>11, <1>12 DEF PoolInv

\* The sets of nodes that Stack goes through exist.
LEMMA NodesReached ==
  ASSUME Pool!TypeOK
  PROVE  \E f : f = [n \in 0 .. MaxNodes |->
                        IF n = 0 THEN {top} \ {Nil}
                        ELSE f[n - 1] \union ({link[i] : i \in f[n - 1]} \ {Nil})]
<1> DEFINE V == SUBSET Pool!Nodes
           first == {top} \ {Nil}
           More(x) == x \union ({link[i] : i \in x} \ {Nil})
           F == [x \in V |-> More(x)]
<1>1. first \in V BY PoolConstants DEF Pool!TypeOK
<1>2. ASSUME NEW x \in V PROVE More(x) \in V
  <2>1. \A i \in x : link[i] \in Pool!Nodes \union {Nil} BY DEF Pool!TypeOK
  <2> QED BY ONLY <2>1, x \in V
<1>3. F \in [V -> V] BY <1>2
<1>4. PICK f \in [0 .. MaxNodes -> V] :
          f = [n \in 0 .. MaxNodes |-> IF n = 0 THEN first ELSE F[f[n - 1]]]
  <2>1. MaxNodes \in Nat BY PoolConstants
  <2> HIDE DEF V, first, F
  <2> QED BY <1>1, <1>3, <2>1, StepsExist
<1>5. \A n \in 0 .. MaxNodes : n # 0 => F[f[n - 1]] = More(f[n - 1])
  <2>1. \A n \in 0 .. MaxNodes : n # 0 => n - 1 \in 0 .. MaxNodes BY PoolConstants
  <2> HIDE DEF V, More
  <2> QED BY <2>1
<1>6. f = [n \in 0 .. MaxNodes |-> IF n = 0 THEN first ELSE More(f[n - 1])]
  <2> HIDE DEF F, More, first
  <2> QED BY <1>4, <1>5
<1> QED BY <1>6

\* Stack, which follows the links, finds the nodes of the sequence.
LEMMA PoolStackIs ==
  ASSUME Pool!TypeOK, NEW k \in Nat, NEW s \in [1 .. k -> Pool!Nodes], OnStack(k, s)
  PROVE  Pool!Stack = {s[i] : i \in 1 .. k}
<1> USE PoolConstants
<1> DEFINE first == {top} \ {Nil}
           More(x) == x \union ({link[i] : i \in x} \ {Nil})
           reach == CHOOSE reach : reach = [n \in 0 .. MaxNodes |->
                        IF n = 0 THEN {top} \ {Nil}
                        ELSE reach[n - 1] \union ({link[i] : i \in reach[n - 1]} \ {Nil})]
           Upto(n) == {s[i] : i \in {j \in 1 .. k : j <= n}}
<1>7. reach = [n \in 0 .. MaxNodes |-> IF n = 0 THEN first ELSE More(reach[n - 1])]
  BY NodesReached
<1>8. Pool!Stack = reach[MaxNodes] BY DEF Pool!Stack
<1> HIDE DEF reach
<1>9. \A n \in 0 .. MaxNodes : reach[n] = IF n = 0 THEN first ELSE More(reach[n - 1])
  <2> HIDE DEF More, first
  <2> QED BY <1>7
<1>10. first = Upto(1)
  <2>1. CASE k = 0 BY <2>1 DEF OnStack
  <2>2. CASE k # 0
    <3>1. top = s[1] /\ 1 \in 1 .. k /\ s[1] # Nil BY <2>2 DEF OnStack
    <3>2. {j \in 1 .. k : j <= 1} = {1} BY <3>1
    <3> QED BY <3>1, <3>2
  <2> QED BY <2>1, <2>2
<1>11. ASSUME NEW n \in Nat, n >= 1 PROVE More(Upto(n)) = Upto(n + 1)
  <2>1. ASSUME NEW i \in 1 .. k, i <= n, link[s[i]] # Nil
        PROVE  link[s[i]] \in Upto(n + 1)
    <3>1. i < k /\ link[s[i]] = s[i + 1] BY <2>1 DEF OnStack
    <3>2. i + 1 \in {j \in 1 .. k : j <= n + 1} BY <2>1, <3>1
    <3> QED BY <3>1, <3>2
  <2>2. \A i \in 1 .. k : i <= n => i <= n + 1 OBVIOUS
  <2>3. ASSUME NEW i \in 1 .. k, i <= n + 1 PROVE s[i] \in More(Upto(n))
    <3>1. CASE i <= n BY <3>1
    <3>2. CASE ~(i <= n)
      <4>1. i = n + 1 /\ n \in 1 .. k /\ n < k BY <1>11, <2>3, <3>2
      <4>2. link[s[n]] = s[i] BY <4>1 DEF OnStack
      <4>3. s[n] \in Upto(n) /\ s[i] # Nil BY <4>1
      <4> QED BY <4>2, <4>3
    <3> QED BY <3>1, <3>2
  <2>4. More(Upto(n)) \subseteq Upto(n + 1) BY <2>1, <2>2
  <2>5. Upto(n + 1) \subseteq More(Upto(n)) BY <2>3
  <2> HIDE DEF More, Upto
  <2> QED BY <2>4, <2>5
<1> DEFINE G == {n \in Nat : n <= MaxNodes => reach[n] = Upto(n + 1)}
<1>12. 0 \in G
  <2>1. reach[0] = first
    <3>1. 0 \in 0 .. MaxNodes OBVIOUS
    <3> HIDE DEF More, first
    <3> QED BY <1>9, <3>1
  <2> HIDE DEF Upto, first
  <2> QED BY <1>10, <2>1
<1>13. ASSUME NEW n \in Nat, n \in G PROVE n + 1 \in G
  <2>1. SUFFICES ASSUME n + 1 <= MaxNodes PROVE reach[n + 1] = Upto((n + 1) + 1) OBVIOUS
  <2>2. reach[n + 1] = More(reach[n])
    <3>1. n + 1 \in 0 .. MaxNodes /\ n + 1 # 0 /\ (n + 1) - 1 = n BY <2>1
    <3> HIDE DEF More, first
    <3> QED BY <1>9, <3>1
  <2>3. reach[n] = Upto(n + 1) BY <1>13, <2>1
  <2>4. n + 1 \in Nat /\ n + 1 >= 1 OBVIOUS
  <2> HIDE DEF More, Upto
  <2> QED BY <1>11, <2>2, <2>3, <2>4
<1> HIDE DEF G
<1>14. MaxNodes \in G BY <1>12, <1>13, SetInduction
<1>15. k <= MaxNodes
  <2>1. IsFiniteSet(1 .. k) /\ Cardinality(1 .. k) = k BY FS_Interval
  <2>2. IsFiniteSet(1 .. MaxNodes) /\ Cardinality(1 .. MaxNodes) = MaxNodes BY FS_Interval
  <2>3. s \in [1 .. k -> 1 .. MaxNodes] OBVIOUS
  <2>4. \A i, j \in 1 .. k : s[i] = s[j] => i = j BY DEF OnStack
  <2>5. ~(Cardinality(1 .. MaxNodes) < Cardinality(1 .. k))
    <3> DEFINE S == 1 .. k
               T == 1 .. MaxNodes
    <3>1. s \in [S -> T] /\ IsFiniteSet(S) /\ IsFiniteSet(T) BY <2>1, <2>2, <2>3
    <3>2. \A i, j \in S : s[i] = s[j] => i = j BY <2>4
    <3> HIDE DEF S, T
    <3>3. ~(Cardinality(T) < Cardinality(S)) BY <3>1, <3>2, FS_PigeonHole
    <3> QED BY <3>3 DEF S, T
  <2> QED BY <2>1, <2>2, <2>5
<1>16. Upto(MaxNodes + 1) = {s[i] : i \in 1 .. k}
  <2>1. {j \in 1 .. k : j <= MaxNodes + 1} = 1 .. k BY <1>15
  <2> QED BY <2>1
<1>17. reach[MaxNodes] = Upto(MaxNodes + 1)
  <2> HIDE DEF Upto
  <2> QED BY <1>14 DEF G
<1> HIDE DEF Upto
<1> QED BY <1>8, <1>16, <1>17

-----------------------------------------------------------------------------
(* Both of them, and the nodes that are made of blocks.                    *)

\* The nodes of operator new: no two of them are in one block, and that is with a user.
NodeInv ==
    /\ blockOf \in [Grown -> Blocks \union {Malloc}]
    /\ \A m, n \in GrownNodes : blockOf[m] = blockOf[n] /\ m # n => blockOf[m] = Malloc
    /\ \A n \in GrownNodes : blockOf[n] # Malloc => blockOf[n] \in held

\* The inductive invariant.
StorageInv == MemoryInv /\ PoolInv /\ NodeInv

\* How many nodes there are, and which of them are of operator new.
LEMMA MadeNodes ==
  ASSUME Pool!TypeOK
  PROVE  made \in Nat /\ PoolSize <= made /\ made <= MaxNodes /\ GrownNodes \subseteq Grown
<1>1. made \in PoolSize .. MaxNodes BY DEF Pool!TypeOK
<1> QED BY <1>1, PoolConstants DEF GrownNodes, Grown

\* No block is asked for at first.
LEMMA MemoryInit == Init => MemoryInv
<1> SUFFICES ASSUME Init PROVE MemoryInv OBVIOUS
<1> USE DEF Init
<1>1. TypeOK
  <2>1. MaxHeap \in Nat BY MemoryAssumption
  <2>2. pHead \in [Pools -> Ids \union {Nil}] /\ pNext \in [Blocks -> Ids \union {Nil}] OBVIOUS
  <2>3. ref \in [Blocks -> -1 .. 1] /\ asked \in [Blocks -> Nat] OBVIOUS
  <2>4. pBuf \subseteq Pools /\ held \subseteq Blocks /\ heap \in 0 .. MaxHeap BY <2>1
  <2> QED BY <2>2, <2>3, <2>4 DEF TypeOK
<1>2. ASSUME NEW p \in Pools PROVE FreeList(p, {})
  <2>1. pHead[p] = Nil OBVIOUS
  <2> QED BY <2>1 DEF FreeList, Linked
<1>3. \A p \in Pools : \E free \in SUBSET Ids : FreeList(p, free)
  <2>1. {} \in SUBSET Ids OBVIOUS
  <2> QED BY <1>2, <2>1
<1> QED BY <1>1, <1>3 DEF MemoryInv

\* The invariant holds at the start: there is no node beyond the first ones.
LEMMA StorageStart == StorageInit => StorageInv
<1> SUFFICES ASSUME StorageInit PROVE StorageInv OBVIOUS
<1>1. MemoryInv /\ PoolInv BY MemoryInit, PoolInit DEF StorageInit
<1>2. NodeInv
  <2>1. made = PoolSize BY DEF StorageInit, Pool!Init
  <2>2. GrownNodes = {} BY <2>1, PoolConstants DEF GrownNodes
  <2>3. blockOf \in [Grown -> Blocks \union {Malloc}] BY DEF StorageInit
  <2> QED BY <2>2, <2>3 DEF NodeInv
<1> QED BY <1>1, <1>2 DEF StorageInv

\* The nodes of operator new stay where they are, as long as nobody else frees their blocks.
LEMMA NodesStay ==
  ASSUME NodeInv, UNCHANGED <<made, blockOf>>,
         \A n \in GrownNodes : blockOf[n] \in held => blockOf[n] \in held'
  PROVE  NodeInv'
<1>1. GrownNodes' = GrownNodes BY DEF GrownNodes
<1> QED BY <1>1 DEF NodeInv

\* The object pool, when it is left alone.
LEMMA PoolStays == PoolInv /\ UNCHANGED poolVars => PoolInv'
<1> SUFFICES ASSUME PoolInv, UNCHANGED poolVars PROVE PoolInv' OBVIOUS
<1>1. UNCHANGED <<top, link, count, made, used, leaving, aborted>> BY DEF poolVars
<1>2. Pool!TypeOK' BY <1>1 DEF PoolInv, Pool!TypeOK
<1>3. PICK k \in Nat : \E s \in [1 .. k -> Pool!Nodes] : OnStack(k, s) BY DEF PoolInv
<1>4. PICK s \in [1 .. k -> Pool!Nodes] : OnStack(k, s) BY <1>3
<1>5. OnStack(k, s)' BY <1>1, <1>4 DEF OnStack
<1> QED BY <1>2, <1>5 DEF PoolInv

\* The allocator, when it is left alone.
LEMMA MemoryUnchanged == MemoryInv /\ UNCHANGED vars => MemoryInv'
<1> SUFFICES ASSUME MemoryInv, UNCHANGED vars PROVE MemoryInv' OBVIOUS
<1>1. UNCHANGED <<pBuf, pHead, pNext, ref, held, asked, heap>> BY DEF vars
<1>2. heap' \in 0 .. MaxHeap BY <1>1 DEF MemoryInv, TypeOK
<1> QED BY <1>1, <1>2, MemoryStays

\* A new node is in a block that nobody had, or in one of malloc().
LEMMA GrowPoolStep == StorageInv /\ GrowPool => StorageInv'
<1> SUFFICES ASSUME StorageInv, GrowPool PROVE StorageInv' OBVIOUS
<1>0. MemoryInv /\ PoolInv /\ NodeInv /\ Pool!TypeOK BY DEF StorageInv, PoolInv
<1>1. PoolInv' BY <1>0, NewNodeStep DEF GrowPool
<1>2. NodeSize \in Nat \ {0} BY StorageAssumption DEF MaxMemorySize
<1>3. /\ MemoryInv'
      /\ NextBlock = Malloc => held' = held
      /\ NextBlock # Malloc => /\ NextBlock \in Blocks /\ NextBlock \notin held
                               /\ held' = held \union {NextBlock}
  <2> DEFINE p == PoolFor(NodeSize)
             i == IF p \in pBuf THEN pHead[p] ELSE 0
  <2>1. /\ MemoryInv'
        /\ i = Nil => held' = held
        /\ i # Nil => /\ <<p, i>> \in Blocks /\ <<p, i>> \notin held
                      /\ held' = held \union {<<p, i>>}
    BY <1>0, <1>2, AllocStep DEF GrowPool
  <2>2. NextBlock = IF i = Nil THEN Malloc ELSE <<p, i>> BY DEF NextBlock
  <2> HIDE DEF p, i
  <2>3. <<p, i>> # Malloc \/ i = Nil BY DEF Malloc
  <2> QED BY <2>1, <2>2, <2>3
<1>4. NodeInv'
  <2> DEFINE new == made + 1
  <2>1. made' = new /\ made < MaxNodes /\ blockOf' = [blockOf EXCEPT ![new] = NextBlock]
    BY DEF GrowPool, Pool!NewNode
  <2>2. made \in Nat /\ PoolSize <= made /\ GrownNodes \subseteq Grown BY <1>0, MadeNodes
  <2>3. new \in Grown /\ new \notin GrownNodes /\ GrownNodes' = GrownNodes \union {new}
    BY <2>1, <2>2, PoolConstants DEF Grown, GrownNodes
  <2>4. blockOf \in [Grown -> Blocks \union {Malloc}] BY <1>0 DEF NodeInv
  <2> HIDE DEF new
  <2>5. blockOf'[new] = NextBlock /\ \A n \in GrownNodes : blockOf'[n] = blockOf[n]
    BY <2>1, <2>2, <2>3, <2>4
  <2>6. NextBlock \in Blocks \union {Malloc} BY <1>3
  <2>7. blockOf' \in [Grown -> Blocks \union {Malloc}] BY <2>1, <2>4, <2>6
  <2>8. held \subseteq held' BY <1>3
  <2>9. ASSUME NEW n \in GrownNodes', blockOf'[n] # Malloc PROVE blockOf'[n] \in held'
    <3>1. CASE n = new BY <1>3, <2>5, <2>9, <3>1
    <3>2. CASE n \in GrownNodes BY <1>0, <2>5, <2>8, <2>9, <3>2 DEF NodeInv
    <3> QED BY <2>3, <3>1, <3>2
  <2>10. ASSUME NEW n \in GrownNodes, blockOf[n] = NextBlock PROVE NextBlock = Malloc
    BY <1>0, <1>3, <2>10 DEF NodeInv
  <2>11. ASSUME NEW m \in GrownNodes', NEW n \in GrownNodes', blockOf'[m] = blockOf'[n], m # n
         PROVE  blockOf'[m] = Malloc
    <3>1. CASE m \in GrownNodes /\ n \in GrownNodes BY <1>0, <2>5, <2>11, <3>1 DEF NodeInv
    <3>2. CASE m = new /\ n \in GrownNodes BY <2>5, <2>10, <2>11, <3>2
    <3>3. CASE m \in GrownNodes /\ n = new BY <2>5, <2>10, <2>11, <3>3
    <3> QED BY <2>3, <2>11, <3>1, <3>2, <3>3
  <2> QED BY <2>7, <2>9, <2>11 DEF NodeInv
<1> QED BY <1>1, <1>3, <1>4 DEF StorageInv

\* Every step keeps the invariant.
LEMMA StorageStep == StorageInv /\ [StorageNext]_storageVars => StorageInv'
<1> SUFFICES ASSUME StorageInv, [StorageNext]_storageVars PROVE StorageInv' OBVIOUS
<1>0. MemoryInv /\ PoolInv /\ NodeInv BY DEF StorageInv
<1>1. CASE OthersAllocate
  <2>1. UNCHANGED <<poolVars, blockOf, made>> BY <1>1 DEF OthersAllocate, poolVars
  <2>2. MemoryInv' /\ held \subseteq held'
    <3>1. PICK size \in Sizes : AllocFromPool(size) \/ AllocLarge(size)
      BY <1>1 DEF OthersAllocate
    <3>2. size \in Nat \ {0} BY MemoryAssumption
    <3>3. CASE AllocFromPool(size) BY <1>0, <3>2, <3>3, AllocStep
    <3>4. CASE AllocLarge(size) BY <1>0, <3>4, HeapStep DEF AllocLarge
    <3> QED BY <3>1, <3>3, <3>4
  <2>3. PoolInv' BY <1>0, <2>1, PoolStays
  <2>4. NodeInv' BY <1>0, <2>1, <2>2, NodesStay
  <2> QED BY <2>2, <2>3, <2>4 DEF StorageInv
<1>2. CASE OthersFree
  <2>1. UNCHANGED <<poolVars, blockOf, made>> BY <1>2 DEF OthersFree, poolVars
  <2>2. MemoryInv' /\ \A n \in GrownNodes : blockOf[n] \in held => blockOf[n] \in held'
    <3>1. CASE \E b \in Blocks \ {blockOf[n] : n \in GrownNodes} : DeAlloc(b)
      <4>1. PICK b \in Blocks \ {blockOf[n] : n \in GrownNodes} : DeAlloc(b) BY <3>1
      <4>2. MemoryInv' /\ held' = held \ {b} BY <1>0, <4>1, DeAllocStep
      <4>3. \A n \in GrownNodes : blockOf[n] # b BY <4>1
      <4> QED BY <4>2, <4>3
    <3>2. CASE DeAllocHeap BY <1>0, <3>2, HeapStep
    <3> QED BY <1>2, <3>1, <3>2 DEF OthersFree
  <2>3. PoolInv' BY <1>0, <2>1, PoolStays
  <2>4. NodeInv' BY <1>0, <2>1, <2>2, NodesStay
  <2> QED BY <2>2, <2>3, <2>4 DEF StorageInv
<1>3. CASE ReuseNode
  <2>1. PoolInv' BY <1>0, <1>3, PopNodeStep DEF ReuseNode
  <2>2. MemoryInv' BY <1>0, <1>3, MemoryUnchanged DEF ReuseNode
  <2>3. UNCHANGED <<made, blockOf, held>> BY <1>3 DEF ReuseNode, Pool!PopNode, vars
  <2>4. NodeInv' BY <1>0, <2>3, NodesStay
  <2> QED BY <2>1, <2>2, <2>4 DEF StorageInv
<1>4. CASE GrowPool BY <1>4, GrowPoolStep
<1>5. CASE \E n \in Pool!Nodes : GiveNodeBack(n)
  <2>1. PICK n \in Pool!Nodes : GiveNodeBack(n) BY <1>5
  <2>2. PoolInv' BY <1>0, <2>1, LeaveStep, PushNodeStep DEF GiveNodeBack
  <2>3. MemoryInv' BY <1>0, <2>1, MemoryUnchanged DEF GiveNodeBack
  <2>4. UNCHANGED <<made, blockOf, held>>
    BY <2>1 DEF GiveNodeBack, Pool!Leave, Pool!PushNode, vars
  <2>5. NodeInv' BY <1>0, <2>4, NodesStay
  <2> QED BY <2>2, <2>3, <2>5 DEF StorageInv
<1>6. CASE UNCHANGED storageVars
  <2>1. UNCHANGED <<vars, poolVars, blockOf>> BY <1>6 DEF storageVars
  <2>2. UNCHANGED <<made, blockOf, held>> BY <2>1 DEF vars, poolVars
  <2>3. MemoryInv' /\ PoolInv' BY <1>0, <2>1, MemoryUnchanged, PoolStays
  <2>4. NodeInv' BY <1>0, <2>2, NodesStay
  <2> QED BY <2>3, <2>4 DEF StorageInv
<1> QED BY <1>1, <1>2, <1>3, <1>4, <1>5, <1>6 DEF StorageNext

\* The inductive invariant holds always.
THEOREM StorageInvHolds == StorageSpec => []StorageInv
BY StorageStart, StorageStep, PTL DEF StorageSpec

\* What a user is given is as large as what it asked for, whichever pool the map of
\* createMapRelatition() chose.
THEOREM BlocksFit == StorageSpec => []BlockFits
<1>1. StorageInv => BlockFits BY DEF StorageInv, MemoryInv, BlockFits
<1> QED BY <1>1, StorageInvHolds, PTL

\* Every node is with its object, on its way back or on the stack, and in one of these
\* places only, however threads that give nodes back and the one that asks interleave.
THEOREM NodesAreWhole == StorageSpec => []EveryNodeOnce
<1>1. StorageInv => EveryNodeOnce
  <2> SUFFICES ASSUME StorageInv PROVE EveryNodeOnce OBVIOUS
  <2>0. Pool!TypeOK /\ TypeOK BY DEF StorageInv, PoolInv, MemoryInv
  <2>1. StorageTypeOK BY <2>0 DEF StorageInv, NodeInv, StorageTypeOK
  <2>2. PICK k \in Nat : \E s \in [1 .. k -> Pool!Nodes] : OnStack(k, s)
    BY DEF StorageInv, PoolInv
  <2>3. PICK s \in [1 .. k -> Pool!Nodes] : OnStack(k, s) BY <2>2
  <2>4. Pool!Stack = {s[i] : i \in 1 .. k} BY <2>0, <2>3, PoolStackIs
  <2>5. Pool!Stack = (1 .. made) \ (used \union leaving) BY <2>3, <2>4 DEF OnStack
  <2>6. used \subseteq 1 .. made /\ leaving \subseteq 1 .. made BY <2>0 DEF Pool!TypeOK
  <2>7. Pool!EveryNodeOnce BY <2>5, <2>6 DEF Pool!EveryNodeOnce
  <2> QED BY <2>1, <2>7 DEF EveryNodeOnce
<1> QED BY <1>1, StorageInvHolds, PTL

\* No memory is with two users: a block that somebody holds is not on its pool's stack,
\* and no two nodes of the object pool are in the same block.
THEOREM MemoryIsApart == StorageSpec => []NodesApart
<1>1. StorageInv => NodesApart
  <2> SUFFICES ASSUME StorageInv PROVE NodesApart OBVIOUS
  <2>0. TypeOK /\ MemoryInv /\ NodeInv BY DEF StorageInv, MemoryInv
  <2>1. ASSUME NEW p \in Pools, NEW i \in Stack(p) PROVE <<p, i>> \notin held
    <3>1. PICK free \in SUBSET Ids : FreeList(p, free) BY <2>0 DEF MemoryInv
    <3>2. Stack(p) \subseteq free BY <2>0, <3>1, StackIsFree
    <3> QED BY <2>1, <3>1, <3>2 DEF FreeList, Linked
  <2>2. NeverSharedOut BY <2>1 DEF NeverSharedOut
  <2> QED BY <2>0, <2>2 DEF NodeInv, NodesApart
<1> QED BY <1>1, StorageInvHolds, PTL
=============================================================================
