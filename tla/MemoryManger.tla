----------------------------- MODULE MemoryManger -----------------------------
(***************************************************************************)
(* The allocator behind operator new and operator delete                   *)
(* (common/src/MemoryManger.cpp, MemoryControl.cpp): one MemoryPool per    *)
(* size class, each a linked stack of equal blocks carved out of one       *)
(* malloc(), and malloc() itself for what no pool can serve.               *)
(*                                                                         *)
(* Every pool has its mutex and does all it does under it, so that a call  *)
(* is one step here; a block may be given back by another thread than the  *)
(* one that asked for it.  Users give a block back once.                   *)
(***************************************************************************)
EXTENDS Integers, Sequences, FiniteSets

CONSTANTS
    BlockCount,  \* blockCount_ of every pool
    Sizes,       \* the sizes asked for
    MaxHeap      \* bound: so many blocks of malloc() are out at a time

ASSUME MemoryAssumption ==
    /\ BlockCount \in Nat \ {0} /\ MaxHeap \in Nat
    /\ Sizes \subseteq Nat \ {0}

MaxMemorySize == 1024   \* MAX_MEMORY_SIZE
PointerSize == 8        \* sizeof(void*)

Pools == 1 .. 5         \* mem64_ .. mem1024_

\* memBlockSize of the template each pool is made from.
MemBlockSize == <<64, 128, 256, 512, 1024>>

\* currentMemBlockSize_: memBlockSize, made up to whole pointers.
BlockSize(p) ==
    LET n == MemBlockSize[p]
    IN  (n \div PointerSize) * PointerSize + IF n % PointerSize = 0 THEN 0 ELSE PointerSize

\* Slip: the first range is one too long, and the second begins behind it.
RangesOffByOne == <<<<1, 65>>, <<66, 128>>, <<129, 256>>, <<257, 512>>, <<513, 1024>>>>

\* The ranges of sizes the constructor gives to the pools, one call after the other.
Ranges == <<<<1, 64>>, <<65, 128>>, <<129, 256>>, <<257, 512>>, <<513, 1024>>>>

InRange(size, p) == Ranges[p][1] <= size /\ size <= Ranges[p][2]

\* createMapRelatition(): the pool memoryPoolMap holds for a size, the one whose range was
\* written last.  The ranges and the block sizes are two tables, and nothing in the code
\* ties one to the other.
PoolFor(size) == CHOOSE p \in Pools : /\ InRange(size, p)
                                      /\ \A q \in Pools : q > p => ~InRange(size, q)

Ids == 0 .. BlockCount - 1   \* blockId_
Nil == -1                    \* nullptr
Blocks == Pools \X Ids

VARIABLES
    pBuf,    \* the pools that have asked for their memory
    pHead,   \* the block on top of each pool's stack, or Nil
    pNext,   \* pNext_ of every block
    ref,     \* blockRef_ of every block
    held,    \* the pools' blocks that are with users
    heap,    \* how many blocks of malloc() are with users
    asked    \* the size each block was last handed out for (history)

vars == <<pBuf, pHead, pNext, ref, held, heap, asked>>

Init ==
    /\ pBuf = {}
    /\ pHead = [p \in Pools |-> Nil]
    /\ pNext = [b \in Blocks |-> Nil]
    /\ ref = [b \in Blocks |-> 0]
    /\ held = {} /\ heap = 0
    /\ asked = [b \in Blocks |-> 0]

-----------------------------------------------------------------------------
\* initMemoryPool(): the blocks are threaded in the order of their addresses.
Chained(p, next) ==
    [b \in Blocks |-> IF b[1] # p THEN next[b]
                      ELSE IF b[2] + 1 < BlockCount THEN b[2] + 1 ELSE Nil]

Counted(p, r) == [b \in Blocks |-> IF b[1] = p THEN 1 ELSE r[b]]

\* Slip: the stack is not moved on.
PopBlockAgain(p, size, top, next, r) ==
    /\ top # Nil
    /\ pHead' = [pHead EXCEPT ![p] = top]
    /\ pNext' = next /\ ref' = r
    /\ held' = held \union {<<p, top>>}
    /\ asked' = [asked EXCEPT ![<<p, top>>] = size]
    /\ pBuf' = pBuf \union {p}
    /\ UNCHANGED heap

\* alloMemory() of pool p, which is initialised on its first use; next and r are
\* the links and counts it finds then, top is the block on its stack.
PopBlock(p, size, top, next, r) ==
    /\ top # Nil
    /\ pHead' = [pHead EXCEPT ![p] = next[<<p, top>>]]
    /\ pNext' = next /\ ref' = r
    /\ held' = held \union {<<p, top>>}
    /\ asked' = [asked EXCEPT ![<<p, top>>] = size]
    /\ pBuf' = pBuf \union {p}
    /\ UNCHANGED heap

FromHeap ==
    /\ heap < MaxHeap
    /\ heap' = heap + 1
    /\ UNCHANGED <<pBuf, pHead, pNext, ref, held, asked>>

AllocFromPool(size) ==
    /\ size <= MaxMemorySize
    /\ LET p == PoolFor(size)
       IN  IF p \in pBuf
           THEN \/ PopBlock(p, size, pHead[p], pNext, ref)
                \/ pHead[p] = Nil /\ FromHeap
           ELSE PopBlock(p, size, 0, Chained(p, pNext), Counted(p, ref))

\* allocMemory() of a size that has no pool.
AllocLarge(size) == size > MaxMemorySize /\ FromHeap

\* deAllocMemory() of a block that knows its pool: it goes on top of the stack
\* when its count has come down to 0.  Nobody ever counts it up again.
DeAlloc(b) ==
    /\ b \in held
    /\ held' = held \ {b}
    /\ ref' = [ref EXCEPT ![b] = @ - 1]
    /\ IF ref[b] - 1 # 0
       THEN UNCHANGED <<pHead, pNext>>
       ELSE /\ pNext' = [pNext EXCEPT ![b] = pHead[b[1]]]
            /\ pHead' = [pHead EXCEPT ![b[1]] = b[2]]
    /\ UNCHANGED <<pBuf, heap, asked>>

\* deAllocMemory() of a block of malloc(): free().
DeAllocHeap ==
    /\ heap > 0
    /\ heap' = heap - 1
    /\ UNCHANGED <<pBuf, pHead, pNext, ref, held, asked>>

Next == \/ \E size \in Sizes : AllocFromPool(size) \/ AllocLarge(size)
        \/ \E b \in Blocks : DeAlloc(b)
        \/ DeAllocHeap

Spec == Init /\ [][Next]_vars

-----------------------------------------------------------------------------
\* The blocks reached from the top of the stack of pool p within n links.
Stack(p) ==
    LET reach[n \in 0 .. BlockCount] ==
            IF n = 0 THEN {pHead[p]} \ {Nil}
            ELSE reach[n - 1] \union ({pNext[<<p, i>>] : i \in reach[n - 1]} \ {Nil})
    IN  reach[BlockCount]

\* Type invariant of the allocator; a block is given back twice at most before it
\* is out of use, so its count stays above -2.
TypeOK ==
    /\ pBuf \subseteq Pools
    /\ pHead \in [Pools -> Ids \union {Nil}]
    /\ pNext \in [Blocks -> Ids \union {Nil}]
    /\ ref \in [Blocks -> -1 .. 1]
    /\ held \subseteq Blocks /\ heap \in 0 .. MaxHeap
    /\ asked \in [Blocks -> Nat]

\* Safety: a block that is with a user is not on its pool's stack, so that no two
\* users are given the same memory; it holds over every order of giving back.
NeverSharedOut == \A p \in Pools : \A i \in Stack(p) : <<p, i>> \notin held

\* Safety: what a user is given is as large as what it asked for: the range of sizes that
\* leads to a pool, and the size of that pool's blocks, agree at every edge.
BlockFits == \A b \in held : asked[b] <= BlockSize(b[1])

-----------------------------------------------------------------------------
(* What comments of the source say, and the code does not do: no run checks  *)
(* this, and the README says which steps break it.                           *)

\* Safety: a block that is given back is available again ("the block is given
\* back to the available ones", says the comment in deAllocMemory()): nothing of
\* a pool's memory is ever out of everyone's reach.
NoBlockIsLost ==
    \A p \in pBuf : \A i \in Ids : <<p, i>> \in held \/ i \in Stack(p)
=============================================================================
