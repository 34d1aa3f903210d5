-------------------------------- MODULE Storage --------------------------------
(***************************************************************************)
(* Where connections live: the ObjectPool of ClientConnection on top of    *)
(* the allocator of operator new (common/inc/ObjectPool.h,                 *)
(* common/src/MemoryControl.cpp, MemoryManger.cpp).                        *)
(* The pool gets its nodes by "new char[...]", which is the MemoryManger's *)
(* too: first one array for all of its own, more than any size class       *)
(* serves, and then, when the stack is empty, one node at a time, in a     *)
(* block of a size class as long as there is one.  A node never goes back  *)
(* to the allocator.  The rest of the program shares the same blocks.      *)
(***************************************************************************)
EXTENDS MemoryManger

CONSTANTS
    PoolSize,   \* objectPoolSize
    MaxNodes,   \* bound: nodes there are in all
    NodeSize    \* sizeof(ClientConnection) and of the node's header

VARIABLES
    top, link, count, made, used, leaving, aborted,   \* the state of the ObjectPool
    blockOf    \* the block a node beyond the first PoolSize was made in, or Malloc

Pool == INSTANCE ObjectPool WITH pHead <- top, pNext <- link, ref <- count

ASSUME StorageAssumption ==
    /\ Pool!PoolAssumption
    /\ NodeSize \in 1 .. MaxMemorySize

poolVars == <<top, link, count, made, used, leaving, aborted>>
storageVars == <<vars, poolVars, blockOf>>

Grown == PoolSize + 1 .. MaxNodes   \* the nodes of operator new
Malloc == <<0, Nil>>                 \* a block of malloc(), in no pool

StorageInit ==
    /\ Init
    /\ Pool!Init
    /\ blockOf = [n \in Grown |-> Malloc]

\* The nodes there are of those.
GrownNodes == PoolSize + 1 .. made

-----------------------------------------------------------------------------
\* The rest of the program asks for memory and gives back what it was given.
OthersAllocate ==
    /\ \E size \in Sizes : AllocFromPool(size) \/ AllocLarge(size)
    /\ UNCHANGED <<poolVars, blockOf>>

OthersFree ==
    /\ \/ \E b \in Blocks \ {blockOf[n] : n \in GrownNodes} : DeAlloc(b)
       \/ heap > Cardinality({n \in GrownNodes : blockOf[n] = Malloc}) /\ DeAllocHeap
    /\ UNCHANGED <<poolVars, blockOf>>

\* The block that allocMemory() is about to take for a node.
NextBlock ==
    LET p == PoolFor(NodeSize)
        i == IF p \in pBuf THEN pHead[p] ELSE 0
    IN  IF i = Nil THEN Malloc ELSE <<p, i>>

\* new ClientConnection: a node from the stack ...
ReuseNode ==
    /\ Pool!PopNode
    /\ UNCHANGED <<vars, blockOf>>

\* ... or one from the allocator.
GrowPool ==
    /\ Pool!NewNode
    /\ AllocFromPool(NodeSize)
    /\ blockOf' = [blockOf EXCEPT ![made + 1] = NextBlock]

\* delete, in whichever thread lets go of the connection last.
GiveNodeBack(n) ==
    /\ Pool!Leave(n) \/ Pool!PushNode(n)
    /\ UNCHANGED <<vars, blockOf>>

StorageNext == \/ OthersAllocate \/ OthersFree
               \/ ReuseNode \/ GrowPool
               \/ \E n \in Pool!Nodes : GiveNodeBack(n)

StorageSpec == StorageInit /\ [][StorageNext]_storageVars

-----------------------------------------------------------------------------
\* Type invariant of both pools and of the nodes made of blocks.
StorageTypeOK ==
    /\ TypeOK
    /\ Pool!TypeOK
    /\ blockOf \in [Grown -> Blocks \union {Malloc}]

\* Safety: every node is in one place, with its object, on its way back, or on the
\* stack: no node is lost, and none is with two connections, however the threads that
\* give nodes back interleave with the one that asks.
EveryNodeOnce == StorageTypeOK /\ Pool!EveryNodeOnce

\* Safety: no memory is with two users: a block that somebody holds is not on its pool's
\* stack, two nodes are never in the same block, and what a node is in is out of the
\* allocator's hands for good, whatever the rest of the program asks for and frees.
NodesApart ==
    /\ NeverSharedOut
    /\ \A m, n \in GrownNodes : blockOf[m] = blockOf[n] /\ m # n => blockOf[m] = Malloc
    /\ \A n \in GrownNodes : blockOf[n] # Malloc => blockOf[n] \in held

\* Safety: the assertion of deAllocMemory(), "objectRef_ == 1" (ObjectPool.h), never
\* fails: every connection that is made can be destroyed.
NeverAborts == Pool!NeverAborts
=============================================================================
