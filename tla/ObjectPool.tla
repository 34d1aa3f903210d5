------------------------------ MODULE ObjectPool ------------------------------
(***************************************************************************)
(* The pool the ClientConnection objects live in                           *)
(* (common/inc/ObjectPool.h): a linked stack of nodes, each a header and   *)
(* room for one object.  A node that is asked for when the stack is empty  *)
(* comes from operator new, is marked like the others and joins them when  *)
(* it is given back.                                                       *)
(*                                                                         *)
(* The base thread asks (new ClientConnection), any loop's thread gives    *)
(* back; the count in the header is looked at before the mutex is taken.   *)
(***************************************************************************)
EXTENDS Integers, FiniteSets

CONSTANTS
    PoolSize,   \* objectPoolSize
    MaxNodes,   \* bound: nodes there are in all, those of operator new included
    Nil         \* nullptr

\* What is asked of the constants; Storage, which uses the pool, assumes it.
PoolAssumption ==
    /\ PoolSize \in Nat \ {0} /\ MaxNodes \in Nat /\ PoolSize <= MaxNodes
    /\ Nil \notin Nat

Nodes == 1 .. MaxNodes   \* by address; the first PoolSize are those of pBuf_

VARIABLES
    pHead,     \* pHead_
    pNext,     \* pNext_ of every node
    ref,       \* objectRef_ of every node
    made,      \* how many nodes there are
    used,      \* the nodes with a live object
    leaving,   \* the nodes whose thread is past the assertion and not in the mutex
    aborted    \* an assertion has failed

vars == <<pHead, pNext, ref, made, used, leaving, aborted>>

\* initObjectPool()
Init ==
    /\ pHead = 1
    /\ pNext = [n \in Nodes |-> IF n < PoolSize THEN n + 1 ELSE Nil]
    /\ ref = [n \in Nodes |-> 1]
    /\ made = PoolSize
    /\ used = {} /\ leaving = {}
    /\ aborted = FALSE

\* allocMemory(), with nodes on the stack ...
PopNode ==
    /\ ~aborted /\ pHead # Nil
    /\ pHead' = pNext[pHead]
    /\ used' = used \union {pHead}
    /\ UNCHANGED <<pNext, ref, made, leaving, aborted>>

\* ... and without.
NewNode ==
    /\ ~aborted /\ pHead = Nil
    /\ made < MaxNodes
    /\ made' = made + 1
    /\ used' = used \union {made + 1}
    /\ UNCHANGED <<pHead, pNext, ref, leaving, aborted>>

\* deAllocMemory(): the assertion on the count, which comes down to 0 ...
Leave(n) ==
    /\ ~aborted /\ n \in used
    /\ IF ref[n] = 1
       THEN /\ ref' = [ref EXCEPT ![n] = 0]
            /\ used' = used \ {n}
            /\ leaving' = leaving \union {n}
            /\ UNCHANGED aborted
       ELSE /\ aborted' = TRUE
            /\ UNCHANGED <<ref, used, leaving>>
    /\ UNCHANGED <<pHead, pNext, made>>

\* Slip: the top of the stack is set before the link to it is taken.
PushNodeSwapped(n) ==
    /\ ~aborted /\ n \in leaving
    /\ leaving' = leaving \ {n}
    /\ pHead' = n
    /\ pNext' = [pNext EXCEPT ![n] = n]
    /\ UNCHANGED <<ref, made, used, aborted>>

\* ... and, under the mutex, the node goes on top of the stack.
PushNode(n) ==
    /\ ~aborted /\ n \in leaving
    /\ leaving' = leaving \ {n}
    /\ pNext' = [pNext EXCEPT ![n] = pHead]
    /\ pHead' = n
    /\ UNCHANGED <<ref, made, used, aborted>>

Next == PopNode \/ NewNode \/ \E n \in Nodes : Leave(n) \/ PushNode(n)

Spec == Init /\ [][Next]_vars

-----------------------------------------------------------------------------
\* The nodes on the stack.
Stack ==
    LET reach[n \in 0 .. MaxNodes] ==
            IF n = 0 THEN {pHead} \ {Nil}
            ELSE reach[n - 1] \union ({pNext[i] : i \in reach[n - 1]} \ {Nil})
    IN  reach[MaxNodes]

\* Type invariant of the pool.
TypeOK ==
    /\ pHead \in Nodes \union {Nil}
    /\ pNext \in [Nodes -> Nodes \union {Nil}]
    /\ ref \in [Nodes -> {0, 1}]
    /\ made \in PoolSize .. MaxNodes
    /\ used \subseteq 1 .. made /\ leaving \subseteq 1 .. made
    /\ used \intersect leaving = {}
    /\ aborted \in BOOLEAN

\* Safety: every node is in one place: with its object, on its way back, or on the
\* stack.  So no two connections share memory and no node is lost, however the
\* threads that give nodes back interleave with the one that asks.
EveryNodeOnce ==
    /\ used \union leaving \union Stack = 1 .. made
    /\ Stack \intersect (used \union leaving) = {}

\* Safety: the assertion of deAllocMemory(), "objectRef_ == 1", never fails: every
\* object the pool hands out can be destroyed.
NeverAborts == ~aborted
=============================================================================
