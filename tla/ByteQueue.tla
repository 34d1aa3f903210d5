------------------------------ MODULE ByteQueue ------------------------------
(***************************************************************************)
(* What a Buffer promises (common/inc/Buffer.h): the bytes between peek()  *)
(* and beginWrite() are a queue.  Bytes are put at its end and taken from  *)
(* its front; a header may be put in front of it and what was put last may *)
(* be taken back.  Nothing is said of where the bytes are kept.            *)
(***************************************************************************)
EXTENDS Naturals, Sequences

CONSTANT Chunks   \* the byte strings that are put into the queue

VARIABLES
    bytes,   \* what can be read, in order
    moved    \* what the last operation was given, or has returned

vars == <<bytes, moved>>

Init == bytes = <<>> /\ moved = <<>>

Put(s) == bytes' = bytes \o s /\ moved' = s

PutInFront(s) == bytes' = s \o bytes /\ moved' = s

Take(n) == /\ moved' = SubSeq(bytes, 1, n)
           /\ bytes' = SubSeq(bytes, n + 1, Len(bytes))

TakeBack(n) == /\ moved' = <<>>
               /\ bytes' = SubSeq(bytes, 1, Len(bytes) - n)

Next == \/ \E s \in Chunks : Put(s) \/ PutInFront(s)
        \/ \E n \in 0 .. Len(bytes) : Take(n) \/ TakeBack(n)

Spec == Init /\ [][Next]_vars
=============================================================================
