-------------------------------- MODULE Buffer --------------------------------
(***************************************************************************)
(* A Buffer (common/src/Buffer.cpp): one vector of bytes with two indices. *)
(* The bytes from readerIndex_ to writerIndex_ can be read, those behind   *)
(* can be written, and those before make room for a header; space that     *)
(* reading has left in front is used again before the vector grows.        *)
(*                                                                         *)
(* A caller keeps to the assertions of the operations it calls.  A byte    *)
(* at offset k of the vector is mem[k + 1].                                *)
(***************************************************************************)
EXTENDS Integers, Sequences, FiniteSetsExt

CONSTANTS
    Cheap,        \* kCheapPrepend
    InitialSize,  \* the size the constructor is given
    Extra,        \* the size of extrabuf in readFd()
    Byte,         \* the values of a byte; a vector grows by zeros
    MaxChunk,     \* bound: the longest string one operation moves
    MaxReadable   \* bound: a caller puts no more in while so much can be read

ASSUME BufferAssumption ==
    /\ Cheap \in Nat /\ InitialSize \in Nat /\ Extra \in Nat
    /\ 0 \in Byte
    /\ MaxChunk \in Nat /\ MaxReadable \in Nat

Chunks == UNION {[1 .. n -> Byte] : n \in 0 .. MaxChunk}

VARIABLES
    buf,    \* [mem |-> buffer_, reader |-> readerIndex_, writer |-> writerIndex_]
    moved,  \* the string the last operation was given, or has returned (history)
    broken  \* a failed readv() was taken for an endless read

vars == <<buf, moved, broken>>

Readable(b) == b.writer - b.reader
Writeable(b) == Len(b.mem) - b.writer
Prependable(b) == b.reader

\* peek() up to beginWrite()
Content(b) == SubSeq(b.mem, b.reader + 1, b.writer)

Init == /\ buf = [mem    |-> [k \in 1 .. Cheap + InitialSize |-> 0],
                  reader |-> Cheap,
                  writer |-> Cheap]
        /\ moved = <<>> /\ broken = FALSE

-----------------------------------------------------------------------------
\* std::copy of the string s to offset at.
CopyTo(mem, at, s) ==
    [k \in DOMAIN mem |-> IF k \in at + 1 .. at + Len(s) THEN s[k - at] ELSE mem[k]]

\* std::vector::resize to more than it has.
Resize(mem, size) == [k \in 1 .. size |-> IF k <= Len(mem) THEN mem[k] ELSE 0]

\* Slip: what was read is never used again.
MakeSpaceAlwaysGrows(b, len) == [b EXCEPT !.mem = Resize(b.mem, b.writer + len)]

\* makeSpace()
MakeSpace(b, len) ==
    IF Writeable(b) + Prependable(b) < len + Cheap
    THEN [b EXCEPT !.mem = Resize(b.mem, b.writer + len)]
    ELSE [mem    |-> CopyTo(b.mem, Cheap, Content(b)),
          reader |-> Cheap,
          writer |-> Cheap + Readable(b)]

\* ensureWriteableBytes()
EnsureWriteable(b, len) == IF Writeable(b) < len THEN MakeSpace(b, len) ELSE b

\* append(): room, the copy, and hasWritten().
Appended(b, s) ==
    LET roomy == EnsureWriteable(b, Len(s))
    IN  [roomy EXCEPT !.mem = CopyTo(roomy.mem, roomy.writer, s),
                      !.writer = roomy.writer + Len(s)]

\* retrieve(), with retrieveAll() when nothing is left.
Retrieved(b, len) ==
    IF len < Readable(b) THEN [b EXCEPT !.reader = b.reader + len]
                         ELSE [b EXCEPT !.reader = Cheap, !.writer = Cheap]

-----------------------------------------------------------------------------
HasRoomFor(n) == ~broken /\ Readable(buf) + n <= MaxReadable

\* append(), and appendInt8() .. appendInt64(), which append in host order.
AppendString(s) == /\ HasRoomFor(Len(s))
              /\ buf' = Appended(buf, s)
              /\ moved' = s /\ UNCHANGED broken

\* ensureWriteableBytes() called for a string yet to come.
Ensure(n) == /\ HasRoomFor(n)
             /\ buf' = EnsureWriteable(buf, n)
             /\ moved' = <<>> /\ UNCHANGED broken

\* hasWritten(), after the caller has put s at beginWrite() itself.
HasWritten(s) ==
    /\ HasRoomFor(Len(s))
    /\ Len(s) <= Writeable(buf)
    /\ buf' = [buf EXCEPT !.mem = CopyTo(buf.mem, buf.writer, s),
                          !.writer = buf.writer + Len(s)]
    /\ moved' = s /\ UNCHANGED broken

\* unwrite()
Unwrite(n) == /\ ~broken /\ n <= Readable(buf)
              /\ buf' = [buf EXCEPT !.writer = buf.writer - n]
              /\ moved' = <<>> /\ UNCHANGED broken

\* retrieve(), alone or behind a read: retrieveAsString(), readInt8() .. readInt64().
\* retrieveAll() and retrieveUnitl() take all, or up to a place.
Retrieve(n) == /\ ~broken /\ n <= Readable(buf)
               /\ buf' = Retrieved(buf, n)
               /\ moved' = SubSeq(Content(buf), 1, n) /\ UNCHANGED broken

\* prepend(), and prependInt8() .. prependInt64().
Prepend(s) ==
    /\ HasRoomFor(Len(s))
    /\ Len(s) <= Prependable(buf)
    /\ buf' = [buf EXCEPT !.mem = CopyTo(buf.mem, buf.reader - Len(s), s),
                          !.reader = buf.reader - Len(s)]
    /\ moved' = s /\ UNCHANGED broken

\* What readv() may take: the free part, and extrabuf if that is smaller.
ReadRoom(b) == Writeable(b) + IF Writeable(b) < Extra THEN Extra ELSE 0

\* Slip: writerIndex_ is left where it was before extrabuf is appended.
ReadIntoOver(b, s) ==
    IF Len(s) < Writeable(b)
    THEN [b EXCEPT !.mem = CopyTo(b.mem, b.writer, s), !.writer = b.writer + Len(s)]
    ELSE Appended([b EXCEPT !.mem = CopyTo(b.mem, b.writer, SubSeq(s, 1, Writeable(b)))],
                  SubSeq(s, Writeable(b) + 1, Len(s)))

\* readFd() when readv() returns the string s: first the free part is filled, then
\* extrabuf, which is appended.
ReadInto(b, s) ==
    IF Len(s) < Writeable(b)
    THEN [b EXCEPT !.mem = CopyTo(b.mem, b.writer, s), !.writer = b.writer + Len(s)]
    ELSE LET first == SubSeq(s, 1, Writeable(b))
             rest == SubSeq(s, Writeable(b) + 1, Len(s))
         IN  Appended([b EXCEPT !.mem = CopyTo(b.mem, b.writer, first),
                                !.writer = Len(b.mem)], rest)

ReadFd(s) ==
    /\ HasRoomFor(Len(s))
    /\ Len(s) <= ReadRoom(buf)
    /\ buf' = ReadInto(buf, s)
    /\ moved' = s /\ UNCHANGED broken

\* readFd() when readv() fails: -1 in a size_t is no less than 0, and so many
\* bytes are appended from extrabuf.
ReadFdFails == ~broken /\ broken' = TRUE /\ UNCHANGED <<buf, moved>>

\* writeFd() when write() takes n bytes; if it fails nothing is retrieved.
WriteFd(n) == Retrieve(n)

Next == \/ \E s \in Chunks : AppendString(s) \/ HasWritten(s) \/ Prepend(s) \/ ReadFd(s)
        \/ \E n \in 0 .. MaxChunk : Ensure(n)
        \/ \E n \in 0 .. MaxReadable : Unwrite(n) \/ Retrieve(n) \/ WriteFd(n)
        \/ ReadFdFails

Spec == Init /\ [][Next]_vars

-----------------------------------------------------------------------------
\* Type invariant: the indices are in order, inside the vector.
TypeOK ==
    /\ buf.mem \in Seq(Byte)
    /\ buf.reader \in 0 .. buf.writer
    /\ buf.writer \in 0 .. Len(buf.mem)
    /\ moved \in Seq(Byte) /\ broken \in BOOLEAN

\* Refinement: whatever the operations do to the vector, moving the bytes to its
\* front, growing it, reading into it in two pieces, the bytes that can be read
\* are a queue.
Queue == INSTANCE ByteQueue WITH bytes <- Content(buf)
QueueSpec == Queue!Spec

\* Safety: a buffer that is used forever does not grow forever: its vector stays
\* within what its user has ever left unread, plus the header's room and one
\* string, because space in front is used before the vector is resized.
NeverOutgrows ==
    /\ TypeOK
    /\ Len(buf.mem) <= Max({Cheap + InitialSize, Cheap + MaxReadable + MaxChunk})
=============================================================================
