---------------------------- MODULE BufferProofs ----------------------------
(***************************************************************************)
(* Proofs about Buffer, for any sizes and any bytes: what can be read is a *)
(* queue (BytesAreAQueue), whatever the operations do to the vector, and   *)
(* the vector stays within the largest backlog its user leaves, the room   *)
(* for a header and one string (VectorIsBounded).                          *)
(*                                                                         *)
(* The invariant is that the indices are in order inside a vector that has *)
(* room for a header.  The lemmas say of each way to write into the vector *)
(* what can be read afterwards, and operations are put together of them.   *)
(*                                                                         *)
(* Behind these, the proof about who retrieves from the buffer             *)
(* (MessageParser), for any number of messages and any pieces of the       *)
(* stream: they are handled in order (MessagesInOrder).  The units of      *)
(* messages are added by a fold, so its lemmas go by induction.            *)
(***************************************************************************)
EXTENDS Buffer, MessageParser, SequenceTheorems, WellFoundedInduction, TLAPS

Record == [mem : Seq(Byte), reader : Nat, writer : Nat]

WellFormed(b) == /\ b \in Record
                 /\ b.reader <= b.writer /\ b.writer <= Len(b.mem)
                 /\ Cheap <= Len(b.mem)

\* The record when the string s has been put at beginWrite().
Filled(b, s) == [b EXCEPT !.mem = CopyTo(b.mem, b.writer, s), !.writer = b.writer + Len(s)]

Limit == Max({Cheap + InitialSize, Cheap + MaxReadable + MaxChunk})

BufferInv == /\ WellFormed(buf) /\ Len(buf.mem) <= Limit
             /\ moved \in Seq(Byte) /\ broken \in BOOLEAN

-----------------------------------------------------------------------------
(* Strings.                                                                *)

\* A function on 1 .. n is a sequence of n elements.
LEMMA FunctionIsSeq ==
  ASSUME NEW S, NEW n \in Nat, NEW f \in [1 .. n -> S]
  PROVE  f \in Seq(S) /\ Len(f) = n
<1>1. f \in Seq(S) BY SeqDef
<1>2. DOMAIN f = 1 .. Len(f) /\ Len(f) \in Nat BY <1>1, LenProperties
<1>3. DOMAIN f = 1 .. n OBVIOUS
<1> QED BY <1>1, <1>2, <1>3

\* A piece of a string.
LEMMA PieceFacts ==
  ASSUME NEW s \in Seq(Byte), NEW a \in Nat, NEW z \in Nat, a <= z, z <= Len(s)
  PROVE  /\ SubSeq(s, a + 1, z) \in Seq(Byte)
         /\ Len(SubSeq(s, a + 1, z)) = z - a
         /\ \A i \in 1 .. z - a : SubSeq(s, a + 1, z)[i] = s[a + i]
<1>1. Len(s) \in Nat /\ \A i \in 1 .. Len(s) : s[i] \in Byte BY LenProperties, ElementOfSeq
<1>2. \A i \in (a + 1) .. z : s[i] \in Byte BY <1>1
<1>3. a + 1 \in Int /\ z \in Int OBVIOUS
<1>4. /\ SubSeq(s, a + 1, z) \in Seq(Byte)
      /\ Len(SubSeq(s, a + 1, z)) = IF a + 1 <= z THEN z - (a + 1) + 1 ELSE 0
      /\ \A i \in 1 .. z - (a + 1) + 1 : SubSeq(s, a + 1, z)[i] = s[(a + 1) + i - 1]
  BY <1>2, <1>3, SubSeqProperties
<1> QED BY <1>4

\* std::copy changes the bytes it copies to and no others.
LEMMA CopyFacts ==
  ASSUME NEW mem \in Seq(Byte), NEW at \in Nat, NEW s \in Seq(Byte), at + Len(s) <= Len(mem)
  PROVE  /\ CopyTo(mem, at, s) \in Seq(Byte) /\ Len(CopyTo(mem, at, s)) = Len(mem)
         /\ \A k \in 1 .. Len(mem) :
                CopyTo(mem, at, s)[k] = IF k \in at + 1 .. at + Len(s) THEN s[k - at] ELSE mem[k]
<1>1. /\ Len(mem) \in Nat /\ DOMAIN mem = 1 .. Len(mem) /\ Len(s) \in Nat
      /\ \A k \in 1 .. Len(mem) : mem[k] \in Byte
      /\ \A i \in 1 .. Len(s) : s[i] \in Byte
  BY LenProperties, ElementOfSeq
<1>2. \A k \in 1 .. Len(mem) :
          CopyTo(mem, at, s)[k] = IF k \in at + 1 .. at + Len(s) THEN s[k - at] ELSE mem[k]
  BY <1>1 DEF CopyTo
<1>3. CopyTo(mem, at, s) \in [1 .. Len(mem) -> Byte]
  <2>1. ASSUME NEW k \in 1 .. Len(mem)
        PROVE  (IF k \in at + 1 .. at + Len(s) THEN s[k - at] ELSE mem[k]) \in Byte
    BY <1>1
  <2> QED BY <1>1, <2>1 DEF CopyTo
<1>4. CopyTo(mem, at, s) \in Seq(Byte) /\ Len(CopyTo(mem, at, s)) = Len(mem)
  BY <1>1, <1>3, FunctionIsSeq
<1> QED BY <1>2, <1>4

\* std::vector::resize keeps the bytes that are there.
LEMMA ResizeFacts ==
  ASSUME NEW mem \in Seq(Byte), NEW size \in Nat, Len(mem) <= size
  PROVE  /\ Resize(mem, size) \in Seq(Byte) /\ Len(Resize(mem, size)) = size
         /\ \A k \in 1 .. Len(mem) : Resize(mem, size)[k] = mem[k]
<1>1. Len(mem) \in Nat /\ \A k \in 1 .. Len(mem) : mem[k] \in Byte
  BY LenProperties, ElementOfSeq
<1>2. Resize(mem, size) \in [1 .. size -> Byte]
  BY <1>1, BufferAssumption DEF Resize
<1>3. \A k \in 1 .. Len(mem) : Resize(mem, size)[k] = mem[k] BY <1>1 DEF Resize
<1> QED BY <1>2, <1>3, FunctionIsSeq

-----------------------------------------------------------------------------
(* What can be read.                                                       *)

\* What can be read are the bytes from readerIndex_ on.
LEMMA ContentFacts ==
  ASSUME NEW b, WellFormed(b)
  PROVE  /\ Readable(b) \in Nat /\ Writeable(b) \in Nat /\ Prependable(b) \in Nat
         /\ Len(b.mem) \in Nat /\ b.mem \in Seq(Byte) /\ b.reader \in Nat /\ b.writer \in Nat
         /\ Content(b) \in Seq(Byte) /\ Len(Content(b)) = Readable(b)
         /\ \A i \in 1 .. Readable(b) : Content(b)[i] = b.mem[b.reader + i]
<1>1. b.mem \in Seq(Byte) /\ b.reader \in Nat /\ b.writer \in Nat BY DEF WellFormed, Record
<1>2. Len(b.mem) \in Nat BY <1>1, LenProperties
<1>3. b.reader <= b.writer /\ b.writer <= Len(b.mem) BY DEF WellFormed
<1>4. /\ Content(b) \in Seq(Byte) /\ Len(Content(b)) = b.writer - b.reader
      /\ \A i \in 1 .. b.writer - b.reader : Content(b)[i] = b.mem[b.reader + i]
  BY <1>1, <1>3, PieceFacts DEF Content
<1> QED BY <1>1, <1>2, <1>3, <1>4 DEF Readable, Writeable, Prependable

\* A vector that agrees with a string behind readerIndex_ holds that string.
LEMMA ContentIs ==
  ASSUME NEW b, WellFormed(b), NEW s \in Seq(Byte), Len(s) = Readable(b),
         \A i \in 1 .. Len(s) : b.mem[b.reader + i] = s[i]
  PROVE  Content(b) = s
BY ContentFacts, SeqEqual

\* Bytes that are put at beginWrite() are behind those that could be read.
LEMMA PutFacts ==
  ASSUME NEW b, WellFormed(b), NEW s \in Seq(Byte), Len(s) <= Writeable(b),
         NEW d, d = Filled(b, s)
  PROVE  /\ WellFormed(d) /\ Content(d) = Content(b) \o s /\ Len(d.mem) = Len(b.mem)
         /\ d.writer = b.writer + Len(s) /\ Readable(d) = Readable(b) + Len(s)
<1> DEFINE copied == CopyTo(b.mem, b.writer, s)
           c == Content(b)
<1>1. /\ Readable(b) \in Nat /\ Len(b.mem) \in Nat /\ b.mem \in Seq(Byte)
      /\ b.reader \in Nat /\ b.writer \in Nat /\ Readable(b) = b.writer - b.reader
      /\ c \in Seq(Byte) /\ Len(c) = Readable(b)
      /\ \A i \in 1 .. Readable(b) : c[i] = b.mem[b.reader + i]
  BY ContentFacts DEF Readable
<1>2. Len(s) \in Nat /\ b.writer + Len(s) <= Len(b.mem)
  BY <1>1, LenProperties DEF Writeable
<1>3. /\ copied \in Seq(Byte) /\ Len(copied) = Len(b.mem)
      /\ \A k \in 1 .. Len(b.mem) : copied[k] =
             IF k \in b.writer + 1 .. b.writer + Len(s) THEN s[k - b.writer] ELSE b.mem[k]
  BY <1>1, <1>2, CopyFacts
<1> HIDE DEF copied, c
<1>4. /\ d \in Record /\ d.mem = copied /\ d.reader = b.reader /\ d.writer = b.writer + Len(s)
  <2>1. d = [b EXCEPT !.mem = copied, !.writer = b.writer + Len(s)] BY DEF Filled, copied
  <2>2. b \in [mem : Seq(Byte), reader : Nat, writer : Nat] BY DEF WellFormed, Record
  <2> DEFINE w == b.writer + Len(s)
  <2>3. w \in Nat /\ copied \in Seq(Byte) BY <1>1, <1>2, <1>3
  <2>4. d = [b EXCEPT !.mem = copied, !.writer = w] BY <2>1
  <2> HIDE DEF w
  <2>5. /\ d \in [mem : Seq(Byte), reader : Nat, writer : Nat]
        /\ d.mem = copied /\ d.reader = b.reader /\ d.writer = w
    BY <2>2, <2>3, <2>4
  <2> QED BY <2>5 DEF w, Record
<1>5. b.reader <= b.writer /\ Cheap <= Len(b.mem) BY DEF WellFormed
<1>6. WellFormed(d) BY <1>1, <1>2, <1>3, <1>4, <1>5 DEF WellFormed
<1>7. Readable(d) = Readable(b) + Len(s) BY <1>1, <1>2, <1>4 DEF Readable
<1>8. /\ c \o s \in Seq(Byte) /\ Len(c \o s) = Readable(b) + Len(s)
      /\ \A i \in 1 .. Readable(b) + Len(s) :
             (c \o s)[i] = IF i <= Readable(b) THEN c[i] ELSE s[i - Readable(b)]
  <2>1. /\ c \o s \in Seq(Byte) /\ Len(c \o s) = Len(c) + Len(s)
        /\ \A i \in 1 .. Len(c) + Len(s) :
               (c \o s)[i] = IF i <= Len(c) THEN c[i] ELSE s[i - Len(c)]
    BY <1>1, ConcatProperties
  <2> QED BY <1>1, <2>1
<1>9. ASSUME NEW i \in 1 .. Readable(b) + Len(s) PROVE d.mem[d.reader + i] = (c \o s)[i]
  <2>1. b.reader + i \in 1 .. Len(b.mem) BY <1>1, <1>2
  <2>2. CASE i <= Readable(b)
    <3>1. b.reader + i \notin b.writer + 1 .. b.writer + Len(s) BY <1>1, <1>2, <2>2
    <3>2. copied[b.reader + i] = b.mem[b.reader + i] BY <1>3, <2>1, <3>1
    <3>3. i \in 1 .. Readable(b) BY <1>1, <2>2
    <3> QED BY <1>1, <1>4, <1>8, <2>2, <3>2, <3>3
  <2>3. CASE i > Readable(b)
    <3>1. /\ b.reader + i \in b.writer + 1 .. b.writer + Len(s)
          /\ (b.reader + i) - b.writer = i - Readable(b)
      BY <1>1, <1>2, <2>3
    <3>2. copied[b.reader + i] = s[i - Readable(b)] BY <1>3, <2>1, <3>1
    <3>3. ~(i <= Readable(b)) BY <1>1, <2>3
    <3> QED BY <1>4, <1>8, <3>2, <3>3
  <2> QED BY <1>1, <2>2, <2>3
<1>10. Content(d) = c \o s BY <1>6, <1>7, <1>8, <1>9, ContentIs
<1> QED BY <1>3, <1>4, <1>6, <1>7, <1>10 DEF c

-----------------------------------------------------------------------------
(* The operations.                                                         *)

\* ensureWriteableBytes() makes the room that is asked for and leaves what can be read; a vector
\* that grows ends behind the backlog, the header and twice that room at most.
LEMMA EnsureFacts ==
  ASSUME NEW b, WellFormed(b), NEW n \in Nat,
         NEW d, d = EnsureWriteable(b, n)
  PROVE  /\ WellFormed(d) /\ Content(d) = Content(b) /\ Readable(d) = Readable(b)
         /\ n <= Writeable(d)
         /\ Len(d.mem) = Len(b.mem) \/ Len(d.mem) <= Cheap + Readable(b) + n + n
<1> USE BufferAssumption
<1> DEFINE c == Content(b)
           len == Len(b.mem)
<1>1. /\ Readable(b) \in Nat /\ len \in Nat /\ b.mem \in Seq(Byte)
      /\ b.reader \in Nat /\ b.writer \in Nat /\ Readable(b) = b.writer - b.reader
      /\ c \in Seq(Byte) /\ Len(c) = Readable(b)
      /\ \A i \in 1 .. Readable(b) : c[i] = b.mem[b.reader + i]
  BY ContentFacts DEF Readable
<1>2. /\ b \in [mem : Seq(Byte), reader : Nat, writer : Nat]
      /\ b.reader <= b.writer /\ b.writer <= len /\ Cheap <= len
  BY DEF WellFormed, Record
<1>3. CASE ~(Writeable(b) < n)
  <2>1. d = b BY <1>3 DEF EnsureWriteable
  <2>2. Writeable(b) \in Nat BY <1>1, <1>2 DEF Writeable
  <2> QED BY <1>3, <2>1, <2>2
<1>4. CASE Writeable(b) < n /\ Writeable(b) + Prependable(b) < n + Cheap
  <2> DEFINE size == b.writer + n
             grown == Resize(b.mem, size)
  <2>1. d = [b EXCEPT !.mem = grown] BY <1>4 DEF EnsureWriteable, MakeSpace
  <2>2. size \in Nat /\ len <= size BY <1>1, <1>4 DEF Writeable
  <2>3. grown \in Seq(Byte) /\ Len(grown) = size /\ \A k \in 1 .. len : grown[k] = b.mem[k]
    BY <1>1, <2>2, ResizeFacts
  <2> HIDE DEF grown
  <2>4. /\ d \in [mem : Seq(Byte), reader : Nat, writer : Nat]
        /\ d.mem = grown /\ d.reader = b.reader /\ d.writer = b.writer
    BY <1>2, <2>1, <2>3
  <2>5. WellFormed(d)
    <3>1. Cheap <= size /\ b.writer <= size BY <1>1, <1>2, <2>2
    <3> QED BY <1>2, <2>3, <2>4, <3>1 DEF WellFormed, Record
  <2>6. Readable(d) = Readable(b) BY <2>4 DEF Readable
  <2>7. Content(d) = c
    <3>1. ASSUME NEW i \in 1 .. Len(c) PROVE d.mem[d.reader + i] = c[i]
      <4>1. b.reader + i \in 1 .. len BY <1>1, <1>2
      <4> QED BY <1>1, <2>3, <2>4, <4>1
    <3> QED BY <1>1, <2>5, <2>6, <3>1, ContentIs
  <2>8. n <= Writeable(d) BY <1>1, <2>3, <2>4 DEF Writeable
  <2>9. size <= Cheap + Readable(b) + n + n
    BY <1>1, <1>2, <1>4 DEF Writeable, Prependable
  <2> QED BY <2>3, <2>4, <2>5, <2>6, <2>7, <2>8, <2>9
<1>5. CASE Writeable(b) < n /\ ~(Writeable(b) + Prependable(b) < n + Cheap)
  <2> DEFINE moving == CopyTo(b.mem, Cheap, c)
             end == Cheap + Readable(b)
  <2>1. d = [mem |-> moving, reader |-> Cheap, writer |-> end]
    BY <1>5 DEF EnsureWriteable, MakeSpace
  <2>2. end \in Nat /\ end + n <= len BY <1>1, <1>2, <1>5 DEF Writeable, Prependable
  <2>3. /\ moving \in Seq(Byte) /\ Len(moving) = len
        /\ \A k \in 1 .. len :
               moving[k] = IF k \in Cheap + 1 .. Cheap + Len(c) THEN c[k - Cheap] ELSE b.mem[k]
    <3>1. Cheap + Len(c) <= Len(b.mem) BY <1>1, <2>2
    <3> HIDE DEF c
    <3>2. Cheap \in Nat OBVIOUS
    <3> QED BY <1>1, <3>1, <3>2, CopyFacts
  <2> HIDE DEF moving
  <2>4. /\ d \in [mem : Seq(Byte), reader : Nat, writer : Nat]
        /\ d.mem = moving /\ d.reader = Cheap /\ d.writer = end
    BY <2>1, <2>2, <2>3
  <2>5. WellFormed(d) BY <1>1, <1>2, <2>2, <2>3, <2>4 DEF WellFormed, Record
  <2>6. Readable(d) = Readable(b) BY <1>1, <2>4 DEF Readable
  <2>7. Content(d) = c
    <3>1. ASSUME NEW i \in 1 .. Len(c) PROVE d.mem[d.reader + i] = c[i]
      <4>1. /\ Cheap + i \in 1 .. len /\ Cheap + i \in Cheap + 1 .. Cheap + Len(c)
            /\ (Cheap + i) - Cheap = i
        BY <1>1, <2>2
      <4> QED BY <2>3, <2>4, <4>1
    <3> QED BY <1>1, <2>5, <2>6, <3>1, ContentIs
  <2>8. n <= Writeable(d) BY <1>1, <2>2, <2>3, <2>4 DEF Writeable
  <2> QED BY <2>3, <2>4, <2>5, <2>6, <2>7, <2>8
<1> QED BY <1>3, <1>4, <1>5

\* append() puts a string behind what can be read.
LEMMA AppendFacts ==
  ASSUME NEW b, WellFormed(b), NEW s \in Seq(Byte),
         NEW d, d = Appended(b, s)
  PROVE  /\ WellFormed(d) /\ Content(d) = Content(b) \o s
         /\ Len(d.mem) = Len(b.mem) \/ Len(d.mem) <= Cheap + Readable(b) + Len(s) + Len(s)
<1> DEFINE r == EnsureWriteable(b, Len(s))
<1>1. Len(s) \in Nat BY LenProperties
<1>2. /\ WellFormed(r) /\ Content(r) = Content(b) /\ Len(s) <= Writeable(r)
      /\ Len(r.mem) = Len(b.mem) \/ Len(r.mem) <= Cheap + Readable(b) + Len(s) + Len(s)
  BY <1>1, EnsureFacts
<1>3. d = Filled(r, s) BY DEF Appended, Filled
<1> HIDE DEF r
<1>4. WellFormed(d) /\ Content(d) = Content(r) \o s /\ Len(d.mem) = Len(r.mem)
  BY <1>2, <1>3, PutFacts
<1> QED BY <1>2, <1>4

\* readFd() puts what was read behind what can be read, the two pieces one behind the other.
LEMMA ReadFacts ==
  ASSUME NEW b, WellFormed(b), NEW s \in Seq(Byte),
         NEW d, d = ReadInto(b, s)
  PROVE  /\ WellFormed(d) /\ Content(d) = Content(b) \o s
         /\ Len(d.mem) = Len(b.mem) \/ Len(d.mem) <= Cheap + Readable(b) + Len(s) + Len(s)
<1> USE BufferAssumption
<1>1. Len(s) \in Nat /\ Writeable(b) \in Nat /\ Content(b) \in Seq(Byte) /\ Readable(b) \in Nat
  BY LenProperties, ContentFacts
<1>2. CASE Len(s) < Writeable(b)
  <2>1. d = Filled(b, s) BY <1>2 DEF ReadInto, Filled
  <2> QED BY <1>1, <1>2, <2>1, PutFacts
<1>3. CASE ~(Len(s) < Writeable(b))
  <2> DEFINE w == Writeable(b)
             first == SubSeq(s, 1, w)
             rest == SubSeq(s, w + 1, Len(s))
             f == [b EXCEPT !.mem = CopyTo(b.mem, b.writer, first), !.writer = Len(b.mem)]
  <2>1. d = Appended(f, rest) BY <1>3 DEF ReadInto
  <2>2. /\ first \in Seq(Byte) /\ Len(first) = w
        /\ rest \in Seq(Byte) /\ Len(rest) = Len(s) - w
    <3>1. SubSeq(s, 0 + 1, w) \in Seq(Byte) /\ Len(SubSeq(s, 0 + 1, w)) = w - 0
      BY <1>1, <1>3, PieceFacts
    <3>2. rest \in Seq(Byte) /\ Len(rest) = Len(s) - w BY <1>1, <1>3, PieceFacts
    <3> QED BY <1>1, <3>1, <3>2
  <2>3. first \o rest = s
    <3>1. /\ 1 \in 1 .. Len(s) + 1 /\ w \in 1 - 1 .. Len(s) /\ Len(s) \in w .. Len(s)
      BY <1>1, <1>3
    <3>2. first \o rest = SubSeq(s, 1, Len(s)) BY <3>1, ConcatAdjacentSubSeq
    <3> QED BY <3>2, SubSeqFull
  <2> HIDE DEF first, rest
  <2>4. f = Filled(b, first)
    <3>1. b.writer + Len(first) = Len(b.mem) BY <2>2, ContentFacts DEF Writeable
    <3> QED BY <3>1 DEF Filled
  <2> HIDE DEF f
  <2>5. /\ WellFormed(f) /\ Content(f) = Content(b) \o first /\ Len(f.mem) = Len(b.mem)
        /\ Readable(f) = Readable(b) + w
    <3>1. first \in Seq(Byte) /\ Len(first) = w /\ Len(first) <= Writeable(b) BY <1>1, <2>2
    <3>2. /\ WellFormed(f) /\ Content(f) = Content(b) \o first /\ Len(f.mem) = Len(b.mem)
          /\ Readable(f) = Readable(b) + Len(first)
      BY <2>4, <3>1, PutFacts
    <3> QED BY <3>1, <3>2
  <2>6. /\ WellFormed(d) /\ Content(d) = Content(f) \o rest
        /\ Len(d.mem) = Len(f.mem) \/ Len(d.mem) <= Cheap + Readable(f) + Len(rest) + Len(rest)
    BY <2>1, <2>2, <2>5, AppendFacts
  <2>7. Content(d) = Content(b) \o s
    <3>1. \A x, y, z \in Seq(Byte) : (x \o y) \o z = x \o (y \o z) BY ConcatAssociative
    <3>2. (Content(b) \o first) \o rest = Content(b) \o (first \o rest) BY <1>1, <2>2, <3>1
    <3> QED BY <2>3, <2>5, <2>6, <3>2
  <2>8. Cheap + Readable(f) + Len(rest) + Len(rest) <= Cheap + Readable(b) + Len(s) + Len(s)
    BY <1>1, <1>3, <2>2, <2>5
  <2>9. Len(d.mem) \in Nat BY <2>6, ContentFacts
  <2>10. Len(d.mem) = Len(b.mem) \/ Len(d.mem) <= Cheap + Readable(b) + Len(s) + Len(s)
    <3>1. /\ Cheap + Readable(f) + Len(rest) + Len(rest) \in Int
          /\ Cheap + Readable(b) + Len(s) + Len(s) \in Int
      BY <1>1, <2>2, <2>5
    <3> QED BY <2>5, <2>6, <2>8, <2>9, <3>1
  <2> QED BY <2>6, <2>7, <2>10
<1> QED BY <1>2, <1>3

\* retrieve() takes from the front; when nothing is left the indices go back to the header.
LEMMA RetrieveFacts ==
  ASSUME NEW b, WellFormed(b), NEW n \in Nat, n <= Readable(b),
         NEW d, d = Retrieved(b, n)
  PROVE  /\ WellFormed(d) /\ Content(d) = SubSeq(Content(b), n + 1, Len(Content(b)))
         /\ Len(d.mem) = Len(b.mem)
<1> USE BufferAssumption
<1>1. /\ Readable(b) \in Nat /\ Len(b.mem) \in Nat /\ b.reader \in Nat /\ b.writer \in Nat
      /\ Readable(b) = b.writer - b.reader
      /\ Content(b) \in Seq(Byte) /\ Len(Content(b)) = Readable(b)
  BY ContentFacts DEF Readable
<1>2. /\ b \in [mem : Seq(Byte), reader : Nat, writer : Nat]
      /\ b.reader <= b.writer /\ b.writer <= Len(b.mem) /\ Cheap <= Len(b.mem)
  BY DEF WellFormed, Record
<1>3. CASE n < Readable(b)
  <2>1. /\ d \in [mem : Seq(Byte), reader : Nat, writer : Nat]
        /\ d.mem = b.mem /\ d.reader = b.reader + n /\ d.writer = b.writer
    BY <1>1, <1>2, <1>3 DEF Retrieved
  <2>2. WellFormed(d) BY <1>1, <1>2, <1>3, <2>1 DEF WellFormed, Record
  <2> DEFINE c == Content(b)
             left == SubSeq(c, n + 1, Readable(b))
  <2>3. \A i \in 1 .. Readable(b) : c[i] = b.mem[b.reader + i] BY ContentFacts
  <2> HIDE DEF c
  <2>4. /\ left \in Seq(Byte) /\ Len(left) = Readable(b) - n
        /\ \A i \in 1 .. Readable(b) - n : left[i] = c[n + i]
    BY <1>1, <1>3, PieceFacts DEF c
  <2> HIDE DEF left
  <2>5. Len(left) = Readable(d) BY <1>1, <2>1, <2>4 DEF Readable
  <2>6. ASSUME NEW i \in 1 .. Len(left) PROVE d.mem[d.reader + i] = left[i]
    <3>1. n + i \in 1 .. Readable(b) /\ i \in 1 .. Readable(b) - n BY <1>1, <1>3, <2>4
    <3>2. left[i] = b.mem[b.reader + (n + i)] BY <2>3, <2>4, <3>1
    <3>3. (b.reader + n) + i = b.reader + (n + i) BY <1>1
    <3> QED BY <2>1, <3>2, <3>3
  <2>7. Content(d) = left BY <2>2, <2>4, <2>5, <2>6, ContentIs
  <2> QED BY <1>1, <2>1, <2>2, <2>7 DEF left, c
<1>4. CASE ~(n < Readable(b))
  <2>1. /\ d \in [mem : Seq(Byte), reader : Nat, writer : Nat]
        /\ d.mem = b.mem /\ d.reader = Cheap /\ d.writer = Cheap
    BY <1>2, <1>4 DEF Retrieved
  <2>2. WellFormed(d) BY <1>1, <1>2, <2>1 DEF WellFormed, Record
  <2>3. Content(d) = <<>>
    <3>1. Cheap + 1 \in Int /\ Cheap \in Int /\ Cheap < Cheap + 1 OBVIOUS
    <3> QED BY <2>1, <3>1, SubSeqEmpty DEF Content
  <2>4. SubSeq(Content(b), n + 1, Len(Content(b))) = <<>>
    <3>1. n + 1 \in Int /\ Len(Content(b)) \in Int /\ Len(Content(b)) < n + 1
      BY <1>1, <1>4
    <3> QED BY <3>1, SubSeqEmpty
  <2> QED BY <2>1, <2>2, <2>3, <2>4
<1> QED BY <1>3, <1>4

\* unwrite() takes back from the end.
LEMMA UnwriteFacts ==
  ASSUME NEW b, WellFormed(b), NEW n \in Nat, n <= Readable(b),
         NEW d, d = [b EXCEPT !.writer = b.writer - n]
  PROVE  /\ WellFormed(d) /\ Content(d) = SubSeq(Content(b), 1, Len(Content(b)) - n)
         /\ Len(d.mem) = Len(b.mem)
<1>1. /\ Readable(b) \in Nat /\ Len(b.mem) \in Nat /\ b.reader \in Nat /\ b.writer \in Nat
      /\ Readable(b) = b.writer - b.reader /\ b.mem \in Seq(Byte)
      /\ Content(b) \in Seq(Byte) /\ Len(Content(b)) = Readable(b)
  BY ContentFacts DEF Readable
<1>2. /\ b \in [mem : Seq(Byte), reader : Nat, writer : Nat]
      /\ b.reader <= b.writer /\ b.writer <= Len(b.mem) /\ Cheap <= Len(b.mem)
  BY DEF WellFormed, Record
<1>3. /\ d \in [mem : Seq(Byte), reader : Nat, writer : Nat]
      /\ d.mem = b.mem /\ d.reader = b.reader /\ d.writer = b.writer - n
  BY <1>1, <1>2
<1>4. WellFormed(d) BY <1>1, <1>2, <1>3, BufferAssumption DEF WellFormed, Record
<1> DEFINE c == Content(b)
           left == SubSeq(c, 1, Readable(b) - n)
<1>5. \A i \in 1 .. Readable(b) : c[i] = b.mem[b.reader + i] BY ContentFacts
<1> HIDE DEF c
<1>6. /\ left \in Seq(Byte) /\ Len(left) = Readable(b) - n
      /\ \A i \in 1 .. Readable(b) - n : left[i] = c[i]
  <2> DEFINE z == Readable(b) - n
  <2>1. c \in Seq(Byte) /\ z \in Nat /\ 0 <= z /\ z <= Len(c) BY <1>1 DEF c
  <2> HIDE DEF z
  <2>2. /\ SubSeq(c, 0 + 1, z) \in Seq(Byte) /\ Len(SubSeq(c, 0 + 1, z)) = z - 0
        /\ \A i \in 1 .. z - 0 : SubSeq(c, 0 + 1, z)[i] = c[0 + i]
    BY <2>1, PieceFacts
  <2> QED BY <2>1, <2>2 DEF z
<1> HIDE DEF left
<1>7. Len(left) = Readable(d) BY <1>1, <1>3, <1>6 DEF Readable
<1>8. ASSUME NEW i \in 1 .. Len(left) PROVE d.mem[d.reader + i] = left[i]
  <2>1. i \in 1 .. Readable(b) /\ i \in 1 .. Readable(b) - n BY <1>1, <1>6
  <2> QED BY <1>3, <1>5, <1>6, <2>1
<1>9. Content(d) = left BY <1>4, <1>6, <1>7, <1>8, ContentIs
<1> QED BY <1>1, <1>3, <1>4, <1>9 DEF left, c

\* prepend() puts a header in front of what can be read.
LEMMA PrependFacts ==
  ASSUME NEW b, WellFormed(b), NEW s \in Seq(Byte), Len(s) <= Prependable(b),
         NEW d, d = [b EXCEPT !.mem = CopyTo(b.mem, b.reader - Len(s), s),
                              !.reader = b.reader - Len(s)]
  PROVE  /\ WellFormed(d) /\ Content(d) = s \o Content(b) /\ Len(d.mem) = Len(b.mem)
<1> DEFINE at == b.reader - Len(s)
           copied == CopyTo(b.mem, at, s)
           c == Content(b)
<1>1. /\ Readable(b) \in Nat /\ Len(b.mem) \in Nat /\ b.mem \in Seq(Byte)
      /\ b.reader \in Nat /\ b.writer \in Nat /\ Readable(b) = b.writer - b.reader
      /\ c \in Seq(Byte) /\ Len(c) = Readable(b)
      /\ \A i \in 1 .. Readable(b) : c[i] = b.mem[b.reader + i]
  BY ContentFacts DEF Readable
<1>2. /\ b \in [mem : Seq(Byte), reader : Nat, writer : Nat]
      /\ b.reader <= b.writer /\ b.writer <= Len(b.mem) /\ Cheap <= Len(b.mem)
  BY DEF WellFormed, Record
<1>3. Len(s) \in Nat /\ at \in Nat /\ at + Len(s) = b.reader
  BY <1>1, LenProperties DEF Prependable
<1>4. /\ copied \in Seq(Byte) /\ Len(copied) = Len(b.mem)
      /\ \A k \in 1 .. Len(b.mem) : copied[k] =
             IF k \in at + 1 .. at + Len(s) THEN s[k - at] ELSE b.mem[k]
  <2>1. at + Len(s) <= Len(b.mem) BY <1>1, <1>2, <1>3
  <2> HIDE DEF at
  <2> QED BY <1>1, <1>3, <2>1, CopyFacts
<1>5. d = [b EXCEPT !.mem = copied, !.reader = at] OBVIOUS
<1> HIDE DEF copied, c, at
<1>6. /\ d \in [mem : Seq(Byte), reader : Nat, writer : Nat]
      /\ d.mem = copied /\ d.reader = at /\ d.writer = b.writer
  BY <1>2, <1>3, <1>4, <1>5
<1>7. WellFormed(d) BY <1>1, <1>2, <1>3, <1>4, <1>6, BufferAssumption DEF WellFormed, Record
<1>8. Readable(d) = Len(s) + Readable(b) BY <1>1, <1>3, <1>6 DEF Readable
<1>9. /\ s \o c \in Seq(Byte) /\ Len(s \o c) = Len(s) + Readable(b)
      /\ \A i \in 1 .. Len(s) + Readable(b) :
             (s \o c)[i] = IF i <= Len(s) THEN s[i] ELSE c[i - Len(s)]
  <2>1. /\ s \o c \in Seq(Byte) /\ Len(s \o c) = Len(s) + Len(c)
        /\ \A i \in 1 .. Len(s) + Len(c) :
               (s \o c)[i] = IF i <= Len(s) THEN s[i] ELSE c[i - Len(s)]
    BY <1>1, ConcatProperties
  <2> QED BY <1>1, <2>1
<1>10. ASSUME NEW i \in 1 .. Len(s) + Readable(b) PROVE d.mem[d.reader + i] = (s \o c)[i]
  <2>1. at + i \in 1 .. Len(b.mem) BY <1>1, <1>2, <1>3
  <2>2. CASE i <= Len(s)
    <3>1. at + i \in at + 1 .. at + Len(s) /\ (at + i) - at = i BY <1>3, <2>2
    <3>2. copied[at + i] = s[i] BY <1>4, <2>1, <3>1
    <3> QED BY <1>6, <1>9, <2>2, <3>2
  <2>3. CASE ~(i <= Len(s))
    <3>1. /\ at + i \notin at + 1 .. at + Len(s) /\ i - Len(s) \in 1 .. Readable(b)
          /\ at + i = b.reader + (i - Len(s))
      BY <1>1, <1>3, <2>3
    <3>2. copied[at + i] = b.mem[at + i] BY <1>4, <2>1, <3>1
    <3>3. c[i - Len(s)] = b.mem[b.reader + (i - Len(s))] BY <1>1, <3>1
    <3> QED BY <1>6, <1>9, <2>3, <3>1, <3>2, <3>3
  <2> QED BY <2>2, <2>3
<1>11. Content(d) = s \o c BY <1>7, <1>8, <1>9, <1>10, ContentIs
<1> QED BY <1>4, <1>6, <1>7, <1>11 DEF c

-----------------------------------------------------------------------------
(* The steps.                                                              *)

LEMMA LimitFacts ==
  /\ Limit \in Nat /\ Cheap + InitialSize <= Limit /\ Cheap + MaxReadable + MaxChunk <= Limit
<1> USE BufferAssumption
<1> DEFINE a == Cheap + InitialSize
           z == Cheap + MaxReadable + MaxChunk
<1>1. a \in Nat /\ z \in Nat OBVIOUS
<1> HIDE DEF a, z
<1>2. Limit = CHOOSE x \in {a, z} : \A y \in {a, z} : x >= y BY DEF Limit, Max, a, z
<1>3. \E x \in {a, z} : \A y \in {a, z} : x >= y
  <2>1. CASE a >= z BY <1>1, <2>1
  <2>2. CASE ~(a >= z) BY <1>1, <2>2
  <2> QED BY <2>1, <2>2
<1>4. Limit \in {a, z} /\ \A y \in {a, z} : Limit >= y BY <1>2, <1>3
<1> QED BY <1>1, <1>4 DEF a, z

\* What fits a vector that needs to hold no more than the backlog, a header and twice a string
\* fits into the limit.
LEMMA WithinLimit ==
  ASSUME BufferInv, NEW n \in Nat, n <= MaxChunk, Readable(buf) + n <= MaxReadable,
         NEW d, WellFormed(d),
         Len(d.mem) = Len(buf.mem) \/ Len(d.mem) <= Cheap + Readable(buf) + n + n
  PROVE  Len(d.mem) <= Limit
<1>1. Readable(buf) \in Nat /\ Len(d.mem) \in Nat BY ContentFacts DEF BufferInv
<1>2. Cheap + Readable(buf) + n + n <= Cheap + MaxReadable + MaxChunk
  BY <1>1, BufferAssumption
<1> QED BY <1>1, <1>2, LimitFacts, BufferAssumption DEF BufferInv

\* The strings that operations are given.
LEMMA ChunkFacts ==
  /\ \A s \in Chunks : s \in Seq(Byte) /\ Len(s) \in Nat /\ Len(s) <= MaxChunk
  /\ <<>> \in Chunks
<1>1. ASSUME NEW s \in Chunks PROVE s \in Seq(Byte) /\ Len(s) \in Nat /\ Len(s) <= MaxChunk
  <2>1. PICK n \in 0 .. MaxChunk : s \in [1 .. n -> Byte] BY DEF Chunks
  <2>2. n \in Nat /\ n <= MaxChunk BY <2>1, BufferAssumption
  <2> QED BY <2>1, <2>2, FunctionIsSeq
<1>2. <<>> \in [1 .. 0 -> Byte] OBVIOUS
<1>3. 0 \in 0 .. MaxChunk BY BufferAssumption
<1> QED BY <1>1, <1>2, <1>3 DEF Chunks

\* A buffer is empty at first, and so is the queue.
LEMMA InitBuffer == Init => BufferInv /\ Queue!Init
<1> SUFFICES ASSUME Init PROVE BufferInv /\ Queue!Init OBVIOUS
<1> USE BufferAssumption
<1> DEFINE zeros == [k \in 1 .. Cheap + InitialSize |-> 0]
<1>1. buf = [mem |-> zeros, reader |-> Cheap, writer |-> Cheap] /\ moved = <<>> /\ broken = FALSE
  BY DEF Init
<1>2. zeros \in Seq(Byte) /\ Len(zeros) = Cheap + InitialSize
  <2>1. zeros \in [1 .. Cheap + InitialSize -> Byte] /\ Cheap + InitialSize \in Nat OBVIOUS
  <2> HIDE DEF zeros
  <2> QED BY <2>1, FunctionIsSeq
<1> HIDE DEF zeros
<1>3. WellFormed(buf) BY <1>1, <1>2 DEF WellFormed, Record
<1>4. Content(buf) = <<>>
  <2>1. Cheap + 1 \in Int /\ Cheap \in Int /\ Cheap < Cheap + 1 OBVIOUS
  <2> QED BY <1>1, <2>1, SubSeqEmpty DEF Content
<1>5. Len(buf.mem) <= Limit BY <1>1, <1>2, LimitFacts
<1>6. moved \in Seq(Byte) /\ broken \in BOOLEAN BY <1>1, ChunkFacts
<1>7. BufferInv BY <1>3, <1>5, <1>6 DEF BufferInv
<1>8. Queue!Init BY <1>1, <1>4 DEF Queue!Init
<1> QED BY <1>7, <1>8

\* Every operation keeps the invariant and does to what can be read what the queue promises.
LEMMA StepFacts ==
  ASSUME BufferInv, [Next]_vars
  PROVE  BufferInv' /\ [Queue!Next]_(Queue!vars)
<1> USE BufferAssumption
<1> DEFINE old == Content(buf)
           new == Content(buf')
<1>1. /\ WellFormed(buf) /\ Len(buf.mem) <= Limit /\ moved \in Seq(Byte) /\ broken \in BOOLEAN
      /\ Readable(buf) \in Nat /\ Writeable(buf) \in Nat /\ Prependable(buf) \in Nat
      /\ old \in Seq(Byte) /\ Len(old) = Readable(buf)
  BY ContentFacts DEF BufferInv
<1>2. Content(buf)' = new BY DEF Content
<1>3. ASSUME WellFormed(buf'), Len(buf'.mem) <= Limit, moved' \in Seq(Byte), broken' \in BOOLEAN
      PROVE  BufferInv'
  <2>1. WellFormed(buf)' BY <1>3 DEF WellFormed, Record
  <2> QED BY <1>3, <2>1 DEF BufferInv, Limit
<1>4. ASSUME NEW s \in Chunks, moved' = s,
             new = old \o s \/ new = s \o old
      PROVE  [Queue!Next]_(Queue!vars)
  BY <1>2, <1>4 DEF Queue!Next, Queue!Put, Queue!PutInFront
<1>5. ASSUME NEW n \in Nat, n <= Readable(buf),
             \/ moved' = SubSeq(old, 1, n) /\ new = SubSeq(old, n + 1, Len(old))
             \/ moved' = <<>> /\ new = SubSeq(old, 1, Len(old) - n)
      PROVE  [Queue!Next]_(Queue!vars)
  <2>1. n \in 0 .. Len(old) BY <1>1, <1>5
  <2> QED BY <1>2, <1>5, <2>1 DEF Queue!Next, Queue!Take, Queue!TakeBack
<1> HIDE DEF old, new
<1>6. ASSUME NEW s \in Chunks, AppendString(s) \/ ReadFd(s)
      PROVE  BufferInv' /\ [Queue!Next]_(Queue!vars)
  <2>1. s \in Seq(Byte) /\ Len(s) \in Nat /\ Len(s) <= MaxChunk BY ChunkFacts
  <2>2. /\ Readable(buf) + Len(s) <= MaxReadable /\ moved' = s /\ broken' = broken
        /\ buf' = Appended(buf, s) \/ buf' = ReadInto(buf, s)
    BY <1>6 DEF AppendString, ReadFd, HasRoomFor
  <2>3. /\ WellFormed(buf') /\ new = old \o s
        /\ \/ Len(buf'.mem) = Len(buf.mem)
           \/ Len(buf'.mem) <= Cheap + Readable(buf) + Len(s) + Len(s)
    BY <1>1, <2>1, <2>2, AppendFacts, ReadFacts DEF old, new
  <2>4. Len(buf'.mem) <= Limit BY <2>1, <2>2, <2>3, WithinLimit
  <2> QED BY <1>1, <1>3, <1>4, <2>1, <2>2, <2>3, <2>4
<1>7. ASSUME NEW s \in Chunks, HasWritten(s)
      PROVE  BufferInv' /\ [Queue!Next]_(Queue!vars)
  <2>1. s \in Seq(Byte) BY ChunkFacts
  <2>2. /\ Len(s) <= Writeable(buf) /\ moved' = s /\ broken' = broken /\ buf' = Filled(buf, s)
    BY <1>7 DEF HasWritten, Filled
  <2>3. WellFormed(buf') /\ new = old \o s /\ Len(buf'.mem) = Len(buf.mem)
    BY <1>1, <2>1, <2>2, PutFacts DEF old, new
  <2> QED BY <1>1, <1>3, <1>4, <2>1, <2>2, <2>3
<1>8. ASSUME NEW s \in Chunks, Prepend(s)
      PROVE  BufferInv' /\ [Queue!Next]_(Queue!vars)
  <2>1. s \in Seq(Byte) BY ChunkFacts
  <2>2. Len(s) <= Prependable(buf) /\ moved' = s /\ broken' = broken BY <1>8 DEF Prepend
  <2>3. WellFormed(buf') /\ new = s \o old /\ Len(buf'.mem) = Len(buf.mem)
    BY <1>1, <1>8, <2>1, <2>2, PrependFacts DEF Prepend, old, new
  <2> QED BY <1>1, <1>3, <1>4, <2>1, <2>2, <2>3
<1>9. ASSUME NEW n \in 0 .. MaxChunk, Ensure(n)
      PROVE  BufferInv' /\ [Queue!Next]_(Queue!vars)
  <2>1. n \in Nat /\ n <= MaxChunk OBVIOUS
  <2>2. /\ Readable(buf) + n <= MaxReadable /\ moved' = <<>> /\ broken' = broken
        /\ buf' = EnsureWriteable(buf, n)
    BY <1>9 DEF Ensure, HasRoomFor
  <2>3. /\ WellFormed(buf') /\ new = old
        /\ Len(buf'.mem) = Len(buf.mem) \/ Len(buf'.mem) <= Cheap + Readable(buf) + n + n
    BY <1>1, <2>1, <2>2, EnsureFacts DEF old, new
  <2>4. Len(buf'.mem) <= Limit BY <2>1, <2>2, <2>3, WithinLimit
  <2>5. old \o <<>> = old BY <1>1, ConcatEmptySeq
  <2>6. <<>> \in Seq(Byte) /\ <<>> \in Chunks BY ChunkFacts
  <2> QED BY <1>1, <1>3, <1>4, <2>2, <2>3, <2>4, <2>5, <2>6
<1>10. ASSUME NEW n \in 0 .. MaxReadable, Unwrite(n)
       PROVE  BufferInv' /\ [Queue!Next]_(Queue!vars)
  <2>1. n \in Nat /\ n <= Readable(buf) /\ moved' = <<>> /\ broken' = broken
    BY <1>10 DEF Unwrite
  <2>2. /\ WellFormed(buf') /\ new = SubSeq(old, 1, Len(old) - n)
        /\ Len(buf'.mem) = Len(buf.mem)
    BY <1>1, <1>10, <2>1, UnwriteFacts DEF Unwrite, old, new
  <2>3. <<>> \in Seq(Byte) BY ChunkFacts
  <2> QED BY <1>1, <1>3, <1>5, <2>1, <2>2, <2>3
<1>11. ASSUME NEW n \in 0 .. MaxReadable, Retrieve(n)
       PROVE  BufferInv' /\ [Queue!Next]_(Queue!vars)
  <2>1. /\ n \in Nat /\ n <= Readable(buf) /\ broken' = broken
        /\ moved' = SubSeq(old, 1, n) /\ buf' = Retrieved(buf, n)
    BY <1>11 DEF Retrieve, old
  <2>2. /\ WellFormed(buf') /\ new = SubSeq(old, n + 1, Len(old))
        /\ Len(buf'.mem) = Len(buf.mem)
    BY <1>1, <2>1, RetrieveFacts DEF old, new
  <2>3. SubSeq(old, 0 + 1, n) \in Seq(Byte) BY <1>1, <2>1, PieceFacts
  <2>4. moved' \in Seq(Byte) BY <2>1, <2>3
  <2> QED BY <1>1, <1>3, <1>5, <2>1, <2>2, <2>4
<1>12. CASE ReadFdFails
  <2>1. buf' = buf /\ moved' = moved /\ broken' = TRUE BY <1>12 DEF ReadFdFails
  <2> QED BY <1>1, <1>2, <1>3, <2>1 DEF Queue!vars, old, new
<1>13. CASE UNCHANGED vars
  <2>1. buf' = buf /\ moved' = moved /\ broken' = broken BY <1>13 DEF vars
  <2> QED BY <1>1, <1>2, <1>3, <2>1 DEF Queue!vars, old, new
<1> QED BY <1>6, <1>7, <1>8, <1>9, <1>10, <1>11, <1>12, <1>13 DEF Next, WriteFd

\* What holds of a buffer in every state.
THEOREM BufferInvHolds == Spec => []BufferInv
<1>1. Init => BufferInv BY InitBuffer
<1>2. BufferInv /\ [Next]_vars => BufferInv' BY StepFacts
<1> QED BY <1>1, <1>2, PTL DEF Spec

\* append(), prepend(), retrieve(), unwrite(), readFd(): the bytes between peek() and
\* beginWrite() are a queue, whatever makeSpace() does to the vector.
THEOREM BytesAreAQueue == Spec => QueueSpec
<1>1. Init => Queue!Init BY InitBuffer
<1>2. BufferInv /\ [Next]_vars => [Queue!Next]_(Queue!vars) BY StepFacts
<1> QED BY <1>1, <1>2, BufferInvHolds, PTL DEF Spec, QueueSpec, Queue!Spec

\* makeSpace(): the vector stays within what its user has ever left unread, the room for a
\* header and one string.
THEOREM VectorIsBounded == Spec => []NeverOutgrows
<1>1. ASSUME BufferInv PROVE NeverOutgrows
  <2>1. /\ buf.mem \in Seq(Byte) /\ buf.reader \in Nat /\ buf.writer \in Nat
        /\ buf.reader <= buf.writer /\ buf.writer <= Len(buf.mem) /\ Len(buf.mem) \in Nat
    BY <1>1, ContentFacts DEF BufferInv, WellFormed
  <2>2. buf.reader \in 0 .. buf.writer /\ buf.writer \in 0 .. Len(buf.mem) BY <2>1
  <2> QED BY <1>1, <2>1, <2>2 DEF BufferInv, NeverOutgrows, TypeOK, Limit
<1> QED BY <1>1, BufferInvHolds, PTL

-----------------------------------------------------------------------------
(* The messages in the bytes: MessageParser, for any number of messages.   *)

Msgs == Seq(Cmds)

\* Induction over the natural numbers, for a set.
LEMMA SetInduction ==
  ASSUME NEW S, 0 \in S, \A n \in Nat : n \in S => n + 1 \in S
  PROVE  Nat \subseteq S
<1> DEFINE R == {p \in Nat \X Nat : p[1] < p[2]}
           T == Nat \ S
<1>1. IsWellFoundedOn(R, Nat) BY NatLessThanWellFounded DEF OpToRel
<1>2. \A x, y \in Nat : x < y => <<x, y>> \in R OBVIOUS
<1> HIDE DEF R
<1>3. SUFFICES ASSUME T # {} PROVE FALSE OBVIOUS
<1>4. PICK x \in T : \A y \in T : <<y, x>> \notin R BY <1>1, <1>3, WFMin
<1>5. x \in Nat /\ x # 0 BY <1>4
<1>6. x - 1 \in Nat /\ x - 1 < x /\ (x - 1) + 1 = x BY <1>5
<1>7. x - 1 \in S BY <1>2, <1>4, <1>5, <1>6
<1> QED BY <1>4, <1>6, <1>7

\* A message is a header and its fields.
LEMMA SizeFacts ==
  ASSUME NEW cmd \in Cmds
  PROVE  /\ Fields[cmd] \in Nat
         /\ Size(cmd) = 2 + Fields[cmd]
         /\ cmd # "nullptr" /\ cmd # "junk"
BY DEF Cmds, Fields, Size, Header

\* The function that FoldLeft defines by recursion.
Iter(msgs) == CHOOSE iter : iter =
    [s \in SUBSET DOMAIN msgs |->
        IF s = {} THEN 0
        ELSE LET x == Max(s) IN iter[s \ {x}] + Size(msgs[x])]

\* The largest of numbers up to n + 1 that have n + 1 among them.
LEMMA MaxIsLast ==
  ASSUME NEW n \in Nat, NEW s \in SUBSET (1 .. n + 1), n + 1 \in s
  PROVE  Max(s) = n + 1
<1>1. \A y \in s : n + 1 >= y OBVIOUS
<1>2. Max(s) = CHOOSE x \in s : \A y \in s : x >= y BY DEF Max
<1>3. Max(s) \in s /\ \A y \in s : Max(s) >= y BY <1>1, <1>2
<1>4. Max(s) \in 1 .. n + 1 /\ Max(s) >= n + 1 BY <1>3
<1> QED BY <1>4

\* There is such a function.
LEMMA IterExists ==
  ASSUME NEW msgs, NEW len \in Nat, DOMAIN msgs = 1 .. len
  PROVE  \A s \in SUBSET (1 .. len) :
             Iter(msgs)[s] = IF s = {} THEN 0
                             ELSE Iter(msgs)[s \ {Max(s)}]
                                  + Size(msgs[Max(s)])
<1> DEFINE Add(f, s) == IF s = {} THEN 0
                        ELSE f[s \ {Max(s)}] + Size(msgs[Max(s)])
           Good(n) == \E f : f = [s \in SUBSET (1 .. n) |-> Add(f, s)]
           G == {n \in Nat : Good(n)}
<1>1. Good(0)
  <2> DEFINE f == [s \in SUBSET (1 .. 0) |-> 0]
  <2>1. SUBSET (1 .. 0) = {{}} OBVIOUS
  <2>2. \A s \in SUBSET (1 .. 0) : Add(f, s) = 0 BY <2>1
  <2>3. f = [s \in SUBSET (1 .. 0) |-> Add(f, s)]
    <3> HIDE DEF Add
    <3> QED BY <2>2
  <2> QED BY <2>3
<1>2. ASSUME NEW n \in Nat, Good(n) PROVE Good(n + 1)
  <2>1. PICK f : f = [s \in SUBSET (1 .. n) |-> Add(f, s)] BY <1>2
  <2>2. \A s \in SUBSET (1 .. n) : f[s] = Add(f, s)
    <3> HIDE DEF Add
    <3> QED BY <2>1
  <2> DEFINE g == [s \in SUBSET (1 .. n + 1) |-> IF n + 1 \in s THEN Add(f, s) ELSE f[s]]
  <2>3. ASSUME NEW s \in SUBSET (1 .. n + 1) PROVE g[s] = Add(g, s)
    <3>1. g[s] = Add(f, s)
      <4>1. CASE n + 1 \in s BY <4>1
      <4>2. CASE n + 1 \notin s
        <5>1. s \in SUBSET (1 .. n) BY <4>2
        <5> QED BY <2>2, <4>2, <5>1
      <4> QED BY <4>1, <4>2
    <3>2. s # {} => g[s \ {Max(s)}] = f[s \ {Max(s)}]
      <4> DEFINE r == s \ {Max(s)}
      <4>1. r \in SUBSET (1 .. n + 1) OBVIOUS
      <4>2. n + 1 \notin r
        <5>1. n + 1 \in s => Max(s) = n + 1 BY MaxIsLast
        <5> QED BY <5>1
      <4> HIDE DEF r
      <4>3. g[r] = f[r] BY <4>1, <4>2
      <4> QED BY <4>3 DEF r
    <3> HIDE DEF g
    <3> QED BY <3>1, <3>2
  <2>4. g = [s \in SUBSET (1 .. n + 1) |-> g[s]] OBVIOUS
  <2> HIDE DEF g, Add
  <2>5. g = [s \in SUBSET (1 .. n + 1) |-> Add(g, s)] BY <2>3, <2>4
  <2> QED BY <2>5
<1> HIDE DEF Good
<1>3. 0 \in G /\ \A n \in Nat : n \in G => n + 1 \in G BY <1>1, <1>2
<1> HIDE DEF G
<1>4. len \in G BY <1>3, SetInduction
<1>5. \E f : f = [s \in SUBSET (1 .. len) |-> Add(f, s)] BY <1>4 DEF G, Good
<1>6. Iter(msgs) = [s \in SUBSET (1 .. len) |-> Add(Iter(msgs), s)]
  <2>1. Iter(msgs) = CHOOSE f : f = [s \in SUBSET (1 .. len) |-> Add(f, s)] BY DEF Iter
  <2> HIDE DEF Add
  <2> QED BY <1>5, <2>1
<1>7. \A s \in SUBSET (1 .. len) : Iter(msgs)[s] = Add(Iter(msgs), s)
  <2> HIDE DEF Add
  <2> QED BY <1>6
<1> QED BY <1>7

\* The fold over the first messages, message by message.
LEMMA IterStep ==
  ASSUME NEW msgs \in Msgs
  PROVE  /\ TotalSize(msgs) = Iter(msgs)[1 .. Len(msgs)]
         /\ Iter(msgs)[1 .. 0] = 0
         /\ \A n \in Nat : n + 1 <= Len(msgs) =>
                Iter(msgs)[1 .. n + 1] = Iter(msgs)[1 .. n] + Size(msgs[n + 1])
<1>1. Len(msgs) \in Nat /\ DOMAIN msgs = 1 .. Len(msgs) BY LenProperties DEF Msgs
<1>2. \A s \in SUBSET (1 .. Len(msgs)) :
          Iter(msgs)[s] = IF s = {} THEN 0
                          ELSE Iter(msgs)[s \ {Max(s)}]
                               + Size(msgs[Max(s)])
  BY <1>1, IterExists
<1>3. TotalSize(msgs) = Iter(msgs)[DOMAIN msgs]
  BY DEF TotalSize, FoldLeft, MapThenFoldSet, Iter
<1>4. Iter(msgs)[1 .. 0] = 0
  <2>1. 1 .. 0 = {} /\ {} \in SUBSET (1 .. Len(msgs)) OBVIOUS
  <2> QED BY <1>2, <2>1
<1>5. ASSUME NEW n \in Nat, n + 1 <= Len(msgs)
      PROVE  Iter(msgs)[1 .. n + 1] = Iter(msgs)[1 .. n] + Size(msgs[n + 1])
  <2> DEFINE s == 1 .. n + 1
  <2>1. s \in SUBSET (1 .. Len(msgs)) /\ s # {} /\ n + 1 \in s
    <3>1. n + 1 \in 1 .. n + 1 OBVIOUS
    <3>2. \A i \in 1 .. n + 1 : i \in 1 .. Len(msgs) BY <1>1, <1>5
    <3> QED BY <3>1, <3>2
  <2>2. Max(s) = n + 1 /\ s \ {n + 1} = 1 .. n BY <2>1, MaxIsLast
  <2> HIDE DEF s
  <2>3. Iter(msgs)[s] = Iter(msgs)[1 .. n] + Size(msgs[n + 1]) BY <1>2, <2>1, <2>2
  <2> QED BY <2>3 DEF s
<1> QED BY <1>1, <1>3, <1>4, <1>5

\* What a message more takes.
LEMMA TotalFacts ==
  ASSUME NEW msgs \in Msgs
  PROVE  /\ TotalSize(msgs) \in Nat
         /\ msgs = <<>> => TotalSize(msgs) = 0
         /\ \A cmd \in Cmds :
                TotalSize(Append(msgs, cmd)) = TotalSize(msgs) + Size(cmd)
<1> DEFINE len == Len(msgs)
<1>1. len \in Nat /\ \A i \in 1 .. len : msgs[i] \in Cmds
  BY LenProperties, ElementOfSeq DEF Msgs
<1>2. TotalSize(msgs) \in Nat
  <2> DEFINE Good(n) == n <= len => Iter(msgs)[1 .. n] \in Nat
             G == {n \in Nat : Good(n)}
  <2>1. Good(0) BY IterStep
  <2>2. ASSUME NEW n \in Nat, Good(n) PROVE Good(n + 1)
    <3>1. SUFFICES ASSUME n + 1 <= len PROVE Iter(msgs)[1 .. n + 1] \in Nat OBVIOUS
    <3>2. Iter(msgs)[1 .. n] \in Nat /\ msgs[n + 1] \in Cmds BY <1>1, <2>2, <3>1
    <3>3. Size(msgs[n + 1]) \in Nat BY <3>2, SizeFacts
    <3>4. Iter(msgs)[1 .. n + 1] = Iter(msgs)[1 .. n] + Size(msgs[n + 1])
      BY <3>1, IterStep
    <3> QED BY <3>2, <3>3, <3>4
  <2> HIDE DEF Good
  <2>3. 0 \in G /\ \A n \in Nat : n \in G => n + 1 \in G BY <2>1, <2>2
  <2> HIDE DEF G
  <2>4. len \in G BY <1>1, <2>3, SetInduction
  <2>5. Iter(msgs)[1 .. len] \in Nat BY <1>1, <2>4 DEF G, Good
  <2> QED BY <2>5, IterStep
<1>3. msgs = <<>> => TotalSize(msgs) = 0
  <2>1. msgs = <<>> => Len(msgs) = 0 OBVIOUS
  <2> QED BY <2>1, IterStep
<1>4. ASSUME NEW cmd \in Cmds
      PROVE  TotalSize(Append(msgs, cmd)) = TotalSize(msgs) + Size(cmd)
  <2> DEFINE more == Append(msgs, cmd)
  <2>1. more \in Msgs /\ Len(more) = len + 1 /\ more[len + 1] = cmd
        /\ \A i \in 1 .. len : more[i] = msgs[i]
    BY <1>1, AppendProperties DEF Msgs
  <2> HIDE DEF more
  <2> DEFINE Good(n) == n <= len => Iter(more)[1 .. n] = Iter(msgs)[1 .. n]
             G == {n \in Nat : Good(n)}
  <2>2. Good(0) BY <2>1, IterStep
  <2>3. ASSUME NEW n \in Nat, Good(n) PROVE Good(n + 1)
    <3>1. SUFFICES ASSUME n + 1 <= len PROVE Iter(more)[1 .. n + 1] = Iter(msgs)[1 .. n + 1]
      OBVIOUS
    <3>2. n + 1 \in 1 .. len /\ n <= len /\ n + 1 <= Len(more) BY <1>1, <2>1, <3>1
    <3>3. Iter(more)[1 .. n + 1] = Iter(more)[1 .. n] + Size(more[n + 1])
      BY <2>1, <3>2, IterStep
    <3>4. Iter(msgs)[1 .. n + 1] = Iter(msgs)[1 .. n] + Size(msgs[n + 1])
      BY <3>1, IterStep
    <3> QED BY <2>1, <2>3, <3>2, <3>3, <3>4
  <2> HIDE DEF Good
  <2>4. 0 \in G /\ \A n \in Nat : n \in G => n + 1 \in G BY <2>2, <2>3
  <2> HIDE DEF G
  <2>5. len \in G BY <1>1, <2>4, SetInduction
  <2>6. Iter(more)[1 .. len] = Iter(msgs)[1 .. len] BY <1>1, <2>5 DEF G, Good
  <2>7. Iter(more)[1 .. len + 1] = Iter(more)[1 .. len] + Size(cmd)
    BY <1>1, <2>1, IterStep
  <2>8. TotalSize(more) = Iter(more)[1 .. len + 1]
    BY <2>1, IterStep
  <2>9. TotalSize(msgs) = Iter(msgs)[1 .. len] BY IterStep
  <2> QED BY <2>6, <2>7, <2>8, <2>9 DEF more
<1> QED BY <1>2, <1>3, <1>4

\* Where the message after the first k begins.
At(k) == TotalSize(SubSeq(sent, 1, k))

\* The inductive invariant of the parser: what is handled are the first messages, what
\* is taken are those and the header in hand, which is the next message's.
ParserInv ==
    /\ ParserTypeOK
    /\ Len(handled) <= Len(sent) /\ handled = SubSeq(sent, 1, Len(handled))
    /\ taken = At(Len(handled)) + (IF header = None THEN 0 ELSE Header)
    /\ header # None => /\ busy /\ Len(handled) < Len(sent)
                        /\ header = sent[Len(handled) + 1]

\* One message more, at the end of those there are or behind the first n.
LEMMA FirstMessages ==
  ASSUME NEW msgs \in Msgs, NEW n \in Nat, n <= Len(msgs)
  PROVE  /\ SubSeq(msgs, 1, n) \in Msgs /\ Len(SubSeq(msgs, 1, n)) = n
         /\ n < Len(msgs) => /\ msgs[n + 1] \in Cmds
                             /\ SubSeq(msgs, 1, n + 1) = Append(SubSeq(msgs, 1, n), msgs[n + 1])
         /\ \A cmd \in Cmds : SubSeq(Append(msgs, cmd), 1, n) = SubSeq(msgs, 1, n)
<1>1. Len(msgs) \in Nat /\ \A i \in 1 .. Len(msgs) : msgs[i] \in Cmds
  BY LenProperties, ElementOfSeq DEF Msgs
<1>2. ASSUME NEW m \in Nat, m <= Len(msgs)
      PROVE  /\ SubSeq(msgs, 1, m) \in Msgs /\ Len(SubSeq(msgs, 1, m)) = m
             /\ \A i \in 1 .. m : SubSeq(msgs, 1, m)[i] = msgs[i]
  <2>1. \A i \in 1 .. m : msgs[i] \in Cmds BY <1>1, <1>2
  <2>2. 1 \in Int /\ m \in Int /\ msgs \in Seq(Cmds) BY DEF Msgs
  <2>3. /\ SubSeq(msgs, 1, m) \in Seq(Cmds)
        /\ Len(SubSeq(msgs, 1, m)) = IF 1 <= m THEN m - 1 + 1 ELSE 0
        /\ \A i \in 1 .. m - 1 + 1 : SubSeq(msgs, 1, m)[i] = msgs[1 + i - 1]
    BY <2>1, <2>2, SubSeqProperties
  <2> QED BY <2>3 DEF Msgs
<1>3. ASSUME n < Len(msgs)
      PROVE  /\ msgs[n + 1] \in Cmds
             /\ SubSeq(msgs, 1, n + 1) = Append(SubSeq(msgs, 1, n), msgs[n + 1])
  <2>1. n + 1 \in 1 .. Len(msgs) /\ n + 1 \in Nat /\ n + 1 <= Len(msgs) BY <1>1, <1>3
  <2>2. msgs[n + 1] \in Cmds BY <1>1, <2>1
  <2> DEFINE a == SubSeq(msgs, 1, n + 1)
             b == Append(SubSeq(msgs, 1, n), msgs[n + 1])
  <2>3. a \in Msgs /\ Len(a) = n + 1 /\ \A i \in 1 .. n + 1 : a[i] = msgs[i] BY <1>2, <2>1
  <2>4. b \in Msgs /\ Len(b) = n + 1 /\ \A i \in 1 .. n + 1 : b[i] = msgs[i]
    <3>1. /\ SubSeq(msgs, 1, n) \in Seq(Cmds) /\ Len(SubSeq(msgs, 1, n)) = n
          /\ \A i \in 1 .. n : SubSeq(msgs, 1, n)[i] = msgs[i]
      BY <1>2 DEF Msgs
    <3> QED BY <2>2, <3>1, AppendProperties DEF Msgs
  <2> HIDE DEF a, b
  <2>5. a = b BY <2>3, <2>4, SeqEqual DEF Msgs
  <2> QED BY <2>2, <2>5 DEF a, b
<1>4. ASSUME NEW cmd \in Cmds
      PROVE  SubSeq(Append(msgs, cmd), 1, n) = SubSeq(msgs, 1, n)
  <2> DEFINE more == Append(msgs, cmd)
             a == SubSeq(more, 1, n)
             b == SubSeq(msgs, 1, n)
  <2>1. /\ more \in Seq(Cmds) /\ Len(more) = Len(msgs) + 1
        /\ \A i \in 1 .. Len(msgs) : more[i] = msgs[i]
    BY <1>1, AppendProperties DEF Msgs
  <2> HIDE DEF more
  <2>2. \A i \in 1 .. n : more[i] = msgs[i] /\ msgs[i] \in Cmds BY <1>1, <2>1
  <2>3. 1 \in Int /\ n \in Int OBVIOUS
  <2>4. /\ a \in Seq(Cmds)
        /\ Len(a) = IF 1 <= n THEN n - 1 + 1 ELSE 0
        /\ \A i \in 1 .. n - 1 + 1 : a[i] = more[1 + i - 1]
    BY <2>1, <2>2, <2>3, SubSeqProperties
  <2>5. Len(a) = n /\ \A i \in 1 .. n : a[i] = msgs[i] BY <2>2, <2>4
  <2>6. b \in Msgs /\ Len(b) = n /\ \A i \in 1 .. n : b[i] = msgs[i] BY <1>2
  <2> HIDE DEF a, b
  <2>7. a = b BY <2>4, <2>5, <2>6, SeqEqual DEF Msgs
  <2> QED BY <2>7 DEF a, b, more
<1> QED BY <1>2, <1>3, <1>4

\* A message begins where the one before it ends, and no two begin at one place.
LEMMA Begins ==
  ASSUME sent \in Msgs
  PROVE  /\ At(0) = 0 /\ At(Len(sent)) = TotalSize(sent)
         /\ \A k \in 0 .. Len(sent) : At(k) \in Nat
         /\ \A k \in Nat : k < Len(sent) => At(k + 1) = At(k) + Size(sent[k + 1])
         /\ \A k \in Nat : k <= Len(sent) => \A j \in 0 .. k : j < k => At(j) < At(k)
<1>1. Len(sent) \in Nat /\ SubSeq(sent, 1, Len(sent)) = sent
  BY LenProperties, SubSeqFull DEF Msgs
<1>2. At(0) = 0
  <2>1. SubSeq(sent, 1, 0) \in Msgs /\ Len(SubSeq(sent, 1, 0)) = 0 BY <1>1, FirstMessages
  <2>2. SubSeq(sent, 1, 0) = <<>> BY <2>1, EmptySeq DEF Msgs
  <2> QED BY <2>1, <2>2, TotalFacts DEF At
<1>3. At(Len(sent)) = TotalSize(sent) BY <1>1 DEF At
<1>4. \A k \in 0 .. Len(sent) : At(k) \in Nat
  <2>1. SUFFICES ASSUME NEW k \in 0 .. Len(sent) PROVE At(k) \in Nat OBVIOUS
  <2>2. SubSeq(sent, 1, k) \in Msgs BY <1>1, <2>1, FirstMessages
  <2> QED BY <2>2, TotalFacts DEF At
<1>5. ASSUME NEW k \in Nat, k < Len(sent)
      PROVE  At(k + 1) = At(k) + Size(sent[k + 1]) /\ At(k) < At(k + 1)
  <2>1. SubSeq(sent, 1, k) \in Msgs /\ sent[k + 1] \in Cmds
        /\ SubSeq(sent, 1, k + 1) = Append(SubSeq(sent, 1, k), sent[k + 1])
    BY <1>1, <1>5, FirstMessages
  <2>2. At(k + 1) = At(k) + Size(sent[k + 1]) BY <2>1, TotalFacts DEF At
  <2>3. Size(sent[k + 1]) \in Nat /\ Size(sent[k + 1]) > 0 BY <2>1, SizeFacts
  <2>4. At(k) \in Nat BY <1>1, <1>4, <1>5
  <2> QED BY <2>2, <2>3, <2>4
<1>6. \A k \in Nat : k <= Len(sent) => \A j \in 0 .. k : j < k => At(j) < At(k)
  <2> DEFINE Good(k) == k <= Len(sent) => \A j \in 0 .. k : j < k => At(j) < At(k)
             G == {k \in Nat : Good(k)}
  <2>1. Good(0) OBVIOUS
  <2>2. ASSUME NEW k \in Nat, Good(k) PROVE Good(k + 1)
    <3>1. SUFFICES ASSUME k + 1 <= Len(sent), NEW j \in 0 .. k + 1, j < k + 1
                   PROVE  At(j) < At(k + 1)
      OBVIOUS
    <3>2. k < Len(sent) /\ k <= Len(sent) BY <1>1, <3>1
    <3>3. At(k) < At(k + 1) BY <1>5, <3>2
    <3>4. k \in 0 .. Len(sent) /\ k + 1 \in 0 .. Len(sent) /\ j \in 0 .. Len(sent)
      BY <1>1, <3>1
    <3>5. At(k) \in Nat /\ At(k + 1) \in Nat /\ At(j) \in Nat BY <1>4, <3>4
    <3>6. CASE j = k BY <3>3, <3>6
    <3>7. CASE j < k
      <4>1. j \in 0 .. k BY <3>7
      <4>2. At(j) < At(k) BY <2>2, <3>2, <3>7, <4>1
      <4> QED BY <3>3, <3>5, <4>2
    <3> QED BY <3>1, <3>6, <3>7
  <2> HIDE DEF Good
  <2>3. 0 \in G /\ \A k \in Nat : k \in G => k + 1 \in G BY <2>1, <2>2
  <2> HIDE DEF G
  <2>4. \A k \in Nat : k \in G BY <2>3, SetInduction
  <2> QED BY <2>4 DEF G, Good
<1> QED BY <1>2, <1>3, <1>4, <1>5, <1>6

\* The header at the beginning of a message is that message's.
LEMMA HeaderIsNext ==
  ASSUME sent \in Msgs, NEW n \in Nat, n < Len(sent)
  PROVE  HeaderAt(At(n)) = sent[n + 1]
<1>1. Len(sent) \in Nat /\ DOMAIN sent = 1 .. Len(sent) BY LenProperties DEF Msgs
<1>2. ASSUME NEW k \in DOMAIN sent
      PROVE  TotalSize(SubSeq(sent, 1, k - 1)) = At(n) <=> k = n + 1
  <2>1. k \in Nat /\ k - 1 \in Nat /\ k - 1 < Len(sent) /\ (k - 1) + 1 = k BY <1>1, <1>2
  <2>2. TotalSize(SubSeq(sent, 1, k - 1)) = At(k - 1) BY DEF At
  <2>3. CASE k - 1 < n
    <3>1. k - 1 \in 0 .. n /\ k - 1 \in 0 .. Len(sent) /\ n \in 0 .. Len(sent) /\ n <= Len(sent)
      BY <1>1, <2>1, <2>3
    <3>2. At(k - 1) < At(n) /\ At(k - 1) \in Nat /\ At(n) \in Nat BY <2>3, <3>1, Begins
    <3> QED BY <2>1, <2>2, <2>3, <3>2
  <2>4. CASE n < k - 1
    <3>1. n \in 0 .. k - 1 /\ k - 1 \in 0 .. Len(sent) /\ n \in 0 .. Len(sent)
          /\ k - 1 <= Len(sent)
      BY <1>1, <2>1, <2>4
    <3>2. At(n) < At(k - 1) /\ At(k - 1) \in Nat /\ At(n) \in Nat BY <2>1, <2>4, <3>1, Begins
    <3> QED BY <2>1, <2>2, <2>4, <3>2
  <2>5. CASE k - 1 = n BY <2>1, <2>2, <2>5
  <2> QED BY <2>1, <2>3, <2>4, <2>5
<1>3. n + 1 \in DOMAIN sent BY <1>1
<1>4. (CHOOSE k \in DOMAIN sent : TotalSize(SubSeq(sent, 1, k - 1)) = At(n)) = n + 1
  BY <1>2, <1>3
<1> QED BY <1>2, <1>3, <1>4 DEF HeaderAt

\* At first nothing has been sent.
LEMMA ParserStart == ParserInit => ParserInv
<1> SUFFICES ASSUME ParserInit PROVE ParserInv
  OBVIOUS
<1>1. sent = <<>> /\ arrived = 0 /\ taken = 0 /\ header = None /\ busy = FALSE
      /\ handled = <<>> /\ segments \in Segments
  BY DEF ParserInit
<1>2. sent \in Msgs /\ handled \in Msgs /\ Len(sent) = 0 /\ Len(handled) = 0
  BY <1>1, EmptySeq DEF Msgs
<1>3. TotalSize(sent) = 0 BY <1>1, <1>2, TotalFacts
<1>4. ParserTypeOK
  <2>1. MaxMessages \in Nat BY ParserAssumption
  <2>2. Len(sent) <= MaxMessages BY <1>2, <2>1
  <2>3. arrived \in 0 .. TotalSize(sent) /\ taken \in 0 .. arrived BY <1>1, <1>3
  <2> QED BY <1>1, <1>2, <2>2, <2>3 DEF ParserTypeOK, Msgs
<1>5. At(Len(handled)) = 0 BY <1>2, Begins
<1>6. handled = SubSeq(sent, 1, Len(handled))
  <2>1. SubSeq(sent, 1, 0) \in Msgs /\ Len(SubSeq(sent, 1, 0)) = 0 BY <1>2, FirstMessages
  <2> QED BY <1>1, <1>2, <2>1, EmptySeq DEF Msgs
<1> QED BY <1>1, <1>2, <1>4, <1>5, <1>6 DEF ParserInv

\* What the client sends comes behind all there is.
LEMMA SendStep ==
  ASSUME ParserInv, NEW cmd \in Cmds, ClientSends(cmd)
  PROVE  ParserInv'
<1>1. /\ Len(sent) < MaxMessages /\ sent' = Append(sent, cmd)
      /\ segments' = segments /\ arrived' = arrived /\ taken' = taken /\ header' = header
      /\ busy' = busy /\ handled' = handled
  BY DEF ClientSends
<1>2. /\ segments \in Segments /\ sent \in Msgs /\ handled \in Msgs
      /\ arrived \in 0 .. TotalSize(sent) /\ taken \in 0 .. arrived
      /\ header \in Cmds \union {None, "junk"} /\ busy \in BOOLEAN
  BY DEF ParserInv, ParserTypeOK, Msgs
<1>3. Len(sent) \in Nat /\ Len(handled) \in Nat /\ MaxMessages \in Nat
  BY <1>2, LenProperties, ParserAssumption DEF Msgs
<1>4. Len(handled) <= Len(sent) BY DEF ParserInv
<1>5. sent' \in Msgs /\ Len(sent') = Len(sent) + 1
      /\ \A i \in 1 .. Len(sent) : sent'[i] = sent[i]
  BY <1>1, <1>2, AppendProperties DEF Msgs
<1>6. TotalSize(sent)' = TotalSize(sent) + Size(cmd)
  <2>1. TotalSize(Append(sent, cmd)) = TotalSize(sent) + Size(cmd)
    BY <1>2, TotalFacts
  <2>2. TotalSize(sent)' = TotalSize(sent')
    OBVIOUS
  <2> QED BY <1>1, <2>1, <2>2
<1>7. TotalSize(sent) \in Nat /\ Size(cmd) \in Nat BY <1>2, TotalFacts, SizeFacts
<1>8. SubSeq(sent', 1, Len(handled)) = SubSeq(sent, 1, Len(handled))
  BY <1>1, <1>2, <1>3, <1>4, FirstMessages
<1>9. ParserTypeOK'
  <2>1. sent' \in Seq(Cmds) /\ Len(sent') <= MaxMessages
    BY <1>1, <1>3, <1>5 DEF Msgs
  <2>2. arrived' \in 0 .. TotalSize(sent)' BY <1>1, <1>2, <1>6, <1>7
  <2> QED BY <1>1, <1>2, <2>1, <2>2 DEF ParserTypeOK, Msgs
<1>10. At(Len(handled))' = At(Len(handled))
  BY <1>1, <1>8 DEF At
<1>11. Len(handled) < Len(sent) => sent'[Len(handled) + 1] = sent[Len(handled) + 1]
  BY <1>3, <1>5
<1>12. /\ Len(handled') <= Len(sent') /\ handled' = SubSeq(sent', 1, Len(handled'))
  BY <1>1, <1>3, <1>4, <1>5, <1>8 DEF ParserInv
<1>13. taken' = (At(Len(handled)) + (IF header = None THEN 0 ELSE Header))'
  BY <1>1, <1>10 DEF ParserInv, None, Header
<1>14. header' # None => /\ busy' /\ Len(handled') < Len(sent')
                         /\ header' = sent'[Len(handled') + 1]
  BY <1>1, <1>3, <1>5, <1>11 DEF ParserInv
<1> QED BY <1>9, <1>12, <1>13, <1>14 DEF ParserInv, None

\* A read event finds onMessage() without a header in hand.
LEMMA ReadEventStep ==
  ASSUME ParserInv, Arrives PROVE ParserInv'
<1>1. PICK end \in arrived + 1 .. TotalSize(sent) : ReadEvent(end)
  BY DEF Arrives
<1>2. /\ ~busy /\ arrived' = end /\ busy' = TRUE /\ header' = None
      /\ segments' = segments /\ sent' = sent /\ taken' = taken /\ handled' = handled
  BY <1>1 DEF ReadEvent
<1>3. header = None BY <1>2 DEF ParserInv
<1>4. sent \in Msgs /\ arrived \in 0 .. TotalSize(sent) /\ taken \in 0 .. arrived
  BY DEF ParserInv, ParserTypeOK, Msgs
<1>5. TotalSize(sent) \in Nat BY <1>4, TotalFacts
<1>6. end \in 0 .. TotalSize(sent) /\ taken \in 0 .. end BY <1>1, <1>4, <1>5
<1>7. TotalSize(sent)' = TotalSize(sent) BY <1>2
<1>8. ParserTypeOK' BY <1>2, <1>6, <1>7 DEF ParserInv, ParserTypeOK
<1>9. At(Len(handled))' = At(Len(handled)) BY <1>2 DEF At
<1>10. taken' = (At(Len(handled)) + (IF header = None THEN 0 ELSE Header))'
  BY <1>2, <1>3, <1>9 DEF ParserInv, None, Header
<1>11. Len(handled') <= Len(sent') /\ handled' = SubSeq(sent', 1, Len(handled'))
  BY <1>2 DEF ParserInv
<1> QED BY <1>2, <1>8, <1>10, <1>11 DEF ParserInv, None

\* A round of onMessage() takes nothing, the next message's header, its body, or both.
LEMMA GetParserResultStep ==
  ASSUME ParserInv, GetParserResult PROVE ParserInv'
<1> DEFINE n == Len(handled)
           cmd == IF header = None THEN HeaderAt(taken) ELSE header
           after == IF header = None THEN taken + Header ELSE taken
<1>1. busy /\ segments' = segments /\ sent' = sent /\ arrived' = arrived
  BY DEF GetParserResult
<1>2. /\ segments \in Segments /\ sent \in Msgs /\ Len(sent) <= MaxMessages
      /\ handled \in Msgs
      /\ arrived \in 0 .. TotalSize(sent) /\ taken \in 0 .. arrived
      /\ header \in Cmds \union {None, "junk"}
  BY DEF ParserInv, ParserTypeOK, Msgs
<1>3. n \in Nat /\ Len(sent) \in Nat /\ n <= Len(sent) /\ handled = SubSeq(sent, 1, n)
  BY <1>2, LenProperties DEF Msgs, ParserInv
<1>4. TotalSize(sent) \in Nat /\ At(n) \in Nat BY <1>2, <1>3, TotalFacts, Begins
<1>5. TotalSize(sent)' = TotalSize(sent) BY <1>1
<1>6. CASE UNCHANGED <<taken, header, busy, handled>>
  <2>1. taken' = taken /\ header' = header /\ busy' = busy /\ handled' = handled BY <1>6
  <2>2. ParserTypeOK' BY <1>1, <1>5, <2>1 DEF ParserInv, ParserTypeOK
  <2>3. At(n)' = At(n) BY <1>1, <2>1 DEF At
  <2> HIDE DEF n
  <2>4. taken' = (At(Len(handled)) + (IF header = None THEN 0 ELSE Header))'
    BY <2>1, <2>3 DEF ParserInv, None, Header, n
  <2> QED BY <1>1, <2>1, <2>2, <2>4 DEF ParserInv, None
<1>7. CASE HasHeader /\ (Result(cmd, after) \/ NoResult(cmd, after))
  <2>1. n < Len(sent) /\ cmd = sent[n + 1] /\ after = At(n) + 2 /\ after <= arrived
    <3>1. CASE header = None
      <4>1. arrived - taken >= 2 /\ taken = At(n)
        BY <1>4, <1>7, <3>1 DEF ParserInv, HasHeader, Unread, Header
      <4>2. At(n) < TotalSize(sent) BY <1>2, <1>4, <4>1
      <4>3. n # Len(sent) BY <1>2, <1>4, <4>2, Begins
      <4>4. n < Len(sent) BY <1>3, <4>3
      <4>5. cmd = sent[n + 1] BY <1>2, <1>3, <3>1, <4>1, <4>4, HeaderIsNext
      <4>6. after = At(n) + 2 /\ after <= arrived BY <1>2, <1>4, <3>1, <4>1 DEF Header
      <4> QED BY <4>4, <4>5, <4>6
    <3>2. CASE header # None
      <4>1. n < Len(sent) /\ header = sent[n + 1] /\ taken = At(n) + 2
        BY <3>2 DEF ParserInv, Header
      <4> QED BY <1>2, <3>2, <4>1
    <3> QED BY <3>1, <3>2
  <2>2. cmd \in Cmds /\ SubSeq(sent, 1, n + 1) = Append(handled, cmd)
    BY <1>2, <1>3, <2>1, FirstMessages
  <2>3. Fields[cmd] \in Nat /\ Size(cmd) = 2 + Fields[cmd]
        /\ cmd # "nullptr" /\ cmd # "junk"
    BY <2>2, SizeFacts
  <2> HIDE DEF cmd, after
  <2>4. CASE Result(cmd, after)
    <3>1. /\ arrived - after >= Fields[cmd] /\ taken' = after + Fields[cmd]
          /\ handled' = Append(handled, cmd) /\ header' = None /\ busy' = FALSE
      BY <2>4 DEF Result, HasBody, RetrievedFields
    <3>2. At(n + 1) = At(n) + Size(cmd) BY <1>2, <1>3, <2>1, Begins
    <3>3. taken' = At(n + 1) /\ taken' \in 0 .. arrived
      <4> DEFINE f == Fields[cmd]
                 u == Size(cmd)
                 a == At(n)
                 b == At(n + 1)
      <4>1. f \in Nat /\ u = 2 + f /\ a \in Nat /\ b = a + u /\ after = a + 2
        BY <1>4, <2>1, <2>3, <3>2
      <4>2. arrived - after >= f /\ taken' = after + f BY <3>1
      <4>3. arrived \in Nat BY <1>2, <1>4
      <4> HIDE DEF f, u, a, b
      <4>4. taken' = b /\ taken' \in 0 .. arrived BY <4>1, <4>2, <4>3
      <4> QED BY <4>4 DEF b
    <3>4. handled' \in Msgs /\ Len(handled') = n + 1
      BY <1>2, <2>2, <3>1, AppendProperties DEF Msgs
    <3>5. ParserTypeOK'
      BY <1>1, <1>2, <1>5, <3>1, <3>3, <3>4 DEF ParserTypeOK, Msgs, None
    <3>6. handled' = SubSeq(sent', 1, Len(handled')) /\ Len(handled') <= Len(sent')
      BY <1>1, <1>3, <2>1, <2>2, <3>1, <3>4
    <3>7. At(Len(handled))' = At(n + 1)
      <4>1. At(Len(handled))' = TotalSize(SubSeq(sent', 1, Len(handled')))
        BY DEF At
      <4> QED BY <1>1, <3>4, <4>1 DEF At
    <3>8. taken' = (At(Len(handled)) + (IF header = None THEN 0 ELSE Header))'
      <4>1. At(n + 1) \in Nat BY <1>2, <1>3, <2>1, Begins
      <4> QED BY <3>1, <3>3, <3>7, <4>1 DEF None
    <3> QED BY <3>1, <3>5, <3>6, <3>8 DEF ParserInv, None
  <2>5. CASE NoResult(cmd, after)
    <3>1. taken' = after /\ header' = cmd /\ busy' = busy /\ handled' = handled
      BY <2>5 DEF NoResult
    <3>2. after \in 0 .. arrived BY <1>2, <1>4, <2>1
    <3>3. ParserTypeOK'
      BY <1>1, <1>2, <1>5, <2>2, <3>1, <3>2 DEF ParserInv, ParserTypeOK, None
    <3>4. At(n)' = At(n) BY <1>1, <3>1 DEF At
    <3>5. taken' = (At(Len(handled)) + (IF header = None THEN 0 ELSE Header))'
      BY <2>1, <2>3, <3>1, <3>4 DEF None, Header
    <3>6. Len(handled') <= Len(sent') /\ handled' = SubSeq(sent', 1, Len(handled'))
      BY <1>1, <1>3, <3>1
    <3>7. busy' /\ Len(handled') < Len(sent') /\ header' = sent'[Len(handled') + 1]
      BY <1>1, <2>1, <3>1
    <3> QED BY <3>3, <3>5, <3>6, <3>7 DEF ParserInv, None
  <2> QED BY <1>7, <2>4, <2>5
<1> QED BY <1>6, <1>7 DEF GetParserResult

\* Every step keeps the invariant.
LEMMA ParserStep == ParserInv /\ [ParserNext]_parserVars => ParserInv'
<1> SUFFICES ASSUME ParserInv, [ParserNext]_parserVars PROVE ParserInv'
  OBVIOUS
<1>1. ASSUME NEW cmd \in Cmds, ClientSends(cmd) PROVE ParserInv'
  BY <1>1, SendStep
<1>2. CASE Arrives BY <1>2, ReadEventStep
<1>3. CASE GetParserResult BY <1>3, GetParserResultStep
<1>4. CASE UNCHANGED parserVars
  <2>1. UNCHANGED <<segments, sent, arrived, taken, header, busy, handled>>
    BY <1>4 DEF parserVars
  <2>2. At(Len(handled))' = At(Len(handled)) BY <2>1 DEF At
  <2>3. ParserTypeOK' BY <2>1 DEF ParserInv, ParserTypeOK
  <2> QED BY <2>1, <2>2, <2>3 DEF ParserInv, None, Header
<1> QED BY <1>1, <1>2, <1>3, <1>4 DEF ParserNext

\* The inductive invariant of the parser holds always.
THEOREM ParserInvHolds == ParserSpec => []ParserInv
<1>1. ParserInit => ParserInv BY ParserStart
<1>2. ParserInv /\ [ParserNext]_parserVars => ParserInv' BY ParserStep
<1> QED BY <1>1, <1>2, PTL DEF ParserSpec

\* The messages onMessage() acts on are those that were sent, each once and in order, in
\* whatever pieces the stream comes: getParserResult() takes no field for a header.
THEOREM MessagesInOrder == ParserSpec => []HandledInOrder
<1>1. ParserInv => HandledInOrder
  <2> SUFFICES ASSUME ParserInv PROVE HandledInOrder OBVIOUS
  <2>1. ParserTypeOK BY DEF ParserInv
  <2>2. sent \in Msgs /\ handled \in Msgs BY <2>1 DEF ParserTypeOK, Msgs
  <2>3. IsPrefix(handled, sent)
    <3>1. SubSeq(handled, 1, Len(handled)) = handled BY <2>2, SubSeqFull DEF Msgs
    <3> QED BY <3>1 DEF ParserInv, IsPrefix
  <2>4. header # "junk"
    <3>1. CASE header = None BY <3>1 DEF None
    <3>2. CASE header # None
      <4>1. Len(handled) < Len(sent) /\ header = sent[Len(handled) + 1] BY <3>2 DEF ParserInv
      <4>2. Len(handled) \in Nat BY <2>2, LenProperties DEF Msgs
      <4>3. header \in Cmds BY <2>2, <4>1, <4>2, FirstMessages
      <4> QED BY <4>3, SizeFacts
    <3> QED BY <3>1, <3>2
  <2> QED BY <2>1, <2>3, <2>4 DEF HandledInOrder
<1> QED BY <1>1, ParserInvHolds, PTL
=============================================================================
