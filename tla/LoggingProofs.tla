---------------------------- MODULE LoggingProofs ----------------------------
(***************************************************************************)
(* Proofs about the log of a program that starts, from the pieces of a     *)
(* line to the file, for any sizes, threads, messages and lines: no line   *)
(* overruns its buffer (StreamsFit), the assertions on the four buffers    *)
(* hold (BuffersGoRound), every line is in the file or on its way, once    *)
(* and in order (NoLineIsMislaid), one process serves (OneProcessServes)   *)
(* and has the thread of its log (LogIsServed).                            *)
(*                                                                         *)
(* The log's lines are folded and flattened, which are recursive.  What    *)
(* recursion computes is proved by induction, and this from the fact that  *)
(* a set of natural numbers has a least one.                               *)
(***************************************************************************)
EXTENDS Startup, SequenceTheorems, FiniteSetTheorems, WellFoundedInduction, TLAPS

\* Induction over the natural numbers, for a set.
LEMMA SetInduction ==
  ASSUME NEW S, 0 \in S, \A n \in Nat : n \in S => n + 1 \in S
  PROVE  Nat \subseteq S
<1> DEFINE R == {p \in Nat \X Nat : p[1] < p[2]}
           T == Nat \ S
<1>1. IsWellFoundedOn(R, Nat) BY NatLessThanWellFounded DEF OpToRel
<1>2. \A x, y \in Nat : x < y => <<x, y>> \in R OBVIOUS
<1> HIDE DEF R
<1>3. SUFFICES ASSUME T # {} PROVE FALSE OBVIOUS
<1>4. PICK x \in T : \A y \in T : <<y, x>> \notin R BY <1>1, <1>3, WFMin
<1>5. x \in Nat /\ x # 0 BY <1>4
<1>6. x - 1 \in Nat /\ x - 1 < x /\ (x - 1) + 1 = x BY <1>5
<1>7. x - 1 \in S BY <1>2, <1>4, <1>5, <1>6
<1> QED BY <1>4, <1>6, <1>7

-----------------------------------------------------------------------------
(* Sequences.                                                              *)

\* A prefix that is one longer.
LEMMA LongerPrefix ==
  ASSUME NEW S, NEW s \in Seq(S), NEW k \in Nat, NEW n \in Nat, k <= n, n < Len(s)
  PROVE  /\ s[n + 1] \in S /\ SubSeq(s, k + 1, n) \in Seq(S)
         /\ SubSeq(s, k + 1, n + 1) = Append(SubSeq(s, k + 1, n), s[n + 1])
<1>1. Len(s) \in Nat /\ \A i \in 1 .. Len(s) : s[i] \in S BY LenProperties, ElementOfSeq
<1>2. s[n + 1] \in S /\ \A i \in (k + 1) .. n + 1 : s[i] \in S BY <1>1
<1> DEFINE p == SubSeq(s, k + 1, n)
           q == SubSeq(s, k + 1, n + 1)
<1>3. p \in Seq(S) /\ Len(p) = n - k /\ \A i \in 1 .. n - k : p[i] = s[k + i]
  <2>1. /\ p \in Seq(S) /\ Len(p) = IF k + 1 <= n THEN n - (k + 1) + 1 ELSE 0
        /\ \A i \in 1 .. n - (k + 1) + 1 : p[i] = s[(k + 1) + i - 1]
    <3>1. \A i \in (k + 1) .. n : s[i] \in S BY <1>2
    <3> QED BY <3>1, SubSeqProperties
  <2> QED BY <2>1
<1>4. q \in Seq(S) /\ Len(q) = n + 1 - k /\ \A i \in 1 .. n + 1 - k : q[i] = s[k + i]
  <2>1. /\ q \in Seq(S) /\ Len(q) = IF k + 1 <= n + 1 THEN (n + 1) - (k + 1) + 1 ELSE 0
        /\ \A i \in 1 .. (n + 1) - (k + 1) + 1 : q[i] = s[(k + 1) + i - 1]
    BY <1>2, SubSeqProperties
  <2> QED BY <2>1
<1> HIDE DEF p, q
<1> DEFINE a == Append(p, s[n + 1])
<1>5. /\ a \in Seq(S) /\ Len(a) = Len(p) + 1
      /\ \A i \in 1 .. Len(p) : a[i] = p[i]
      /\ a[Len(p) + 1] = s[n + 1]
  BY <1>2, <1>3, AppendProperties
<1> HIDE DEF a
<1>6. ASSUME NEW i \in 1 .. Len(q) PROVE q[i] = a[i]
  <2>1. i \in 1 .. n + 1 - k BY <1>4
  <2>2. CASE i <= n - k
    <3>1. i \in 1 .. Len(p) /\ i \in 1 .. n - k BY <1>3, <2>1, <2>2
    <3> QED BY <1>3, <1>4, <1>5, <2>1, <3>1
  <2>3. CASE ~(i <= n - k)
    <3>1. i = Len(p) + 1 /\ k + i = n + 1 BY <1>3, <2>1, <2>3
    <3> QED BY <1>4, <1>5, <2>1, <3>1
  <2> QED BY <2>2, <2>3
<1>7. Len(q) = Len(a) BY <1>3, <1>4, <1>5
<1>8. q = a BY <1>4, <1>5, <1>6, <1>7, SeqEqual
<1> QED BY <1>2, <1>3, <1>8 DEF p, q, a

-----------------------------------------------------------------------------
(* Lines(): the lines of buffers, one buffer behind the other.             *)

\* The function that FlattenSeq defines by recursion.
Flat(bs) == CHOOSE flatten : flatten =
    [i \in 1 .. Len(bs) |-> IF i = 1 THEN bs[i] ELSE flatten[i - 1] \o bs[i]]

\* There is such a function.
LEMMA FlatExists ==
  ASSUME NEW S, NEW bs \in Seq(Seq(S))
  PROVE  /\ DOMAIN Flat(bs) = 1 .. Len(bs)
         /\ \A i \in 1 .. Len(bs) :
                Flat(bs)[i] = IF i = 1 THEN bs[i] ELSE Flat(bs)[i - 1] \o bs[i]
<1> DEFINE Step(f, i) == IF i = 1 THEN bs[i] ELSE f[i - 1] \o bs[i]
           Good(n) == \E f : f = [i \in 1 .. n |-> Step(f, i)]
           G == {n \in Nat : Good(n)}
<1>1. 0 \in G
  <2>1. [i \in 1 .. 0 |-> bs[i]] = [i \in 1 .. 0 |-> Step([j \in 1 .. 0 |-> bs[j]], i)]
    OBVIOUS
  <2> QED BY <2>1
<1>2. ASSUME NEW n \in Nat, n \in G PROVE n + 1 \in G
  <2>1. PICK f : f = [i \in 1 .. n |-> Step(f, i)] BY <1>2
  <2> DEFINE g == [i \in 1 .. n + 1 |-> IF i = n + 1 THEN Step(f, i) ELSE f[i]]
  <2>2. \A i \in 1 .. n + 1 : g[i] = Step(g, i)
    <3>1. ASSUME NEW i \in 1 .. n + 1 PROVE g[i] = Step(g, i)
      <4>1. i # 1 => i - 1 \in 1 .. n /\ g[i - 1] = f[i - 1] OBVIOUS
      <4>2. Step(g, i) = Step(f, i) BY <4>1
      <4>3. CASE i = n + 1 BY <4>2, <4>3
      <4>4. CASE i # n + 1
        <5>1. i \in 1 .. n BY <4>4
        <5> QED BY <2>1, <4>2, <4>4, <5>1
      <4> QED BY <4>3, <4>4
    <3> QED BY <3>1
  <2>3. g = [i \in 1 .. n + 1 |-> Step(g, i)]
    <3>1. g = [i \in 1 .. n + 1 |-> g[i]] OBVIOUS
    <3> HIDE DEF Step, g
    <3> QED BY <2>2, <3>1
  <2> HIDE DEF g, Step
  <2>4. Good(n + 1) BY <2>3
  <2> QED BY <2>4
<1> HIDE DEF G
<1>3. Len(bs) \in G BY <1>1, <1>2, SetInduction, LenProperties
<1>4. \E f : f = [i \in 1 .. Len(bs) |-> Step(f, i)] BY <1>3 DEF G
<1>5. Flat(bs) = [i \in 1 .. Len(bs) |-> Step(Flat(bs), i)] BY <1>4 DEF Flat
<1> QED BY <1>5

\* Its values are sequences, and depend on the buffers up to there.
LEMMA FlatFacts ==
  ASSUME NEW S, NEW bs \in Seq(Seq(S)), NEW cs \in Seq(Seq(S)), NEW m \in Nat,
         m <= Len(bs), m <= Len(cs), \A i \in 1 .. m : bs[i] = cs[i]
  PROVE  \A i \in 1 .. m : Flat(bs)[i] \in Seq(S) /\ Flat(bs)[i] = Flat(cs)[i]
<1> DEFINE Good(i) == i \in 1 .. m => Flat(bs)[i] \in Seq(S) /\ Flat(bs)[i] = Flat(cs)[i]
           G == {k \in Nat : Good(k)}
<1>1. Len(bs) \in Nat /\ Len(cs) \in Nat /\ \A i \in 1 .. Len(bs) : bs[i] \in Seq(S)
  BY LenProperties, ElementOfSeq
<1>2. 0 \in G OBVIOUS
<1>3. ASSUME NEW i \in Nat, Good(i) PROVE Good(i + 1)
  <2>1. CASE i + 1 \notin 1 .. m BY <2>1
  <2>2. CASE i + 1 \in 1 .. m
    <3>1. i + 1 \in 1 .. Len(bs) /\ i + 1 \in 1 .. Len(cs) BY <1>1, <2>2
    <3>2. /\ Flat(bs)[i + 1] = IF i + 1 = 1 THEN bs[i + 1] ELSE Flat(bs)[(i + 1) - 1] \o bs[i + 1]
          /\ Flat(cs)[i + 1] = IF i + 1 = 1 THEN cs[i + 1] ELSE Flat(cs)[(i + 1) - 1] \o cs[i + 1]
      BY <3>1, FlatExists
    <3>3. bs[i + 1] = cs[i + 1] /\ bs[i + 1] \in Seq(S) BY <1>1, <2>2, <3>1
    <3>4. CASE i = 0 BY <3>2, <3>3, <3>4
    <3>5. CASE i # 0
      <4>1. (i + 1) - 1 = i /\ i \in 1 .. m /\ i + 1 # 1 BY <2>2, <3>5
      <4>2. Flat(bs)[i] \in Seq(S) /\ Flat(bs)[i] = Flat(cs)[i] BY <1>3, <4>1
      <4>3. Flat(bs)[i] \o bs[i + 1] \in Seq(S) BY <3>3, <4>2, ConcatProperties
      <4>4. Flat(bs)[i + 1] = Flat(bs)[i] \o bs[i + 1] BY <3>2, <4>1
      <4>5. Flat(cs)[i + 1] = Flat(bs)[i] \o bs[i + 1] BY <3>2, <3>3, <4>1, <4>2
      <4> QED BY <4>3, <4>4, <4>5
    <3> QED BY <3>4, <3>5
  <2> QED BY <2>1, <2>2
<1> HIDE DEF Good
<1>4. \A k \in Nat : k \in G => k + 1 \in G
  <2>1. \A k \in Nat : Good(k) => Good(k + 1) BY <1>3
  <2> QED BY <2>1
<1> HIDE DEF G
<1>5. Nat \subseteq G BY <1>2, <1>4, SetInduction
<1> QED BY <1>5 DEF G, Good

\* Without buffers there are no lines.
LEMMA NoLines == Lines(<<>>) = <<>>
<1>1. Len(<<>>) = 0 OBVIOUS
<1> QED BY <1>1 DEF Lines, FlattenSeq

\* One more buffer has its lines behind those of the others.
LEMMA LinesAppend ==
  ASSUME NEW S, NEW bs \in Seq(Seq(S)), NEW b \in Seq(S)
  PROVE  /\ Lines(bs) \in Seq(S)
         /\ Lines(Append(bs, b)) = Lines(bs) \o b
<1> DEFINE cs == Append(bs, b)
           m == Len(bs)
<1>1. /\ m \in Nat /\ cs \in Seq(Seq(S)) /\ Len(cs) = m + 1
      /\ \A i \in 1 .. m : cs[i] = bs[i]
      /\ cs[m + 1] = b
  BY LenProperties, AppendProperties
<1> HIDE DEF cs
<1>2. Lines(cs) = Flat(cs)[m + 1] BY <1>1 DEF Lines, FlattenSeq, Flat
<1>3. Flat(cs)[m + 1] = IF m + 1 = 1 THEN cs[m + 1] ELSE Flat(cs)[(m + 1) - 1] \o cs[m + 1]
  <2>1. m + 1 \in 1 .. Len(cs) BY <1>1
  <2> QED BY <1>1, <2>1, FlatExists
<1>4. CASE m = 0
  <2>1. bs = <<>> /\ Lines(bs) = <<>> BY <1>4, NoLines, EmptySeq
  <2>2. <<>> \in Seq(S) /\ <<>> \o b = b BY EmptySeq, ConcatEmptySeq
  <2>3. m + 1 = 1 BY <1>4
  <2>4. Lines(cs) = b BY <1>1, <1>2, <1>3, <2>3
  <2> QED BY <2>1, <2>2, <2>4 DEF cs
<1>5. CASE m # 0
  <2>1. Lines(bs) = Flat(bs)[m] BY <1>5 DEF Lines, FlattenSeq, Flat
  <2>2. m \in 1 .. m /\ (m + 1) - 1 = m /\ m + 1 # 1 /\ m <= m /\ m <= m + 1 BY <1>1, <1>5
  <2>3. Flat(bs)[m] \in Seq(S) /\ Flat(bs)[m] = Flat(cs)[m] BY <1>1, <2>2, FlatFacts
  <2> QED BY <1>1, <1>2, <1>3, <2>1, <2>2, <2>3 DEF cs
<1> QED BY <1>4, <1>5

\* The lines of buffers are those of the first few and then those of the others.
LEMMA LinesSplit ==
  ASSUME NEW S, NEW bs \in Seq(Seq(S)), NEW k \in 0 .. Len(bs)
  PROVE  /\ SubSeq(bs, 1, k) \in Seq(Seq(S)) /\ SubSeq(bs, k + 1, Len(bs)) \in Seq(Seq(S))
         /\ Lines(bs) = Lines(SubSeq(bs, 1, k)) \o Lines(SubSeq(bs, k + 1, Len(bs)))
<1> DEFINE Good(n) == n >= k /\ n <= Len(bs) =>
               /\ SubSeq(bs, 1, n) \in Seq(Seq(S)) /\ SubSeq(bs, k + 1, n) \in Seq(Seq(S))
               /\ Lines(SubSeq(bs, 1, n)) = Lines(SubSeq(bs, 1, k)) \o Lines(SubSeq(bs, k + 1, n))
           G == {n \in Nat : Good(n)}
<1>1. Len(bs) \in Nat /\ k \in Nat /\ k <= Len(bs) /\ \A i \in 1 .. Len(bs) : bs[i] \in Seq(S)
  BY LenProperties, ElementOfSeq
<1>2. Good(k)
  <2>1. SubSeq(bs, k + 1, k) = <<>> BY <1>1, SubSeqEmpty
  <2>2. <<>> \in Seq(Seq(S)) /\ Lines(<<>>) = <<>> BY EmptySeq, NoLines
  <2>3. SubSeq(bs, 1, k) \in Seq(Seq(S))
    <3>1. \A i \in 1 .. k : bs[i] \in Seq(S) BY <1>1
    <3> QED BY <1>1, <3>1, SubSeqProperties
  <2>4. <<>> \in Seq(S) BY EmptySeq
  <2>5. Lines(SubSeq(bs, 1, k)) \in Seq(S) BY <2>3, <2>4, LinesAppend
  <2>6. Lines(SubSeq(bs, 1, k)) \o <<>> = Lines(SubSeq(bs, 1, k)) BY <2>5, ConcatEmptySeq
  <2> QED BY <2>1, <2>2, <2>3, <2>6
<1>3. ASSUME NEW n \in Nat, Good(n) PROVE Good(n + 1)
  <2>1. CASE ~(n + 1 >= k /\ n + 1 <= Len(bs)) BY <2>1
  <2>2. CASE n + 1 = k BY <1>2, <2>2
  <2>3. CASE n >= k /\ n + 1 <= Len(bs)
    <3> DEFINE p == SubSeq(bs, 1, n)
               q == SubSeq(bs, k + 1, n)
               r == Lines(SubSeq(bs, 1, k))
               b == bs[n + 1]
    <3>1. n < Len(bs) /\ 0 <= n /\ k <= n /\ n <= Len(bs) BY <1>1, <2>3
    <3>2. /\ b \in Seq(S) /\ p \in Seq(Seq(S))
          /\ SubSeq(bs, 1, n + 1) = Append(p, b)
      <4>1. /\ bs[n + 1] \in Seq(S) /\ SubSeq(bs, 0 + 1, n) \in Seq(Seq(S))
            /\ SubSeq(bs, 0 + 1, n + 1) = Append(SubSeq(bs, 0 + 1, n), bs[n + 1])
        BY <3>1, LongerPrefix
      <4> QED BY <4>1
    <3>3. q \in Seq(Seq(S)) /\ SubSeq(bs, k + 1, n + 1) = Append(q, b)
      BY <1>1, <3>1, LongerPrefix
    <3>4. Lines(p) = r \o Lines(q) BY <1>3, <3>1
    <3>5. SubSeq(bs, 1, k) \in Seq(Seq(S))
      <4>1. \A i \in 1 .. k : bs[i] \in Seq(S) BY <1>1
      <4> QED BY <1>1, <4>1, SubSeqProperties
    <3> HIDE DEF p, q, b
    <3>6. /\ Lines(Append(p, b)) = Lines(p) \o b /\ Lines(Append(q, b)) = Lines(q) \o b
          /\ Lines(q) \in Seq(S) /\ r \in Seq(S)
          /\ Append(p, b) \in Seq(Seq(S)) /\ Append(q, b) \in Seq(Seq(S))
      <4>1. Lines(Append(p, b)) = Lines(p) \o b BY <3>2, LinesAppend
      <4>2. Lines(Append(q, b)) = Lines(q) \o b /\ Lines(q) \in Seq(S) BY <3>2, <3>3, LinesAppend
      <4>3. r \in Seq(S) BY <3>2, <3>5, LinesAppend
      <4>4. \A x \in Seq(Seq(S)) : Append(x, b) \in Seq(Seq(S)) BY <3>2, AppendProperties
      <4> QED BY <3>2, <3>3, <4>1, <4>2, <4>3, <4>4
    <3> HIDE DEF r
    <3>7. (r \o Lines(q)) \o b = r \o (Lines(q) \o b)
      <4>1. \A x, y, z \in Seq(S) : (x \o y) \o z = x \o (y \o z) BY ConcatAssociative
      <4> QED BY <3>2, <3>6, <4>1
    <3> QED BY <3>2, <3>3, <3>4, <3>6, <3>7 DEF r
  <2> QED BY <1>1, <2>1, <2>2, <2>3
<1>4. Good(0)
  <2>1. CASE k = 0 BY <1>2, <2>1
  <2>2. CASE k # 0 BY <1>1, <2>2
  <2> QED BY <2>1, <2>2
<1> HIDE DEF Good
<1>5. 0 \in G /\ \A n \in Nat : n \in G => n + 1 \in G BY <1>3, <1>4
<1> HIDE DEF G
<1>6. Len(bs) \in G BY <1>1, <1>5, SetInduction
<1>7. Good(Len(bs)) BY <1>6 DEF G
<1>8. SubSeq(bs, 1, Len(bs)) = bs BY SubSeqFull
<1>9. Len(bs) >= k /\ Len(bs) <= Len(bs) BY <1>1
<1>10. SubSeq(bs, 1, k) \in Seq(Seq(S)) BY <1>1, <1>2 DEF Good
<1> QED BY <1>7, <1>8, <1>9, <1>10 DEF Good

-----------------------------------------------------------------------------
(* A line's stream.                                                        *)

\* Whatever was put into it, a stream has room for one byte, and what was written is inside.
StreamFits(stream) ==
    stream \in [cur : 0 .. SmallBuffer - 1, top : 0 .. SmallBuffer, out : Seq(Piece)]

\* The larger of two numbers, as FixedBuffer keeps it.
LEMMA MaxOfTwo ==
  ASSUME NEW a \in Nat, NEW z \in Nat
  PROVE  Max({a, z}) = IF a >= z THEN a ELSE z
<1>1. Max({a, z}) = CHOOSE x \in {a, z} : \A y \in {a, z} : x >= y BY DEF Max
<1>2. \E x \in {a, z} : \A y \in {a, z} : x >= y
  <2>1. CASE a >= z BY <2>1
  <2>2. CASE ~(a >= z) BY <2>2
  <2> QED BY <2>1, <2>2
<1>3. Max({a, z}) \in {a, z} /\ \A y \in {a, z} : Max({a, z}) >= y BY <1>1, <1>2
<1> QED BY <1>3

\* Written is what there is room for.
LEMMA WriteFits ==
  ASSUME NEW stream, StreamFits(stream), NEW len \in Nat, NEW bytes \in Nat,
         stream.cur + len < SmallBuffer, stream.cur + bytes <= SmallBuffer
  PROVE  StreamFits(Write(stream, len, bytes))
<1> USE StreamAssumption
<1> DEFINE m == Max({stream.top, stream.cur + bytes})
           c == stream.cur + len
<1>1. /\ stream \in [cur : 0 .. SmallBuffer - 1, top : 0 .. SmallBuffer, out : Seq(Piece)]
      /\ stream.cur \in Nat /\ stream.top \in Nat /\ stream.top <= SmallBuffer
  BY DEF StreamFits
<1>2. m \in 0 .. SmallBuffer
  <2> DEFINE a == stream.top
             z == stream.cur + bytes
  <2>1. a \in Nat /\ z \in Nat /\ a <= SmallBuffer /\ z <= SmallBuffer BY <1>1
  <2> HIDE DEF a, z
  <2>2. Max({a, z}) \in 0 .. SmallBuffer BY <2>1, MaxOfTwo
  <2> QED BY <2>2 DEF a, z
<1>3. c \in 0 .. SmallBuffer - 1 BY <1>1
<1>4. Write(stream, len, bytes) = [stream EXCEPT !.cur = c, !.top = m] BY DEF Write
<1> HIDE DEF m, c
<1> QED BY <1>1, <1>2, <1>3, <1>4 DEF StreamFits

\* A piece fits, or is left out.
LEMMA PutFits ==
  ASSUME NEW stream, StreamFits(stream), NEW piece \in Piece
  PROVE  StreamFits(Put(stream, piece))
<1> USE StreamAssumption
<1>1. stream.cur \in 0 .. SmallBuffer - 1 /\ piece.len \in Nat BY DEF StreamFits, Piece
<1>2. piece.kind \in {"text", "number"} /\ (piece.kind = "number" => piece.len + 1 <= NumericSize)
  BY DEF Piece
<1>3. StreamFits(LeaveOut(stream, piece))
  <2>1. /\ stream \in [cur : 0 .. SmallBuffer - 1, top : 0 .. SmallBuffer, out : Seq(Piece)]
        /\ Append(stream.out, piece) \in Seq(Piece)
    BY AppendProperties DEF StreamFits
  <2> QED BY <2>1 DEF StreamFits, LeaveOut
<1>4. CASE piece.kind = "text"
  <2>1. CASE Avail(stream) > piece.len
    <3>1. stream.cur + piece.len < SmallBuffer /\ stream.cur + piece.len <= SmallBuffer
      BY <1>1, <2>1 DEF Avail
    <3>2. Put(stream, piece) = Write(stream, piece.len, piece.len)
      BY <1>4, <2>1 DEF Put, PutText
    <3> QED BY <1>1, <3>1, <3>2, WriteFits
  <2>2. CASE ~(Avail(stream) > piece.len) BY <1>3, <1>4, <2>2 DEF Put, PutText
  <2> QED BY <2>1, <2>2
<1>5. CASE piece.kind = "number"
  <2>1. CASE Avail(stream) >= NumericSize
    <3>1. /\ stream.cur + piece.len < SmallBuffer /\ stream.cur + (piece.len + 1) <= SmallBuffer
          /\ piece.len + 1 \in Nat
      BY <1>1, <1>2, <1>5, <2>1 DEF Avail
    <3>2. Put(stream, piece) = Write(stream, piece.len, piece.len + 1)
      BY <1>5, <2>1 DEF Put, PutNumber
    <3> QED BY <1>1, <3>1, <3>2, WriteFits
  <2>2. CASE ~(Avail(stream) >= NumericSize) BY <1>3, <1>5, <2>2 DEF Put, PutNumber
  <2> QED BY <2>1, <2>2
<1> QED BY <1>2, <1>4, <1>5

\* The function that FoldLeft defines by recursion.
Iter(pieces) == CHOOSE iter : iter =
    [s \in SUBSET DOMAIN pieces |->
        IF s = {} THEN Fresh ELSE LET x == Max(s) IN Put(iter[s \ {x}], pieces[x])]

\* The largest of numbers up to n + 1 that have n + 1 among them.
LEMMA MaxIsLast ==
  ASSUME NEW n \in Nat, NEW s \in SUBSET (1 .. n + 1), n + 1 \in s
  PROVE  Max(s) = n + 1
<1>1. \A y \in s : n + 1 >= y OBVIOUS
<1>2. Max(s) = CHOOSE x \in s : \A y \in s : x >= y BY DEF Max
<1>3. Max(s) \in s /\ \A y \in s : Max(s) >= y BY <1>1, <1>2
<1>4. Max(s) \in 1 .. n + 1 /\ Max(s) >= n + 1 BY <1>3
<1> QED BY <1>4

\* There is such a function.
LEMMA IterExists ==
  ASSUME NEW pieces, NEW len \in Nat, DOMAIN pieces = 1 .. len
  PROVE  \A s \in SUBSET (1 .. len) :
             Iter(pieces)[s] = IF s = {} THEN Fresh
                               ELSE Put(Iter(pieces)[s \ {Max(s)}], pieces[Max(s)])
<1> DEFINE Step(f, s) == IF s = {} THEN Fresh ELSE Put(f[s \ {Max(s)}], pieces[Max(s)])
           Good(n) == \E f : f = [s \in SUBSET (1 .. n) |-> Step(f, s)]
           G == {n \in Nat : Good(n)}
<1>1. Good(0)
  <2> DEFINE f == [s \in SUBSET (1 .. 0) |-> Fresh]
  <2>1. SUBSET (1 .. 0) = {{}} OBVIOUS
  <2>2. \A s \in SUBSET (1 .. 0) : Step(f, s) = Fresh BY <2>1
  <2>3. f = [s \in SUBSET (1 .. 0) |-> Step(f, s)]
    <3> HIDE DEF Step
    <3> QED BY <2>2
  <2> QED BY <2>3
<1>2. ASSUME NEW n \in Nat, Good(n) PROVE Good(n + 1)
  <2>1. PICK f : f = [s \in SUBSET (1 .. n) |-> Step(f, s)] BY <1>2
  <2>2. \A s \in SUBSET (1 .. n) : f[s] = Step(f, s)
    <3> HIDE DEF Step
    <3> QED BY <2>1
  <2> DEFINE g == [s \in SUBSET (1 .. n + 1) |-> IF n + 1 \in s THEN Step(f, s) ELSE f[s]]
  <2>3. ASSUME NEW s \in SUBSET (1 .. n + 1) PROVE g[s] = Step(g, s)
    <3>1. g[s] = Step(f, s)
      <4>1. CASE n + 1 \in s BY <4>1
      <4>2. CASE n + 1 \notin s
        <5>1. s \in SUBSET (1 .. n) BY <4>2
        <5> QED BY <2>2, <4>2, <5>1
      <4> QED BY <4>1, <4>2
    <3>2. s # {} => g[s \ {Max(s)}] = f[s \ {Max(s)}]
      <4> DEFINE r == s \ {Max(s)}
      <4>1. r \in SUBSET (1 .. n + 1) OBVIOUS
      <4>2. n + 1 \notin r
        <5>1. n + 1 \in s => Max(s) = n + 1 BY MaxIsLast
        <5> QED BY <5>1
      <4> HIDE DEF r
      <4>3. g[r] = f[r] BY <4>1, <4>2
      <4> QED BY <4>3 DEF r
    <3> HIDE DEF g
    <3> QED BY <3>1, <3>2
  <2>4. g = [s \in SUBSET (1 .. n + 1) |-> g[s]] OBVIOUS
  <2> HIDE DEF g, Step
  <2>5. g = [s \in SUBSET (1 .. n + 1) |-> Step(g, s)] BY <2>3, <2>4
  <2> QED BY <2>5
<1> HIDE DEF Good
<1>3. 0 \in G /\ \A n \in Nat : n \in G => n + 1 \in G BY <1>1, <1>2
<1> HIDE DEF G
<1>4. len \in G BY <1>3, SetInduction
<1>5. \E f : f = [s \in SUBSET (1 .. len) |-> Step(f, s)] BY <1>4 DEF G, Good
<1>6. Iter(pieces) = [s \in SUBSET (1 .. len) |-> Step(Iter(pieces), s)]
  <2>1. Iter(pieces) = CHOOSE f : f = [s \in SUBSET (1 .. len) |-> Step(f, s)] BY DEF Iter
  <2> HIDE DEF Step
  <2> QED BY <1>5, <2>1
<1>7. \A s \in SUBSET (1 .. len) : Iter(pieces)[s] = Step(Iter(pieces), s)
  <2> HIDE DEF Step
  <2> QED BY <1>6
<1> QED BY <1>7

\* LogStream: every line that a Logger puts together fits into its buffer.
LEMMA LinesFit ==
  ASSUME NEW message \in Seq(Piece)
  PROVE  StreamFits(LoggerLine(message))
<1> USE StreamAssumption
<1> DEFINE pieces == LineHead \o message \o Append(LineTail, Newline)
<1>1. pieces \in Seq(Piece)
  <2>1. Newline \in Piece BY DEF Newline, Text, Piece
  <2>2. Append(LineTail, Newline) \in Seq(Piece) BY <2>1, AppendProperties
  <2>3. LineHead \o message \in Seq(Piece) BY ConcatProperties
  <2> QED BY <2>2, <2>3, ConcatProperties
<1>2. LoggerLine(message) = FoldLeft(Put, Fresh, pieces) BY DEF LoggerLine
<1> HIDE DEF pieces
<1>3. LoggerLine(message) = Iter(pieces)[DOMAIN pieces]
  BY <1>2 DEF FoldLeft, MapThenFoldSet, Iter
<1> DEFINE len == Len(pieces)
<1>4. len \in Nat /\ DOMAIN pieces = 1 .. len /\ \A i \in 1 .. len : pieces[i] \in Piece
  BY <1>1, LenProperties, ElementOfSeq
<1> HIDE DEF len
<1> DEFINE Good(n) == n <= len => StreamFits(Iter(pieces)[1 .. n])
           G == {n \in Nat : Good(n)}
<1>5. \A s \in SUBSET (1 .. len) :
          Iter(pieces)[s] = IF s = {} THEN Fresh
                            ELSE Put(Iter(pieces)[s \ {Max(s)}], pieces[Max(s)])
  BY <1>4, IterExists
<1>6. Good(0)
  <2>1. 1 .. 0 = {} /\ {} \in SUBSET (1 .. len) OBVIOUS
  <2>2. Iter(pieces)[1 .. 0] = Fresh BY <1>5, <2>1
  <2>3. StreamFits(Fresh) BY EmptySeq DEF StreamFits, Fresh
  <2> QED BY <2>2, <2>3
<1>7. ASSUME NEW n \in Nat, Good(n) PROVE Good(n + 1)
  <2>1. SUFFICES ASSUME n + 1 <= len PROVE StreamFits(Iter(pieces)[1 .. n + 1]) OBVIOUS
  <2> DEFINE s == 1 .. n + 1
  <2>2. s \in SUBSET (1 .. len) /\ s # {} /\ n + 1 \in s
    <3>1. len \in Nat /\ n + 1 \in 1 .. n + 1 BY <1>4
    <3>2. \A i \in 1 .. n + 1 : i \in 1 .. len BY <2>1, <3>1
    <3> QED BY <3>1, <3>2
  <2>3. Max(s) = n + 1 /\ s \ {n + 1} = 1 .. n BY <2>2, MaxIsLast
  <2> HIDE DEF s
  <2>4. Iter(pieces)[s] = Put(Iter(pieces)[1 .. n], pieces[n + 1]) BY <1>5, <2>2, <2>3
  <2>5. StreamFits(Iter(pieces)[1 .. n]) /\ pieces[n + 1] \in Piece BY <1>4, <1>7, <2>1
  <2> QED BY <2>4, <2>5, PutFits DEF s
<1> HIDE DEF Good
<1>8. 0 \in G /\ \A n \in Nat : n \in G => n + 1 \in G BY <1>6, <1>7
<1> HIDE DEF G
<1>9. len \in G BY <1>4, <1>8, SetInduction
<1> QED BY <1>3, <1>4, <1>9 DEF G, Good

-----------------------------------------------------------------------------
(* Lines in order.                                                         *)

Rising(s) == \A i, j \in DOMAIN s : i < j => s[i] < s[j]

\* The lines 1 .. n are in the sequence, once and in order, but for those that are gone.
InPlace(s, gone, n) == Rising(s) /\ ToSet(s) = (1 .. n) \ gone /\ gone \subseteq 1 .. n

\* Of two sequences one behind the other.
LEMMA JoinFacts ==
  ASSUME NEW s \in Buffer, NEW t \in Buffer
  PROVE  /\ s \o t \in Buffer /\ ToSet(s \o t) = ToSet(s) \union ToSet(t)
         /\ Rising(s \o t) <=> /\ Rising(s) /\ Rising(t)
                               /\ \A x \in ToSet(s), y \in ToSet(t) : x < y
         /\ ToSet(s) \subseteq 1 .. MaxLines
<1> USE LogAssumption
<1> DEFINE m == Len(s)
           n == Len(t)
           c == s \o t
<1>1. /\ m \in Nat /\ n \in Nat /\ DOMAIN s = 1 .. m /\ DOMAIN t = 1 .. n
      /\ \A i \in 1 .. m : s[i] \in 1 .. MaxLines
      /\ \A i \in 1 .. n : t[i] \in 1 .. MaxLines
  BY LenProperties, ElementOfSeq DEF Buffer
<1>2. /\ c \in Buffer /\ Len(c) = m + n
      /\ \A i \in 1 .. m + n : c[i] = IF i <= m THEN s[i] ELSE t[i - m]
  BY ConcatProperties DEF Buffer
<1>3. DOMAIN c = 1 .. m + n BY <1>2, LenProperties DEF Buffer
<1> HIDE DEF m, n, c
<1>4. /\ \A i \in 1 .. m : i \in 1 .. m + n /\ c[i] = s[i]
      /\ \A i \in 1 .. n : m + i \in 1 .. m + n /\ c[m + i] = t[i]
      /\ \A i \in 1 .. m + n : \/ i \in 1 .. m /\ c[i] = s[i]
                               \/ i - m \in 1 .. n /\ c[i] = t[i - m] /\ i > m
  <2>1. \A i \in 1 .. m : i \in 1 .. m + n /\ c[i] = s[i] BY <1>1, <1>2
  <2>2. ASSUME NEW i \in 1 .. n PROVE m + i \in 1 .. m + n /\ c[m + i] = t[i]
    <3>1. m + i \in 1 .. m + n /\ ~(m + i <= m) /\ (m + i) - m = i BY <1>1
    <3> QED BY <1>2, <3>1
  <2>3. ASSUME NEW i \in 1 .. m + n
        PROVE  \/ i \in 1 .. m /\ c[i] = s[i]
               \/ i - m \in 1 .. n /\ c[i] = t[i - m] /\ i > m
    BY <1>1, <1>2
  <2> QED BY <2>1, <2>2, <2>3
<1>5. ToSet(c) = ToSet(s) \union ToSet(t)
  <2>1. /\ ToSet(c) = {c[i] : i \in 1 .. m + n} /\ ToSet(s) = {s[i] : i \in 1 .. m}
        /\ ToSet(t) = {t[i] : i \in 1 .. n}
    BY <1>1, <1>3 DEF ToSet
  <2> QED BY <1>4, <2>1
<1>6. ASSUME Rising(c)
      PROVE  Rising(s) /\ Rising(t) /\ \A x \in ToSet(s), y \in ToSet(t) : x < y
  <2>1. \A i, j \in 1 .. m + n : i < j => c[i] < c[j] BY <1>3, <1>6 DEF Rising
  <2>2. Rising(s) BY <1>1, <1>4, <2>1 DEF Rising
  <2>3. ASSUME NEW i \in 1 .. n, NEW j \in 1 .. n, i < j PROVE t[i] < t[j]
    <3>1. m + i < m + j BY <1>1, <2>3
    <3> QED BY <1>4, <2>1, <3>1
  <2>4. ASSUME NEW i \in 1 .. m, NEW j \in 1 .. n PROVE s[i] < t[j]
    <3>1. i < m + j BY <1>1
    <3> QED BY <1>4, <2>1, <3>1
  <2> QED BY <1>1, <2>2, <2>3, <2>4 DEF Rising, ToSet
<1>7. ASSUME Rising(s), Rising(t), \A x \in ToSet(s), y \in ToSet(t) : x < y
      PROVE  Rising(c)
  <2>1. ASSUME NEW i \in 1 .. m + n, NEW j \in 1 .. m + n, i < j PROVE c[i] < c[j]
    <3>1. CASE j \in 1 .. m
      <4>1. i \in 1 .. m BY <1>1, <2>1, <3>1
      <4> QED BY <1>1, <1>4, <1>7, <2>1, <3>1, <4>1 DEF Rising
    <3>2. CASE i \in 1 .. m /\ j \notin 1 .. m
      <4>1. c[i] = s[i] /\ j - m \in 1 .. n /\ c[j] = t[j - m] BY <1>4, <3>2
      <4> QED BY <1>1, <1>7, <3>2, <4>1 DEF ToSet
    <3>3. CASE i \notin 1 .. m /\ j \notin 1 .. m
      <4>1. i - m \in 1 .. n /\ c[i] = t[i - m] /\ j - m \in 1 .. n /\ c[j] = t[j - m]
        BY <1>4, <3>3
      <4>2. i - m < j - m BY <1>1, <2>1
      <4> QED BY <1>1, <1>7, <4>1, <4>2 DEF Rising
    <3> QED BY <3>1, <3>2, <3>3
  <2> QED BY <1>3, <2>1 DEF Rising
<1>8. ToSet(s) \subseteq 1 .. MaxLines BY <1>1 DEF ToSet
<1> QED BY <1>2, <1>5, <1>6, <1>7, <1>8 DEF c

\* Concatenation of lines.
LEMMA JoinIsAssociative ==
  /\ <<>> \in Buffer
  /\ \A x, y \in Buffer : x \o y \in Buffer
  /\ \A x, y, z \in Buffer : (x \o y) \o z = x \o (y \o z)
  /\ \A x \in Buffer : x \o <<>> = x /\ <<>> \o x = x
BY ConcatProperties, ConcatAssociative, ConcatEmptySeq, EmptySeq DEF Buffer

\* A sequence of one line.
LEMMA OneLine ==
  ASSUME NEW n \in 1 .. MaxLines
  PROVE  <<n>> \in Buffer /\ ToSet(<<n>>) = {n} /\ Rising(<<n>>)
<1>1. <<n>> \in Buffer /\ DOMAIN <<n>> = {1} /\ <<n>>[1] = n BY DEF Buffer
<1>2. ToSet(<<n>>) = {n} BY <1>1 DEF ToSet
<1>3. Rising(<<n>>) BY <1>1 DEF Rising
<1> QED BY <1>1, <1>2, <1>3

\* One line more at the end.
LEMMA OneMore ==
  ASSUME NEW s \in Buffer, NEW gone, NEW n \in Nat, n + 1 <= MaxLines, InPlace(s, gone, n)
  PROVE  InPlace(s \o <<n + 1>>, gone, n + 1)
<1> DEFINE e == <<n + 1>>
<1>1. n + 1 \in 1 .. MaxLines BY LogAssumption
<1>2. e \in Buffer /\ ToSet(e) = {n + 1} /\ Rising(e) BY <1>1, OneLine
<1> HIDE DEF e
<1>3. Rising(s) /\ ToSet(s) = (1 .. n) \ gone /\ gone \subseteq 1 .. n BY DEF InPlace
<1>4. \A x \in ToSet(s), y \in ToSet(e) : x < y BY <1>2, <1>3
<1>5. Rising(s \o e) BY <1>2, <1>3, <1>4, JoinFacts
<1>6. ToSet(s \o e) = ToSet(s) \union {n + 1} BY <1>2, JoinFacts
<1>7. 1 .. n + 1 = (1 .. n) \union {n + 1} /\ n + 1 \notin gone BY <1>3
<1>8. ToSet(s \o e) = (1 .. n + 1) \ gone BY <1>3, <1>6, <1>7
<1>9. gone \subseteq 1 .. n + 1 BY <1>3, <1>7
<1> QED BY <1>5, <1>8, <1>9 DEF InPlace, e

\* Lines that are taken out are gone, and were not among the others.
LEMMA TakeOut ==
  ASSUME NEW a \in Buffer, NEW x \in Buffer, NEW z \in Buffer, NEW gone, NEW n \in Nat,
         InPlace(a \o (x \o z), gone, n)
  PROVE  InPlace(a \o z, gone \union ToSet(x), n) /\ ToSet(a) \intersect ToSet(x) = {}
<1>1. x \o z \in Buffer BY JoinFacts
<1>2. /\ Rising(a \o (x \o z)) /\ ToSet(a \o (x \o z)) = (1 .. n) \ gone /\ gone \subseteq 1 .. n
  BY DEF InPlace
<1>3. /\ Rising(a) /\ Rising(x \o z) /\ \A u \in ToSet(a), v \in ToSet(x \o z) : u < v
      /\ ToSet(a) \union ToSet(x \o z) = (1 .. n) \ gone
  BY <1>1, <1>2, JoinFacts
<1>4. /\ Rising(x) /\ Rising(z) /\ \A u \in ToSet(x), v \in ToSet(z) : u < v
      /\ ToSet(x \o z) = ToSet(x) \union ToSet(z)
  BY <1>3, JoinFacts
<1>5. ToSet(a) \subseteq Nat /\ ToSet(x) \subseteq Nat /\ ToSet(z) \subseteq Nat
  BY JoinFacts, LogAssumption
<1>6. \A u \in ToSet(a) : u \notin ToSet(x)
  <2>1. ASSUME NEW u \in ToSet(a), u \in ToSet(x) PROVE FALSE
    <3>1. u < u BY <1>3, <1>4, <2>1
    <3> QED BY <1>5, <3>1
  <2> QED BY <2>1
<1>7. \A u \in ToSet(x) : u \notin ToSet(z)
  <2>1. ASSUME NEW u \in ToSet(x), u \in ToSet(z) PROVE FALSE
    <3>1. u < u BY <1>4, <2>1
    <3> QED BY <1>5, <3>1
  <2> QED BY <2>1
<1>8. Rising(a \o z) BY <1>3, <1>4, JoinFacts
<1>9. ToSet(a \o z) = ToSet(a) \union ToSet(z) BY JoinFacts
<1>10. ToSet(a \o z) = (1 .. n) \ (gone \union ToSet(x)) BY <1>3, <1>4, <1>6, <1>7, <1>9
<1>11. gone \union ToSet(x) \subseteq 1 .. n BY <1>2, <1>3, <1>4
<1> QED BY <1>6, <1>8, <1>10, <1>11 DEF InPlace

-----------------------------------------------------------------------------
(* The inductive invariant.                                                *)

\* A thread's line fits into its buffer, so that it fits into a large one.
StreamInv == DOMAIN line = Threads /\ \A t \in Threads : line[t] # NoLine => StreamFits(line[t])

\* The start: one process serves at its end, and nothing is logged before the fork.
StartInv ==
    /\ phase \in {"load", "launch", "setsid", "null", "redirect", "close", "failed",
                  "failedtoo", "serve", "aborted"}
    /\ servers = IF phase = "serve" THEN 1 ELSE 0
    /\ phase \in {"load", "launch"} =>
           opc = "new" /\ lpc = "none" /\ \A t \in Threads : line[t] = NoLine

\* The buffers that go round: newBuffer1 and newBuffer2 are gone only from a swap to
\* the end of that turn, and then the batch has at least as many.
RoundInv ==
    /\ opc = "new" => lpc = "none"
    /\ spare = Missing => full # <<>>
    /\ lpc \in {"next", "append"} => /\ new1 = Missing /\ Len(batch) >= 1
                                     /\ new2 = Missing => Len(batch) >= 2
    /\ lpc \notin {"next", "append"} => /\ new1 = Empty /\ new2 = Empty
                                        /\ batch = <<>> /\ written = 0
    /\ lpc # "append" => rest = <<>>
    /\ lpc # "aborted"

\* The lines, from the file to the current buffer.
LineInv == InPlace(file \o Unwritten, dropped \union lost, logged)

LogInv == TypeOK /\ StreamInv /\ StartInv /\ RoundInv /\ LineInv

-----------------------------------------------------------------------------
(* The invariant holds first.                                              *)

\* No buffer is a missing one.
LEMMA MissingIsNoBuffer == Missing # Empty
BY LogAssumption, EmptySeq DEF Empty

\* Nothing is unwritten where there are no lines.
LEMMA NoneUnwritten ==
  ASSUME rest = <<>>, batch = <<>>, written = 0, full = <<>>, current = <<>>
  PROVE  Unwritten = <<>>
<1>1. SubSeq(<<>>, 0 + 1, 0) = <<>> OBVIOUS
<1>2. Len(<<>>) = 0 /\ <<>> \o <<>> = <<>> OBVIOUS
<1> QED BY <1>1, <1>2, NoLines DEF Unwritten

\* Before the first step.
LEMMA InitIsFine == StartInit => LogInv
<1> SUFFICES ASSUME StartInit PROVE LogInv OBVIOUS
<1> USE DEF StartInit, Init, LogInit, FileInit
<1>1. TypeOK
  <2>1. <<>> \in Buffer /\ <<>> \in Seq(Buffer) BY EmptySeq DEF Buffer
  <2>2. 0 \in 0 .. MaxLines /\ 0 \in 0 .. Room - 1 BY LogAssumption
  <2>3. written \in 0 .. Len(batch) /\ disk \in 0 .. Len(file) OBVIOUS
  <2>4. /\ current \in Buffer /\ full \in Seq(Buffer) /\ batch \in Seq(Buffer)
        /\ file \in Buffer /\ rest \in Buffer
    BY <2>1 DEF Empty
  <2> HIDE DEF StartInit
  <2>5. /\ running \in BOOLEAN /\ started \in BOOLEAN /\ opc = "new" /\ lpc = "none"
        /\ logged \in 0 .. MaxLines /\ used \in 0 .. Room - 1
        /\ spare = Empty /\ new1 = Empty /\ new2 = Empty /\ dropped = {} /\ lost = {}
    BY <2>2 DEF StartInit
  <2> QED BY <2>3, <2>4, <2>5 DEF TypeOK
<1>2. StreamInv BY DEF StreamInv
<1>3. StartInv BY DEF StartInv
<1>4. RoundInv BY MissingIsNoBuffer DEF RoundInv, Empty
<1>5. LineInv
  <2>1. Unwritten = <<>> BY NoneUnwritten DEF Empty
  <2>2. file \o Unwritten = <<>> BY <2>1
  <2>3. Rising(<<>>) /\ ToSet(<<>>) = {} BY DEF Rising, ToSet
  <2>4. (1 .. 0) \ ({} \union {}) = {} OBVIOUS
  <2> QED BY <2>2, <2>3, <2>4 DEF LineInv, InPlace
<1> QED BY <1>1, <1>2, <1>3, <1>4, <1>5 DEF LogInv

-----------------------------------------------------------------------------
(* The streams and the start.                                              *)

\* What a step of the start or of a thread is for the log.
LogMove ==
    \/ UNCHANGED logVars
    \/ MakeThread \/ OwnerStep \/ Stop \/ LogThread
    \/ \E len \in 0 .. Room - 1 : AppendLine(len)

\* Every step is one of these: before the fork there is no log, and no line is too long.
LEMMA StepsAreMoves == LogInv /\ [StartNext]_allVars => LogMove
<1> SUFFICES ASSUME LogInv, [StartNext]_allVars PROVE LogMove OBVIOUS
<1> USE DEF LogInv
<1>1. CASE UNCHANGED allVars BY <1>1 DEF allVars, vars, LogMove
<1>2. CASE MainStep
  <2>1. CASE Fork
    <3>1. lpc = "none" BY <2>1 DEF StartInv, Fork, PhaseGoes
    <3>2. lpc' = lpc BY <2>1, <3>1 DEF Fork
    <3> QED BY <2>1, <3>2 DEF Fork, LogMove, logVars
  <2>2. CASE Load \/ LaunchAlone \/ Succeeds \/ Detached \/ Failed
    BY <2>2 DEF Load, LaunchAlone, Succeeds, Detached, Failed, LogMove, vars
  <2>3. CASE Fails \/ FailsToo BY <2>3 DEF Fails, FailsToo, LogMove
  <2> QED BY <1>2, <2>1, <2>2, <2>3 DEF MainStep
<1>3. CASE LogStep
  <2>1. ASSUME NEW t \in Threads, MakeLine(t) PROVE LogMove BY <2>1 DEF MakeLine, LogMove
  <2>2. ASSUME NEW t \in Threads, OnceInit(t) PROVE LogMove BY <2>2 DEF OnceInit, LogMove
  <2>3. ASSUME NEW t \in Threads, Output(t) PROVE LogMove
    <3>1. StreamFits(line[t]) /\ AppendLine(line[t].cur) BY <2>3 DEF Output, StreamInv
    <3>2. line[t].cur \in 0 .. SmallBuffer - 1 BY <3>1 DEF StreamFits
    <3>3. line[t].cur \in 0 .. Room - 1
      BY <3>2, LineAssumption, StreamAssumption, LogAssumption
    <3> QED BY <3>1, <3>3 DEF LogMove
  <2>4. CASE OwnerStep \/ LogThread \/ Stop BY <2>4 DEF LogMove
  <2> QED BY <1>3, <2>1, <2>2, <2>3, <2>4 DEF LogStep
<1> QED BY <1>1, <1>2, <1>3 DEF StartNext

\* The streams: a Logger's line fits.
LEMMA StreamStep == LogInv /\ [StartNext]_allVars => StreamInv'
<1> SUFFICES ASSUME LogInv, [StartNext]_allVars PROVE StreamInv' OBVIOUS
<1>0. StreamInv /\ Main \in Threads BY MainAssumption DEF LogInv
<1>1. ASSUME NEW t \in Threads, NEW s, line' = [line EXCEPT ![t] = s],
             s # NoLine => StreamFits(s)
      PROVE  StreamInv'
  BY <1>0, <1>1 DEF StreamInv, StreamFits
<1>2. CASE UNCHANGED line BY <1>0, <1>2 DEF StreamInv, StreamFits
<1>3. ASSUME NEW t \in Threads, NEW message \in Seq(Piece),
             line' = [line EXCEPT ![t] = LoggerLine(message)]
      PROVE  StreamInv'
  <2>1. StreamFits(LoggerLine(message)) BY LinesFit
  <2> QED BY <1>1, <1>3, <2>1
<1>4. CASE MainStep
  <2>1. CASE Fails \/ FailsToo
    <3>1. <<>> \in Seq(Piece) BY EmptySeq
    <3> QED BY <1>0, <1>3, <2>1, <3>1 DEF Fails, FailsToo
  <2>2. CASE Load \/ LaunchAlone \/ Fork \/ Succeeds \/ Detached \/ Failed
    BY <1>2, <2>2 DEF Load, LaunchAlone, Fork, Succeeds, Detached, Failed, vars
  <2> QED BY <1>4, <2>1, <2>2 DEF MainStep
<1>5. CASE LogStep
  <2>1. ASSUME NEW t \in Threads, MakeLine(t) PROVE StreamInv'
    BY <1>3, <2>1, LineAssumption DEF MakeLine
  <2>2. ASSUME NEW t \in Threads, OnceInit(t) PROVE StreamInv' BY <1>2, <2>2 DEF OnceInit
  <2>3. ASSUME NEW t \in Threads, Output(t) PROVE StreamInv' BY <1>1, <2>3 DEF Output
  <2>4. CASE (OwnerStep \/ LogThread \/ Stop) /\ UNCHANGED line BY <1>2, <2>4
  <2> QED BY <1>5, <2>1, <2>2, <2>3, <2>4 DEF LogStep
<1>6. CASE UNCHANGED allVars BY <1>2, <1>6 DEF allVars, vars
<1> QED BY <1>4, <1>5, <1>6 DEF StartNext

\* main() always comes to serve when create_daemon() returned 0 or -1.
LEMMA LaunchServes ==
  ASSUME NEW result \in {0, -1}, Launched(result), servers = 0
  PROVE  phase' = "serve" /\ servers' = 1
BY DEF Launched, Serves, LaunchResult

\* The start: nobody serves before the end of it, nor logs before the fork.
LEMMA StartStep == LogInv /\ [StartNext]_allVars => StartInv'
<1> SUFFICES ASSUME LogInv, [StartNext]_allVars PROVE StartInv' OBVIOUS
<1>0. StartInv /\ DOMAIN line = Threads BY DEF LogInv, StreamInv
<1>1. CASE MainStep
  <2>1. CASE Load BY <1>0, <2>1 DEF Load, PhaseGoes, StartInv, vars, logVars
  <2>2. CASE LaunchAlone
    <3>1. servers = 0 /\ Launched(0) BY <1>0, <2>2 DEF LaunchAlone, StartInv
    <3>2. phase' = "serve" /\ servers' = 1 BY <3>1, LaunchServes
    <3> QED BY <3>2 DEF StartInv
  <2>3. CASE Fork
    <3>1. phase' = "setsid" /\ servers = 0 BY <1>0, <2>3 DEF Fork, PhaseGoes, StartInv
    <3>2. servers' = 0 BY <2>3, <3>1 DEF Fork, Serves, LaunchResult
    <3> QED BY <3>1, <3>2 DEF StartInv
  <2>4. CASE Succeeds BY <1>0, <2>4 DEF Succeeds, PhaseGoes, StartInv
  <2>5. CASE Detached
    <3>1. servers = 0 /\ Launched(0) BY <1>0, <2>5 DEF Detached, StartInv
    <3>2. phase' = "serve" /\ servers' = 1 BY <3>1, LaunchServes
    <3> QED BY <3>2 DEF StartInv
  <2>6. CASE Fails
    <3>1. phase # "serve" /\ phase' = "failed" /\ servers' = servers BY <2>6 DEF Fails
    <3> QED BY <1>0, <3>1 DEF StartInv
  <2>7. CASE FailsToo BY <1>0, <2>7 DEF FailsToo, PhaseGoes, StartInv
  <2>8. CASE Failed
    <3>1. servers = 0 /\ Launched(-1) BY <1>0, <2>8 DEF Failed, StartInv
    <3>2. phase' = "serve" /\ servers' = 1 BY <3>1, LaunchServes
    <3> QED BY <3>2 DEF StartInv
  <2> QED BY <1>1, <2>1, <2>2, <2>3, <2>4, <2>5, <2>6, <2>7, <2>8 DEF MainStep
<1>2. CASE LogStep /\ UNCHANGED startVars
  <2>1. phase' = phase /\ servers' = servers BY <1>2 DEF startVars
  <2>2. CASE phase \notin {"load", "launch"} BY <1>0, <2>1, <2>2 DEF StartInv
  <2>3. CASE phase \in {"load", "launch"}
    <3>1. opc = "new" /\ lpc = "none" /\ \A t \in Threads : line[t] = NoLine
      BY <1>0, <2>3 DEF StartInv
    <3>2. ~OwnerStep
      BY <3>1 DEF OwnerStep, MakeMembers, Start, StartNotify, StartReturn, StopNotify,
                  StopReturn, OwnerGoes
    <3>3. ~LogThread
      BY <3>1 DEF LogThread, BeginCheck, BeginSleep, Top, Lock, Timeout, Swap, AppendNext,
                  AppendSome, AppendEnds, Recycle, LastFlush, LogGoes, MaySwap
    <3>4. ASSUME NEW t \in Threads PROVE ~OnceInit(t) /\ ~Output(t)
      BY <3>1 DEF OnceInit, Output
    <3> QED BY <1>2, <2>3, <3>2, <3>3, <3>4 DEF LogStep
  <2> QED BY <2>2, <2>3
<1>3. CASE UNCHANGED allVars
  BY <1>0, <1>3 DEF allVars, startVars, vars, logVars, StartInv
<1> QED BY <1>1, <1>2, <1>3 DEF StartNext

-----------------------------------------------------------------------------
(* The buffers that go round.                                              *)

\* Where the log's thread has no batch in its hands.
Idle(pc) == pc \notin {"next", "append", "aborted"}

\* A step that leaves buffers and file alone, and takes or leaves no batch.
LEMMA QuietStep ==
  ASSUME TypeOK, RoundInv, UNCHANGED <<front, back, fileVars>>,
         running' \in BOOLEAN, started' \in BOOLEAN,
         \/ opc' \in {"members", "start", "notify", "latch", "log", "stop", "join", "stopped"}
         \/ opc' = opc /\ lpc # "none",
         \/ lpc' = lpc
         \/ Idle(lpc) /\ lpc' \in {"begin", "tosleep", "waitstart", "forgotten", "top", "lock",
                                  "waitlines", "swap", "last"}
  PROVE  TypeOK' /\ RoundInv'
<1> USE DEF front, back, fileVars
<1>1. TypeOK' BY DEF TypeOK, Idle
<1>2. RoundInv'
  <2>1. (opc = "new" => lpc = "none")' BY DEF RoundInv, Idle
  <2>2. lpc' # "aborted" BY DEF RoundInv, Idle
  <2>3. lpc' \in {"next", "append"} <=> lpc \in {"next", "append"} BY DEF Idle
  <2>4. lpc' = "append" <=> lpc = "append" BY DEF Idle
  <2> QED BY <2>1, <2>2, <2>3, <2>4 DEF RoundInv
<1> QED BY <1>1, <1>2

\* Who is notified goes on.
LEMMA NotifiedIsIdle ==
  ASSUME NEW pc
  PROVE  Notified(pc) = pc \/ (Idle(pc) /\ Notified(pc) \in {"begin", "swap"})
BY DEF Notified, Idle

\* The thread that makes, starts and stops the log.
LEMMA OwnerRound ==
  ASSUME TypeOK, RoundInv, MakeThread \/ OwnerStep \/ Stop
  PROVE  TypeOK' /\ RoundInv'
<1>0. running \in BOOLEAN /\ started \in BOOLEAN BY DEF TypeOK
<1>1. CASE MakeThread
  <2>1. Idle(lpc) BY <1>1 DEF MakeThread, OwnerGoes, RoundInv, Idle
  <2> QED BY <1>0, <1>1, <2>1, QuietStep DEF MakeThread, OwnerGoes
<1>2. CASE MakeMembers
  <2>1. lpc' = lpc \/ (Idle(lpc) /\ lpc' = "forgotten") BY <1>2 DEF MakeMembers, Idle
  <2> QED BY <1>0, <1>2, <2>1, QuietStep DEF MakeMembers, OwnerGoes
<1>3. CASE Start BY <1>0, <1>3, QuietStep DEF Start, OwnerGoes
<1>4. CASE StartNotify BY <1>0, <1>4, NotifiedIsIdle, QuietStep DEF StartNotify, OwnerGoes
<1>5. CASE StartReturn BY <1>0, <1>5, QuietStep DEF StartReturn, OwnerGoes
<1>6. CASE Stop BY <1>0, <1>6, QuietStep DEF Stop, OwnerGoes
<1>7. CASE StopNotify BY <1>0, <1>7, NotifiedIsIdle, QuietStep DEF StopNotify, OwnerGoes
<1>8. CASE StopReturn BY <1>0, <1>8, QuietStep DEF StopReturn, OwnerGoes
<1> QED BY <1>1, <1>2, <1>3, <1>4, <1>5, <1>6, <1>7, <1>8 DEF OwnerStep

\* The log's thread on its way to a swap.
LEMMA WaitRound ==
  ASSUME TypeOK, RoundInv, BeginCheck \/ BeginSleep \/ Top \/ Lock \/ Timeout
  PROVE  TypeOK' /\ RoundInv'
<1>1. /\ UNCHANGED <<running, opc, front, back, fileVars>>
      /\ running' \in BOOLEAN /\ started' \in BOOLEAN
  BY DEF TypeOK, BeginCheck, BeginSleep, Top, Lock, Timeout
<1>2. /\ Idle(lpc) /\ lpc # "none"
      /\ lpc' \in {"tosleep", "waitstart", "top", "lock", "waitlines", "swap", "last"}
  <2>1. CASE BeginCheck BY <2>1 DEF BeginCheck, LogGoes, Idle
  <2>2. CASE Top
    <3>1. lpc = "top" /\ new1 = Empty /\ new2 = Empty /\ batch = <<>>
      BY <2>2 DEF Top, LogGoes, RoundInv
    <3>2. lpc' \in {"last", "lock"} BY <2>2, <3>1 DEF Top, LogGoes
    <3> QED BY <3>1, <3>2 DEF Idle
  <2>3. CASE BeginSleep \/ Lock \/ Timeout
    BY <2>3 DEF BeginSleep, Lock, Timeout, LogGoes, Idle
  <2> QED BY <2>1, <2>2, <2>3
<1>3. UNCHANGED <<front, back, fileVars>> /\ opc' = opc BY <1>1
<1> QED BY <1>1, <1>2, <1>3, QuietStep

\* A thread appends its line: when the spare buffer is gone something is full.
LEMMA AppendLineRound ==
  ASSUME TypeOK, RoundInv, NEW len \in 0 .. Room - 1, AppendLine(len)
  PROVE  TypeOK' /\ RoundInv'
<1> USE LogAssumption
<1>0. logged + 1 \in 1 .. MaxLines /\ opc # "new" BY DEF AppendLine, TypeOK
<1>1. \A b \in Buffer : Append(b, logged + 1) \in Buffer
  BY <1>0, AppendProperties DEF Buffer
<1>2. logged' \in 0 .. MaxLines BY <1>0 DEF AppendLine
<1>3. CASE Room - used > len
  <2>1. /\ current' = Append(current, logged + 1) /\ used' = used + len
        /\ UNCHANGED <<spare, full, lpc, running, started, opc, back, fileVars>>
    BY <1>3 DEF AppendLine
  <2>2. current' \in Buffer BY <1>1, <2>1 DEF TypeOK
  <2>3. used' \in 0 .. Room - 1 BY <1>3, <2>1 DEF TypeOK
  <2> QED BY <1>2, <2>1, <2>2, <2>3 DEF TypeOK, RoundInv, back, fileVars
<1>4. CASE ~(Room - used > len)
  <2>1. /\ full' = Append(full, current) /\ spare' = Missing /\ lpc' = Notified(lpc)
        /\ UNCHANGED <<running, started, opc, back, fileVars>>
        /\ current' = Append(IF spare # Missing THEN spare ELSE Empty, logged + 1)
        /\ used' = len
    BY <1>4 DEF AppendLine
  <2>2. full' \in Seq(Buffer) /\ full' # <<>> BY <2>1, AppendProperties DEF TypeOK
  <2>3. Empty \in Buffer BY EmptySeq DEF Buffer, Empty
  <2>4. current' \in Buffer BY <1>1, <2>1, <2>3 DEF TypeOK
  <2>5. lpc' = lpc \/ (Idle(lpc) /\ lpc' \in {"begin", "swap"}) BY <2>1, NotifiedIsIdle
  <2>6. TypeOK' BY <1>2, <2>1, <2>2, <2>4, <2>5 DEF TypeOK, back, fileVars
  <2>7. RoundInv'
    <3>1. (opc = "new" => lpc = "none")' BY <1>0, <2>1
    <3>2. lpc' # "aborted" BY <2>5 DEF RoundInv
    <3>3. lpc' \in {"next", "append"} <=> lpc \in {"next", "append"} BY <2>5 DEF Idle
    <3>4. lpc' = "append" <=> lpc = "append" BY <2>5 DEF Idle
    <3> QED BY <2>1, <2>2, <3>1, <3>2, <3>3, <3>4 DEF RoundInv, back, fileVars
  <2> QED BY <2>6, <2>7
<1> QED BY <1>3, <1>4

\* What the log's thread takes, and how much of it is kept.
Taken == Append(full, current)
Kept == IF Len(Taken) > MaxBatch THEN 2 ELSE Len(Taken)

\* The batch is the first few of the buffers taken; two of them if the spare one was gone.
LEMMA BatchFacts ==
  ASSUME TypeOK, RoundInv, MaySwap, TakeBuffers
  PROVE  /\ Taken \in Seq(Buffer) /\ Kept \in 0 .. Len(Taken)
         /\ batch' = SubSeq(Taken, 1, Kept) /\ batch' \in Seq(Buffer) /\ Len(batch') = Kept
         /\ Kept >= 1 /\ (spare = Missing => Kept >= 2)
<1> USE LogAssumption
<1>1. /\ full \in Seq(Buffer) /\ current \in Buffer /\ Len(full) \in Nat
  BY LenProperties DEF TypeOK
<1>2. Taken \in Seq(Buffer) /\ Len(Taken) = Len(full) + 1
  BY <1>1, AppendProperties DEF Taken
<1>3. spare = Missing => Len(full) >= 1
  BY <1>1, EmptySeq DEF RoundInv
<1>4. Kept \in 1 .. Len(Taken) /\ (spare = Missing => Kept >= 2) BY <1>1, <1>2, <1>3 DEF Kept
<1>5. batch' = SubSeq(Taken, 1, Kept)
  <2>1. SubSeq(Taken, 1, Len(Taken)) = Taken BY <1>2, SubSeqFull
  <2>2. batch' = IF Len(Taken) > MaxBatch THEN SubSeq(Taken, 1, 2) ELSE Taken
    BY DEF TakeBuffers, Taken
  <2> QED BY <2>1, <2>2 DEF Kept
<1>6. SubSeq(Taken, 1, Kept) \in Seq(Buffer) /\ Len(SubSeq(Taken, 1, Kept)) = Kept
  <2>1. \A i \in 1 .. Kept : Taken[i] \in Buffer BY <1>1, <1>2, <1>4, ElementOfSeq
  <2>2. Kept \in Nat /\ 1 <= Kept BY <1>1, <1>2, <1>4
  <2>3. Kept - 1 + 1 = Kept BY <2>2
  <2> QED BY <2>1, <2>2, <2>3, SubSeqProperties
<1> QED BY <1>1, <1>2, <1>4, <1>5, <1>6

\* The swap.
LEMMA SwapRound ==
  ASSUME TypeOK, RoundInv, Swap
  PROVE  TypeOK' /\ RoundInv'
<1>1. MaySwap /\ TakeBuffers /\ lpc' = "next" BY DEF Swap
<1>2. lpc \in {"swap", "lock"} BY <1>1 DEF MaySwap
<1>3. /\ new1 = Empty /\ new2 = Empty /\ batch = <<>> /\ written = 0 /\ rest = <<>>
      /\ opc # "new"
  BY <1>2 DEF RoundInv
<1>4. /\ batch' \in Seq(Buffer) /\ Len(batch') \in Nat /\ Len(batch') >= 1
      /\ spare = Missing => Len(batch') >= 2
  BY <1>1, BatchFacts, LenProperties
<1>5. spare' = Empty /\ new2' \in {Empty, Missing} /\ (new2' = Missing => spare = Missing)
  BY <1>3, MissingIsNoBuffer DEF Swap, TypeOK
<1>6. /\ full' = <<>> /\ current' = Empty /\ new1' = Missing /\ used' = 0
      /\ UNCHANGED <<running, started, opc, logged, written, fileVars>>
  BY <1>3 DEF Swap, TakeBuffers
<1>7. dropped' \subseteq 1 .. MaxLines
  <2>1. dropped' = dropped \union (ToSet(Lines(Taken)) \ ToSet(Lines(batch')))
    BY <1>1 DEF TakeBuffers, Taken
  <2>2. Taken \in Seq(Buffer) BY <1>1, BatchFacts
  <2>3. Lines(Taken) \in Buffer
    <3>1. <<>> \in Seq(1 .. MaxLines) /\ Taken \in Seq(Seq(1 .. MaxLines))
      BY <2>2, EmptySeq DEF Buffer
    <3> QED BY <3>1, LinesAppend DEF Buffer
  <2>4. ToSet(Lines(Taken)) \subseteq 1 .. MaxLines BY <2>3, JoinFacts
  <2> QED BY <2>1, <2>4 DEF TypeOK
<1>8. TypeOK'
  <2>1. full' \in Seq(Buffer) /\ current' \in Buffer BY <1>6, EmptySeq DEF Empty, Buffer
  <2>2. used' \in 0 .. Room - 1 /\ written' \in 0 .. Len(batch')
    BY <1>3, <1>4, <1>6, LogAssumption
  <2> QED BY <1>1, <1>4, <1>5, <1>6, <1>7, <2>1, <2>2 DEF TypeOK, fileVars
<1>9. RoundInv'
  BY <1>1, <1>3, <1>4, <1>5, <1>6, MissingIsNoBuffer DEF RoundInv, fileVars
<1> QED BY <1>8, <1>9

\* A part of some lines, from behind the first k to the last.
LEMMA Cut ==
  ASSUME NEW s \in Buffer, NEW k \in 0 .. Len(s)
  PROVE  /\ SubSeq(s, 1, k) \in Buffer /\ SubSeq(s, k + 1, Len(s)) \in Buffer
         /\ s = SubSeq(s, 1, k) \o SubSeq(s, k + 1, Len(s))
<1>1. Len(s) \in Nat /\ k \in Nat /\ k <= Len(s) /\ \A i \in 1 .. Len(s) : s[i] \in 1 .. MaxLines
  <2>1. Len(s) \in Nat BY LenProperties DEF Buffer
  <2>2. \A i \in 1 .. Len(s) : s[i] \in 1 .. MaxLines BY ElementOfSeq DEF Buffer
  <2> QED BY <2>1, <2>2
<1>2. \A i \in 1 .. k : s[i] \in 1 .. MaxLines BY <1>1
<1>3. \A i \in k + 1 .. Len(s) : s[i] \in 1 .. MaxLines BY <1>1
<1>4. SubSeq(s, 1, k) \in Buffer BY <1>1, <1>2, SubSeqProperties DEF Buffer
<1>5. SubSeq(s, k + 1, Len(s)) \in Buffer BY <1>1, <1>3, SubSeqProperties DEF Buffer
<1>6. SubSeq(s, 1, k) \o SubSeq(s, k + 1, Len(s)) = SubSeq(s, 1, Len(s))
  <2>1. 1 \in 1 .. Len(s) + 1 /\ k \in 1 - 1 .. Len(s) /\ Len(s) \in k .. Len(s) BY <1>1
  <2> QED BY <2>1, ConcatAdjacentSubSeq DEF Buffer
<1>7. SubSeq(s, 1, Len(s)) = s BY SubSeqFull DEF Buffer
<1> QED BY <1>4, <1>5, <1>6, <1>7

\* What a write or a flush does to the file: of the lines from the first in the file to the
\* last of the text, those of one stretch are lost.
FileMove ==
    /\ file' \in Buffer /\ rest' \in Buffer /\ disk' \in 0 .. Len(file')
    /\ \E x \in Buffer : /\ file \o rest = file' \o (x \o rest')
                         /\ lost' = lost \union ToSet(x)

\* A stretch in the middle of some lines.
LEMMA Stretch ==
  ASSUME NEW s \in Buffer, NEW k \in Nat, NEW m \in Nat, k <= m, m <= Len(s)
  PROVE  /\ SubSeq(s, 1, k) \in Buffer /\ Len(SubSeq(s, 1, k)) = k
         /\ SubSeq(s, m + 1, Len(s)) \in Buffer
         /\ \E x \in Buffer : /\ s = SubSeq(s, 1, k) \o (x \o SubSeq(s, m + 1, Len(s)))
                              /\ ToSet(x) = {s[i] : i \in k + 1 .. m}
<1>1. Len(s) \in Nat /\ \A i \in 1 .. Len(s) : s[i] \in 1 .. MaxLines
  <2>1. Len(s) \in Nat BY LenProperties DEF Buffer
  <2>2. \A i \in 1 .. Len(s) : s[i] \in 1 .. MaxLines BY ElementOfSeq DEF Buffer
  <2> QED BY <2>1, <2>2
<1> DEFINE a == SubSeq(s, 1, k)
           x == SubSeq(s, k + 1, m)
           z == SubSeq(s, m + 1, Len(s))
           b == SubSeq(s, 1, m)
<1>2. a \in Buffer /\ Len(a) = k
  <2>1. \A i \in 1 .. k : s[i] \in 1 .. MaxLines BY <1>1
  <2>2. Len(a) = IF 1 <= k THEN k - 1 + 1 ELSE 0 BY <2>1, SubSeqProperties DEF Buffer
  <2>3. a \in Buffer BY <2>1, SubSeqProperties DEF Buffer
  <2> HIDE DEF a
  <2> QED BY <2>2, <2>3
<1>3. z \in Buffer /\ b \in Buffer /\ s = b \o z
  <2>1. m \in 0 .. Len(s) BY <1>1
  <2> QED BY <2>1, Cut
<1>4. /\ x \in Buffer /\ Len(x) = m - k
      /\ \A i \in 1 .. m - k : x[i] = s[k + i]
  <2>1. \A i \in k + 1 .. m : s[i] \in 1 .. MaxLines BY <1>1
  <2>2. k + 1 \in Nat BY <1>1
  <2>3. /\ Len(x) = IF k + 1 <= m THEN m - (k + 1) + 1 ELSE 0
        /\ \A i \in 1 .. m - (k + 1) + 1 : x[i] = s[(k + 1) + i - 1]
        /\ x \in Seq(1 .. MaxLines)
    BY <2>1, <2>2, SubSeqProperties DEF Buffer
  <2> HIDE DEF x
  <2>4. Len(x) = m - k BY <2>3
  <2>5. ASSUME NEW i \in 1 .. m - k PROVE x[i] = s[k + i]
    <3>1. i \in 1 .. m - (k + 1) + 1 /\ (k + 1) + i - 1 = k + i OBVIOUS
    <3> QED BY <2>3, <3>1
  <2> QED BY <2>3, <2>4, <2>5 DEF Buffer
<1>5. b = a \o x
  <2>1. 1 \in 1 .. Len(s) + 1 /\ k \in 1 - 1 .. Len(s) /\ m \in k .. Len(s) BY <1>1
  <2> QED BY <2>1, ConcatAdjacentSubSeq DEF Buffer
<1> HIDE DEF a, x, z, b
<1>6. ToSet(x) = {s[i] : i \in k + 1 .. m}
  <2>1. ToSet(x) = {x[i] : i \in 1 .. m - k} BY <1>4, LenProperties DEF Buffer, ToSet
  <2>2. ASSUME NEW i \in k + 1 .. m PROVE i - k \in 1 .. m - k /\ s[i] = x[i - k]
    <3>1. i - k \in 1 .. m - k /\ k + (i - k) = i BY <1>1
    <3> QED BY <1>4, <3>1
  <2>3. ASSUME NEW i \in 1 .. m - k PROVE k + i \in k + 1 .. m /\ x[i] = s[k + i]
    <3>1. k + i \in k + 1 .. m BY <1>1
    <3> QED BY <1>4, <3>1
  <2>4. \A y \in ToSet(x) : y \in {s[i] : i \in k + 1 .. m} BY <2>1, <2>3
  <2>5. \A i \in k + 1 .. m : s[i] \in ToSet(x) BY <2>1, <2>2
  <2> QED BY <2>4, <2>5
<1>7. s = a \o (x \o z) BY <1>2, <1>3, <1>4, <1>5, JoinIsAssociative
<1> QED BY <1>2, <1>3, <1>4, <1>6, <1>7 DEF a, z

\* What there is of the text, in numbers.
LEMMA AppendedFacts ==
  ASSUME TypeOK
  PROVE  /\ Appended \in Buffer /\ Len(Appended) = Len(file) + Len(rest)
         /\ Len(file) \in Nat /\ Len(rest) \in Nat /\ disk \in 0 .. Len(file)
         /\ file \in Buffer /\ rest \in Buffer
<1>1. file \in Buffer /\ rest \in Buffer /\ disk \in 0 .. Len(file) BY DEF TypeOK
<1> QED BY <1>1, ConcatProperties, LenProperties DEF Appended, Buffer

\* The disk takes so many lines, and the next ones are lost.
LEMMA ReachesMoves ==
  ASSUME TypeOK, NEW k \in Nat, NEW m \in Nat, k <= m, m <= Len(Appended), Reaches(k, m)
  PROVE  FileMove
<1>1. Appended \in Buffer BY AppendedFacts
<1>2. /\ disk' = k /\ file' = SubSeq(Appended, 1, k)
      /\ rest' = SubSeq(Appended, m + 1, Len(Appended))
      /\ lost' = lost \union {Appended[i] : i \in k + 1 .. m}
  BY DEF Reaches
<1>3. /\ file' \in Buffer /\ Len(file') = k /\ rest' \in Buffer
      /\ \E x \in Buffer : /\ Appended = file' \o (x \o rest')
                           /\ ToSet(x) = {Appended[i] : i \in k + 1 .. m}
  BY <1>1, <1>2, Stretch
<1>4. disk' \in 0 .. Len(file') BY <1>2, <1>3
<1>5. Appended = file \o rest BY DEF Appended
<1> QED BY <1>2, <1>3, <1>4, <1>5 DEF FileMove

\* A write that takes all loses nothing ...
LEMMA WholeWriteMoves ==
  ASSUME TypeOK, WholeWrite
  PROVE  FileMove
<1>1. /\ Appended \in Buffer /\ Len(Appended) = Len(file) + Len(rest)
      /\ Len(file) \in Nat /\ Len(rest) \in Nat /\ disk \in 0 .. Len(file)
  BY AppendedFacts
<1>2. file' = Appended /\ rest' = <<>> /\ disk' \in disk .. Len(Appended) /\ lost' = lost
  BY DEF WholeWrite
<1>3. <<>> \in Buffer /\ Appended \o (<<>> \o <<>>) = Appended
  BY <1>1, JoinIsAssociative
<1>4. ToSet(<<>>) = {} BY DEF ToSet
<1>5. disk' \in 0 .. Len(file') BY <1>1, <1>2
<1>6. file \o rest = file' \o (<<>> \o rest') /\ lost' = lost \union ToSet(<<>>)
  BY <1>2, <1>3, <1>4 DEF Appended
<1> QED BY <1>1, <1>2, <1>3, <1>5, <1>6 DEF FileMove

\* ... one that falls short loses what the library lets go of, and the text behind it when
\* it gives up.
LEMMA WriteMoves ==
  ASSUME TypeOK, FileWrite
  PROVE  FileMove
<1>1. /\ Len(Appended) = Len(file) + Len(rest) /\ Len(Appended) \in Nat
      /\ Len(file) \in Nat /\ Len(rest) \in Nat /\ disk \in 0 .. Len(file)
  BY AppendedFacts
<1>2. CASE WholeWrite BY <1>2, WholeWriteMoves
<1>3. ASSUME NEW n \in 0 .. Len(rest) - 1, NEW part \in {"none", "kept", "torn"},
             ShortWrite(n, part)
      PROVE  FileMove
  <2> DEFINE taken == Len(file) + n
             m == CASE again /\ n = 0 /\ part = "none" -> Len(Appended)
                    [] part = "torn" -> taken + 1
                    [] OTHER -> taken
  <2>1. n \in Nat /\ taken \in Nat /\ taken + 1 <= Len(Appended) BY <1>1, <1>3
  <2>2. PICK k \in disk .. taken : Reaches(k, m) BY <1>3 DEF ShortWrite
  <2>3. m \in {Len(Appended), taken + 1, taken} OBVIOUS
  <2> HIDE DEF m, taken
  <2>4. k \in Nat /\ m \in Nat /\ k <= m /\ m <= Len(Appended) BY <1>1, <2>1, <2>2, <2>3
  <2> QED BY <2>2, <2>4, ReachesMoves
<1> QED BY <1>2, <1>3 DEF FileWrite

\* What is behind the first of two sequences of lines.
LEMMA TailOfJoin ==
  ASSUME NEW s \in Buffer, NEW t \in Buffer
  PROVE  SubSeq(s \o t, Len(s) + 1, Len(s \o t)) = t
<1>1. Len(s) \in Nat /\ Len(t) \in Nat /\ Len(s \o t) = Len(s) + Len(t)
  BY ConcatProperties, LenProperties DEF Buffer
<1>2. CASE Len(t) = 0
  <2>1. t = <<>> BY <1>2, EmptySeq DEF Buffer
  <2>2. SubSeq(s \o t, Len(s) + 1, Len(s \o t)) = <<>> BY <1>1, <1>2, SubSeqEmpty
  <2> QED BY <2>1, <2>2
<1>3. CASE Len(t) # 0
  <2>1. /\ Len(s) + 1 \in Len(s) + 1 .. Len(s) + Len(t)
        /\ Len(s) + Len(t) \in Len(s) + 1 .. Len(s) + Len(t)
        /\ (Len(s) + 1) - Len(s) = 1 /\ (Len(s) + Len(t)) - Len(s) = Len(t)
    BY <1>1, <1>3
  <2>2. SubSeq(s \o t, Len(s) + 1, Len(s) + Len(t)) = SubSeq(t, 1, Len(t))
    BY <2>1, SubSeqOfConcat2 DEF Buffer
  <2>3. SubSeq(t, 1, Len(t)) = t BY SubSeqFull DEF Buffer
  <2> QED BY <1>1, <2>2, <2>3
<1> QED BY <1>2, <1>3

\* A flush writes out as far as the disk takes it, and leaves the text.
LEMMA FlushMoves ==
  ASSUME TypeOK, Flush
  PROVE  FileMove /\ rest' = rest
<1>1. /\ Len(Appended) = Len(file) + Len(rest) /\ Len(Appended) \in Nat
      /\ Len(file) \in Nat /\ Len(rest) \in Nat /\ disk \in 0 .. Len(file)
      /\ file \in Buffer /\ rest \in Buffer
  BY AppendedFacts
<1>2. PICK k \in disk .. Len(file) : Reaches(k, Len(file)) BY DEF Flush
<1>3. k \in Nat /\ k <= Len(file) /\ Len(file) <= Len(Appended) BY <1>1
<1>4. FileMove BY <1>1, <1>2, <1>3, ReachesMoves
<1>5. rest' = SubSeq(file \o rest, Len(file) + 1, Len(file \o rest))
  BY <1>2 DEF Reaches, Appended
<1>6. SubSeq(file \o rest, Len(file) + 1, Len(file \o rest)) = rest
  BY <1>1, TailOfJoin
<1> QED BY <1>4, <1>5, <1>6

\* The batch is appended, the next buffer of it ...
LEMMA AppendNextRound ==
  ASSUME TypeOK, RoundInv, AppendNext
  PROVE  TypeOK' /\ RoundInv'
<1>1. /\ lpc = "next" /\ lpc' = "append" /\ written' = written + 1
      /\ rest' = batch[written + 1] /\ written < Len(batch)
      /\ UNCHANGED <<running, started, opc, front, new1, new2, batch, dropped, file, disk,
                     lost>>
  BY DEF AppendNext, LogGoes
<1>2. batch \in Seq(Buffer) /\ written \in 0 .. Len(batch) /\ Len(batch) \in Nat
  BY LenProperties DEF TypeOK
<1>3. written + 1 \in 1 .. Len(batch) BY <1>1, <1>2
<1>4. rest' \in Buffer BY <1>1, <1>2, <1>3, ElementOfSeq
<1>5. written' \in 0 .. Len(batch) BY <1>1, <1>3
<1> QED BY <1>1, <1>4, <1>5 DEF TypeOK, RoundInv, front

\* What a write or a flush does to the file keeps the types of what there is of it.
LEMMA FileTypes ==
  ASSUME TypeOK, FileMove
  PROVE  /\ file' \in Buffer /\ disk' \in 0 .. Len(file') /\ rest' \in Buffer
         /\ lost' \subseteq 1 .. MaxLines
<1>1. PICK x \in Buffer : lost' = lost \union ToSet(x) BY DEF FileMove
<1>2. ToSet(x) \subseteq 1 .. MaxLines BY JoinFacts
<1> QED BY <1>1, <1>2 DEF FileMove, TypeOK

\* ... some of it ...
LEMMA AppendSomeRound ==
  ASSUME TypeOK, RoundInv, AppendSome
  PROVE  TypeOK' /\ RoundInv'
<1>1. lpc = "append" /\ UNCHANGED <<running, started, opc, lpc, front, back>>
  BY DEF AppendSome
<1>2. /\ file' \in Buffer /\ disk' \in 0 .. Len(file') /\ rest' \in Buffer
      /\ lost' \subseteq 1 .. MaxLines
  BY WriteMoves, FileTypes DEF AppendSome
<1> QED BY <1>1, <1>2 DEF TypeOK, RoundInv, front, back

\* When it is counted the file is flushed or left alone.
LEMMA CountMoves ==
  ASSUME TypeOK, CountText
  PROVE  FileMove /\ rest' = rest
<1>1. CASE Flush BY <1>1, FlushMoves
<1>2. CASE UNCHANGED <<file, disk, rest, lost, faults>>
  <2>1. file \in Buffer /\ rest \in Buffer /\ disk \in 0 .. Len(file) BY DEF TypeOK
  <2>2. <<>> \in Buffer /\ <<>> \o rest = rest BY <2>1, JoinIsAssociative
  <2>3. ToSet(<<>>) = {} BY DEF ToSet
  <2> QED BY <1>2, <2>1, <2>2, <2>3 DEF FileMove
<1> QED BY <1>1, <1>2 DEF CountText

\* ... and it is counted.
LEMMA AppendEndsRound ==
  ASSUME TypeOK, RoundInv, AppendEnds
  PROVE  TypeOK' /\ RoundInv'
<1>1. /\ lpc = "append" /\ lpc' = "next" /\ rest = <<>>
      /\ UNCHANGED <<running, started, opc, front, back>> /\ CountText
  BY DEF AppendEnds, LogGoes
<1>2. /\ file' \in Buffer /\ disk' \in 0 .. Len(file') /\ rest' = rest
      /\ lost' \subseteq 1 .. MaxLines
  BY <1>1, CountMoves, FileTypes
<1> QED BY <1>1, <1>2 DEF TypeOK, RoundInv, front, back

\* The batch has the buffers that are missing.
LEMMA BatchIsEnough ==
  ASSUME RoundInv, lpc = "next", batch \in Seq(Buffer)
  PROVE  LET left == IF Len(batch) > 2 THEN 2 ELSE Len(batch)
             needed == Cardinality({b \in {1, 2} : <<new1, new2>>[b] = Missing})
         IN ~(left < needed)
<1> DEFINE gone == {b \in {1, 2} : <<new1, new2>>[b] = Missing}
           left == IF Len(batch) > 2 THEN 2 ELSE Len(batch)
<1>1. new1 = Missing /\ Len(batch) >= 1 /\ (new2 = Missing => Len(batch) >= 2)
  BY DEF RoundInv
<1>2. Len(batch) \in Nat BY LenProperties
<1>3. Cardinality({1}) = 1 /\ Cardinality({1} \union {2}) = 2
  <2>1. IsFiniteSet({1}) /\ Cardinality({1}) = 1 BY FS_Singleton
  <2>2. Cardinality({1} \union {2}) = IF 2 \in {1} THEN Cardinality({1}) ELSE Cardinality({1}) + 1
    BY <2>1, FS_AddElement
  <2>3. 2 \notin {1} OBVIOUS
  <2>4. Cardinality({1} \union {2}) = Cardinality({1}) + 1 BY <2>2, <2>3
  <2>5. Cardinality({1}) + 1 = 1 + 1 BY <2>1
  <2>6. 1 + 1 = 2 OBVIOUS
  <2>7. Cardinality({1} \union {2}) = 2 BY <2>4, <2>5, <2>6
  <2> QED BY <2>1, <2>7
<1>4. CASE new2 = Missing
  <2>1. gone = {1} \union {2} BY <1>1, <1>4
  <2>2. left = 2
    <3>1. Len(batch) > 2 \/ Len(batch) = 2 BY <1>1, <1>2, <1>4
    <3> QED BY <3>1
  <2> HIDE DEF gone, left
  <2>3. Cardinality(gone) = 2 BY <1>3, <2>1
  <2>4. ~(left < Cardinality(gone)) BY <2>2, <2>3
  <2> QED BY <2>4 DEF gone, left
<1>5. CASE new2 # Missing
  <2>1. gone = {1} BY <1>1, <1>5
  <2>2. left \in Nat /\ left >= 1 BY <1>1, <1>2
  <2> HIDE DEF gone, left
  <2>3. Cardinality(gone) = 1 BY <1>3, <2>1
  <2>4. ~(left < Cardinality(gone)) BY <2>2, <2>3
  <2> QED BY <2>4 DEF gone, left
<1> QED BY <1>4, <1>5

\* Two of the batch's buffers are given back.
LEMMA RecycleRound ==
  ASSUME TypeOK, RoundInv, Recycle
  PROVE  TypeOK' /\ RoundInv'
<1>1. /\ lpc = "next" /\ new1' = Empty /\ new2' = Empty /\ batch' = <<>> /\ written' = 0
      /\ UNCHANGED <<running, started, opc, front, dropped>> /\ Flush
  BY DEF Recycle, LogGoes, FlushFile
<1>2. lpc' = "top" BY <1>1, BatchIsEnough DEF Recycle, LogGoes, TypeOK
<1>3. /\ file' \in Buffer /\ disk' \in 0 .. Len(file') /\ rest' = rest
      /\ lost' \subseteq 1 .. MaxLines
  BY <1>1, FlushMoves, FileTypes
<1>4. batch' \in Seq(Buffer) /\ written' \in 0 .. Len(batch') BY <1>1, EmptySeq
<1>5. TypeOK' BY <1>1, <1>2, <1>3, <1>4 DEF TypeOK, front
<1>6. RoundInv' BY <1>1, <1>2, <1>3 DEF RoundInv, front
<1> QED BY <1>5, <1>6

\* The last flush.
LEMMA LastFlushRound ==
  ASSUME TypeOK, RoundInv, LastFlush
  PROVE  TypeOK' /\ RoundInv'
<1>1. /\ lpc = "last" /\ lpc' = "done" /\ Flush
      /\ UNCHANGED <<running, started, opc, front, back>>
  BY DEF LastFlush, LogGoes, FlushFile
<1>2. /\ file' \in Buffer /\ disk' \in 0 .. Len(file') /\ rest' = rest
      /\ lost' \subseteq 1 .. MaxLines
  BY <1>1, FlushMoves, FileTypes
<1> QED BY <1>1, <1>2 DEF TypeOK, RoundInv, front, back

\* Whatever happens to the log, its buffers go round.
LEMMA RoundStep ==
  ASSUME TypeOK, RoundInv, LogMove
  PROVE  TypeOK' /\ RoundInv'
<1>1. CASE UNCHANGED logVars BY <1>1 DEF logVars, front, back, fileVars, TypeOK, RoundInv
<1>2. CASE MakeThread \/ OwnerStep \/ Stop BY <1>2, OwnerRound
<1>3. CASE LogThread
  BY <1>3, WaitRound, SwapRound, AppendNextRound, AppendSomeRound, AppendEndsRound,
     RecycleRound, LastFlushRound DEF LogThread
<1>4. CASE \E len \in 0 .. Room - 1 : AppendLine(len) BY <1>4, AppendLineRound
<1> QED BY <1>1, <1>2, <1>3, <1>4 DEF LogMove

-----------------------------------------------------------------------------
(* The lines on their way.                                                 *)

\* The lines of buffers, and those of a batch that are not yet handed to the file.
LEMMA LinesAreLines ==
  /\ \A bs \in Seq(Buffer) : Lines(bs) \in Buffer
  /\ \A bs \in Seq(Buffer), b \in Buffer : Lines(Append(bs, b)) = Lines(bs) \o b
  /\ \A bs \in Seq(Buffer), k \in Nat :
         k <= Len(bs) => /\ SubSeq(bs, 1, k) \in Seq(Buffer)
                         /\ SubSeq(bs, k + 1, Len(bs)) \in Seq(Buffer)
                         /\ Lines(bs) = Lines(SubSeq(bs, 1, k))
                                            \o Lines(SubSeq(bs, k + 1, Len(bs)))
<1>1. <<>> \in Buffer BY EmptySeq DEF Buffer
<1>2. \A bs \in Seq(Buffer), b \in Buffer :
          Lines(bs) \in Buffer /\ Lines(Append(bs, b)) = Lines(bs) \o b
  BY LinesAppend DEF Buffer
<1>3. ASSUME NEW bs \in Seq(Buffer), NEW k \in Nat, k <= Len(bs)
      PROVE  /\ SubSeq(bs, 1, k) \in Seq(Buffer)
             /\ SubSeq(bs, k + 1, Len(bs)) \in Seq(Buffer)
             /\ Lines(bs) = Lines(SubSeq(bs, 1, k)) \o Lines(SubSeq(bs, k + 1, Len(bs)))
  <2>1. k \in 0 .. Len(bs) BY <1>3, LenProperties
  <2> QED BY <2>1, LinesSplit DEF Buffer
<1> QED BY <1>1, <1>2, <1>3

\* Five parts one behind the other.
Row(f, r, p, u, c) == f \o (r \o (p \o (u \o c)))

\* The lines from the file to the current buffer, of these parts.
AllLines(f, r, bs, w, fu, c) ==
    Row(f, r, Lines(SubSeq(bs, w + 1, Len(bs))), Lines(fu), c)

PartsOk(f, r, bs, w, fu, c) ==
    /\ f \in Buffer /\ r \in Buffer /\ bs \in Seq(Buffer) /\ w \in 0 .. Len(bs)
    /\ fu \in Seq(Buffer) /\ c \in Buffer

\* They are what LinesInOrder looks at.
LEMMA AllAreThese ==
  ASSUME NEW f, NEW r, NEW bs, NEW w, NEW fu, NEW c, PartsOk(f, r, bs, w, fu, c)
  PROVE  /\ AllLines(f, r, bs, w, fu, c) \in Buffer
         /\ AllLines(f, r, bs, w, fu, c)
                = f \o (r \o Lines(SubSeq(bs, w + 1, Len(bs))) \o Lines(fu) \o c)
<1> USE DEF PartsOk
<1> DEFINE p == Lines(SubSeq(bs, w + 1, Len(bs)))
           u == Lines(fu)
<1>1. p \in Buffer /\ u \in Buffer
  <2>1. w \in Nat /\ w <= Len(bs) BY LenProperties
  <2>2. SubSeq(bs, w + 1, Len(bs)) \in Seq(Buffer) BY <2>1, LinesAreLines
  <2> QED BY <2>2, LinesAreLines
<1> HIDE DEF p, u
<1>2. r \o (p \o (u \o c)) = ((r \o p) \o u) \o c
  <2>1. r \o p \in Buffer /\ u \o c \in Buffer BY <1>1, JoinIsAssociative
  <2>2. ((r \o p) \o u) \o c = (r \o p) \o (u \o c) BY <1>1, <2>1, JoinIsAssociative
  <2>3. (r \o p) \o (u \o c) = r \o (p \o (u \o c)) BY <1>1, <2>1, JoinIsAssociative
  <2> QED BY <2>2, <2>3
<1>3. f \o (r \o (p \o (u \o c))) \in Buffer BY <1>1, JoinIsAssociative
<1> QED BY <1>2, <1>3 DEF AllLines, Row, p, u

\* The invariant in these terms, before a step and after it.
LEMMA LineInvIs ==
  ASSUME TypeOK, TypeOK', LineInv
  PROVE  /\ InPlace(AllLines(file, rest, batch, written, full, current),
                    dropped \union lost, logged)
         /\ InPlace(AllLines(file', rest', batch', written', full', current'),
                    dropped' \union lost', logged') => LineInv'
<1>1. PartsOk(file, rest, batch, written, full, current) BY DEF TypeOK, PartsOk
<1>2. PartsOk(file', rest', batch', written', full', current') BY DEF TypeOK, PartsOk
<1>3. AllLines(file, rest, batch, written, full, current) = file \o Unwritten
  <2>1. AllLines(file, rest, batch, written, full, current)
            = file \o (rest \o Lines(SubSeq(batch, written + 1, Len(batch)))
                           \o Lines(full) \o current)
    BY <1>1, AllAreThese
  <2> QED BY <2>1 DEF Unwritten
<1>4. AllLines(file', rest', batch', written', full', current') = file' \o Unwritten'
  <2>1. AllLines(file', rest', batch', written', full', current')
            = file' \o (rest' \o Lines(SubSeq(batch', written' + 1, Len(batch')))
                            \o Lines(full') \o current')
    BY <1>2, AllAreThese
  <2> QED BY <2>1 DEF Unwritten
<1>5. InPlace(file \o Unwritten, dropped \union lost, logged) BY DEF LineInv
<1>6. LineInv' <=> InPlace(file' \o Unwritten', dropped' \union lost', logged')
  BY DEF LineInv
<1> QED BY <1>3, <1>4, <1>5, <1>6

\* Most steps leave the lines where they are.
LEMMA LinesStay ==
  ASSUME LineInv,
         UNCHANGED <<file, rest, batch, written, full, current, dropped, lost, logged>>
  PROVE  LineInv'
BY DEF LineInv, Unwritten

AreLines(f, r, p, u, c, e) ==
    /\ f \in Buffer /\ r \in Buffer /\ p \in Buffer /\ u \in Buffer /\ c \in Buffer /\ e \in Buffer

\* Joining a line at the end: behind the current buffer, or in a fresh one behind it.
LEMMA JoinAtEnd ==
  ASSUME NEW f, NEW r, NEW p, NEW u, NEW c, NEW e, AreLines(f, r, p, u, c, e)
  PROVE  /\ Row(f, r, p, u, c \o e) = Row(f, r, p, u, c) \o e
         /\ Row(f, r, p, u \o c, e) = Row(f, r, p, u, c) \o e
<1> USE DEF AreLines
<1>0. /\ \A x, y \in Buffer : x \o y \in Buffer
      /\ \A x, y, z \in Buffer : (x \o y) \o z = x \o (y \o z)
  BY JoinIsAssociative
<1> DEFINE q == u \o c
           s == p \o q
           t == r \o s
<1>1. q \in Buffer BY <1>0
<1> HIDE DEF q
<1>2. s \in Buffer BY <1>0, <1>1
<1> HIDE DEF s
<1>3. t \in Buffer BY <1>0, <1>2
<1> HIDE DEF t
<1>4. q \o e = u \o (c \o e) BY <1>0 DEF q
<1>5. s \o e = p \o (q \o e) BY <1>0, <1>1 DEF s
<1>6. t \o e = r \o (s \o e) BY <1>0, <1>2 DEF t
<1>7. (f \o t) \o e = f \o (t \o e) BY <1>0, <1>3
<1>8. /\ f \o (r \o (p \o (u \o (c \o e)))) = (f \o t) \o e
      /\ f \o (r \o (p \o (q \o e))) = (f \o t) \o e
  BY <1>4, <1>5, <1>6, <1>7
<1> QED BY <1>8 DEF Row, q, s, t

\* A line is appended: it is the last of all.
LEMMA AppendLineInOrder ==
  ASSUME TypeOK, RoundInv, LineInv, TypeOK', NEW len \in 0 .. Room - 1, AppendLine(len)
  PROVE  LineInv'
<1> DEFINE e == <<logged + 1>>
           p == Lines(SubSeq(batch, written + 1, Len(batch)))
           u == Lines(full)
           all == AllLines(file, rest, batch, written, full, current)
           after == AllLines(file', rest', batch', written', full', current')
<1>1. /\ logged \in Nat /\ logged + 1 <= MaxLines /\ logged' = logged + 1
      /\ UNCHANGED <<file, rest, batch, written, dropped, lost>>
  BY LogAssumption DEF AppendLine, TypeOK, back, fileVars
<1>2. e \in Buffer
  <2>1. logged + 1 \in 1 .. MaxLines BY <1>1, LogAssumption
  <2> QED BY <2>1, OneLine
<1>3. /\ file \in Buffer /\ rest \in Buffer /\ batch \in Seq(Buffer)
      /\ written \in 0 .. Len(batch) /\ full \in Seq(Buffer) /\ current \in Buffer
  BY DEF TypeOK
<1>4. p \in Buffer /\ u \in Buffer
  <2>1. written \in Nat /\ written <= Len(batch) BY <1>3, LenProperties
  <2>2. SubSeq(batch, written + 1, Len(batch)) \in Seq(Buffer) BY <1>3, <2>1, LinesAreLines
  <2> QED BY <1>3, <2>2, LinesAreLines
<1>5. all \in Buffer
  <2>1. PartsOk(file, rest, batch, written, full, current) BY <1>3 DEF PartsOk
  <2> QED BY <2>1, AllAreThese
<1>6. all = Row(file, rest, p, u, current) BY DEF AllLines
<1>7. after = Row(file, rest, p, Lines(full'), current') BY <1>1 DEF AllLines
<1>8. InPlace(all, dropped \union lost, logged) BY LineInvIs
<1>9. InPlace(after, dropped' \union lost', logged') => LineInv' BY LineInvIs
<1>13. AreLines(file, rest, p, u, current, e) BY <1>2, <1>3, <1>4 DEF AreLines
<1> HIDE DEF p, u, all, after
<1>14. /\ Row(file, rest, p, u, current \o e) = Row(file, rest, p, u, current) \o e
       /\ Row(file, rest, p, u \o current, e) = Row(file, rest, p, u, current) \o e
  <2> HIDE DEF e
  <2> QED BY <1>13, JoinAtEnd
<1>10. after = all \o e
  <2>1. CASE Room - used > len
    <3>1. current' = Append(current, logged + 1) /\ full' = full BY <2>1 DEF AppendLine
    <3>2. current' = current \o e
      <4>1. logged + 1 \in 1 .. MaxLines BY <1>1, LogAssumption
      <4> QED BY <1>3, <3>1, <4>1, AppendIsConcat DEF Buffer
    <3> HIDE DEF e
    <3>3. Lines(full') = u BY <3>1 DEF u
    <3>4. after = Row(file, rest, p, u, current \o e) BY <1>7, <3>2, <3>3
    <3> QED BY <1>6, <1>14, <3>4
  <2>2. CASE ~(Room - used > len)
    <3>1. /\ current' = Append(IF spare # Missing THEN spare ELSE Empty, logged + 1)
          /\ full' = Append(full, current)
      BY <2>2, LogAssumption DEF AppendLine
    <3>2. (IF spare # Missing THEN spare ELSE Empty) = Empty BY DEF TypeOK
    <3>3. current' = e
      <4>1. Append(<<>>, logged + 1) = <<logged + 1>> OBVIOUS
      <4>2. current' = Append(<<>>, logged + 1) BY <3>1, <3>2 DEF Empty
      <4> QED BY <4>1, <4>2
    <3> HIDE DEF e
    <3>4. Lines(full') = u \o current BY <1>3, <3>1, LinesAreLines DEF u
    <3>5. after = Row(file, rest, p, u \o current, e) BY <1>7, <3>3, <3>4
    <3> QED BY <1>6, <1>14, <3>5
  <2> QED BY <2>1, <2>2
<1>11. InPlace(all \o e, dropped \union lost, logged + 1)
  BY <1>1, <1>5, <1>8, OneMore
<1>12. InPlace(after, dropped' \union lost', logged') BY <1>1, <1>10, <1>11
<1> QED BY <1>9, <1>12

\* The swap: what is not kept of the buffers taken is at the end of all, and gone.
LEMMA SwapInOrder ==
  ASSUME TypeOK, RoundInv, LineInv, TypeOK', Swap
  PROVE  LineInv'
<1> DEFINE kept == Lines(SubSeq(Taken, 1, Kept))
           left == Lines(SubSeq(Taken, Kept + 1, Len(Taken)))
           gone == dropped \union lost
           all == AllLines(file, rest, batch, written, full, current)
           after == AllLines(file', rest', batch', written', full', current')
<1>1. MaySwap /\ TakeBuffers /\ lpc \in {"swap", "lock"} BY DEF Swap, MaySwap
<1>2. /\ new1 = Empty /\ batch = <<>> /\ written = 0 /\ rest = <<>> BY <1>1 DEF RoundInv
<1>3. /\ full' = <<>> /\ current' = <<>> /\ file' = file /\ rest' = <<>> /\ written' = 0
      /\ lost' = lost /\ logged' = logged
  BY <1>2 DEF Swap, TakeBuffers, fileVars, Empty
<1>4. /\ Taken \in Seq(Buffer) /\ Kept \in 0 .. Len(Taken) /\ Len(Taken) \in Nat
      /\ batch' = SubSeq(Taken, 1, Kept) /\ Len(batch') = Kept /\ batch' \in Seq(Buffer)
  BY <1>1, BatchFacts, LenProperties
<1>5. /\ kept \in Buffer /\ left \in Buffer /\ Lines(Taken) = kept \o left
      /\ Lines(batch') = kept
  <2>1. Kept \in Nat /\ Kept <= Len(Taken) BY <1>4
  <2>2. /\ SubSeq(Taken, 1, Kept) \in Seq(Buffer)
        /\ SubSeq(Taken, Kept + 1, Len(Taken)) \in Seq(Buffer) /\ Lines(Taken) = kept \o left
    BY <1>4, <2>1, LinesAreLines
  <2> QED BY <1>4, <2>2, LinesAreLines
<1>6. dropped' = dropped \union (ToSet(Lines(Taken)) \ ToSet(Lines(batch')))
  BY <1>1 DEF TakeBuffers, Taken
<1>7. /\ file \in Buffer /\ full \in Seq(Buffer) /\ current \in Buffer BY DEF TypeOK
<1>8. all = file \o (kept \o left)
  <2>1. SubSeq(<<>>, 0 + 1, 0) = <<>> /\ Len(<<>>) = 0 OBVIOUS
  <2>2. Lines(SubSeq(batch, written + 1, Len(batch))) = <<>> BY <1>2, <2>1, NoLines
  <2>3. Lines(full) \o current = Lines(Taken) BY <1>7, LinesAreLines DEF Taken
  <2>4. Lines(Taken) \in Buffer BY <1>4, LinesAreLines
  <2>5. all = file \o (<<>> \o (<<>> \o Lines(Taken))) BY <1>2, <2>2, <2>3 DEF AllLines, Row
  <2> HIDE DEF all, kept, left
  <2>6. all = file \o Lines(Taken) BY <2>4, <2>5, JoinIsAssociative
  <2> QED BY <1>5, <2>6
<1>9. after = file \o kept
  <2>1. SubSeq(batch', 0 + 1, Len(batch')) = batch' BY <1>4, SubSeqFull
  <2>2. Lines(SubSeq(batch', written' + 1, Len(batch'))) = kept BY <1>3, <1>5, <2>1
  <2>3. after = file \o (<<>> \o (kept \o (<<>> \o <<>>))) BY <1>3, <2>2, NoLines DEF AllLines, Row
  <2> HIDE DEF after, kept
  <2> QED BY <1>5, <2>3, JoinIsAssociative
<1>10. InPlace(all, gone, logged) /\ (InPlace(after, dropped' \union lost', logged') => LineInv')
  BY LineInvIs
<1>11. logged \in Nat BY LogAssumption DEF TypeOK
<1> HIDE DEF kept, left, gone, all, after
<1>12. file \o kept \in Buffer /\ <<>> \in Buffer BY <1>5, <1>7, JoinIsAssociative
<1>13. file \o (kept \o left) = (file \o kept) \o (left \o <<>>)
  <2>1. left \o <<>> = left BY <1>5, JoinIsAssociative
  <2>2. (file \o kept) \o left = file \o (kept \o left) BY <1>5, <1>7, JoinIsAssociative
  <2> QED BY <2>1, <2>2
<1>14. /\ InPlace((file \o kept) \o <<>>, gone \union ToSet(left), logged)
       /\ ToSet(file \o kept) \intersect ToSet(left) = {}
  BY <1>5, <1>8, <1>10, <1>11, <1>12, <1>13, TakeOut
<1>15. (file \o kept) \o <<>> = after BY <1>9, <1>12, JoinIsAssociative
<1>16. dropped' \union lost' = gone \union ToSet(left)
  <2>1. ToSet(kept \o left) = ToSet(kept) \union ToSet(left) BY <1>5, JoinFacts
  <2>2. ToSet(file \o kept) = ToSet(file) \union ToSet(kept) BY <1>5, <1>7, JoinFacts
  <2>3. ToSet(kept) \intersect ToSet(left) = {} BY <1>14, <2>2
  <2>4. dropped' = dropped \union ToSet(left) BY <1>5, <1>6, <2>1, <2>3
  <2> QED BY <1>3, <2>4 DEF gone
<1> QED BY <1>3, <1>10, <1>14, <1>15, <1>16

\* Of what is left of the batch, the first buffer and the others.
LEMMA FirstAndRest ==
  ASSUME NEW bs \in Seq(Buffer), NEW k \in Nat, k < Len(bs)
  PROVE  LET cs == SubSeq(bs, k + 1, Len(bs))
         IN  /\ Len(cs) = Len(bs) - k /\ Len(cs) >= 1 /\ Len(cs) \in Nat
             /\ SubSeq(cs, 1, 1) = <<bs[k + 1]>>
             /\ SubSeq(cs, 2, Len(cs)) = SubSeq(bs, (k + 1) + 1, Len(bs))
<1> DEFINE n == Len(bs)
           cs == SubSeq(bs, k + 1, n)
           ds == SubSeq(bs, (k + 1) + 1, n)
           es == SubSeq(cs, 2, Len(cs))
<1>1. n \in Nat /\ \A i \in 1 .. n : bs[i] \in Buffer
  <2>1. n \in Nat BY LenProperties
  <2> QED BY <2>1, ElementOfSeq
<1>2. cs \in Seq(Buffer) /\ Len(cs) = n - k /\ \A i \in 1 .. n - k : cs[i] = bs[k + i]
  <2>1. \A i \in (k + 1) .. n : bs[i] \in Buffer BY <1>1
  <2>2. /\ cs \in Seq(Buffer) /\ Len(cs) = IF k + 1 <= n THEN n - (k + 1) + 1 ELSE 0
        /\ \A i \in 1 .. n - (k + 1) + 1 : cs[i] = bs[(k + 1) + i - 1]
    BY <1>1, <2>1, SubSeqProperties
  <2> HIDE DEF cs
  <2> QED BY <1>1, <2>2
<1>3. /\ ds \in Seq(Buffer) /\ Len(ds) = n - (k + 1)
      /\ \A i \in 1 .. n - (k + 1) : ds[i] = bs[(k + 1) + i]
  <2>1. \A i \in (k + 1) + 1 .. n : bs[i] \in Buffer BY <1>1
  <2>2. /\ ds \in Seq(Buffer)
        /\ Len(ds) = IF (k + 1) + 1 <= n THEN n - ((k + 1) + 1) + 1 ELSE 0
        /\ \A i \in 1 .. n - ((k + 1) + 1) + 1 : ds[i] = bs[((k + 1) + 1) + i - 1]
    BY <1>1, <2>1, SubSeqProperties
  <2> HIDE DEF ds
  <2> QED BY <1>1, <2>2
<1> HIDE DEF cs, ds
<1>4. Len(cs) \in Nat /\ Len(cs) >= 1 /\ \A i \in 1 .. Len(cs) : cs[i] \in Buffer
  <2>1. \A i \in 1 .. Len(cs) : cs[i] \in Buffer BY <1>2, ElementOfSeq
  <2> QED BY <1>1, <1>2, <2>1
<1>5. es \in Seq(Buffer) /\ Len(es) = Len(cs) - 1 /\ \A i \in 1 .. Len(cs) - 1 : es[i] = cs[1 + i]
  <2>1. \A i \in 2 .. Len(cs) : cs[i] \in Buffer BY <1>4
  <2>2. /\ es \in Seq(Buffer) /\ Len(es) = IF 2 <= Len(cs) THEN Len(cs) - 2 + 1 ELSE 0
        /\ \A i \in 1 .. Len(cs) - 2 + 1 : es[i] = cs[2 + i - 1]
    BY <1>4, <2>1, SubSeqProperties
  <2> HIDE DEF es
  <2>3. Len(es) = Len(cs) - 1
    <3> DEFINE m == Len(cs)
    <3>1. m \in Nat /\ m >= 1 BY <1>4
    <3>2. Len(es) = IF 2 <= m THEN m - 2 + 1 ELSE 0 BY <2>2
    <3> HIDE DEF m
    <3>3. CASE 2 <= m
      <4>1. m - 2 + 1 = m - 1 BY <3>1
      <4> QED BY <3>2, <3>3, <4>1 DEF m
    <3>4. CASE m = 1
      <4>1. ~(2 <= m) /\ m - 1 = 0 BY <3>4
      <4> QED BY <3>2, <4>1 DEF m
    <3> QED BY <3>1, <3>3, <3>4
  <2>4. ASSUME NEW i \in 1 .. Len(cs) - 1 PROVE es[i] = cs[1 + i]
    <3>1. i \in 1 .. Len(cs) - 2 + 1 /\ 2 + i - 1 = 1 + i BY <1>4
    <3> QED BY <2>2, <3>1
  <2> QED BY <2>2, <2>3, <2>4
<1> HIDE DEF es
<1>6. es = ds
  <2>1. Len(es) = Len(ds) BY <1>1, <1>2, <1>3, <1>5
  <2>2. ASSUME NEW i \in 1 .. Len(es) PROVE es[i] = ds[i]
    <3>1. i \in 1 .. Len(cs) - 1 /\ 1 + i \in 1 .. n - k /\ i \in 1 .. n - (k + 1)
      BY <1>1, <1>2, <1>4, <1>5
    <3>2. es[i] = bs[k + (1 + i)] BY <1>2, <1>5, <3>1
    <3>3. k + (1 + i) = (k + 1) + i BY <3>1
    <3> QED BY <1>3, <3>1, <3>2, <3>3
  <2> QED BY <1>3, <1>5, <2>1, <2>2, SeqEqual
<1>7. SubSeq(cs, 1, 1) = <<bs[k + 1]>>
  <2> DEFINE fs == SubSeq(cs, 1, 1)
  <2>1. cs[1] = bs[k + 1] /\ cs[1] \in Buffer
    <3>1. 1 \in 1 .. n - k /\ 1 \in 1 .. Len(cs) BY <1>1, <1>4
    <3> QED BY <1>2, <1>4, <3>1
  <2>2. \A i \in 1 .. 1 : cs[i] \in Buffer BY <2>1
  <2>3. fs \in Seq(Buffer) /\ Len(fs) = 1 /\ \A i \in 1 .. 1 : fs[i] = cs[i]
    <3>1. /\ fs \in Seq(Buffer) /\ Len(fs) = IF 1 <= 1 THEN 1 - 1 + 1 ELSE 0
          /\ \A i \in 1 .. 1 - 1 + 1 : fs[i] = cs[1 + i - 1]
      BY <1>4, <2>2, SubSeqProperties
    <3> HIDE DEF fs
    <3> QED BY <3>1
  <2> HIDE DEF fs
  <2>4. <<bs[k + 1]>> \in Seq(Buffer) /\ Len(<<bs[k + 1]>>) = 1 /\ <<bs[k + 1]>>[1] = bs[k + 1]
    BY <2>1
  <2>5. fs = <<bs[k + 1]>>
    <3> DEFINE e == <<bs[k + 1]>>
    <3>1. e \in Seq(Buffer) /\ Len(e) = 1 /\ e[1] = bs[k + 1] BY <2>4
    <3> HIDE DEF e
    <3>2. \A i \in 1 .. Len(fs) : fs[i] = e[i] BY <2>1, <2>3, <3>1
    <3>3. fs = e BY <2>3, <3>1, <3>2, SeqEqual
    <3> QED BY <3>3 DEF e
  <2> QED BY <2>5 DEF fs
<1> QED BY <1>1, <1>2, <1>4, <1>6, <1>7 DEF cs, ds, es

\* The next buffer of the batch: its lines were the first of the batch.
LEMMA AppendNextInOrder ==
  ASSUME TypeOK, RoundInv, LineInv, TypeOK', AppendNext
  PROVE  LineInv'
<1> DEFINE n == Len(batch)
           bs == SubSeq(batch, written + 1, n)
           b == batch[written + 1]
           cs == SubSeq(batch, written' + 1, n)
           p == Lines(bs)
           q == Lines(cs)
           u == Lines(full)
<1>1. /\ lpc = "next" /\ written' = written + 1 /\ rest' = b /\ written < n /\ rest = <<>>
      /\ UNCHANGED <<file, batch, full, current, dropped, lost, logged>>
  BY DEF AppendNext, LogGoes, RoundInv, front
<1>2. /\ batch \in Seq(Buffer) /\ written \in Nat /\ n \in Nat /\ file \in Buffer
      /\ full \in Seq(Buffer) /\ current \in Buffer
  BY LenProperties DEF TypeOK
<1>3. b \in Buffer
  <2>1. written + 1 \in 1 .. n BY <1>1, <1>2
  <2> QED BY <1>2, <2>1, ElementOfSeq
<1>4. bs \in Seq(Buffer) /\ cs \in Seq(Buffer)
  <2>1. written <= n /\ written' \in Nat /\ written' <= n BY <1>1, <1>2
  <2> QED BY <1>2, <2>1, LinesAreLines
<1>5. p = b \o q /\ q \in Buffer /\ u \in Buffer
  <2>1. /\ Len(bs) = n - written /\ Len(bs) >= 1 /\ Len(bs) \in Nat
        /\ SubSeq(bs, 1, 1) = <<b>> /\ SubSeq(bs, 2, Len(bs)) = cs
    BY <1>1, <1>2, FirstAndRest
  <2> HIDE DEF bs, cs, b
  <2>2. Lines(bs) = Lines(SubSeq(bs, 1, 1)) \o Lines(SubSeq(bs, 1 + 1, Len(bs)))
    BY <1>4, <2>1, LinesAreLines
  <2>3. Lines(<<b>>) = b
    <3>1. <<>> \in Seq(Buffer) /\ Append(<<>>, b) = <<b>> BY EmptySeq
    <3>2. Lines(Append(<<>>, b)) = Lines(<<>>) \o b BY <1>3, <3>1, LinesAreLines
    <3>3. <<>> \o b = b BY <1>3, JoinIsAssociative
    <3> QED BY <3>1, <3>2, <3>3, NoLines
  <2>4. Lines(SubSeq(bs, 1 + 1, Len(bs))) = Lines(cs)
    <3>1. 1 + 1 = 2 OBVIOUS
    <3> QED BY <2>1, <3>1
  <2>5. Lines(cs) \in Buffer /\ Lines(full) \in Buffer BY <1>2, <1>4, LinesAreLines
  <2> QED BY <2>1, <2>2, <2>3, <2>4, <2>5
<1>6. AllLines(file, rest, batch, written, full, current) = Row(file, <<>>, p, u, current)
  BY <1>1 DEF AllLines
<1>7. AllLines(file', rest', batch', written', full', current') = Row(file, b, q, u, current)
  BY <1>1 DEF AllLines
<1> HIDE DEF n, bs, b, cs, p, q, u
<1>8. Row(file, <<>>, p, u, current) = Row(file, b, q, u, current)
  <2> DEFINE z == u \o current
  <2>1. z \in Buffer BY <1>2, <1>5, JoinIsAssociative
  <2> HIDE DEF z
  <2>2. p \in Buffer /\ p \o z \in Buffer BY <1>3, <1>5, <2>1, JoinIsAssociative
  <2>3. <<>> \o (p \o z) = p \o z BY <2>2, JoinIsAssociative
  <2>4. p \o z = b \o (q \o z) BY <1>3, <1>5, <2>1, JoinIsAssociative
  <2> QED BY <2>3, <2>4 DEF Row, z
<1> QED BY <1>1, <1>6, <1>7, <1>8, LineInvIs

\* What a write or a flush loses is gone, and all else is where it was.
LEMMA FileMoveInOrder ==
  ASSUME TypeOK, LineInv, TypeOK', FileMove,
         UNCHANGED <<full, current, dropped, logged>>,
         Lines(SubSeq(batch', written' + 1, Len(batch')))
             = Lines(SubSeq(batch, written + 1, Len(batch)))
  PROVE  LineInv'
<1> DEFINE p == Lines(SubSeq(batch, written + 1, Len(batch)))
           u == Lines(full)
           z == p \o (u \o current)
           gone == dropped \union lost
<1>1. PICK x \in Buffer : /\ file \o rest = file' \o (x \o rest')
                          /\ lost' = lost \union ToSet(x)
  BY DEF FileMove
<1>2. /\ file \in Buffer /\ rest \in Buffer /\ file' \in Buffer /\ rest' \in Buffer
      /\ batch \in Seq(Buffer) /\ written \in Nat /\ written <= Len(batch)
      /\ full \in Seq(Buffer) /\ current \in Buffer
  BY LenProperties DEF TypeOK
<1>3. z \in Buffer
  <2>1. SubSeq(batch, written + 1, Len(batch)) \in Seq(Buffer) BY <1>2, LinesAreLines
  <2>2. p \in Buffer /\ u \in Buffer BY <1>2, <2>1, LinesAreLines
  <2> HIDE DEF p, u
  <2>3. u \o current \in Buffer BY <1>2, <2>2, JoinIsAssociative
  <2> QED BY <2>2, <2>3, JoinIsAssociative
<1>4. AllLines(file, rest, batch, written, full, current) = file \o (rest \o z)
  BY DEF AllLines, Row
<1>5. AllLines(file', rest', batch', written', full', current') = file' \o (rest' \o z)
  BY DEF AllLines, Row
<1>6. /\ InPlace(file \o (rest \o z), gone, logged)
      /\ InPlace(file' \o (rest' \o z), dropped' \union lost', logged') => LineInv'
  BY <1>4, <1>5, LineInvIs
<1> HIDE DEF p, u, z
<1>7. file \o (rest \o z) = file' \o (x \o (rest' \o z)) /\ rest' \o z \in Buffer
  <2>1. /\ file \o (rest \o z) = (file \o rest) \o z /\ x \o rest' \in Buffer
        /\ rest' \o z \in Buffer
    BY <1>2, <1>3, JoinIsAssociative
  <2>2. (file' \o (x \o rest')) \o z = file' \o ((x \o rest') \o z)
    BY <1>2, <1>3, <2>1, JoinIsAssociative
  <2>3. (x \o rest') \o z = x \o (rest' \o z) BY <1>2, <1>3, JoinIsAssociative
  <2> QED BY <1>1, <2>1, <2>2, <2>3
<1>8. logged \in Nat BY LogAssumption DEF TypeOK
<1>9. InPlace(file' \o (rest' \o z), gone \union ToSet(x), logged)
  BY <1>2, <1>6, <1>7, <1>8, TakeOut
<1>10. dropped' \union lost' = gone \union ToSet(x) BY <1>1
<1> HIDE DEF gone
<1> QED BY <1>6, <1>9, <1>10

\* The batch has been appended: nothing of it is left, and the file is flushed.
LEMMA RecycleInOrder ==
  ASSUME TypeOK, LineInv, TypeOK', Recycle
  PROVE  LineInv'
<1>1. /\ written = Len(batch) /\ batch' = <<>> /\ written' = 0 /\ Flush
      /\ UNCHANGED <<full, current, dropped, logged>>
  BY DEF Recycle, FlushFile, front
<1>2. Lines(SubSeq(batch, written + 1, Len(batch))) = <<>>
  <2>1. Len(batch) \in Nat BY LenProperties DEF TypeOK
  <2>2. SubSeq(batch, Len(batch) + 1, Len(batch)) = <<>> BY <2>1, SubSeqEmpty DEF TypeOK
  <2> QED BY <1>1, <2>2, NoLines
<1>3. Lines(SubSeq(batch', written' + 1, Len(batch'))) = <<>>
  <2>1. SubSeq(<<>>, 0 + 1, 0) = <<>> /\ Len(<<>>) = 0 OBVIOUS
  <2> QED BY <1>1, <2>1, NoLines
<1>4. FileMove BY <1>1, FlushMoves
<1> QED BY <1>1, <1>2, <1>3, <1>4, FileMoveInOrder

\* What is written, and what is flushed with no batch changing hands.
LEMMA WrittenInOrder ==
  ASSUME TypeOK, LineInv, TypeOK', AppendSome \/ AppendEnds \/ LastFlush
  PROVE  LineInv'
<1>1. UNCHANGED <<batch, written, full, current, dropped, logged>>
  BY DEF AppendSome, AppendEnds, LastFlush, front, back
<1>2. FileMove
  BY WriteMoves, CountMoves, FlushMoves DEF AppendSome, AppendEnds, LastFlush, FlushFile
<1> QED BY <1>1, <1>2, FileMoveInOrder

\* Whatever happens to the log, its lines stay in order.
LEMMA LineStep ==
  ASSUME TypeOK, RoundInv, LineInv, TypeOK', LogMove
  PROVE  LineInv'
<1> USE DEF front, back, fileVars
<1>1. CASE UNCHANGED logVars BY <1>1, LinesStay DEF logVars
<1>2. CASE MakeThread \/ OwnerStep \/ Stop
  BY <1>2, LinesStay DEF MakeThread, OwnerStep, MakeMembers, Start, StartNotify, StartReturn,
                         Stop, StopNotify, StopReturn
<1>3. CASE BeginCheck \/ BeginSleep \/ Top \/ Lock \/ Timeout
  BY <1>3, LinesStay DEF BeginCheck, BeginSleep, Top, Lock, Timeout
<1>4. CASE AppendSome \/ AppendEnds \/ LastFlush BY <1>4, WrittenInOrder
<1>5. CASE Swap \/ AppendNext \/ Recycle
  BY <1>5, SwapInOrder, AppendNextInOrder, RecycleInOrder
<1>6. CASE \E len \in 0 .. Room - 1 : AppendLine(len) BY <1>6, AppendLineInOrder
<1> QED BY <1>1, <1>2, <1>3, <1>4, <1>5, <1>6 DEF LogMove, LogThread

-----------------------------------------------------------------------------
(* The theorems.                                                           *)

\* The invariant holds in every state of every start.
THEOREM LogInvHolds == StartSpec => []LogInv
<1>1. LogInv /\ [StartNext]_allVars => LogInv'
  <2> SUFFICES ASSUME LogInv, [StartNext]_allVars PROVE LogInv' OBVIOUS
  <2>1. LogMove BY StepsAreMoves
  <2>2. TypeOK' /\ RoundInv' BY <2>1, RoundStep DEF LogInv
  <2>3. LineInv' BY <2>1, <2>2, LineStep DEF LogInv
  <2>4. StreamInv' /\ StartInv' BY StreamStep, StartStep
  <2> QED BY <2>2, <2>3, <2>4 DEF LogInv
<1> QED BY <1>1, InitIsFine, PTL DEF StartSpec

\* LogStream: no line, with the NUL that a conversion puts behind a number, goes past
\* the end of its buffer, whatever the pieces.
THEOREM StreamsFit == StartSpec => []NeverOverruns
<1>1. LogInv => NeverOverruns
  <2> SUFFICES ASSUME LogInv, NEW t \in Threads, line[t] # NoLine
               PROVE  line[t].top <= SmallBuffer /\ line[t].cur < SmallBuffer
    BY DEF NeverOverruns
  <2>1. StreamFits(line[t]) BY DEF LogInv, StreamInv
  <2> QED BY <2>1, StreamAssumption DEF StreamFits
<1> QED BY <1>1, LogInvHolds, PTL

\* AsyncLogging::threadFunc(): at every turn newBuffer1 and newBuffer2 are there and
\* empty, and the batch has as many buffers as are missing: no assertion fails.
THEOREM BuffersGoRound == StartSpec => []AssertionsHold
<1>1. LogInv => AssertionsHold BY DEF LogInv, RoundInv, AssertionsHold
<1> QED BY <1>1, LogInvHolds, PTL

\* AsyncLogging: every line that was logged is in the file, or on its way, or dropped or
\* lost to the disk, once and in order.
THEOREM NoLineIsMislaid == StartSpec => []LinesInOrder
<1>1. LogInv => LinesInOrder BY DEF LogInv, LineInv, InPlace, Rising, LinesInOrder
<1> QED BY <1>1, LogInvHolds, PTL

\* create_daemon(): the process that goes on has the thread of its log, if there is a
\* log: none is there before the fork.
THEOREM LogIsServed == StartSpec => []LogHasThread
<1>1. LogInv => LogHasThread BY DEF LogInv, TypeOK, LogHasThread
<1> QED BY <1>1, LogInvHolds, PTL

\* main(): however the start goes, one process serves, at its end, with its log.
THEOREM OneProcessServes == StartSpec => []OneServes
<1>1. LogInv /\ LogHasThread => OneServes BY DEF LogInv, StartInv, OneServes
<1> QED BY <1>1, LogInvHolds, LogIsServed, PTL
=============================================================================
