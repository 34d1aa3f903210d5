------------------------------ MODULE LogStream ------------------------------
(***************************************************************************)
(* The front of the log: LogStream (common/src/LogStream.cpp) puts the     *)
(* pieces of a line one behind the other into a FixedBuffer on the stack,  *)
(* and leaves out what does not fit; Logger (common/src/Logging.cpp) puts  *)
(* time and level before the pieces of the user, and file, line, thread    *)
(* and a newline behind them.                                              *)
(*                                                                         *)
(* A piece is a text, copied with memcpy, or a number, converted in place  *)
(* with a closing NUL; of both only the length counts.                     *)
(***************************************************************************)
EXTENDS Naturals, Sequences, SequencesExt

CONSTANTS
    SmallBuffer,   \* kSmallBuffer
    NumericSize,   \* kMaxNumericSize: no number with its NUL is longer
    LineHead, LineTail     \* what Logger puts before and behind the user's pieces

Text(len) == [kind |-> "text", len |-> len]
Number(len) == [kind |-> "number", len |-> len]

Newline == Text(1)

Piece == [kind : {"text"}, len : Nat] \union [kind : {"number"}, len : 0 .. NumericSize - 1]

ASSUME StreamAssumption ==
    /\ SmallBuffer \in Nat \ {0} /\ NumericSize \in Nat
    /\ LineHead \in Seq(Piece) /\ LineTail \in Seq(Piece)

\* A stream: cur_, how far the buffer was written to, and the pieces left out.
Fresh == [cur |-> 0, top |-> 0, out |-> <<>>]

Avail(stream) == SmallBuffer - stream.cur

Write(stream, len, bytes) ==
    [stream EXCEPT !.cur = @ + len, !.top = Max({@, stream.cur + bytes})]

LeaveOut(stream, piece) == [stream EXCEPT !.out = Append(@, piece)]

\* FixedBuffer::append(): if there is more room than needed.
PutText(stream, piece) ==
    IF Avail(stream) > piece.len THEN Write(stream, piece.len, piece.len)
                                 ELSE LeaveOut(stream, piece)

\* Slip: there is room for the digits, and not for the NUL.
PutNumberTight(stream, piece) ==
    IF Avail(stream) >= piece.len THEN Write(stream, piece.len, piece.len + 1)
                                  ELSE LeaveOut(stream, piece)

\* formatInteger() and the conversions with snprintf(): if there is room for any
\* number.
PutNumber(stream, piece) ==
    IF Avail(stream) >= NumericSize THEN Write(stream, piece.len, piece.len + 1)
                                    ELSE LeaveOut(stream, piece)

\* operator<<
Put(stream, piece) ==
    IF piece.kind = "text" THEN PutText(stream, piece) ELSE PutNumber(stream, piece)

\* A Logger from its constructor to its destructor.
LoggerLine(message) ==
    FoldLeft(Put, Fresh, LineHead \o message \o Append(LineTail, Newline))
=============================================================================
