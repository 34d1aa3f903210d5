------------------------------- MODULE LogFile -------------------------------
(***************************************************************************)
(* The log's file: LogFile (common/src/LogFile.cpp) over AppendFile        *)
(* (common/src/FileUtil.cpp) over the C library, which keeps what it is    *)
(* given until it is flushed, or until it has no room for more.  A write   *)
(* may take less than it is given; the rest is tried again until a further *)
(* write takes nothing.  When the disk fails the library lets go of all it *)
(* has kept, and nobody here asks it.                                      *)
(*                                                                         *)
(* The unit is the line: what the disk or a write takes is so many whole   *)
(* lines and, of the one behind them, nothing or a part.  Only the log's   *)
(* own thread uses the file, so that its mutex is never waited for.        *)
(***************************************************************************)
EXTENDS Naturals, Sequences, FiniteSets, SequencesExt

CONSTANTS
    FlushEveryN,   \* flushEveryN_
    MaxFaults      \* bound: writes and flushes that fail

VARIABLES
    file,     \* the lines the C library took and has not let go of, in order
    disk,     \* how many of them are written out
    count,    \* count_
    rest,     \* of the buffer being appended: the lines still to be written
    again,    \* append() is in its loop, its first write was short
    lost,     \* the lines that were given up, torn or let go of (history)
    faults    \* writes and flushes that have failed

fileVars == <<file, disk, count, rest, again, lost, faults>>

FileInit ==
    /\ file = <<>> /\ disk = 0 /\ count = 0
    /\ rest = <<>> /\ again = FALSE /\ lost = {} /\ faults = 0

Fault(failed) == /\ faults' = faults + (IF failed THEN 1 ELSE 0)
                 /\ faults' <= MaxFaults

Appended == file \o rest   \* what the file has taken, and is to take

\* The first k lines of Appended are on the disk and the library keeps nothing; all but the
\* first m are tried again; those between are lost.
Reaches(k, m) ==
    /\ disk' = k /\ file' = SubSeq(Appended, 1, k)
    /\ rest' = SubSeq(Appended, m + 1, Len(Appended))
    /\ lost' = lost \union {Appended[i] : i \in k + 1 .. m}

\* A write that takes all; what the library has no room for goes to the disk.
WholeWrite ==
    /\ file' = Appended /\ rest' = <<>>
    /\ disk' \in disk .. Len(Appended)
    /\ UNCHANGED <<lost, faults>>

\* Slip: the loop starts again from the beginning of the text.
ShortWriteFromStart(n, part) ==
    /\ Fault(TRUE)
    /\ \E k \in disk .. Len(file) + n : Reaches(k, Len(file))

\* A write that takes n lines, and no more or a part of the next one: of all of these k
\* are on the disk, and the library has let go of the others.  A part that is on the disk
\* is made whole by the next write; one that is let go of leaves its line torn.  A second
\* write that takes nothing is the last.
ShortWrite(n, part) ==
    LET taken == Len(file) + n
        givenUp == again /\ n = 0 /\ part = "none"
    IN /\ Fault(TRUE)
       /\ \E k \in disk .. taken :
             /\ part = "kept" => k = taken
             /\ Reaches(k, CASE givenUp -> Len(Appended)
                               [] part = "torn" -> taken + 1
                               [] OTHER -> taken)

\* One fwrite_unlocked() of append().
FileWrite ==
    /\ \/ WholeWrite
       \/ \E n \in 0 .. Len(rest) - 1, part \in {"none", "kept", "torn"} : ShortWrite(n, part)
    /\ again' = (rest' # <<>>)
    /\ UNCHANGED count

\* fflush(), whose result nobody asks for: all that the library keeps goes to the disk,
\* or as much as the disk takes.
Flush ==
    \E k \in disk .. Len(file) :
        /\ Fault(k < Len(file))
        /\ Reaches(k, Len(file))

\* append_unlocked(), when the text is through: flush every FlushEveryN texts.
CountText ==
    /\ count' = IF count + 1 >= FlushEveryN THEN 0 ELSE count + 1
    /\ IF count + 1 >= FlushEveryN THEN Flush ELSE UNCHANGED <<file, disk, rest, lost, faults>>
    /\ UNCHANGED again

\* flush()
FlushFile == Flush /\ UNCHANGED <<count, again>>

OnDisk == {file[i] : i \in 1 .. disk}
=============================================================================
