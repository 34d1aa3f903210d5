---------------------------- MODULE AsyncLogging ----------------------------
(***************************************************************************)
(* The asynchronous log (common/src/AsyncLogging.cpp): any thread appends  *)
(* its line to the current buffer under the mutex, and the log's own       *)
(* thread takes the buffers away, appends them to the file and gives two   *)
(* of them back to be filled again, four buffers going round in all.       *)
(*                                                                         *)
(* A line is its number, in the order of the appends; a buffer is the      *)
(* sequence of the lines in it, and takes Room bytes.  The mutex makes one *)
(* step of what is done under it.                                          *)
(***************************************************************************)
EXTENDS LogFile

CONSTANTS
    Room,       \* kLargeBuffer
    MaxBatch,   \* more buffers than this are not all written: 25 in the code
    MaxLines,   \* bound: lines logged in all
    Missing     \* a null BufferPtr

ASSUME LogAssumption ==
    /\ Room \in Nat \ {0} /\ MaxBatch \in Nat /\ MaxBatch >= 2 /\ MaxLines \in Nat
    /\ Missing \notin Seq(Nat)

VARIABLES
    running,   \* running_
    started,   \* the latch: 0 if the thread has counted it down
    opc,       \* where the thread is that makes, starts and stops the log
    lpc,       \* where the log's thread is
    logged,    \* the number of lines appended
    current,   \* currentBuffer_
    used,      \* its length()
    spare,     \* nextBuffer_
    full,      \* buffers_
    new1,      \* newBuffer1
    new2,      \* newBuffer2
    batch,     \* buffersToWrite
    written,   \* how many of these have been handed to the file
    dropped    \* the lines that were thrown away (history)

front == <<logged, current, used, spare, full>>
back == <<new1, new2, batch, written, dropped>>
logVars == <<running, started, opc, lpc, front, back, fileVars>>

Empty == <<>>

LogInit ==
    /\ running = FALSE /\ started = FALSE
    /\ opc = "new" /\ lpc = "none"
    /\ logged = 0 /\ current = Empty /\ used = 0 /\ spare = Empty /\ full = <<>>
    /\ new1 = Empty /\ new2 = Empty /\ batch = <<>> /\ written = 0 /\ dropped = {}
    /\ FileInit

\* Who sleeps on cond_, and where it goes on when it is notified.
Notified(pc) == CASE pc = "waitstart" -> "begin"
                  [] pc = "waitlines" -> "swap"
                  [] OTHER -> pc

OwnerGoes(from, to) == opc = from /\ opc' = to

-----------------------------------------------------------------------------
(* The threads that log, and the one that makes, starts and stops it.      *)

\* The constructor: thread_ is declared before mutex_, cond_ and latch_, so that the
\* thread runs before these are made ...
MakeThread ==
    /\ OwnerGoes("new", "members")
    /\ lpc' = "begin"
    /\ UNCHANGED <<running, started, front, back, fileVars>>

\* ... and cond_, made while the thread sleeps on it, may forget it.
MakeMembers ==
    /\ OwnerGoes("members", "start")
    /\ lpc' \in {lpc, IF lpc = "waitstart" THEN "forgotten" ELSE lpc}
    /\ UNCHANGED <<running, started, front, back, fileVars>>

\* start(): running_ = true, without the mutex ...
Start ==
    /\ OwnerGoes("start", "notify")
    /\ running' = TRUE
    /\ UNCHANGED <<started, lpc, front, back, fileVars>>

\* ... notify_all() ...
StartNotify ==
    /\ OwnerGoes("notify", "latch")
    /\ lpc' = Notified(lpc)
    /\ UNCHANGED <<running, started, front, back, fileVars>>

\* ... and the latch.
StartReturn ==
    /\ OwnerGoes("latch", "log")
    /\ started
    /\ UNCHANGED <<running, started, lpc, front, back, fileVars>>

\* append(): into the current buffer, or, if it has no room, into the spare one or
\* a new one, with the log's thread told.
AppendLine(len) ==
    /\ opc \in {"log", "stop", "join"} /\ logged < MaxLines
    /\ logged' = logged + 1
    /\ IF Room - used > len
       THEN /\ current' = Append(current, logged + 1)
            /\ used' = used + len
            /\ UNCHANGED <<spare, full, lpc>>
       ELSE /\ full' = Append(full, current)
            /\ LET fresh == IF spare # Missing THEN spare ELSE Empty
                   fits == Room > len   \* or FixedBuffer::append() leaves it out
               IN /\ current' = IF fits THEN Append(fresh, logged + 1) ELSE fresh
                  /\ used' = IF fits THEN len ELSE 0
            /\ spare' = Missing
            /\ lpc' = Notified(lpc)
    /\ UNCHANGED <<running, started, opc, back, fileVars>>

\* stop(): running_ = false ...
Stop ==
    /\ OwnerGoes("log", "stop")
    /\ running' = FALSE
    /\ UNCHANGED <<started, lpc, front, back, fileVars>>

\* ... notify_all() ...
StopNotify ==
    /\ OwnerGoes("stop", "join")
    /\ lpc' = Notified(lpc)
    /\ UNCHANGED <<running, started, front, back, fileVars>>

\* ... and join().
StopReturn ==
    /\ OwnerGoes("join", "stopped")
    /\ lpc = "done"
    /\ UNCHANGED <<running, started, lpc, front, back, fileVars>>

-----------------------------------------------------------------------------
(* The log's thread: threadFunc().                                         *)

LogGoes(from, to) == lpc = from /\ lpc' = to

\* Under the mutex: has start() been called?  If not, cond_.wait() will let go of
\* the mutex; start() does not take it and may come in between.
BeginCheck ==
    /\ LogGoes("begin", IF running THEN "top" ELSE "tosleep")
    /\ started' = (started \/ running)
    /\ UNCHANGED <<running, opc, front, back, fileVars>>

BeginSleep ==
    /\ LogGoes("tosleep", "waitstart")
    /\ UNCHANGED <<running, started, opc, front, back, fileVars>>

\* while (running_), and the assertions that the two buffers are there and empty.
Top ==
    /\ LogGoes("top", IF ~running THEN "last"
                      ELSE IF new1 # Empty \/ new2 # Empty \/ batch # <<>> THEN "aborted"
                      ELSE "lock")
    /\ UNCHANGED <<running, started, opc, front, back, fileVars>>

\* Under the mutex: if nothing is full, sleep for a while.
Lock ==
    /\ LogGoes("lock", "waitlines")
    /\ full = <<>>
    /\ UNCHANGED <<running, started, opc, front, back, fileVars>>

\* Slip: the waiting goes on while nothing is full.
TimeoutWaitsOn ==
    /\ LogGoes("waitlines", "swap")
    /\ full # <<>>
    /\ UNCHANGED <<running, started, opc, front, back, fileVars>>

\* wait_for() gives up after flushInterval_.
Timeout ==
    /\ LogGoes("waitlines", "swap")
    /\ UNCHANGED <<running, started, opc, front, back, fileVars>>

\* It has slept, or found something full.
MaySwap == lpc = "swap" \/ (lpc = "lock" /\ full # <<>>)

Lines(buffers) == FlattenSeq(buffers)

\* All that has been filled is taken; too many buffers are cut down to two.
TakeBuffers ==
    LET taken == Append(full, current)
    IN /\ batch' = IF Len(taken) > MaxBatch THEN SubSeq(taken, 1, 2) ELSE taken
       /\ dropped' = dropped \union (ToSet(Lines(taken)) \ ToSet(Lines(batch')))
       /\ full' = <<>>
       /\ current' = new1 /\ new1' = Missing /\ used' = 0

\* Slip: newBuffer2 is given away whether the spare buffer is missing or not.
SwapAlwaysSpare ==
    /\ MaySwap /\ lpc' = "next"
    /\ TakeBuffers
    /\ spare' = new2 /\ new2' = Missing
    /\ UNCHANGED <<running, started, opc, logged, written, fileVars>>

\* Under the mutex again: the buffers are taken, the current one too, and the empty
\* ones put in its place.  (They are cut down after the mutex is given back, where
\* nobody else sees them.)
Swap ==
    /\ MaySwap /\ lpc' = "next"
    /\ TakeBuffers
    /\ IF spare = Missing THEN spare' = new2 /\ new2' = Missing
                          ELSE UNCHANGED <<spare, new2>>
    /\ UNCHANGED <<running, started, opc, logged, written, fileVars>>

\* Without the mutex each buffer is appended to the file ...
AppendNext ==
    /\ LogGoes("next", "append")
    /\ written < Len(batch)
    /\ written' = written + 1
    /\ rest' = batch[written + 1]
    /\ UNCHANGED <<running, started, opc, front, new1, new2, batch, dropped>>
    /\ UNCHANGED <<file, disk, count, again, lost, faults>>

AppendSome ==
    /\ lpc = "append" /\ rest # <<>>
    /\ FileWrite
    /\ UNCHANGED <<running, started, opc, lpc, front, back>>

AppendEnds ==
    /\ LogGoes("append", "next")
    /\ rest = <<>>
    /\ CountText
    /\ UNCHANGED <<running, started, opc, front, back>>

\* ... the last two of at most two become newBuffer1 and newBuffer2 where these are
\* gone, and the file is flushed.
Recycle ==
    /\ LET left == IF Len(batch) > 2 THEN 2 ELSE Len(batch)
           needed == Cardinality({b \in {1, 2} : <<new1, new2>>[b] = Missing})
       IN LogGoes("next", IF left < needed THEN "aborted" ELSE "top")
    /\ written = Len(batch)
    /\ new1' = Empty /\ new2' = Empty
    /\ batch' = <<>> /\ written' = 0
    /\ FlushFile
    /\ UNCHANGED <<running, started, opc, front, dropped>>

\* The loop is over: the last flush, and the file is closed.
LastFlush ==
    /\ LogGoes("last", "done")
    /\ FlushFile
    /\ UNCHANGED <<running, started, opc, front, back>>

LogThread == \/ BeginCheck \/ BeginSleep \/ Top \/ Lock \/ Timeout \/ Swap
             \/ AppendNext \/ AppendSome \/ AppendEnds \/ Recycle \/ LastFlush

OwnerStep == \/ MakeMembers \/ Start \/ StartNotify \/ StartReturn
             \/ StopNotify \/ StopReturn

-----------------------------------------------------------------------------
Buffer == Seq(1 .. MaxLines)

\* Type invariant of the log.
TypeOK ==
    /\ running \in BOOLEAN /\ started \in BOOLEAN
    /\ opc \in {"new", "members", "start", "notify", "latch", "log", "stop", "join",
                "stopped"}
    /\ lpc \in {"none", "begin", "tosleep", "waitstart", "forgotten", "top", "lock",
                "waitlines", "swap", "next", "append", "last", "done", "aborted"}
    /\ logged \in 0 .. MaxLines
    /\ current \in Buffer /\ used \in 0 .. Room - 1
    /\ spare \in {Empty, Missing} /\ new1 \in {Empty, Missing} /\ new2 \in {Empty, Missing}
    /\ full \in Seq(Buffer) /\ batch \in Seq(Buffer) /\ written \in 0 .. Len(batch)
    /\ file \in Buffer /\ disk \in 0 .. Len(file) /\ rest \in Buffer
    /\ dropped \subseteq 1 .. MaxLines /\ lost \subseteq 1 .. MaxLines

\* Safety: the assertions on the four buffers hold: at every turn newBuffer1 and
\* newBuffer2 are there and empty, and the batch has as many buffers as are missing,
\* however many lines are logged between any two steps of the log's thread.
AssertionsHold == TypeOK /\ lpc # "aborted"

\* What the log's thread still has to hand to the file.
Unwritten == rest \o Lines(SubSeq(batch, written + 1, Len(batch))) \o Lines(full) \o current

\* Safety: every line logged is in the file, or dropped with too many buffers, or
\* lost to a disk that fails, or on its way, once and in order, wherever the appends
\* fall into the swap of the buffers and however little the file takes at a time.
LinesInOrder ==
    LET lines == file \o Unwritten
    IN  /\ \A i, j \in DOMAIN lines : i < j => lines[i] < lines[j]
        /\ ToSet(lines) = (1 .. logged) \ (dropped \union lost)

\* Liveness: a line is on the disk after a while, or dropped, or lost to a disk that
\* failed, unless the log stops: no line waits in the library or in a buffer for others
\* to come, and a write that falls short is followed by the rest.
LineIsWritten ==
    \A n \in 1 .. MaxLines :
        logged >= n ~> n \in OnDisk \union dropped \union lost \/ ~running

-----------------------------------------------------------------------------
(* What comments of the source say, and the code does not do: no run checks  *)
(* these, and the README says which steps break them.                        *)

\* Liveness: start() returns when threadFunc() has really begun, as the comment in
\* it says.
StartReturns == <>(opc = "log")

\* Safety: the thread writes what is logged to the file: when stop() has returned,
\* no line is left behind in a buffer.
NothingLeftBehind == opc = "stopped" => current = Empty /\ full = <<>>
=============================================================================
