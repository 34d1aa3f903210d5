------------------------------- MODULE Startup -------------------------------
(***************************************************************************)
(* The start of the program: main() (main/src/main.cpp) loads the          *)
(* configuration (common/src/Config.cpp), becomes a daemon if it says so   *)
(* (Process::create_daemon(), common/src/Process.cpp), and serves.  A step *)
(* of this that fails is logged, and the program serves all the same.      *)
(*                                                                         *)
(* Composed with Logging: of a process that forks only the forking thread  *)
(* goes on in the child, so that a log started before has no thread there. *)
(* A line of the file is comment, or a name and a value around an equals   *)
(* sign.                                                                   *)
(***************************************************************************)
EXTENDS Logging

CONSTANTS
    Main,        \* the first thread, in Threads
    ConfigFiles  \* what the file may hold: sequences of lines

ASSUME MainAssumption == Main \in Threads

VARIABLES
    phase,    \* how far the process is that goes on
    items,    \* Config::configs
    servers   \* how many processes serve

startVars == <<phase, items, servers>>
allVars == <<vars, startVars>>

\* An item: its name, the blanks before its equals sign, and the characters behind it.
Entry(name, before, text) == [comment |-> FALSE, name |-> name, before |-> before, text |-> text]
Comment == [Entry("", 0, <<>>) EXCEPT !.comment = TRUE]

\* Config::load() takes one character before the equals sign and one behind it for
\* blanks, whatever they are: a name without a blank behind it loses a character, one with
\* more keeps the others; so does the value.
Loaded(entry) == [name |-> IF entry.before = 1 THEN entry.name ELSE "garbled",
                  value |-> Tail(entry.text)]

Entries(lines) == SelectSeq(lines, LAMBDA l : ~l.comment)
LoadedItems(lines) == [i \in DOMAIN Entries(lines) |-> Loaded(Entries(lines)[i])]

\* A line that ends with its equals sign has no such character: substr() throws, and
\* nobody catches it.
Throws(lines) == \E i \in DOMAIN Entries(lines) : Entries(lines)[i].text = <<>>

\* Config::getStr(): the first of that name.
GetStr(name) ==
    LET found == SelectSeq(items, LAMBDA item : item.name = name)
    IN IF found = <<>> THEN <<>> ELSE found[1].value

\* Config::getNum(): atoi() skips the blanks in front and ends at what is no digit; only
\* that it is 1 is told from the other numbers.
IsOne(text) ==
    \E i \in DOMAIN text : /\ text[i] = "1" /\ \A j \in 1 .. i - 1 : text[j] = " "
                           /\ i < Len(text) => text[i + 1] \notin {"0", "1"}

GetNum(name) == IF IsOne(GetStr(name)) THEN 1 ELSE 0

StartInit ==
    /\ Init
    /\ phase = "load" /\ items = <<>> /\ servers = 0

-----------------------------------------------------------------------------
PhaseGoes(from, to) == phase = from /\ phase' = to

\* Slip: main() serves when lanuchWithDeamon() succeeds.
ServesOnSuccess(result) == result = 1

\* main() serves unless lanuchWithDeamon() returns 0; -1, for failure, is not 0.
Serves(result) == result # 0

\* Slip: what create_daemon() returns in the parent is not told from success.
LaunchResultAnyway(daemon) == IF daemon = -1 THEN -1 ELSE 1

\* lanuchWithDeamon(), of what create_daemon() returned.
LaunchResult(daemon) == CASE daemon = -1 -> -1
                          [] daemon = 1 -> 0
                          [] OTHER -> 1

\* lanuchWithDeamon() returns to main() with what create_daemon() returned.
Launched(daemon) ==
    /\ phase' = IF Serves(LaunchResult(daemon)) THEN "serve" ELSE "exit"
    /\ servers' = servers + (IF Serves(LaunchResult(daemon)) THEN 1 ELSE 0)
    /\ items' = <<>>

\* Slip: the start is logged.
LoadAndLog ==
    /\ PhaseGoes("load", "launch")
    /\ \E lines \in ConfigFiles : ~Throws(lines) /\ items' = LoadedItems(lines)
    /\ line' = [line EXCEPT ![Main] = LoggerLine(<<>>)]
    /\ UNCHANGED <<logVars, servers>>

\* The file is read, if it is there.
Load ==
    /\ \E lines \in ConfigFiles :
          /\ PhaseGoes("load", IF Throws(lines) THEN "aborted" ELSE "launch")
          /\ items' = IF Throws(lines) THEN <<>> ELSE LoadedItems(lines)
    /\ UNCHANGED <<vars, servers>>

LaunchAlone ==
    /\ phase = "launch" /\ line[Main] = NoLine
    /\ GetNum("Daemon") # 1
    /\ Launched(0)
    /\ UNCHANGED vars

\* fork(): the parent goes back to main() with 1; of its threads the child has the
\* first only.
Fork ==
    /\ PhaseGoes("launch", "setsid") /\ line[Main] = NoLine
    /\ GetNum("Daemon") = 1
    /\ servers' = servers + (IF Serves(LaunchResult(1)) THEN 1 ELSE 0)
    /\ lpc' = IF lpc = "none" THEN lpc ELSE "vanished"
    /\ UNCHANGED <<items, line, running, started, opc, front, back, fileVars>>

\* setsid(), open(), dup2() twice, close() succeed one after the other.
Succeeds ==
    /\ \/ PhaseGoes("setsid", "null")
       \/ PhaseGoes("null", "redirect")
       \/ PhaseGoes("redirect", "close")
    /\ UNCHANGED <<vars, items, servers>>

Detached == phase = "close" /\ Launched(0) /\ UNCHANGED vars

\* fork() or one of the steps behind it fails, which create_daemon() logs ...
Fails ==
    /\ \/ phase \in {"setsid", "null", "redirect", "close"}
       \/ phase = "launch" /\ line[Main] = NoLine /\ GetNum("Daemon") = 1
    /\ phase' = "failed"
    /\ line' = [line EXCEPT ![Main] = LoggerLine(<<>>)]
    /\ UNCHANGED <<logVars, items, servers>>

\* ... and lanuchWithDeamon() once more ...
FailsToo ==
    /\ PhaseGoes("failed", "failedtoo")
    /\ line[Main] = NoLine
    /\ line' = [line EXCEPT ![Main] = LoggerLine(<<>>)]
    /\ UNCHANGED <<logVars, items, servers>>

\* ... and returns.
Failed == phase = "failedtoo" /\ line[Main] = NoLine /\ Launched(-1) /\ UNCHANGED vars

MainStep == \/ Load \/ LaunchAlone \/ Fork \/ Succeeds \/ Detached
            \/ Fails \/ FailsToo \/ Failed

\* Before the program serves its first thread alone is there, and logs only failures.
LogStep == \/ \E t \in Threads : \/ phase = "serve" /\ MakeLine(t)
                                 \/ OnceInit(t) \/ Output(t)
           \/ (OwnerStep \/ LogThread) /\ UNCHANGED line
           \/ phase = "serve" /\ Stop /\ UNCHANGED line

StartNext == MainStep \/ (LogStep /\ UNCHANGED startVars)

StartSpec == StartInit /\ [][StartNext]_allVars

\* main() goes on; the log's thread is scheduled and its waiting has a timeout; a
\* thread inside output(), start() or stop() goes on.  Nobody has to log, or to stop
\* the log.
FairStartSpec ==
    /\ StartSpec
    /\ WF_allVars(MainStep)
    /\ WF_allVars(LogThread /\ UNCHANGED <<line, startVars>>)
    /\ WF_allVars(OwnerStep /\ UNCHANGED <<line, startVars>>)
    /\ \A t \in Threads : WF_allVars((OnceInit(t) \/ Output(t)) /\ UNCHANGED startVars)

-----------------------------------------------------------------------------
\* The process that goes on has the thread of its log, if anything was ever logged in
\* it: nothing is logged before the fork, nor by the parent that exits.
LogHasThread == lpc # "vanished"

\* Safety: the process that goes on is the only one that serves, and the log it writes to
\* has its thread: a parent never listens beside its child, and nothing that create_daemon()
\* or its failures log is given to a log that the fork has left behind.
OneServes == /\ phase # "exit"
             /\ servers = IF phase = "serve" THEN 1 ELSE 0
             /\ LogHasThread

\* The log's start() waits for a thread that waits for it.
Hangs == opc = "latch" /\ lpc \in {"waitstart", "forgotten"}

\* Liveness: whatever fails on the way, the program comes to serve: it is in no state of
\* the start for ever, unless the configuration ends it or the log it opens for its
\* failures never starts.
StartServes == <>(phase \in {"serve", "aborted"} \/ Hangs)

-----------------------------------------------------------------------------
\* Not kept by the code, and checked by no run: an equals sign is all that an item
\* needs, as LightServer.conf says in its second line.
ItemsAreRead ==
    /\ phase # "aborted"
    /\ \A i \in DOMAIN items : items[i].name # "garbled" /\ items[i].value # <<>>
=============================================================================
