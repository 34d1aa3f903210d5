------------------------------- MODULE Logging -------------------------------
(***************************************************************************)
(* Logger over the asynchronous log (common/src/Logging.cpp): a thread     *)
(* puts its line together in a LogStream of its own, and output() appends  *)
(* it.  The first thread to come to output() makes and starts the log      *)
(* (call_once); the others wait until that is done.                        *)
(***************************************************************************)
EXTENDS AsyncLogging, LogStream

CONSTANTS
    Threads,    \* the threads that log
    Messages,   \* what they log: sequences of pieces
    NoLine      \* "no line in the making"

ASSUME LineAssumption == Room >= SmallBuffer /\ Messages \subseteq Seq(Piece)

VARIABLE
    line    \* the finished stream of each thread that is in output()

vars == <<logVars, line>>

Init == LogInit /\ line = [t \in Threads |-> NoLine]

\* LOG << ...: a Logger is made, filled, and destroyed as far as output().
MakeLine(t) ==
    /\ line[t] = NoLine
    /\ \E message \in Messages : line' = [line EXCEPT ![t] = LoggerLine(message)]
    /\ UNCHANGED logVars

\* call_once(): the first of them runs once_init().
OnceInit(t) ==
    /\ line[t] # NoLine
    /\ MakeThread
    /\ UNCHANGED line

\* once_init() has returned: append(), and the Logger is gone.
Output(t) ==
    /\ line[t] # NoLine
    /\ AppendLine(line[t].cur)
    /\ line' = [line EXCEPT ![t] = NoLine]

-----------------------------------------------------------------------------
\* Safety: no line, with the NUL that a conversion puts behind a number, goes past
\* the end of its buffer, whatever pieces come in what order (LogStream's two guards
\* are different, and each relies on what the other leaves).
NeverOverruns ==
    \A t \in Threads :
        line[t] # NoLine => line[t].top <= SmallBuffer /\ line[t].cur < SmallBuffer

-----------------------------------------------------------------------------
\* Not kept by the code, and checked by no run: every line ends with its newline.
LinesEnd ==
    \A t \in Threads :
        line[t] # NoLine => Newline \notin ToSet(line[t].out)
=============================================================================
