------------------------------ MODULE TimerQueue ------------------------------
(***************************************************************************)
(* The timers of one EventLoop: runAfter(), the TimerQueue with its        *)
(* timerfd (common/src/TimerQueue.cpp), the times of TimerNode.cpp, and    *)
(* the part of a turn of the loop that runs what has expired.              *)
(*                                                                         *)
(* The timerfd goes off once, a second after the loop is made, and is      *)
(* never read: its Channel is registered anew in each turn and reported in *)
(* each turn from then on, and this is when the timers are looked at.      *)
(* The clock does not jump; the phases of a turn are those of EventLoop.   *)
(***************************************************************************)
EXTENDS Integers, Sequences, FiniteSets, SequencesExt

CONSTANTS
    Timers,     \* the timers asked for, each once
    Timeouts,   \* the timeouts in seconds they are asked for with
    Second,     \* the clock's ticks (milliseconds) in a second: 1000
    WrapAfter,  \* times are kept modulo so many seconds: 10000
    Starts,     \* what the clock may show at first
    MaxWait,    \* bound: timers are asked for within so many ticks
    MaxRun      \* bound: the clock is followed for so many ticks

ASSUME TimerAssumption ==
    /\ IsFiniteSet(Timers) /\ Timeouts \subseteq Nat /\ Starts \subseteq Nat
    /\ Second \in Nat \ {0} /\ WrapAfter \in Nat \ {0}
    /\ MaxWait \in Nat /\ MaxRun \in Nat

VARIABLES
    now,         \* the clock
    start,       \* what it showed when the TimerQueue was made
    phase,       \* of the loop's turn: "poll", "expired", "calls"
    handed,      \* timers on their way from other threads, in order
    timers,      \* timers_: the timers that wait
    expireEvent, \* expireEvent_: the timers taken out, in order
    asked,       \* when and for how long each timer was asked for (history)
    exp,         \* expiredTime_ of each timer
    runs         \* the times at which each timer's callback was run (history)

timerVars == <<now, start, phase, handed, timers, expireEvent, asked, exp, runs>>

Never == [at |-> -1, timeout |-> 0]

TimerInit ==
    /\ start \in Starts /\ now = start
    /\ phase = "poll"
    /\ handed = <<>> /\ timers = {} /\ expireEvent = <<>>
    /\ asked = [t \in Timers |-> Never]
    /\ exp = [t \in Timers |-> 0]
    /\ runs = [t \in Timers |-> <<>>]

-----------------------------------------------------------------------------
\* Slip: the timeout is taken for milliseconds.
ExpiredTimeInTicks(timeout) ==
    ((now \div Second) % WrapAfter) * Second + (now % Second) + timeout

\* TimerNode::TimerNode: seconds are wrapped, milliseconds are added.
ExpiredTime(timeout) == (((now \div Second) + timeout) % WrapAfter) * Second + (now % Second)

\* runAfter(), up to the new TimerNode: the time counts from here.
Ask(t, timeout) ==
    /\ asked[t] = Never
    /\ now - start <= MaxWait
    /\ asked' = [asked EXCEPT ![t] = [at |-> now, timeout |-> timeout]]
    /\ exp' = [exp EXCEPT ![t] = ExpiredTime(timeout)]
    /\ UNCHANGED <<now, start, phase, expireEvent, runs>>

\* runAfter() in the loop's thread, from any of its callbacks: runInLoop() inserts
\* the timer at once.
RunAfterHere(t, timeout) ==
    /\ Ask(t, timeout)
    /\ timers' = timers \union {t}
    /\ UNCHANGED handed

\* runAfter() in another thread: addTimerInLoop() is handed to the loop.
RunAfterThere(t, timeout) ==
    /\ Ask(t, timeout)
    /\ handed' = Append(handed, t)
    /\ UNCHANGED timers

\* Slip: the timerfd is not registered anew, or is read: reported once.
ReportedOnce == now - start = Second

\* The timerfd has gone off; it is never read, and registered anew in each turn.
Reported == now - start >= Second

\* Slip: timers that are due right now are erased (upper_bound) and not taken out.
TakeDueDropsEqual(due) ==
    /\ \E order \in SetToSeqs(due) :
           /\ \A i, j \in DOMAIN order : i < j => exp[order[i]] <= exp[order[j]]
           /\ expireEvent' = expireEvent \o order
    /\ timers' = {t \in timers : exp[t] > ExpiredTime(0)}

\* The multiset has the timers in the order of their times.
TakeDue(due) ==
    /\ \E order \in SetToSeqs(due) :
           /\ \A i, j \in DOMAIN order : i < j => exp[order[i]] <= exp[order[j]]
           /\ expireEvent' = expireEvent \o order
    /\ timers' = timers \ due

\* The poll returns, with the timerfd if it has gone off: TimerQueuehandleTimerEvent()
\* takes out the timers below the present time (lower_bound), in their order.
HandleEvents ==
    /\ phase = "poll" /\ phase' = "expired"
    /\ IF Reported THEN TakeDue({t \in timers : exp[t] < ExpiredTime(0)})
                   ELSE UNCHANGED <<timers, expireEvent>>
    /\ UNCHANGED <<now, start, handed, asked, exp, runs>>

\* Slip: getExpired() does not clear expireEvent_.
ForgetExpiredNot == UNCHANGED expireEvent

ForgetExpired == expireEvent' = <<>>

\* getExpired(), and loop() calls what it returns.
RunExpired ==
    /\ phase = "expired" /\ phase' = "calls"
    /\ ForgetExpired
    /\ runs' = [t \in Timers |-> IF t \in ToSet(expireEvent) THEN Append(runs[t], now) ELSE runs[t]]
    /\ UNCHANGED <<now, start, handed, timers, asked, exp>>

\* addTimerInLoop() for each of the timers handed over.
InsertHanded == timers' = timers \union ToSet(handed) /\ handed' = <<>>

\* processOthreThreadCalls()
ProcessCalls ==
    /\ phase = "calls" /\ phase' = "poll"
    /\ InsertHanded
    /\ UNCHANGED <<now, start, expireEvent, asked, exp, runs>>

Tick ==
    /\ now - start < MaxRun
    /\ now' = now + 1
    /\ UNCHANGED <<start, phase, handed, timers, expireEvent, asked, exp, runs>>

TurnStep == HandleEvents \/ RunExpired \/ ProcessCalls

TimerNext ==
    \/ TurnStep \/ Tick
    \/ \E t \in Timers, timeout \in Timeouts :
           RunAfterHere(t, timeout) \/ RunAfterThere(t, timeout)

TimerSpec == TimerInit /\ [][TimerNext]_timerVars

\* The loop turns, and so does the clock.
FairTimerSpec == TimerSpec /\ WF_timerVars(TurnStep) /\ WF_timerVars(Tick)

-----------------------------------------------------------------------------
\* Type invariant; a timer is in one place at most.
TimerTypeOK ==
    /\ now \in Nat /\ start \in Starts /\ now - start \in 0 .. MaxRun
    /\ phase \in {"poll", "expired", "calls"}
    /\ handed \in Seq(Timers) /\ timers \subseteq Timers /\ expireEvent \in Seq(Timers)
    /\ asked \in [Timers -> [at : Nat \union {-1}, timeout : Timeouts \union {0}]]
    /\ exp \in [Timers -> 0 .. WrapAfter * Second - 1]
    /\ runs \in [Timers -> Seq(Nat)]
    /\ \A t \in timers : t \notin ToSet(handed) \union ToSet(expireEvent)

Due(t) == asked[t].at + asked[t].timeout * Second

\* In which period of WrapAfter seconds a tick of the clock lies.
Period(tick) == tick \div (WrapAfter * Second)

\* Safety: a callback runs "after so much time" (EventLoop.h, runAfter), and not before,
\* wherever in the turn the timer was asked for, however long it was under way, and
\* though the wrap may come before or after it is due.  Only a timer that is asked for
\* before the wrap and due after it has a time that looks past.
NeverEarly ==
    \A t \in Timers : \A i \in DOMAIN runs[t] :
        Period(Due(t)) = Period(asked[t].at) => runs[t][i] >= Due(t)

\* A timer that was asked for and has not run is somewhere to be found: under
\* way to the loop, waiting, or expired, whichever thread asked and whatever the turn of
\* the loop moves at the time.
NoTimerLost ==
    \A t \in Timers :
        asked[t] # Never /\ runs[t] = <<>>
            => t \in timers \union ToSet(handed) \union ToSet(expireEvent)

\* Safety: a callback runs once: until then its timer is kept, and once it runs, neither
\* the timers that wait nor the list handed to the loop's turn have it.
RunsOnce ==
    /\ TimerTypeOK
    /\ NoTimerLost
    /\ \A t \in Timers : Len(runs[t]) <= 1

\* Liveness: a timer that was asked for runs, whichever thread asked; though the
\* timerfd goes off once only, and is never set again.  Only a timer still there when
\* the wrap comes has to wait for the end of the next period.
TimerRuns ==
    \A t \in Timers :
        asked[t] # Never ~> runs[t] # <<>> \/ Period(now) > Period(Due(t))
=============================================================================
