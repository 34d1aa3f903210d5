------------------------------ MODULE EventLoop ------------------------------
(***************************************************************************)
(* One EventLoop (common/src/EventLoop.cpp), the thread that runs its      *)
(* loop(), and the other threads that hand calls to it or ask it to quit.  *)
(*                                                                         *)
(* The loop thread sleeps in epoll_wait.  Its own descriptors are an       *)
(* eventfd, which wakeup() writes and which is registered edge-triggered,  *)
(* and the timerfd of its TimerQueue, armed once in the constructor and    *)
(* never read.  Connections appear as the single descriptor "io", whose    *)
(* readiness the environment decides.                                      *)
(*                                                                         *)
(* Every action is a stretch of code between two points where another      *)
(* thread can be seen: a lock of m_mutex, a system call, or a load or      *)
(* store of the atomic quit_.                                              *)
(***************************************************************************)
EXTENDS Naturals, Sequences, Functions

CONSTANTS
    Threads,      \* the threads other than the loop's own
    LoopThread,   \* the thread that constructed the loop and runs loop()
    Calls,        \* the functors handed to the loop; each is handed over once
    None          \* "nobody has handed this call over yet"

ASSUME ThreadsAssumption == LoopThread \notin Threads
ASSUME NoneAssumption == None \notin Threads \union {LoopThread}

VARIABLES
    looping,   \* looping_
    quit,      \* quit_
    queue,     \* otherThreadCalls
    batch,     \* what is left of the local vector otherCalls; its head is running
    ran,       \* the queued functors that have run, in order (history)
    by,        \* which thread handed over each call (history)
    evfd,      \* the eventfd's counter is not zero
    evReady,   \* epoll holds the eventfd in its ready list
    timerfd,   \* the timerfd has expired (it is never read, so it stays so)
    tmReady,   \* epoll holds the timerfd in its ready list
    active,    \* the descriptors of activeChannels_ not dispatched yet
    expired,   \* TimerQueue::expireEvent_ / timerEvent_ is not empty
    pc,        \* where the loop thread is
    wpc        \* where each other thread is: about to write the eventfd, or not

kernel == <<evfd, evReady, timerfd, tmReady>>
calls == <<queue, batch, ran, by>>
vars == <<looping, quit, calls, kernel, active, expired, pc, wpc>>

Descriptors == {"wake", "timer", "io"}

Places == {"new", "begin", "check", "poll", "dispatch", "rearm", "timers",
           "swap", "run", "heart", "exited"}

Init ==
    /\ looping = FALSE
    /\ quit = FALSE
    /\ queue = <<>> /\ batch = <<>> /\ ran = <<>>
    /\ by = [c \in Calls |-> None]
    /\ evfd = FALSE /\ evReady = FALSE
    /\ timerfd = FALSE /\ tmReady = FALSE
    /\ active = {} /\ expired = FALSE
    /\ pc = "new"
    /\ wpc = [t \in Threads |-> "idle"]

-----------------------------------------------------------------------------
(* The kernel's side.                                                      *)

\* write() to the eventfd: the counter grows and epoll queues the descriptor.
WriteEventFd == evfd' = TRUE /\ evReady' = TRUE

\* EPOLL_CTL_MOD looks at the descriptor once more: if it is readable at that
\* moment it is queued again, an edge-triggered one too.
RearmWake == evReady' = (evReady \/ evfd)
RearmTimer == tmReady' = (tmReady \/ timerfd)

\* What epoll_wait would report of the loop's own descriptors: those in the
\* ready list that are still readable.
Reportable == {d \in {"wake", "timer"} : \/ d = "wake" /\ evReady /\ evfd
                                         \/ d = "timer" /\ tmReady /\ timerfd}

\* The one-shot timerfd expires, one second after the TimerQueue was built.
TimerExpires ==
    /\ ~timerfd
    /\ timerfd' = TRUE /\ tmReady' = TRUE
    /\ UNCHANGED <<looping, quit, calls, evfd, evReady, active, expired, pc, wpc>>

-----------------------------------------------------------------------------
(* The other threads.                                                      *)

\* The locked section of queueInLoop(), as any thread executes it.
PushCall(t, c) ==
    /\ by[c] = None
    /\ queue' = Append(queue, c)
    /\ by' = [by EXCEPT ![c] = t]
    /\ UNCHANGED <<batch, ran>>

\* Slip: nobody is woken.
HandOverSilently(t, c) ==
    /\ wpc[t] = "idle"
    /\ PushCall(t, c)
    /\ UNCHANGED <<looping, quit, kernel, active, expired, pc, wpc>>

\* runInLoop(c) or queueInLoop(c) from another thread: push under the mutex...
HandOver(t, c) ==
    /\ wpc[t] = "idle"
    /\ PushCall(t, c)
    /\ wpc' = [wpc EXCEPT ![t] = "wakeup"]
    /\ UNCHANGED <<looping, quit, kernel, active, expired, pc>>

\* Slip: quit() stores quit_ and wakes nobody.
AskToQuitSilently(t) ==
    /\ wpc[t] = "idle"
    /\ quit' = TRUE
    /\ UNCHANGED <<looping, calls, kernel, active, expired, pc, wpc>>

\* ... or quit() from another thread: store quit_ ...
AskToQuit(t) ==
    /\ wpc[t] = "idle"
    /\ quit' = TRUE
    /\ wpc' = [wpc EXCEPT ![t] = "wakeup"]
    /\ UNCHANGED <<looping, calls, kernel, active, expired, pc>>

\* ... and then, the mutex released, wakeup().
Wakeup(t) ==
    /\ wpc[t] = "wakeup"
    /\ WriteEventFd
    /\ wpc' = [wpc EXCEPT ![t] = "idle"]
    /\ UNCHANGED <<looping, quit, calls, timerfd, tmReady, active, expired, pc>>

-----------------------------------------------------------------------------
(* User code on the loop thread: the handlers of connections, the timer     *)
(* callbacks, the functors handed over and the heartbeat function.          *)

InUserCode == \/ pc = "dispatch" /\ "io" \in active
              \/ pc = "timers" /\ expired
              \/ pc = "run" /\ batch # <<>>
              \/ pc = "heart"

\* queueInLoop() from the loop's own thread: pushed, and nobody is woken.
QueueFromLoop(c) ==
    /\ InUserCode
    /\ PushCall(LoopThread, c)
    /\ UNCHANGED <<looping, quit, kernel, active, expired, pc, wpc>>

\* runInLoop() from the loop's own thread: the call runs at once, ahead of
\* whatever the queue holds.
RunFromLoop(c) ==
    /\ InUserCode
    /\ by[c] = None
    /\ by' = [by EXCEPT ![c] = LoopThread]
    /\ UNCHANGED <<looping, quit, queue, batch, ran, kernel, active, expired, pc, wpc>>

\* quit() from the loop's own thread: no wakeup.
QuitFromLoop ==
    /\ InUserCode
    /\ quit' = TRUE
    /\ UNCHANGED <<looping, calls, kernel, active, expired, pc, wpc>>

-----------------------------------------------------------------------------
(* loop(), step by step.                                                   *)

Goto(from, to) == pc = from /\ pc' = to

\* looping_ = true
Begin ==
    /\ Goto("new", "begin")
    /\ looping' = TRUE
    /\ UNCHANGED <<quit, calls, kernel, active, expired, wpc>>

\* quit_ = false, whatever another thread stored in it before
ResetQuit ==
    /\ Goto("begin", "check")
    /\ quit' = FALSE
    /\ UNCHANGED <<looping, calls, kernel, active, expired, wpc>>

\* Slip: looping_ is not reset when the loop ends.
CheckQuitOnly ==
    /\ Goto("check", IF quit THEN "exited" ELSE "poll")
    /\ UNCHANGED <<looping, quit, calls, kernel, active, expired, wpc>>

\* while (!quit_)
CheckQuit ==
    /\ Goto("check", IF quit THEN "exited" ELSE "poll")
    /\ looping' = ~quit
    /\ UNCHANGED <<quit, calls, kernel, active, expired, wpc>>

\* epoll_wait reports the descriptors ds.  A descriptor leaves the ready list
\* when it is reported (both of the loop's own are edge-triggered).
PollReports(ds) ==
    /\ Goto("poll", "dispatch")
    /\ active' = ds
    /\ evReady' = FALSE
    /\ tmReady' = FALSE
    /\ UNCHANGED <<looping, quit, calls, evfd, timerfd, expired, wpc>>

\* One of the loop's own descriptors is ready, a connection may be too.
PollReady == /\ Reportable # {}
             /\ \E ios \in SUBSET {"io"} : PollReports(Reportable \union ios)

\* Only a connection is ready.
PollIo == Reportable = {} /\ PollReports({"io"})

\* Slip: nothing reported, so the rest of the turn is skipped.
PollTimeoutSkips ==
    /\ Reportable = {}
    /\ Goto("poll", "check")
    /\ UNCHANGED <<looping, quit, calls, kernel, active, expired, wpc>>

\* Nothing is: epoll_wait gives up after EPOLLWAIT_TIME.
PollTimeout == Reportable = {} /\ PollReports({})

\* Slip: activeChannels_ is not cleared, the handler is called again.
ReadEventFdTwice ==
    /\ Goto("dispatch", "rearm")
    /\ "wake" \in active
    /\ evfd' = FALSE
    /\ UNCHANGED <<looping, quit, calls, evReady, timerfd, tmReady, active, expired, wpc>>

\* handleEventFd(): read the eventfd ...
ReadEventFd ==
    /\ Goto("dispatch", "rearm")
    /\ "wake" \in active
    /\ evfd' = FALSE
    /\ active' = active \ {"wake"}
    /\ UNCHANGED <<looping, quit, calls, evReady, timerfd, tmReady, expired, wpc>>

\* ... and register it again.
RearmEventFd ==
    /\ Goto("rearm", "dispatch")
    /\ RearmWake
    /\ UNCHANGED <<looping, quit, calls, evfd, timerfd, tmReady, active, expired, wpc>>

\* TimerQueuehandleTimerEvent(): collect the callbacks that are due, if any,
\* and register the timerfd again.
HandleTimerFd ==
    /\ pc = "dispatch" /\ "timer" \in active
    /\ expired' \in {expired, TRUE}
    /\ active' = active \ {"timer"}
    /\ RearmTimer
    /\ UNCHANGED <<looping, quit, calls, evfd, evReady, timerfd, pc, wpc>>

\* The handler of a connection returns.
HandleIo ==
    /\ pc = "dispatch" /\ "io" \in active
    /\ active' = active \ {"io"}
    /\ UNCHANGED <<looping, quit, calls, kernel, expired, pc, wpc>>

\* activeChannels_ is worked off: getExpired().
EndDispatch ==
    /\ Goto("dispatch", "timers")
    /\ active = {}
    /\ UNCHANGED <<looping, quit, calls, kernel, active, expired, wpc>>

\* The due callbacks have run.
RunTimers ==
    /\ Goto("timers", "swap")
    /\ expired' = FALSE
    /\ UNCHANGED <<looping, quit, calls, kernel, active, wpc>>

\* Slip: the queue is copied, not exchanged.
CopyQueue ==
    /\ Goto("swap", "run")
    /\ batch' = queue
    /\ UNCHANGED <<looping, quit, queue, ran, by, kernel, active, expired, wpc>>

\* processOthreThreadCalls(): the queue is exchanged with an empty vector ...
SwapQueue ==
    /\ Goto("swap", "run")
    /\ batch' = queue
    /\ queue' = <<>>
    /\ UNCHANGED <<looping, quit, ran, by, kernel, active, expired, wpc>>

\* ... and the calls taken run in order.  This one returns.
RunCall ==
    /\ pc = "run" /\ batch # <<>>
    /\ ran' = Append(ran, Head(batch))
    /\ batch' = Tail(batch)
    /\ UNCHANGED <<looping, quit, queue, by, kernel, active, expired, pc, wpc>>

\* Slip: the eventfd is drained once more after the batch.
EndBatchDrains ==
    /\ Goto("run", "heart")
    /\ batch = <<>>
    /\ evfd' = FALSE
    /\ UNCHANGED <<looping, quit, calls, evReady, timerfd, tmReady, active, expired, wpc>>

\* The last call of the batch has returned.
EndBatch ==
    /\ Goto("run", "heart")
    /\ batch = <<>>
    /\ UNCHANGED <<looping, quit, calls, kernel, active, expired, wpc>>

\* heartCheckFunction_ has run, if there is one.
Heart ==
    /\ Goto("heart", "check")
    /\ UNCHANGED <<looping, quit, calls, kernel, active, expired, wpc>>

-----------------------------------------------------------------------------
\* What the loop thread does of itself, as long as epoll_wait has something of
\* the loop's own to report.
LoopStep == \/ Begin \/ ResetQuit \/ CheckQuit
            \/ PollReady
            \/ ReadEventFd \/ RearmEventFd \/ HandleTimerFd \/ HandleIo
            \/ EndDispatch \/ RunTimers
            \/ SwapQueue \/ RunCall \/ EndBatch \/ Heart

UserStep == \/ QuitFromLoop
            \/ \E c \in Calls : QueueFromLoop(c) \/ RunFromLoop(c)

OtherStep == \E t \in Threads : \/ AskToQuit(t) \/ Wakeup(t)
                                \/ \E c \in Calls : HandOver(t, c)

Next == LoopStep \/ PollIo \/ PollTimeout \/ UserStep \/ OtherStep \/ TimerExpires

Spec == Init /\ [][Next]_vars

\* The loop thread and the threads inside wakeup() are scheduled.  Nothing is
\* assumed of connections, timers, user code or the timeout of epoll_wait.
Fairness == WF_vars(LoopStep) /\ \A t \in Threads : WF_vars(Wakeup(t))

FairSpec == Spec /\ Fairness

-----------------------------------------------------------------------------
\* Type invariant of the loop, its queue, the kernel objects and the threads;
\* looping_ tells whether loop() is running (the destructor asserts it is not),
\* and neither events nor calls taken are left over from an earlier turn.
TypeOK ==
    /\ looping \in BOOLEAN /\ quit \in BOOLEAN
    /\ queue \in Seq(Calls) /\ batch \in Seq(Calls) /\ ran \in Seq(Calls)
    /\ by \in [Calls -> Threads \union {LoopThread, None}]
    /\ evfd \in BOOLEAN /\ evReady \in BOOLEAN
    /\ timerfd \in BOOLEAN /\ tmReady \in BOOLEAN
    /\ active \subseteq Descriptors
    /\ expired \in BOOLEAN
    /\ pc \in Places
    /\ wpc \in [Threads -> {"idle", "wakeup"}]
    /\ looping <=> pc \notin {"new", "exited"}
    /\ active # {} => pc \in {"dispatch", "rearm"}
    /\ batch # <<>> => pc = "run"

\* A wakeup is on its way: epoll_wait will report the eventfd, or a thread is
\* about to write it.
WakeupPending == (evReady /\ evfd) \/ \E t \in Threads : wpc[t] = "wakeup"

\* Work another thread has left for the loop.
OthersWork == \/ quit
              \/ \E i \in DOMAIN queue : by[queue[i]] \in Threads

\* Safety: epoll_wait is never entered, nor left asleep, with a call of another
\* thread in the queue and no wakeup on its way (queueInLoop, handleEventFd and
\* processOthreThreadCalls together; the re-registration, the edge-triggered
\* eventfd and the swap may interleave with the push and the write in any way).
NoLostWakeup ==
    /\ TypeOK
    /\ pc = "poll" /\ OthersWork => WakeupPending

\* The handler of the eventfd never finds the counter at zero, so the read of a
\* non-blocking descriptor in handleEventFd() always returns its eight bytes.
ReadNeverFails == pc = "dispatch" /\ "wake" \in active => evfd

\* Action property: calls queued while the batch runs wait for the next turn of
\* the loop; a functor that queues itself again cannot keep the loop from
\* polling (the swap in processOthreThreadCalls).
BatchNeverGrows == [][pc = "run" => Len(batch') <= Len(batch)]_vars

\* The promise of CallQueue: one line, in order, each call once, whatever the
\* threads, the swap and the batch do.
Line == INSTANCE CallQueue WITH posted <- ran \o batch \o queue, done <- Len(ran)
LineSpec == Line!Spec

\* Liveness: what another thread hands over is run, unless the loop ends first;
\* without any help from timers, connections or the timeout of epoll_wait.
OthersCallsRun ==
    \A c \in Calls : by[c] \in Threads ~> c \in Range(ran) \/ pc = "exited"

\* Liveness: once loop() has passed its reset of quit_, a quit_ ends it.
QuitEnds == quit /\ pc \notin {"new", "begin"} ~> pc = "exited"

\* Liveness: a call the loop's own thread queues after the swap wakes nobody;
\* it is run all the same, provided that epoll_wait does give up waiting after
\* EPOLLWAIT_TIME.
AllCallsRun ==
    WF_vars(PollTimeout) =>
        \A c \in Calls : c \in Range(queue) ~> c \in Range(ran) \/ pc = "exited"
=============================================================================
