--------------------------- MODULE EventLoopThreads ---------------------------
(***************************************************************************)
(* The threads of the EventLoopThreadPool: how the base thread starts      *)
(* them one after the other and waits for each one's EventLoop, and how    *)
(* the destructor of each EventLoopThread ends it and joins it             *)
(* (common/src/EventLoopThreadPool.cpp, EventLoopThread.cpp, and of        *)
(* EventLoop.cpp loop(), quit() and the destructor).                       *)
(*                                                                         *)
(* The EventLoop is an object on its thread's stack; loop_ points to it.   *)
(* Of loop() there is what bears on its end: quit_, and that epoll_wait    *)
(* returns when it is woken or after its timeout (see EventLoop).  What    *)
(* the base thread does between start and end is in ServerEnd.             *)
(***************************************************************************)
EXTENDS Naturals, Sequences

CONSTANT ThreadsNum   \* threadsNum

ASSUME ThreadsAssumption == ThreadsNum \in Nat \ {0}

Threads == 1 .. ThreadsNum

VARIABLES
    base,      \* where the base thread is
    i,         \* the thread it deals with
    loops,     \* loops_ of the pool
    loopPtr,   \* loop_ of each EventLoopThread is not null
    existing,  \* existing_ of each
    early,     \* the threads that locked mutex_ before it was constructed
    joined,    \* the threads that have been joined
    tpc,       \* where each thread is
    alive,     \* the EventLoop of each thread exists
    quit       \* quit_ of each loop

vars == <<base, i, loops, loopPtr, existing, early, joined, tpc, alive, quit>>

Init ==
    /\ base = "create" /\ i = 1
    /\ loops = <<>>
    /\ loopPtr = [t \in Threads |-> FALSE]
    /\ existing = [t \in Threads |-> FALSE]
    /\ early = {} /\ joined = {}
    /\ tpc = [t \in Threads |-> "none"]
    /\ alive = [t \in Threads |-> FALSE]
    /\ quit = [t \in Threads |-> FALSE]

Goto(from, to) == base = from /\ base' = to

\* The base thread goes on to the next EventLoopThread, or to what comes after.
Onward(this, same, after) ==
    IF this < ThreadsNum THEN base' = same /\ i' = this + 1 ELSE base' = after /\ i' = 1

-----------------------------------------------------------------------------
(* The base thread: EventLoopThreadPool::start() ...                       *)

\* The constructor of EventLoopThread starts the thread ...
Create ==
    /\ Goto("create", "members")
    /\ tpc' = [tpc EXCEPT ![i] = "born"]
    /\ UNCHANGED <<i, loops, loopPtr, existing, early, joined, alive, quit>>

\* ... and only then constructs mutex_ and cond_, which are declared behind thread_.
MakeMembers ==
    /\ Goto("members", "get")
    /\ UNCHANGED <<i, loops, loopPtr, existing, early, joined, tpc, alive, quit>>

\* Thread t holds mutex_; a lock taken before the constructor ran is forgotten.
Locked(t) == tpc[t] = "locked" /\ t \notin early

\* Slip: nobody waits for loop_.
GetLoopAtOnce ==
    /\ base \in {"get", "notified"}
    /\ loops' = Append(loops, i) /\ Onward(i, "create", "serve")
    /\ UNCHANGED <<loopPtr, existing, early, joined, tpc, alive, quit>>

\* getLoopOfCurrentThread(): under the mutex loop_ is there, or the thread ...
GetLoop ==
    /\ base \in {"get", "notified"} /\ ~Locked(i)
    /\ IF loopPtr[i]
       THEN loops' = Append(loops, i) /\ Onward(i, "create", "serve")
       ELSE base' = "checked" /\ UNCHANGED <<i, loops>>
    /\ UNCHANGED <<loopPtr, existing, early, joined, tpc, alive, quit>>

\* ... waits, which lets go of the mutex.
Sleep ==
    /\ Goto("checked", "waiting")
    /\ UNCHANGED <<i, loops, loopPtr, existing, early, joined, tpc, alive, quit>>

(* ... and the destruction of the pool.                                    *)

\* ~EventLoopThread(): existing_ = true ...
Mark ==
    /\ Goto("mark", "while")
    /\ existing' = [existing EXCEPT ![i] = TRUE]
    /\ UNCHANGED <<i, loops, loopPtr, early, joined, tpc, alive, quit>>

\* ... while (loop_ != nullptr); a std::thread that is not joined when it is
\* destroyed ends the process ...
While ==
    /\ base = "while"
    /\ IF loopPtr[i] THEN base' = "quit" /\ UNCHANGED i
       ELSE IF i \in joined THEN Onward(i, "mark", "gone")
       ELSE base' = "terminated" /\ UNCHANGED i
    /\ UNCHANGED <<loops, loopPtr, existing, early, joined, tpc, alive, quit>>

\* ... loop_->quit(): the store to quit_ ...
Quit ==
    /\ Goto("quit", "wakeup")
    /\ quit' = [quit EXCEPT ![i] = TRUE]
    /\ UNCHANGED <<i, loops, loopPtr, existing, early, joined, tpc, alive>>

\* ... and wakeup(), a second use of the EventLoop ...
Wakeup ==
    /\ Goto("wakeup", "join")
    /\ UNCHANGED <<i, loops, loopPtr, existing, early, joined, tpc, alive, quit>>

\* ... and join().
Join ==
    /\ Goto("join", "while")
    /\ tpc[i] = "done"
    /\ joined' = joined \union {i}
    /\ UNCHANGED <<i, loops, loopPtr, existing, early, tpc, alive, quit>>

-----------------------------------------------------------------------------
(* Each thread: threadFunc().                                              *)

ThreadGoto(t, from, to) == tpc[t] = from /\ tpc' = [tpc EXCEPT ![t] = to]

\* The EventLoop is constructed, and the mutex locked.
Lock(t) ==
    /\ ThreadGoto(t, "born", "locked")
    /\ ~(base = "checked" /\ i = t)
    /\ alive' = [alive EXCEPT ![t] = TRUE]
    /\ early' = IF base = "members" /\ i = t THEN early \union {t} ELSE early
    /\ UNCHANGED <<base, i, loops, loopPtr, existing, joined, quit>>

\* Slip: nobody is told that loop_ is set.
PublishSilently(t) ==
    /\ ThreadGoto(t, "locked", "begin")
    /\ loopPtr' = [loopPtr EXCEPT ![t] = TRUE]
    /\ UNCHANGED <<base, i, loops, existing, early, joined, alive, quit>>

\* The EventLoop is published.
Publish(t) ==
    /\ ThreadGoto(t, "locked", "begin")
    /\ loopPtr' = [loopPtr EXCEPT ![t] = TRUE]
    /\ base' = IF base = "waiting" /\ i = t THEN "notified" ELSE base
    /\ UNCHANGED <<i, loops, existing, early, joined, alive, quit>>

\* loop() sets quit_ to false ...
Begin(t) ==
    /\ ThreadGoto(t, "begin", "check")
    /\ quit' = [quit EXCEPT ![t] = FALSE]
    /\ UNCHANGED <<base, i, loops, loopPtr, existing, early, joined, alive>>

\* ... and looks at it at the top of every turn ...
Check(t) ==
    /\ ThreadGoto(t, "check", IF quit[t] THEN "reset" ELSE "poll")
    /\ UNCHANGED <<base, i, loops, loopPtr, existing, early, joined, alive, quit>>

\* ... which goes on when it is woken, when a descriptor is ready or after
\* EPOLLWAIT_TIME ...
Poll(t) ==
    /\ ThreadGoto(t, "poll", "calls")
    /\ UNCHANGED <<base, i, loops, loopPtr, existing, early, joined, alive, quit>>

\* ... and ends with the calls of other threads.
RunCalls(t) ==
    /\ ThreadGoto(t, "calls", "check")
    /\ UNCHANGED <<base, i, loops, loopPtr, existing, early, joined, alive, quit>>

\* After loop(): the assertion on existing_ and loop_ = nullptr ...
Reset(t) ==
    /\ ThreadGoto(t, "reset", "end")
    /\ loopPtr' = [loopPtr EXCEPT ![t] = FALSE]
    /\ UNCHANGED <<base, i, loops, existing, early, joined, alive, quit>>

\* ... and the EventLoop goes with the stack of the thread.
End(t) ==
    /\ ThreadGoto(t, "end", "done")
    /\ alive' = [alive EXCEPT ![t] = FALSE]
    /\ UNCHANGED <<base, i, loops, loopPtr, existing, early, joined, quit>>

-----------------------------------------------------------------------------
\* The steps of the base thread; ServerEnd adds what it does in between.
StartStep == Create \/ MakeMembers \/ GetLoop \/ Sleep
DestroyStep == Mark \/ While \/ Quit \/ Wakeup \/ Join

-----------------------------------------------------------------------------
\* Type invariant of the pool and its threads.
TypeOK ==
    /\ base \in {"create", "members", "get", "checked", "waiting", "notified", "serve",
                 "hand", "drop", "mark", "while", "quit", "wakeup", "join", "gone",
                 "terminated"}
    /\ i \in Threads /\ loops \in Seq(Threads) /\ Len(loops) <= ThreadsNum
    /\ loopPtr \in [Threads -> BOOLEAN] /\ existing \in [Threads -> BOOLEAN]
    /\ early \subseteq Threads /\ joined \subseteq Threads
    /\ tpc \in [Threads -> {"none", "born", "locked", "begin", "check", "poll", "calls",
                            "reset", "end", "done"}]
    /\ alive \in [Threads -> BOOLEAN] /\ quit \in [Threads -> BOOLEAN]

\* Safety: what the pool hands out in getNextLoop() exists: "as long as loopThreads_
\* lives it exists".  A loop that is in loops_ is gone only when the destructor of
\* its thread is under way.
LoopsExist ==
    \A k \in DOMAIN loops : alive[loops[k]] \/ existing[loops[k]]

\* Safety: the assertion after loop() holds, and no thread is destroyed unjoined.
AssertionsHold ==
    /\ TypeOK
    /\ \A t \in Threads : tpc[t] \in {"reset", "end", "done"} => existing[t]
    /\ base # "terminated"

\* Liveness: start() returns, with a loop from every thread, unless a thread was so fast
\* that it locked its mutex before that was constructed.
StartReturns == <>(base = "serve" /\ Len(loops) = ThreadsNum) \/ <>(early # {})

-----------------------------------------------------------------------------
(* What comments of the source say, and the code does not do: no run checks  *)
(* these, and the README says which steps break them.                        *)

\* Liveness: start() waits for each loop ("the loop may not have been created yet", says
\* the comment at notify_one()), and gets it.
StartAlwaysReturns == <>(base = "serve")

\* Liveness: the destructor ends the thread and reaps it, as the comment on it says.
DestructorEnds == base = "mark" ~> base = "gone"

\* Safety: loop_ may be used by several threads ("thread-safe", says its
\* declaration): whoever is about to use the EventLoop finds it alive.
QuitMeetsLiveLoop == base \in {"quit", "wakeup"} => alive[i]
=============================================================================
