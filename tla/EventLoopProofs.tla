--------------------------- MODULE EventLoopProofs ---------------------------
(***************************************************************************)
(* Proofs about EventLoop, for any set of threads and any set of calls: no *)
(* wakeup is lost (WakeupsAreNotLost), and the loop implements CallQueue   *)
(* (LoopImplementsCallQueue).  And about the timers the loop runs in its   *)
(* turn (TimerQueue), for any finite set of them, any times and any clock: *)
(* they are kept until they are run (TimersAreKept), which they are once   *)
(* (TimersRunOnce) and not before their time (TimersArePatient).           *)
(***************************************************************************)
EXTENDS EventLoop, TimerQueue, SequenceTheorems, FiniteSetTheorems, TLAPS

\* What epoll_wait does, whichever descriptors it reports: the eventfd is among
\* them only if it is readable.
LEMMA PollStep ==
    ASSUME PollReady \/ PollIo \/ PollTimeout
    PROVE  /\ pc = "poll" /\ pc' = "dispatch"
           /\ active' \subseteq Descriptors
           /\ "wake" \in active' => evfd
           /\ evReady' = FALSE /\ tmReady' = FALSE
           /\ UNCHANGED <<looping, quit, calls, evfd, timerfd, expired, wpc>>
<1>1. PICK ds \in SUBSET Descriptors : PollReports(ds) /\ ("wake" \in ds => evfd)
  <2>1. CASE PollReady
    <3>1. PICK ios \in SUBSET {"io"} : PollReports(Reportable \union ios)
      BY <2>1 DEF PollReady
    <3>2. Reportable \union ios \in SUBSET Descriptors
      BY DEF Reportable, Descriptors
    <3>3. "wake" \in Reportable \union ios => evfd
      BY DEF Reportable
    <3> QED  BY <3>1, <3>2, <3>3
  <2>2. CASE PollIo  BY <2>2 DEF PollIo, Descriptors
  <2>3. CASE PollTimeout  BY <2>3 DEF PollTimeout
  <2> QED  BY <2>1, <2>2, <2>3
<1> QED
  BY <1>1 DEF PollReports, Goto

-----------------------------------------------------------------------------
(* Type correctness.                                                       *)

\* Type correctness of the event loop, with what looping_ and the leftovers of
\* a turn tell of the place the loop is at.
THEOREM TypeCorrect == Spec => []TypeOK
<1>1. Init => TypeOK
  <2> SUFFICES ASSUME Init PROVE TypeOK
    OBVIOUS
  <2>1. queue \in Seq(Calls) /\ batch \in Seq(Calls) /\ ran \in Seq(Calls)
    BY DEF Init
  <2>2. /\ by \in [Calls -> Threads \union {LoopThread, None}]
        /\ wpc \in [Threads -> {"idle", "wakeup"}]
    BY DEF Init
  <2>3. looping <=> pc \notin {"new", "exited"}
    BY DEF Init
  <2>4. pc \in Places /\ active = {} /\ batch = <<>>
    BY DEF Init, Places
  <2> QED
    BY <2>1, <2>2, <2>3, <2>4 DEF Init, TypeOK, Descriptors
<1>2. TypeOK /\ [Next]_vars => TypeOK'
  <2> SUFFICES ASSUME TypeOK, [Next]_vars PROVE TypeOK'
    OBVIOUS
  <2> USE DEF TypeOK, Places, Descriptors, Goto, kernel, calls
  <2>1. CASE Begin  BY <2>1 DEF Begin
  <2>2. CASE ResetQuit  BY <2>2 DEF ResetQuit
  <2>3. CASE CheckQuit
    <3>1. looping' <=> pc' \notin {"new", "exited"}
      <4>1. CASE quit  BY <2>3, <4>1 DEF CheckQuit
      <4>2. CASE ~quit  BY <2>3, <4>2 DEF CheckQuit
      <4> QED  BY <4>1, <4>2
    <3>2. pc' \in Places /\ looping' \in BOOLEAN
      BY <2>3 DEF CheckQuit
    <3> QED  BY <2>3, <3>1, <3>2 DEF CheckQuit
  <2>4. CASE PollReady \/ PollIo \/ PollTimeout  BY <2>4, PollStep
  <2>5. CASE ReadEventFd  BY <2>5 DEF ReadEventFd
  <2>6. CASE RearmEventFd  BY <2>6 DEF RearmEventFd, RearmWake
  <2>7. CASE HandleTimerFd  BY <2>7 DEF HandleTimerFd, RearmTimer
  <2>8. CASE HandleIo  BY <2>8 DEF HandleIo
  <2>9. CASE EndDispatch  BY <2>9 DEF EndDispatch
  <2>10. CASE RunTimers  BY <2>10 DEF RunTimers
  <2>11. CASE SwapQueue  BY <2>11 DEF SwapQueue
  <2>12. CASE RunCall  BY <2>12 DEF RunCall
  <2>13. CASE EndBatch  BY <2>13 DEF EndBatch
  <2>14. CASE Heart  BY <2>14 DEF Heart
  <2>15. CASE QuitFromLoop  BY <2>15 DEF QuitFromLoop
  <2>16. ASSUME NEW c \in Calls, QueueFromLoop(c) PROVE TypeOK'
    BY <2>16 DEF QueueFromLoop, PushCall
  <2>17. ASSUME NEW c \in Calls, RunFromLoop(c) PROVE TypeOK'
    BY <2>17 DEF RunFromLoop
  <2>18. ASSUME NEW t \in Threads, AskToQuit(t) PROVE TypeOK'
    BY <2>18 DEF AskToQuit
  <2>19. ASSUME NEW t \in Threads, Wakeup(t) PROVE TypeOK'
    BY <2>19 DEF Wakeup, WriteEventFd
  <2>20. ASSUME NEW t \in Threads, NEW c \in Calls, HandOver(t, c) PROVE TypeOK'
    BY <2>20 DEF HandOver, PushCall
  <2>21. CASE TimerExpires  BY <2>21 DEF TimerExpires
  <2>22. CASE UNCHANGED vars  BY <2>22 DEF vars
  <2> QED
    BY <2>1, <2>2, <2>3, <2>4, <2>5, <2>6, <2>7, <2>8, <2>9, <2>10, <2>11, <2>12,
       <2>13, <2>14, <2>15, <2>16, <2>17, <2>18, <2>19, <2>20, <2>21, <2>22
       DEF Next, LoopStep, UserStep, OtherStep
<1> QED
  BY <1>1, <1>2, PTL DEF Spec

-----------------------------------------------------------------------------
(* The handler of the eventfd.                                             *)

\* While the eventfd waits for its handler its counter is not zero; once the
\* handler has read it, it waits no more.
ReadInv == /\ ReadNeverFails
           /\ pc = "rearm" => "wake" \notin active

\* The read in handleEventFd() always finds the counter non-zero.
THEOREM ReadSafe == Spec => []ReadNeverFails
<1>1. Init => ReadInv
  BY DEF Init, ReadInv, ReadNeverFails
<1>2. TypeOK /\ ReadInv /\ [Next]_vars => ReadInv'
  <2> SUFFICES ASSUME TypeOK, ReadInv, [Next]_vars PROVE ReadInv'
    OBVIOUS
  <2> USE DEF ReadInv, ReadNeverFails, Goto, kernel, calls
  <2>1. CASE Begin \/ ResetQuit \/ CheckQuit \/ EndDispatch \/ RunTimers \/ SwapQueue
               \/ EndBatch \/ Heart
    BY <2>1 DEF Begin, ResetQuit, CheckQuit, EndDispatch, RunTimers, SwapQueue,
       EndBatch, Heart
  <2>2. CASE PollReady \/ PollIo \/ PollTimeout  BY <2>2, PollStep
  <2>3. CASE ReadEventFd  BY <2>3 DEF ReadEventFd
  <2>4. CASE RearmEventFd  BY <2>4 DEF RearmEventFd
  <2>5. CASE HandleTimerFd \/ HandleIo  BY <2>5 DEF HandleTimerFd, HandleIo
  <2>6. CASE RunCall \/ QuitFromLoop \/ TimerExpires \/ UNCHANGED vars
    BY <2>6 DEF RunCall, QuitFromLoop, TimerExpires, vars
  <2>7. ASSUME NEW c \in Calls, QueueFromLoop(c) \/ RunFromLoop(c) PROVE ReadInv'
    BY <2>7 DEF QueueFromLoop, RunFromLoop, PushCall
  <2>8. ASSUME NEW t \in Threads, AskToQuit(t) \/ Wakeup(t) PROVE ReadInv'
    BY <2>8 DEF AskToQuit, Wakeup, WriteEventFd
  <2>9. ASSUME NEW t \in Threads, NEW c \in Calls, HandOver(t, c) PROVE ReadInv'
    BY <2>9 DEF HandOver, PushCall
  <2> QED
    BY <2>1, <2>2, <2>3, <2>4, <2>5, <2>6, <2>7, <2>8, <2>9
       DEF Next, LoopStep, UserStep, OtherStep
<1>3. ReadInv => ReadNeverFails
  BY DEF ReadInv
<1> QED
  BY <1>1, <1>2, <1>3, TypeCorrect, PTL DEF Spec

-----------------------------------------------------------------------------
(* No lost wakeup.                                                         *)

\* From here the loop reaches epoll_wait without looking at the queue.
BeforePoll == {"new", "begin", "check", "poll", "run", "heart"}

\* The i-th call of the queue was pushed by another thread.
OthersCall(i) == i \in DOMAIN queue /\ by[queue[i]] \in Threads

\* What NoLostWakeup needs to be inductive.  A call may be pushed long before
\* the loop reaches epoll_wait, so its wakeup must stay pending all the way from
\* the swap on; the handler of the eventfd, which takes the wakeup away, runs
\* before the swap and never in that stretch.
WakeInv ==
    /\ pc \in BeforePoll /\ (\E i : OthersCall(i)) => WakeupPending
    /\ pc = "poll" /\ quit => WakeupPending

\* epoll_wait is never left asleep with another thread's call in the queue, or
\* its quit_ unseen, and no wakeup on its way.
THEOREM WakeupsAreNotLost == Spec => []NoLostWakeup
<1>1. Init => WakeInv
  BY DEF Init, WakeInv, OthersCall
<1>2. TypeOK /\ WakeInv /\ [Next]_vars => WakeInv'
  <2> SUFFICES ASSUME TypeOK, WakeInv, [Next]_vars PROVE WakeInv'
    OBVIOUS
  <2> USE DEF WakeInv, WakeupPending, OthersCall, BeforePoll, Goto, kernel, calls
  <2>1. CASE Begin \/ ResetQuit \/ EndBatch \/ Heart
    BY <2>1 DEF Begin, ResetQuit, EndBatch, Heart
  <2>2. CASE CheckQuit  BY <2>2 DEF CheckQuit, TypeOK
  <2>3. CASE PollReady \/ PollIo \/ PollTimeout  BY <2>3, PollStep
  <2>4. CASE ReadEventFd \/ RearmEventFd \/ HandleTimerFd \/ HandleIo
    BY <2>4 DEF ReadEventFd, RearmEventFd, HandleTimerFd, HandleIo
  <2>5. CASE EndDispatch \/ RunTimers  BY <2>5 DEF EndDispatch, RunTimers
  <2>6. CASE SwapQueue  BY <2>6 DEF SwapQueue
  <2>7. CASE RunCall \/ TimerExpires \/ UNCHANGED vars
    BY <2>7 DEF RunCall, TimerExpires, vars
  <2>8. CASE QuitFromLoop
    BY <2>8 DEF QuitFromLoop, InUserCode
  <2>9. ASSUME NEW c \in Calls, QueueFromLoop(c) PROVE WakeInv'
    \* pc is not "poll" in user code, and the new last call is the loop's own
    <3>1. pc # "poll" /\ pc' = pc /\ WakeupPending' = WakeupPending
      BY <2>9 DEF QueueFromLoop, InUserCode
    <3>2. ASSUME NEW i, OthersCall(i)' PROVE OthersCall(i)
      BY <2>9, <3>2, ThreadsAssumption DEF QueueFromLoop, PushCall, TypeOK
    <3> QED  BY <3>1, <3>2
  <2>10. ASSUME NEW c \in Calls, RunFromLoop(c) PROVE WakeInv'
    <3>1. pc # "poll" /\ pc' = pc /\ WakeupPending' = WakeupPending
      BY <2>10 DEF RunFromLoop, InUserCode
    <3>2. ASSUME NEW i, OthersCall(i)' PROVE OthersCall(i)
      BY <2>10, <3>2, ThreadsAssumption DEF RunFromLoop, TypeOK
    <3> QED  BY <3>1, <3>2
  <2>11. ASSUME NEW t \in Threads, AskToQuit(t) PROVE WakeInv'
    BY <2>11 DEF AskToQuit, TypeOK
  <2>12. ASSUME NEW t \in Threads, Wakeup(t) PROVE WakeInv'
    BY <2>12 DEF Wakeup, WriteEventFd
  <2>13. ASSUME NEW t \in Threads, NEW c \in Calls, HandOver(t, c) PROVE WakeInv'
    BY <2>13 DEF HandOver, TypeOK
  <2> QED
    BY <2>1, <2>2, <2>3, <2>4, <2>5, <2>6, <2>7, <2>8, <2>9, <2>10, <2>11, <2>12, <2>13
       DEF Next, LoopStep, UserStep, OtherStep
<1>3. TypeOK /\ WakeInv => NoLostWakeup
  BY DEF WakeInv, NoLostWakeup, OthersWork, OthersCall, BeforePoll
<1> QED
  BY <1>1, <1>2, <1>3, TypeCorrect, PTL DEF Spec

-----------------------------------------------------------------------------
(* The batch.                                                              *)

\* Calls queued while the batch runs are left for the next turn of the loop.
THEOREM BatchIsBounded == Spec => BatchNeverGrows
<1>1. TypeOK /\ [Next]_vars => [pc = "run" => Len(batch') <= Len(batch)]_vars
  <2> SUFFICES ASSUME TypeOK, Next, pc = "run" PROVE Len(batch') <= Len(batch)
    BY DEF vars
  <2>1. batch \in Seq(Calls) /\ Len(batch) \in Nat
    BY DEF TypeOK
  <2>2. CASE RunCall
    BY <2>1, <2>2, HeadTailProperties DEF RunCall
  <2>3. CASE ~RunCall
    <3>1. batch' = batch
      BY <2>3 DEF Next, LoopStep, UserStep, OtherStep, Goto, kernel, calls, Begin,
         ResetQuit, CheckQuit, PollReady, PollIo, PollTimeout, PollReports, ReadEventFd,
         RearmEventFd, HandleTimerFd, HandleIo, EndDispatch, RunTimers, SwapQueue,
         EndBatch, Heart, QuitFromLoop, QueueFromLoop, RunFromLoop, PushCall, AskToQuit,
         Wakeup, HandOver, TimerExpires
    <3> QED  BY <2>1, <3>1
  <2> QED  BY <2>2, <2>3
<1> QED
  BY <1>1, TypeCorrect, PTL DEF Spec, BatchNeverGrows

-----------------------------------------------------------------------------
(* The promise of CallQueue.                                               *)

\* Appending to the second part of a concatenation appends to the whole.
LEMMA AppendToConcat ==
    ASSUME NEW S, NEW s \in Seq(S), NEW t \in Seq(S), NEW e \in S
    PROVE  s \o Append(t, e) = Append(s \o t, e)
<1>1. Append(t, e) = t \o <<e>> /\ <<e>> \in Seq(S)
  BY AppendIsConcat
<1>2. s \o (t \o <<e>>) = (s \o t) \o <<e>>
  BY <1>1, ConcatAssociative
<1>3. s \o t \in Seq(S)
  BY ConcatProperties
<1> QED
  BY <1>1, <1>2, <1>3, AppendIsConcat

\* Moving the head of the second part to the end of the first changes nothing.
LEMMA HeadMoves ==
    ASSUME NEW S, NEW s \in Seq(S), NEW t \in Seq(S), t # <<>>
    PROVE  Append(s, Head(t)) \o Tail(t) = s \o t
<1>1. /\ Head(t) \in S /\ Tail(t) \in Seq(S)
      /\ Len(Tail(t)) = Len(t) - 1
      /\ \A i \in 1 .. Len(Tail(t)) : Tail(t)[i] = t[i + 1]
  BY HeadTailProperties
<1>2. <<Head(t)>> \in Seq(S)
  BY <1>1
<1>3. <<Head(t)>> \o Tail(t) = t
  BY <1>1
<1>4. Append(s, Head(t)) = s \o <<Head(t)>>
  BY <1>1, AppendIsConcat
<1> QED
  BY <1>1, <1>2, <1>3, <1>4, ConcatAssociative

\* The line as CallQueue sees it: run, taken, waiting.
TheLine == ran \o batch \o queue

\* Nobody has handed over a call that has no origin, so a push is always new.
OnlyHandedOver == \A c \in Calls : by[c] = None => c \notin Range(TheLine)

\* A push extends the line.
LEMMA PushExtendsLine ==
    ASSUME TypeOK, NEW t, NEW c \in Calls, PushCall(t, c)
    PROVE  TheLine' = Append(TheLine, c)
<1>1. ran \o batch \in Seq(Calls) /\ queue \in Seq(Calls)
  BY ConcatProperties DEF TypeOK
<1> QED
  BY <1>1, AppendToConcat DEF PushCall, TheLine

\* The swap leaves the line as it is.
LEMMA SwapKeepsLine ==
    ASSUME TypeOK, SwapQueue
    PROVE  TheLine' = TheLine
<1>1. batch = <<>> /\ ran \in Seq(Calls) /\ queue \in Seq(Calls)
  BY DEF TypeOK, SwapQueue, Goto
<1>2. ran \o <<>> = ran
  BY <1>1, ConcatEmptySeq
<1>3. ran \o queue \in Seq(Calls)
  BY <1>1, ConcatProperties
<1>4. (ran \o queue) \o <<>> = ran \o queue
  BY <1>3, ConcatEmptySeq
<1> QED
  BY <1>1, <1>2, <1>4 DEF SwapQueue, TheLine

\* Running a call leaves the line as it is.
LEMMA RunKeepsLine ==
    ASSUME TypeOK, RunCall
    PROVE  TheLine' = TheLine
<1>1. Append(ran, Head(batch)) \o Tail(batch) = ran \o batch
  BY HeadMoves DEF TypeOK, RunCall
<1> QED
  BY <1>1 DEF RunCall, TheLine

\* Every other step leaves the line, what has run of it and the origins alone,
\* except that a call run directly gets an origin.
LEMMA OthersKeepLine ==
    ASSUME [Next]_vars, ~RunCall, ~SwapQueue,
           \A c \in Calls : ~QueueFromLoop(c) /\ \A t \in Threads : ~HandOver(t, c)
    PROVE  /\ UNCHANGED <<queue, batch, ran>>
           /\ by' = by \/ \E c \in Calls : by' = [by EXCEPT ![c] = LoopThread]
BY DEF Next, LoopStep, UserStep, OtherStep, Goto, kernel, calls, vars, Begin,
   ResetQuit, CheckQuit, PollReady, PollIo, PollTimeout, PollReports, ReadEventFd,
   RearmEventFd, HandleTimerFd, HandleIo, EndDispatch, RunTimers,
   EndBatch, Heart, QuitFromLoop, RunFromLoop, AskToQuit, Wakeup, TimerExpires

\* Each step of the loop is a step of CallQueue or leaves it alone.
LEMMA StepRefines ==
    ASSUME TypeOK, OnlyHandedOver, [Next]_vars
    PROVE  [Line!Next]_(Line!vars) /\ OnlyHandedOver'
<1> USE NoneAssumption DEF Line!vars
<1>0. TheLine \in Seq(Calls) /\ ran \in Seq(Calls) /\ batch \in Seq(Calls)
  BY ConcatProperties DEF TypeOK, TheLine
<1>1. ASSUME NEW t \in Threads \union {LoopThread}, NEW c \in Calls, PushCall(t, c)
      PROVE  Line!Post(c) /\ OnlyHandedOver'
  <2>1. TheLine' = Append(TheLine, c)
    BY <1>1, PushExtendsLine
  <2>2. c \notin Range(TheLine)
    BY <1>1 DEF OnlyHandedOver, PushCall
  <2>3. Line!Post(c)
    BY <1>1, <2>1, <2>2 DEF Line!Post, Line!Range, Range, TheLine, PushCall
  <2>4. Range(TheLine') = Range(TheLine) \union {c}
    <3>1. TheLine' = TheLine \o <<c>> /\ <<c>> \in Seq(Calls)
      BY <2>1, <1>0, AppendIsConcat
    <3>2. Range(<<c>>) = {c}
      BY DEF Range
    <3>3. Range(TheLine \o <<c>>) = Range(TheLine) \union Range(<<c>>)
      <4>1. TheLine \in Seq(Calls) /\ <<c>> \in Seq(Calls)  BY <3>1, <1>0
      <4> HIDE DEF TheLine
      <4> QED  BY ONLY <4>1, RangeConcatenation
    <3> QED  BY <3>1, <3>2, <3>3
  <2>5. OnlyHandedOver'
    BY <1>1, <2>4 DEF OnlyHandedOver, PushCall, TypeOK
  <2> QED  BY <2>3, <2>5
<1>2. CASE SwapQueue
  BY <1>2, SwapKeepsLine DEF SwapQueue, TheLine, OnlyHandedOver
<1>3. CASE RunCall
  <2>1. TheLine' = TheLine
    BY <1>3, RunKeepsLine
  <2>2. Len(ran') = Len(ran) + 1
    BY <1>0, <1>3, HeadTailProperties, AppendProperties DEF RunCall
  <2>3. Len(ran) < Len(TheLine)
    <3>1. Len(batch) > 0 /\ Len(batch) \in Nat /\ Len(ran) \in Nat /\ Len(queue) \in Nat
      BY <1>0, <1>3, EmptySeq DEF RunCall, TypeOK
    <3>2. /\ Len(ran \o batch) = Len(ran) + Len(batch)
          /\ Len(TheLine) = Len(ran) + Len(batch) + Len(queue)
      BY ConcatProperties DEF TypeOK, TheLine
    <3> QED  BY <3>1, <3>2
  <2>4. Line!RunNext
    BY <2>1, <2>2, <2>3 DEF Line!RunNext, TheLine
  <2>5. OnlyHandedOver'
    BY <1>3, <2>1 DEF RunCall, OnlyHandedOver
  <2> QED  BY <2>4, <2>5 DEF Line!Next
<1>4. ASSUME NEW c \in Calls, NEW t \in Threads, HandOver(t, c)
      PROVE  [Line!Next]_(Line!vars) /\ OnlyHandedOver'
  BY <1>1, <1>4 DEF HandOver, Line!Next
<1>5. ASSUME NEW c \in Calls, QueueFromLoop(c)
      PROVE  [Line!Next]_(Line!vars) /\ OnlyHandedOver'
  BY <1>1, <1>5 DEF QueueFromLoop, Line!Next
<1>6. CASE /\ ~RunCall /\ ~SwapQueue
           /\ \A c \in Calls : ~QueueFromLoop(c) /\ \A t \in Threads : ~HandOver(t, c)
  <2>1. /\ UNCHANGED <<queue, batch, ran>>
        /\ by' = by \/ \E c \in Calls : by' = [by EXCEPT ![c] = LoopThread]
    BY <1>6, OthersKeepLine
  <2>2. TheLine' = TheLine
    BY <2>1 DEF TheLine
  <2>3. OnlyHandedOver'
    BY <2>1, <2>2 DEF OnlyHandedOver, TypeOK
  <2> QED  BY <2>1, <2>3
<1> QED
  BY <1>2, <1>3, <1>4, <1>5, <1>6

\* The event loop keeps the promise of CallQueue: whatever the threads and the
\* batches, the calls queued form one line that is run in order, each once.
THEOREM LoopImplementsCallQueue == Spec => LineSpec
<1>1. Init => Line!Init /\ OnlyHandedOver
  <2> SUFFICES ASSUME Init PROVE Line!Init /\ OnlyHandedOver
    OBVIOUS
  <2>1. ran = <<>> /\ batch = <<>> /\ queue = <<>>
    BY DEF Init
  <2>2. TheLine = <<>> /\ Range(TheLine) = {}
    BY <2>1 DEF TheLine, Range
  <2> QED  BY <2>1, <2>2 DEF Line!Init, OnlyHandedOver, TheLine
<1>2. TypeOK /\ OnlyHandedOver /\ [Next]_vars => [Line!Next]_(Line!vars) /\ OnlyHandedOver'
  BY StepRefines
<1> QED
  BY <1>1, <1>2, TypeCorrect, PTL DEF Spec, LineSpec, Line!Spec

\* No call has two places in a sequence of calls.
Single(line) == \A j, k \in DOMAIN line : line[j] = line[k] => j = k

\* What CallQueue promises: no call of the line is run twice.
THEOREM CallsRunOnce == Spec => []Single(ran)
<1>1. Line!Init => Single(TheLine) BY DEF Line!Init, TheLine, Single
<1>2. TypeOK /\ TypeOK' /\ Single(TheLine) /\ [Line!Next]_(Line!vars) => Single(TheLine)'
  <2> SUFFICES ASSUME TypeOK, TypeOK', Single(TheLine), [Line!Next]_(Line!vars)
               PROVE  Single(TheLine)'
    OBVIOUS
  <2>1. TheLine \in Seq(Calls) BY ConcatProperties DEF TypeOK, TheLine
  <2>2. ASSUME NEW c \in Calls, Line!Post(c) PROVE Single(TheLine)'
    <3> DEFINE q == TheLine
               n == Len(q)
    <3>1. q' = Append(q, c) /\ \A k \in DOMAIN q : q[k] # c
      BY <2>2 DEF Line!Post, Line!Range, TheLine
    <3> HIDE DEF q
    <3>2. /\ n \in Nat /\ DOMAIN q = 1 .. n /\ DOMAIN q' = 1 .. n + 1 /\ q'[n + 1] = c
          /\ \A k \in 1 .. n : q'[k] = q[k]
      BY <2>1, <3>1 DEF q
    <3>3. Single(q) BY DEF q
    <3>4. ASSUME NEW j \in DOMAIN q', NEW k \in DOMAIN q', q'[j] = q'[k] PROVE j = k
      BY <3>1, <3>2, <3>3, <3>4 DEF Single
    <3> QED BY <3>4 DEF Single, q
  <2>3. CASE TheLine' = TheLine BY <2>3 DEF Single
  <2> QED BY <2>2, <2>3 DEF Line!Next, Line!RunNext, Line!vars, TheLine
<1>3. TypeOK /\ Single(TheLine) => Single(ran)
  <2> SUFFICES ASSUME TypeOK, Single(TheLine) PROVE Single(ran) OBVIOUS
  <2> DEFINE rest == batch \o queue
  <2>1. /\ ran \in Seq(Calls) /\ batch \in Seq(Calls) /\ queue \in Seq(Calls)
        /\ rest \in Seq(Calls)
    BY ConcatProperties DEF TypeOK
  <2>2. TheLine = ran \o rest BY <2>1, ConcatAssociative DEF TheLine
  <2> HIDE DEF rest
  <2>3. \A k \in DOMAIN ran : k \in DOMAIN TheLine /\ TheLine[k] = ran[k] BY <2>1, <2>2
  <2> QED BY <2>3 DEF Single
<1> QED
  BY <1>1, <1>2, <1>3, LoopImplementsCallQueue, TypeCorrect, PTL DEF LineSpec, Line!Spec

-----------------------------------------------------------------------------
(* Time that wraps.                                                        *)

\* What \div and % are.
LEMMA DivMod ==
  ASSUME NEW n \in Nat, NEW m \in Nat \ {0}
  PROVE  /\ n \div m \in Nat /\ n % m \in 0 .. m - 1
         /\ n = m * (n \div m) + (n % m)
OBVIOUS

\* A smaller number of times m stays at least m behind a larger one.
LEMMA Less ==
  ASSUME NEW m \in Nat \ {0}, NEW j \in Nat, NEW k \in Nat, j < k
  PROVE  m * j + m <= m * k
<1>1. k = j + 1 + (k - j - 1) /\ k - j - 1 \in Nat OBVIOUS
<1>2. PICK d \in Nat : k = (j + 1) + d BY <1>1
<1>3. m * k = m * (j + 1) + m * d BY <1>2
<1>4. m * (j + 1) = m * j + m OBVIOUS
<1>5. m * d \in Nat OBVIOUS
<1> QED BY <1>3, <1>4, <1>5

\* There is one way to divide.
LEMMA DivIsUnique ==
  ASSUME NEW n \in Nat, NEW m \in Nat \ {0}, NEW k \in Nat, NEW z \in 0 .. m - 1, n = m * k + z
  PROVE  n \div m = k /\ n % m = z
<1> DEFINE q == n \div m
           r == n % m
<1>1. q \in Nat /\ r \in 0 .. m - 1 /\ n = m * q + r BY DivMod
<1> HIDE DEF q, r
<1>2. ~(q < k)
  <2>1. SUFFICES ASSUME q < k PROVE FALSE OBVIOUS
  <2>2. m * q + m <= m * k BY <1>1, <2>1, Less
  <2>3. m * q \in Nat /\ m * k \in Nat BY <1>1
  <2> QED BY <1>1, <2>2, <2>3
<1>3. ~(k < q)
  <2>1. SUFFICES ASSUME k < q PROVE FALSE OBVIOUS
  <2>2. m * k + m <= m * q BY <1>1, <2>1, Less
  <2>3. m * q \in Nat /\ m * k \in Nat BY <1>1
  <2> QED BY <1>1, <2>2, <2>3
<1>4. q = k BY <1>1, <1>2, <1>3
<1>5. m * k \in Nat /\ m * q = m * k BY <1>4
<1>6. r = z BY <1>1, <1>5
<1> QED BY <1>4, <1>6 DEF q, r

\* A later tick is in no earlier period.
LEMMA DivGrows ==
  ASSUME NEW a \in Nat, NEW b \in Nat, NEW m \in Nat \ {0}, a <= b
  PROVE  a \div m <= b \div m
<1> DEFINE j == a \div m
           k == b \div m
           r == a % m
           s == b % m
<1>1. j \in Nat /\ r \in 0 .. m - 1 /\ a = m * j + r BY DivMod
<1>2. k \in Nat /\ s \in 0 .. m - 1 /\ b = m * k + s BY DivMod
<1> HIDE DEF j, k, r, s
<1>3. ~(k < j)
  <2>1. SUFFICES ASSUME k < j PROVE FALSE OBVIOUS
  <2>2. m * k + m <= m * j BY <1>1, <1>2, <2>1, Less
  <2>3. m * k \in Nat /\ m * j \in Nat BY <1>1, <1>2
  <2> QED BY <1>1, <1>2, <2>2, <2>3
<1>4. j <= k BY <1>1, <1>2, <1>3
<1> QED BY <1>4 DEF j, k

\* TimerNode::TimerNode: seconds are wrapped and milliseconds added to them, which is the
\* time it is due, wrapped as a whole.
LEMMA Wraps ==
  ASSUME NEW tick \in Nat, NEW timeout \in Nat, NEW sec \in Nat \ {0}, NEW wrap \in Nat \ {0}
  PROVE  /\ (((tick \div sec) + timeout) % wrap) * sec + (tick % sec)
                = (tick + timeout * sec) % (wrap * sec)
         /\ (tick + timeout * sec) % (wrap * sec) \in 0 .. wrap * sec - 1
<1> DEFINE q == tick \div sec
           r == tick % sec
           x == q + timeout
           k == x \div wrap
           y == x % wrap
           m == wrap * sec
<1>1. q \in Nat /\ r \in 0 .. sec - 1 /\ tick = sec * q + r BY DivMod
<1>2. x \in Nat BY <1>1
<1>3. k \in Nat /\ y \in 0 .. wrap - 1 /\ x = wrap * k + y BY <1>2, DivMod
<1>4. m \in Nat \ {0}
  <2>1. 1 <= sec /\ sec * 0 = 0 OBVIOUS
  <2>2. sec * 0 + sec <= sec * wrap BY <2>1, Less
  <2> QED BY <2>1, <2>2
<1>5. x = q + timeout OBVIOUS
<1> HIDE DEF q, r, x, k, y
<1>6. tick + timeout * sec = m * k + (y * sec + r)
  <2>1. sec * q + timeout * sec = sec * x BY <1>1, <1>5
  <2>2. sec * x = sec * (wrap * k) + sec * y BY <1>3
  <2>3. sec * (wrap * k) = m * k BY <1>3
  <2>4. sec * y = y * sec BY <1>3
  <2>5. m * k \in Nat /\ y * sec \in Nat /\ timeout * sec \in Nat /\ sec * q \in Nat
    BY <1>1, <1>3, <1>4
  <2>6. sec * x = m * k + y * sec BY <2>2, <2>3, <2>4
  <2> DEFINE a == sec * q
             b == timeout * sec
             c == y * sec
             d == m * k
  <2>7. tick = a + r /\ a + b = d + c BY <1>1, <2>1, <2>6
  <2>8. a \in Nat /\ b \in Nat /\ c \in Nat /\ d \in Nat /\ r \in Nat BY <1>1, <2>5
  <2> HIDE DEF a, b, c, d
  <2>9. tick + b = d + (c + r) BY <2>7, <2>8
  <2> QED BY <2>9 DEF b, c, d
<1>7. y * sec + r \in 0 .. m - 1
  <2>1. y < wrap /\ y \in Nat BY <1>3
  <2>2. sec * y + sec <= sec * wrap BY <2>1, Less
  <2>3. sec * y = y * sec /\ sec * wrap = m /\ y * sec \in Nat BY <2>1
  <2> QED BY <1>1, <1>4, <2>2, <2>3
<1>8. tick + timeout * sec \in Nat OBVIOUS
<1> DEFINE z == y * sec + r
           n == tick + timeout * sec
<1>9. n \in Nat /\ z \in 0 .. m - 1 /\ n = m * k + z BY <1>6, <1>7, <1>8
<1> HIDE DEF m, z, n
<1>10. n % m = z BY <1>3, <1>4, <1>9, DivIsUnique
<1> QED BY <1>7, <1>10 DEF q, r, x, y, m, z, n

\* A timer whose wrapped time has passed is due, if the wrap has not come between.
LEMMA PassedIsDue ==
  ASSUME NEW at \in Nat, NEW due \in Nat, NEW tick \in Nat, NEW m \in Nat \ {0},
         at <= tick, due \div m = at \div m, due % m < tick % m
  PROVE  due <= tick
<1> DEFINE p == due \div m
           q == tick \div m
           r == due % m
           s == tick % m
<1>1. p \in Nat /\ r \in 0 .. m - 1 /\ due = m * p + r BY DivMod
<1>2. q \in Nat /\ s \in 0 .. m - 1 /\ tick = m * q + s BY DivMod
<1>3. p <= q BY DivGrows
<1>4. r < s OBVIOUS
<1> HIDE DEF p, q, r, s
<1>5. CASE p = q
  <2>1. m * p = m * q /\ m * p \in Nat BY <1>1, <1>5
  <2> QED BY <1>1, <1>2, <1>4, <2>1
<1>6. CASE p < q
  <2>1. m * p + m <= m * q BY <1>1, <1>2, <1>6, Less
  <2>2. m * p \in Nat /\ m * q \in Nat BY <1>1, <1>2
  <2> QED BY <1>1, <1>2, <2>1, <2>2
<1> QED BY <1>1, <1>2, <1>3, <1>5, <1>6


-----------------------------------------------------------------------------
(* The timers of the loop, for any set of them, any times, and any clock.  *)

\* Where a timer is that waits to be run.
Waits(t) == t \in timers \union ToSet(handed) \union ToSet(expireEvent)

\* A timer waits in one place, from when it is asked for until it is run.
PlaceInv ==
    /\ \A t \in Timers : /\ Waits(t) => asked[t] # Never /\ runs[t] = <<>>
                         /\ asked[t] = Never => runs[t] = <<>>
                         /\ Len(runs[t]) <= 1
    /\ \A t \in ToSet(handed) : t \notin ToSet(expireEvent)
    /\ phase # "expired" => expireEvent = <<>>

\* When a timer that was asked for so is due; a tick that is not too early for it.
DueFor(ask) == ask.at + ask.timeout * Second
OnTime(ask, tick) == Period(DueFor(ask)) = Period(ask.at) => tick >= DueFor(ask)

\* A timer's time is the one it is due, wrapped; what is taken out is due.
TimeInv ==
    /\ \A t \in Timers :
           asked[t] # Never => /\ asked[t].at \in Nat /\ asked[t].at <= now
                               /\ asked[t].timeout \in Timeouts
                               /\ exp[t] = DueFor(asked[t]) % (WrapAfter * Second)
    /\ \A t \in ToSet(expireEvent) : OnTime(asked[t], now)
    /\ \A t \in Timers : \A i \in DOMAIN runs[t] : OnTime(asked[t], runs[t][i])

\* The inductive invariant of the timers.
TimerInv == TimerTypeOK /\ PlaceInv /\ TimeInv

\* The wrap, in ticks; the time a new timer is given.
LEMMA Times ==
  ASSUME now \in Nat, NEW timeout \in Nat
  PROVE  /\ WrapAfter * Second \in Nat \ {0}
         /\ ExpiredTime(timeout) = (now + timeout * Second) % (WrapAfter * Second)
         /\ ExpiredTime(timeout) \in 0 .. WrapAfter * Second - 1
<1>1. Second \in Nat \ {0} /\ WrapAfter \in Nat \ {0} BY TimerAssumption
<1>2. WrapAfter * Second \in Nat \ {0}
  <2>1. Second * 0 + Second <= Second * WrapAfter BY <1>1, Less
  <2> QED BY <1>1, <2>1
<1>3. /\ (((now \div Second) + timeout) % WrapAfter) * Second + (now % Second)
             = (now + timeout * Second) % (WrapAfter * Second)
      /\ (now + timeout * Second) % (WrapAfter * Second) \in 0 .. WrapAfter * Second - 1
  BY <1>1, Wraps
<1>4. ExpiredTime(timeout)
          = (((now \div Second) + timeout) % WrapAfter) * Second + (now % Second)
  BY DEF ExpiredTime
<1> QED BY <1>2, <1>3, <1>4

\* A new element is all that Append adds to a sequence's elements.
LEMMA AppendedElements ==
  ASSUME NEW S, NEW s \in Seq(S), NEW e \in S
  PROVE  ToSet(Append(s, e)) = ToSet(s) \union {e}
<1>1. /\ Len(Append(s, e)) = Len(s) + 1 /\ Append(s, e) \in Seq(S)
      /\ \A i \in 1 .. Len(s) : Append(s, e)[i] = s[i]
      /\ Append(s, e)[Len(s) + 1] = e
  BY AppendProperties
<1>2. DOMAIN s = 1 .. Len(s) /\ DOMAIN Append(s, e) = 1 .. Len(s) + 1 /\ Len(s) \in Nat
  BY <1>1
<1>3. ASSUME NEW i \in 1 .. Len(s) + 1 PROVE Append(s, e)[i] \in ToSet(s) \union {e}
  <2>1. CASE i \in 1 .. Len(s) BY <1>1, <1>2, <2>1 DEF ToSet
  <2>2. CASE i = Len(s) + 1 BY <1>1, <2>2
  <2> QED BY <1>2, <2>1, <2>2
<1>4. \A i \in 1 .. Len(s) : s[i] \in ToSet(Append(s, e)) BY <1>1, <1>2 DEF ToSet
<1>5. e \in ToSet(Append(s, e))
  <2>1. Len(s) + 1 \in DOMAIN Append(s, e) BY <1>2
  <2> QED BY <1>1, <2>1 DEF ToSet
<1>6. ToSet(Append(s, e)) \subseteq ToSet(s) \union {e} BY <1>2, <1>3 DEF ToSet
<1>7. ToSet(s) \subseteq ToSet(Append(s, e)) BY <1>2, <1>4 DEF ToSet
<1> QED BY <1>5, <1>6, <1>7

\* The invariant holds when the loop is made.
LEMMA TimerStart == TimerInit => TimerInv
<1> SUFFICES ASSUME TimerInit PROVE TimerInv OBVIOUS
<1> USE DEF TimerInit
<1>1. TimerTypeOK
  <2>1. now \in Nat /\ start \in Starts /\ now - start \in 0 .. MaxRun
    BY TimerAssumption
  <2>2. asked \in [Timers -> [at : Nat \union {-1}, timeout : Timeouts \union {0}]]
    BY DEF Never
  <2>3. exp \in [Timers -> 0 .. WrapAfter * Second - 1]
    <3>1. WrapAfter * Second \in Nat \ {0} BY <2>1, Times
    <3> QED BY <3>1
  <2>4. runs \in [Timers -> Seq(Nat)] OBVIOUS
  <2>5. handed \in Seq(Timers) /\ expireEvent \in Seq(Timers) /\ timers = {} OBVIOUS
  <2> QED BY <2>1, <2>2, <2>3, <2>4, <2>5 DEF TimerTypeOK
<1>2. ToSet(<<>>) = {} BY DEF ToSet
<1>3. PlaceInv BY <1>2 DEF PlaceInv, Waits
<1>4. TimeInv BY <1>2 DEF TimeInv
<1> QED BY <1>1, <1>3, <1>4 DEF TimerInv

\* A time that is asked for is a tick of the clock.
LEMMA DueIsTick ==
  ASSUME TimerInv, NEW t \in Timers, asked[t] # Never
  PROVE  /\ asked[t].at \in Nat /\ asked[t].timeout \in Nat /\ asked[t].at <= now /\ now \in Nat
         /\ DueFor(asked[t]) \in Nat /\ exp[t] = DueFor(asked[t]) % (WrapAfter * Second)
<1>1. asked[t].at \in Nat /\ asked[t].timeout \in Timeouts BY DEF TimerInv, TimeInv
<1>2. asked[t].timeout \in Nat /\ Second \in Nat BY <1>1, TimerAssumption
<1>3. asked[t].timeout * Second \in Nat
  <2> DEFINE n == asked[t].timeout
  <2>1. n \in Nat BY <1>2
  <2> HIDE DEF n
  <2>2. n * Second \in Nat BY <1>2, <2>1
  <2> QED BY <2>2 DEF n
<1>4. DueFor(asked[t]) \in Nat BY <1>1, <1>3 DEF DueFor
<1> QED BY <1>1, <1>2, <1>4 DEF TimerInv, TimeInv, TimerTypeOK

\* runAfter(), in either thread: the timer waits from now on, with its wrapped time.
LEMMA AskStep ==
  ASSUME TimerInv, NEW t \in Timers, NEW timeout \in Timeouts,
         Ask(t, timeout),
         \/ timers' = timers \union {t} /\ handed' = handed
         \/ handed' = Append(handed, t) /\ timers' = timers
  PROVE  TimerInv'
<1>0. TimerTypeOK /\ PlaceInv /\ TimeInv BY DEF TimerInv
<1>1. /\ asked[t] = Never /\ asked' = [asked EXCEPT ![t] = [at |-> now, timeout |-> timeout]]
      /\ exp' = [exp EXCEPT ![t] = ExpiredTime(timeout)]
      /\ UNCHANGED <<now, start, phase, expireEvent, runs>>
  BY DEF Ask
<1>2. now \in Nat /\ timeout \in Nat BY <1>0, TimerAssumption DEF TimerTypeOK
<1>3. ~Waits(t) /\ runs[t] = <<>> BY <1>0, <1>1 DEF PlaceInv
<1>4. asked'[t] = [at |-> now, timeout |-> timeout] /\ asked'[t] # Never
  <2>1. asked'[t] = [at |-> now, timeout |-> timeout] BY <1>0, <1>1 DEF TimerTypeOK
  <2>2. asked'[t].at # Never.at BY <1>2, <2>1 DEF Never
  <2> QED BY <2>1, <2>2
<1>5. \A u \in Timers \ {t} : asked'[u] = asked[u] /\ exp'[u] = exp[u]
  BY <1>0, <1>1 DEF TimerTypeOK
<1>6. \A u : Waits(u)' <=> Waits(u) \/ u = t
  <2>1. CASE handed' = handed BY <1>1, <2>1 DEF Waits
  <2>2. CASE handed' = Append(handed, t)
    <3>1. handed \in Seq(Timers) BY <1>0 DEF TimerTypeOK
    <3>2. ToSet(handed') = ToSet(handed) \union {t}
      BY <2>2, <3>1, AppendedElements
    <3>3. CASE timers' = timers BY <1>1, <3>2, <3>3 DEF Waits
    <3>4. CASE timers' = timers \union {t} BY <1>1, <3>2, <3>4 DEF Waits
    <3> QED BY <3>3, <3>4
  <2> QED BY <2>1, <2>2
<1>7. TimerTypeOK'
  <2>1. asked' \in [Timers -> [at : Nat \union {-1}, timeout : Timeouts \union {0}]]
    BY <1>0, <1>1, <1>2 DEF TimerTypeOK
  <2>2. exp' \in [Timers -> 0 .. WrapAfter * Second - 1]
    <3>1. ExpiredTime(timeout) \in 0 .. WrapAfter * Second - 1 BY <1>2, Times
    <3> QED BY <1>0, <1>1, <3>1 DEF TimerTypeOK
  <2>3. handed' \in Seq(Timers) /\ timers' \subseteq Timers
    <3>1. handed \in Seq(Timers) /\ timers \subseteq Timers BY <1>0 DEF TimerTypeOK
    <3>2. Append(handed, t) \in Seq(Timers) BY <3>1, AppendProperties
    <3> QED BY <3>1, <3>2
  <2>4. ASSUME NEW u \in timers' PROVE u \notin ToSet(handed') \union ToSet(expireEvent')
    <3>0. handed \in Seq(Timers) BY <1>0 DEF TimerTypeOK
    <3>1. CASE timers' = timers \union {t} /\ handed' = handed
      BY <1>0, <1>1, <1>3, <2>4, <3>1 DEF TimerTypeOK, Waits
    <3>2. CASE handed' = Append(handed, t) /\ timers' = timers
      <4>1. ToSet(handed') = ToSet(handed) \union {t}
        BY <3>0, <3>2, AppendedElements
      <4> QED BY <1>0, <1>1, <1>3, <2>4, <3>2, <4>1 DEF TimerTypeOK, Waits
    <3> QED BY <3>1, <3>2
  <2> QED BY <1>0, <1>1, <2>1, <2>2, <2>3, <2>4 DEF TimerTypeOK
<1>8. PlaceInv'
  <2>1. ASSUME NEW u \in Timers
        PROVE  /\ Waits(u)' => asked'[u] # Never /\ runs'[u] = <<>>
               /\ asked'[u] = Never => runs'[u] = <<>>
               /\ Len(runs'[u]) <= 1
    <3>1. CASE u = t BY <1>0, <1>1, <1>3, <1>4, <3>1 DEF PlaceInv
    <3>2. CASE u # t BY <1>0, <1>1, <1>5, <1>6, <3>2 DEF PlaceInv
    <3> QED BY <3>1, <3>2
  <2>2. ASSUME NEW u \in ToSet(handed') PROVE u \notin ToSet(expireEvent')
    <3>0. handed \in Seq(Timers) BY <1>0 DEF TimerTypeOK
    <3>1. CASE handed' = handed BY <1>0, <1>1, <2>2, <3>1 DEF PlaceInv
    <3>2. CASE handed' = Append(handed, t)
      <4>1. ToSet(handed') = ToSet(handed) \union {t}
        BY <3>0, <3>2, AppendedElements
      <4> QED BY <1>0, <1>1, <1>3, <2>2, <4>1 DEF PlaceInv, Waits
    <3> QED BY <3>1, <3>2
  <2>3. phase' # "expired" => expireEvent' = <<>> BY <1>0, <1>1 DEF PlaceInv
  <2>4. Never' = Never BY DEF Never
  <2> QED BY <2>1, <2>2, <2>3, <2>4 DEF PlaceInv
<1>9. TimeInv'
  <2>2. ASSUME NEW u \in Timers, asked'[u] # Never
        PROVE  /\ asked'[u].at \in Nat /\ asked'[u].at <= now'
               /\ asked'[u].timeout \in Timeouts
               /\ exp'[u] = DueFor(asked'[u]) % (WrapAfter * Second)
    <3>1. CASE u = t
      <4>1. DueFor(asked'[t]) = now + timeout * Second BY <1>4 DEF DueFor
      <4>2. exp'[t] = ExpiredTime(timeout) BY <1>0, <1>1 DEF TimerTypeOK
      <4>3. ExpiredTime(timeout) = (now + timeout * Second) % (WrapAfter * Second)
        BY <1>2, Times
      <4> QED BY <1>1, <1>2, <1>4, <3>1, <4>1, <4>2, <4>3
    <3>2. CASE u # t BY <1>0, <1>1, <1>5, <2>2, <3>2 DEF TimeInv
    <3> QED BY <3>1, <3>2
  <2>3. ASSUME NEW u \in ToSet(expireEvent') PROVE OnTime(asked'[u], now')
    <3>1. u # t /\ u \in ToSet(expireEvent) BY <1>1, <1>3, <2>3 DEF Waits
    <3>2. u \in Timers BY <1>0, <3>1 DEF TimerTypeOK, ToSet
    <3> QED BY <1>0, <1>1, <1>5, <3>1, <3>2 DEF TimeInv
  <2>4. ASSUME NEW u \in Timers, NEW i \in DOMAIN runs'[u] PROVE OnTime(asked'[u], runs'[u][i])
    <3>1. u # t BY <1>1, <1>3, <2>4
    <3> QED BY <1>0, <1>1, <1>5, <2>4, <3>1 DEF TimeInv
  <2>5. Never' = Never BY DEF Never
  <2> QED BY <2>2, <2>3, <2>4, <2>5 DEF TimeInv
<1> QED BY <1>7, <1>8, <1>9 DEF TimerInv

\* The order in which due timers are taken out has these timers.
LEMMA OrderHas ==
  ASSUME NEW S \in SUBSET Timers, IsFiniteSet(Timers), NEW order \in SetToSeqs(S)
  PROVE  order \in Seq(Timers) /\ ToSet(order) \subseteq S
<1>1. IsFiniteSet(S) BY FS_Subset
<1>2. Cardinality(S) \in Nat BY <1>1, FS_CardinalityType
<1>3. order \in [1 .. Cardinality(S) -> S] BY DEF SetToSeqs
<1>4. order \in Seq(S) BY <1>2, <1>3
<1>5. order \in Seq(Timers) BY <1>2, <1>3
<1>6. \A i \in DOMAIN order : order[i] \in S BY <1>3
<1> QED BY <1>5, <1>6 DEF ToSet

\* The poll returns: what is taken out is due.
LEMMA HandleEventsStep ==
  ASSUME TimerInv, HandleEvents
  PROVE  TimerInv'
<1>0. TimerTypeOK /\ PlaceInv /\ TimeInv BY DEF TimerInv
<1>1. /\ phase = "poll" /\ phase' = "expired"
      /\ UNCHANGED <<now, start, handed, asked, exp, runs>>
  BY DEF HandleEvents
<1>2. expireEvent = <<>> BY <1>0, <1>1 DEF PlaceInv
<1> DEFINE due == {t \in timers : exp[t] < ExpiredTime(0)}
<1>3. \/ timers' = timers /\ expireEvent' = expireEvent
      \/ timers' = timers \ due /\ expireEvent' \in Seq(Timers) /\ ToSet(expireEvent') \subseteq due
  <2>1. CASE Reported
    <3>1. TakeDue(due) BY <2>1 DEF HandleEvents
    <3>2. due \in SUBSET Timers BY <1>0 DEF TimerTypeOK
    <3>3. IsFiniteSet(Timers) BY TimerAssumption
    <3> HIDE DEF due
    <3>4. PICK order \in SetToSeqs(due) : expireEvent' = expireEvent \o order
      BY <3>1 DEF TakeDue
    <3>5. order \in Seq(Timers) /\ ToSet(order) \subseteq due BY <3>2, <3>3, OrderHas
    <3>6. expireEvent' = order BY <1>2, <3>4, <3>5
    <3> QED BY <3>1, <3>5, <3>6 DEF TakeDue
  <2>2. CASE ~Reported BY <2>2 DEF HandleEvents
  <2> QED BY <2>1, <2>2
<1>4. ToSet(<<>>) = {} BY DEF ToSet
<1>5. ToSet(expireEvent') \subseteq due /\ expireEvent' \in Seq(Timers) /\ timers' \subseteq timers
      /\ timers' \intersect ToSet(expireEvent') = {}
  BY <1>0, <1>2, <1>3, <1>4 DEF TimerTypeOK
<1>6. TimerTypeOK'
  <2>1. ASSUME NEW u \in timers' PROVE u \notin ToSet(handed) \union ToSet(expireEvent')
    BY <1>0, <1>5, <2>1 DEF TimerTypeOK
  <2> HIDE DEF due
  <2> QED BY <1>0, <1>1, <1>5, <2>1 DEF TimerTypeOK
<1>7. PlaceInv'
  <2>1. \A u : Waits(u)' => Waits(u) BY <1>1, <1>5 DEF Waits
  <2>2. \A u \in ToSet(handed) : u \notin due BY <1>0 DEF TimerTypeOK
  <2>3. Never' = Never BY DEF Never
  <2> HIDE DEF due
  <2>4. \A u \in ToSet(handed') : u \notin ToSet(expireEvent') BY <1>1, <1>5, <2>2
  <2> QED BY <1>0, <1>1, <2>1, <2>3, <2>4 DEF PlaceInv
<1>8. TimeInv'
  <2>1. ASSUME NEW u \in ToSet(expireEvent') PROVE OnTime(asked[u], now)
    <3>1. u \in timers /\ exp[u] < ExpiredTime(0) BY <1>5, <2>1
    <3>2. u \in Timers BY <1>0, <3>1 DEF TimerTypeOK
    <3>3. asked[u] # Never BY <1>0, <3>1, <3>2 DEF PlaceInv, Waits
    <3>4. /\ asked[u].at \in Nat /\ asked[u].at <= now /\ now \in Nat
          /\ DueFor(asked[u]) \in Nat /\ exp[u] = DueFor(asked[u]) % (WrapAfter * Second)
      BY <3>2, <3>3, DueIsTick
    <3>5. /\ WrapAfter * Second \in Nat \ {0}
          /\ ExpiredTime(0) = (now + 0 * Second) % (WrapAfter * Second)
      BY <3>4, Times
    <3>6. now + 0 * Second = now BY <3>4, TimerAssumption
    <3>7. DueFor(asked[u]) % (WrapAfter * Second) < now % (WrapAfter * Second)
      BY <3>1, <3>4, <3>5, <3>6
    <3>8. Period(DueFor(asked[u])) = Period(asked[u].at) => DueFor(asked[u]) <= now
      <4> DEFINE m == WrapAfter * Second
                 d == DueFor(asked[u])
                 a == asked[u].at
      <4>1. SUFFICES ASSUME d \div m = a \div m PROVE d <= now BY DEF Period
      <4>2. m \in Nat \ {0} /\ d \in Nat /\ a \in Nat /\ now \in Nat /\ a <= now /\ d % m < now % m
        BY <3>4, <3>5, <3>7
      <4> HIDE DEF m, d, a
      <4> QED BY <4>1, <4>2, PassedIsDue
    <3> QED BY <3>4, <3>8 DEF OnTime
  <2>2. Never' = Never BY DEF Never
  <2> HIDE DEF due
  <2> QED BY <1>0, <1>1, <2>1, <2>2 DEF TimeInv
<1> QED BY <1>6, <1>7, <1>8 DEF TimerInv

\* What was taken out is run, and forgotten.
LEMMA RunExpiredStep ==
  ASSUME TimerInv, RunExpired
  PROVE  TimerInv'
<1>0. TimerTypeOK /\ PlaceInv /\ TimeInv BY DEF TimerInv
<1>1. /\ phase = "expired" /\ phase' = "calls" /\ expireEvent' = <<>>
      /\ runs' = [t \in Timers |->
                     IF t \in ToSet(expireEvent) THEN Append(runs[t], now) ELSE runs[t]]
      /\ UNCHANGED <<now, start, handed, timers, asked, exp>>
  BY DEF RunExpired, ForgetExpired
<1>2. ToSet(<<>>) = {} BY DEF ToSet
<1>3. now \in Nat /\ runs \in [Timers -> Seq(Nat)] BY <1>0 DEF TimerTypeOK
<1>4. ASSUME NEW t \in Timers
      PROVE  \/ t \notin ToSet(expireEvent) /\ runs'[t] = runs[t]
             \/ t \in ToSet(expireEvent) /\ runs'[t] = <<now>> /\ asked[t] # Never
  <2>1. CASE t \in ToSet(expireEvent)
    <3>1. runs[t] = <<>> /\ asked[t] # Never BY <1>0, <2>1 DEF PlaceInv, Waits
    <3>2. runs'[t] = Append(<<>>, now) BY <1>1, <2>1, <3>1
    <3>3. Append(<<>>, now) = <<now>> OBVIOUS
    <3> QED BY <2>1, <3>1, <3>2, <3>3
  <2>2. CASE t \notin ToSet(expireEvent) BY <1>1, <2>2
  <2> QED BY <2>1, <2>2
<1>5. TimerTypeOK'
  <2>1. runs' \in [Timers -> Seq(Nat)]
    <3>1. ASSUME NEW t \in Timers
          PROVE  (IF t \in ToSet(expireEvent) THEN Append(runs[t], now) ELSE runs[t]) \in Seq(Nat)
      <4>1. runs[t] \in Seq(Nat) BY <1>3
      <4> QED BY <1>3, <4>1, AppendProperties
    <3> QED BY <1>1, <3>1
  <2> QED BY <1>0, <1>1, <1>2, <2>1 DEF TimerTypeOK
<1>6. PlaceInv'
  <2>1. ASSUME NEW t \in Timers
        PROVE  /\ Waits(t)' => asked[t] # Never /\ runs'[t] = <<>>
               /\ asked[t] = Never => runs'[t] = <<>>
               /\ Len(runs'[t]) <= 1
    <3>1. Waits(t)' => Waits(t) /\ t \notin ToSet(expireEvent)
      BY <1>0, <1>1, <1>2 DEF Waits, PlaceInv, TimerTypeOK
    <3>2. Len(<<now>>) = 1 OBVIOUS
    <3>3. CASE t \in ToSet(expireEvent)
      <4>1. runs'[t] = <<now>> /\ asked[t] # Never BY <1>4, <3>3
      <4> QED BY <3>1, <3>2, <3>3, <4>1
    <3>4. CASE t \notin ToSet(expireEvent)
      <4>1. runs'[t] = runs[t] BY <1>4, <3>4
      <4> QED BY <1>0, <3>1, <4>1 DEF PlaceInv
    <3> QED BY <3>3, <3>4
  <2>2. Never' = Never BY DEF Never
  <2> QED BY <1>0, <1>1, <1>2, <2>1, <2>2 DEF PlaceInv
<1>7. TimeInv'
  <2>1. ASSUME NEW t \in Timers, NEW i \in DOMAIN runs'[t] PROVE OnTime(asked[t], runs'[t][i])
    <3>1. CASE t \in ToSet(expireEvent)
      <4>1. runs'[t] = <<now>> BY <1>4, <3>1
      <4>2. i = 1 /\ runs'[t][i] = now BY <2>1, <4>1
      <4> QED BY <1>0, <3>1, <4>2 DEF TimeInv
    <3>2. CASE t \notin ToSet(expireEvent) BY <1>0, <1>4, <2>1, <3>2 DEF TimeInv
    <3> QED BY <3>1, <3>2
  <2>2. Never' = Never BY DEF Never
  <2> QED BY <1>0, <1>1, <1>2, <2>1, <2>2 DEF TimeInv
<1> QED BY <1>5, <1>6, <1>7 DEF TimerInv

\* The timers that were handed over are inserted.
LEMMA ProcessCallsStep ==
  ASSUME TimerInv, ProcessCalls
  PROVE  TimerInv'
<1>0. TimerTypeOK /\ PlaceInv /\ TimeInv BY DEF TimerInv
<1>1. /\ phase = "calls" /\ phase' = "poll"
      /\ timers' = timers \union ToSet(handed) /\ handed' = <<>>
      /\ UNCHANGED <<now, start, expireEvent, asked, exp, runs>>
  BY DEF ProcessCalls, InsertHanded
<1>2. ToSet(<<>>) = {} BY DEF ToSet
<1>3. ToSet(handed) \subseteq Timers BY <1>0 DEF TimerTypeOK, ToSet
<1>4. Never' = Never BY DEF Never
<1>5. TimerTypeOK'
  <2>1. \A t \in timers' : t \notin ToSet(handed') \union ToSet(expireEvent')
    BY <1>0, <1>1, <1>2 DEF TimerTypeOK, PlaceInv
  <2> QED BY <1>0, <1>1, <1>3, <2>1 DEF TimerTypeOK
<1>6. PlaceInv'
  <2>1. \A t : Waits(t)' <=> Waits(t) BY <1>1, <1>2 DEF Waits
  <2> QED BY <1>0, <1>1, <1>2, <1>4, <2>1 DEF PlaceInv
<1>7. TimeInv' BY <1>0, <1>1, <1>4 DEF TimeInv
<1> QED BY <1>5, <1>6, <1>7 DEF TimerInv

\* The clock goes on.
LEMMA TickStep ==
  ASSUME TimerInv, Tick
  PROVE  TimerInv'
<1>0. TimerTypeOK /\ PlaceInv /\ TimeInv BY DEF TimerInv
<1>1. /\ now - start < MaxRun /\ now' = now + 1
      /\ UNCHANGED <<start, phase, handed, timers, expireEvent, asked, exp, runs>>
  BY DEF Tick
<1>2. now \in Nat /\ start \in Nat /\ now - start \in 0 .. MaxRun /\ MaxRun \in Nat
  BY <1>0, TimerAssumption DEF TimerTypeOK
<1>3. now' \in Nat /\ now <= now' /\ now' - start \in 0 .. MaxRun BY <1>1, <1>2
<1>4. Never' = Never BY DEF Never
<1>5. TimerTypeOK' BY <1>0, <1>1, <1>3 DEF TimerTypeOK
<1>6. PlaceInv' BY <1>0, <1>1, <1>4 DEF PlaceInv, Waits
<1>7. TimeInv'
  <2>1. ASSUME NEW t \in ToSet(expireEvent) PROVE OnTime(asked[t], now')
    <3>1. t \in Timers BY <1>0 DEF TimerTypeOK, ToSet
    <3>2. asked[t] # Never BY <1>0, <3>1 DEF PlaceInv, Waits
    <3>3. DueFor(asked[t]) \in Nat BY <3>1, <3>2, DueIsTick
    <3>4. OnTime(asked[t], now) BY <1>0 DEF TimeInv
    <3> QED BY <1>2, <1>3, <3>3, <3>4 DEF OnTime
  <2>2. ASSUME NEW t \in Timers, asked[t] # Never PROVE asked[t].at <= now'
    <3>1. asked[t].at \in Nat /\ asked[t].at <= now BY <1>0, <2>2 DEF TimeInv
    <3> QED BY <1>2, <1>3, <3>1
  <2> QED BY <1>0, <1>1, <1>4, <2>1, <2>2 DEF TimeInv
<1> QED BY <1>5, <1>6, <1>7 DEF TimerInv

\* Every step keeps the invariant.
LEMMA TimerStep == TimerInv /\ [TimerNext]_timerVars => TimerInv'
<1> SUFFICES ASSUME TimerInv, [TimerNext]_timerVars PROVE TimerInv'
  OBVIOUS
<1>1. CASE TurnStep
  BY <1>1, HandleEventsStep, RunExpiredStep, ProcessCallsStep DEF TurnStep
<1>2. CASE Tick BY <1>2, TickStep
<1>3. ASSUME NEW t \in Timers, NEW timeout \in Timeouts,
             RunAfterHere(t, timeout) \/ RunAfterThere(t, timeout)
      PROVE  TimerInv'
  <2>1. Ask(t, timeout) BY <1>3 DEF RunAfterHere, RunAfterThere
  <2>2. \/ timers' = timers \union {t} /\ handed' = handed
        \/ handed' = Append(handed, t) /\ timers' = timers
    BY <1>3 DEF RunAfterHere, RunAfterThere
  <2> QED BY <2>1, <2>2, AskStep
<1>4. CASE UNCHANGED timerVars
  <2>1. UNCHANGED <<now, start, phase, handed, timers, expireEvent, asked, exp, runs>>
    BY <1>4 DEF timerVars
  <2>2. Never' = Never BY DEF Never
  <2>3. TimerTypeOK' BY <2>1 DEF TimerInv, TimerTypeOK
  <2>4. PlaceInv' BY <2>1, <2>2 DEF TimerInv, PlaceInv, Waits
  <2>5. TimeInv' BY <2>1, <2>2 DEF TimerInv, TimeInv
  <2> QED BY <2>3, <2>4, <2>5 DEF TimerInv
<1> QED BY <1>1, <1>2, <1>3, <1>4 DEF TimerNext

\* The inductive invariant of the timers holds always.
THEOREM TimerInvHolds == TimerSpec => []TimerInv
<1>1. TimerInit => TimerInv BY TimerStart
<1>2. TimerInv /\ [TimerNext]_timerVars => TimerInv' BY TimerStep
<1> QED BY <1>1, <1>2, PTL DEF TimerSpec

\* No callback runs before its time, whatever the clock shows at first and wherever the
\* wrap of the times falls, as long as it does not fall between asking and being due.
THEOREM TimersArePatient == TimerSpec => []NeverEarly
<1>1. TimerInv => NeverEarly
  <2> SUFFICES ASSUME TimerInv, NEW t \in Timers, NEW i \in DOMAIN runs[t],
                      Period(Due(t)) = Period(asked[t].at)
               PROVE  runs[t][i] >= Due(t)
    BY DEF NeverEarly
  <2>1. Due(t) = DueFor(asked[t]) BY DEF Due, DueFor
  <2> QED BY <2>1 DEF TimerInv, TimeInv, OnTime
<1> QED BY <1>1, TimerInvHolds, PTL

\* All of the due timers are in the order in which they are taken out.
LEMMA OrderHasAll ==
  ASSUME NEW S \in SUBSET Timers, IsFiniteSet(Timers), NEW order \in SetToSeqs(S)
  PROVE  S \subseteq ToSet(order)
<1> DEFINE n == Cardinality(S)
           D == 1 .. n
<1>1. IsFiniteSet(S) BY FS_Subset
<1>2. n \in Nat BY <1>1, FS_CardinalityType
<1>3. order \in [D -> S] /\ \A i, j \in D : i # j => order[i] # order[j] BY DEF SetToSeqs
<1>4. Cardinality(D) = Cardinality(S)
  <2>1. Cardinality(1 .. n) = IF 1 > n THEN 0 ELSE n - 1 + 1 BY <1>2, FS_Interval
  <2> QED BY <1>2, <2>1
<1> HIDE DEF n, D
<1>5. order \in Injection(D, S) BY <1>3 DEF Injection, IsInjective
<1>6. order \in Surjection(D, S) BY <1>1, <1>4, <1>5, FS_Injection
<1> QED BY <1>3, <1>6 DEF Surjection, ToSet

\* The poll returns: a timer that is taken out of timers_ is in the list of the expired.
LEMMA HandleEventsLosesNone ==
  ASSUME TimerInv, HandleEvents, NEW t, Waits(t)
  PROVE  Waits(t)'
<1>0. TimerTypeOK /\ PlaceInv BY DEF TimerInv
<1>1. phase = "poll" /\ handed' = handed BY DEF HandleEvents
<1>2. expireEvent = <<>> /\ ToSet(expireEvent) = {} BY <1>0, <1>1 DEF PlaceInv, ToSet
<1> DEFINE due == {u \in timers : exp[u] < ExpiredTime(0)}
<1>3. CASE Reported
  <2>1. TakeDue(due) BY <1>3 DEF HandleEvents
  <2>2. due \in SUBSET Timers BY <1>0 DEF TimerTypeOK
  <2>3. IsFiniteSet(Timers) BY TimerAssumption
  <2> HIDE DEF due
  <2>4. PICK order \in SetToSeqs(due) : expireEvent' = expireEvent \o order
    BY <2>1 DEF TakeDue
  <2>5. order \in Seq(Timers) /\ due \subseteq ToSet(order)
    BY <2>2, <2>3, OrderHas, OrderHasAll
  <2>6. expireEvent' = order BY <1>2, <2>4, <2>5
  <2>7. timers' = timers \ due BY <2>1 DEF TakeDue
  <2> QED BY <1>1, <1>2, <2>5, <2>6, <2>7 DEF Waits
<1>4. CASE ~Reported BY <1>4 DEF HandleEvents, Waits
<1> QED BY <1>3, <1>4

\* A timer that was asked for waits until it is run.
LEMMA LosesNone ==
  ASSUME TimerInv, NoTimerLost, [TimerNext]_timerVars
  PROVE  NoTimerLost'
<1> SUFFICES ASSUME NEW t \in Timers, asked'[t] # Never, runs'[t] = <<>>
             PROVE  Waits(t)'
  <2>1. Never' = Never BY DEF Never
  <2> QED BY <2>1 DEF NoTimerLost, Waits
<1>0. TimerTypeOK /\ PlaceInv /\ (asked[t] # Never /\ runs[t] = <<>> => Waits(t))
  BY DEF TimerInv, NoTimerLost, Waits
<1>1. CASE HandleEvents
  <2>1. asked' = asked /\ runs' = runs BY <1>1 DEF HandleEvents
  <2> QED BY <1>0, <1>1, <2>1, HandleEventsLosesNone
<1>2. CASE RunExpired
  <2>1. /\ UNCHANGED <<handed, timers, asked>>
        /\ runs' = [u \in Timers |-> IF u \in ToSet(expireEvent) THEN Append(runs[u], now)
                                                                   ELSE runs[u]]
    BY <1>2 DEF RunExpired
  <2>2. CASE t \in ToSet(expireEvent)
    <3>1. runs[t] \in Seq(Nat) /\ now \in Nat BY <1>0 DEF TimerTypeOK
    <3>2. Len(Append(runs[t], now)) = Len(runs[t]) + 1 /\ Len(runs[t]) \in Nat
      BY <3>1, AppendProperties
    <3>3. runs'[t] = Append(runs[t], now) BY <2>1, <2>2
    <3>4. Len(<<>>) = 0 OBVIOUS
    <3> QED BY <3>2, <3>3, <3>4
  <2>3. CASE t \notin ToSet(expireEvent)
    <3>1. Waits(t) BY <1>0, <2>1, <2>3
    <3> QED BY <2>1, <2>3, <3>1 DEF Waits
  <2> QED BY <2>2, <2>3
<1>3. CASE ProcessCalls
  <2>1. /\ timers' = timers \union ToSet(handed)
        /\ UNCHANGED <<expireEvent, asked, runs>>
    BY <1>3 DEF ProcessCalls, InsertHanded
  <2> QED BY <1>0, <2>1 DEF Waits
<1>4. CASE Tick \/ UNCHANGED timerVars
  <2>1. UNCHANGED <<handed, timers, expireEvent, asked, runs>> BY <1>4 DEF Tick, timerVars
  <2> QED BY <1>0, <2>1 DEF Waits
<1>5. ASSUME NEW u \in Timers, NEW timeout \in Timeouts,
             RunAfterHere(u, timeout) \/ RunAfterThere(u, timeout)
      PROVE  Waits(t)'
  <2>1. /\ asked' = [asked EXCEPT ![u] = [at |-> now, timeout |-> timeout]]
        /\ expireEvent' = expireEvent /\ runs' = runs
        /\ \/ timers' = timers \union {u} /\ handed' = handed
           \/ handed' = Append(handed, u) /\ timers' = timers
    BY <1>5 DEF RunAfterHere, RunAfterThere, Ask
  <2>2. handed \in Seq(Timers) BY <1>0 DEF TimerTypeOK
  <2>3. ToSet(Append(handed, u)) = ToSet(handed) \union {u} BY <2>2, AppendedElements
  <2>4. CASE t = u BY <2>1, <2>3, <2>4 DEF Waits
  <2>5. CASE t # u
    <3>1. asked'[t] = asked[t] BY <1>0, <2>1, <2>5 DEF TimerTypeOK
    <3> QED BY <1>0, <2>1, <2>3, <3>1 DEF Waits
  <2> QED BY <2>4, <2>5
<1> QED BY <1>1, <1>2, <1>3, <1>4, <1>5 DEF TimerNext, TurnStep

\* A timer that was asked for and has not run is on its way to the loop, waits or is
\* about to be run, however the threads, the wrap and the turns of the loop fall.
THEOREM TimersAreKept == TimerSpec => []NoTimerLost
<1>1. TimerInit => NoTimerLost BY DEF TimerInit, NoTimerLost
<1>2. TimerInv /\ TimerInv' /\ NoTimerLost /\ [TimerNext]_timerVars => NoTimerLost'
  BY LosesNone
<1> QED BY <1>1, <1>2, TimerInvHolds, PTL DEF TimerSpec

\* A callback that was asked for with runAfter() runs once: it is kept until then, and
\* neither timers_ nor expireEvent_ keeps what has been run.
THEOREM TimersRunOnce == TimerSpec => []RunsOnce
<1>1. TimerInv /\ NoTimerLost => RunsOnce BY DEF TimerInv, PlaceInv, RunsOnce
<1> QED BY <1>1, TimerInvHolds, TimersAreKept, PTL
=============================================================================
