--------------------------- MODULE ServerEndProofs ---------------------------
(***************************************************************************)
(* Proofs about ServerEnd, for every number of threads and every set of    *)
(* connections: whoever hands over a call finds its loop (HandedToLoops),  *)
(* and the server ends cleanly (EndIsClean).                               *)
(*                                                                         *)
(* The inductive invariant has two parts.  PoolInv is about the threads    *)
(* alone: how far each is, given how far the base thread is with it.       *)
(* ServerInv is about the connections: a connection is destroyed when      *)
(* nobody holds it, and one that its loop knows is in the map or has a     *)
(* connectDestory() to come in that loop, as long as there is the loop.    *)
(***************************************************************************)
EXTENDS ServerEnd, FiniteSetTheorems, TLAPS

Starting == base \in {"create", "members", "get", "checked", "waiting", "notified"}
Serving == base \in {"serve", "hand", "drop"}
Ending == base \in {"mark", "while", "quit", "wakeup", "join"}

Looping(t) == tpc[t] \in {"begin", "check", "poll", "calls"}
Left(t) == tpc[t] \in {"reset", "end", "done"}

\* The pool has the loops of the first threads, in order, which have been published; the
\* threads after them are still to be started.
LoopsInv ==
    /\ Starting => Len(loops) = i - 1 /\ \A t \in Threads : t > i => tpc[t] = "none"
    /\ base = "create" => tpc[i] = "none"
    /\ ~Starting => Len(loops) = ThreadsNum
    /\ \A k \in DOMAIN loops : loops[k] = k /\ (Looping(k) \/ Left(k))

\* The EventLoop of a thread, and the pointer to it, are there in certain phases.
PhaseInv ==
    \A t \in Threads :
        /\ alive[t] <=> Looping(t) \/ tpc[t] \in {"locked", "reset", "end"}
        /\ loopPtr[t] <=> Looping(t) \/ tpc[t] = "reset"

\* Nobody leaves loop() unless told to, and that by the destructor.
QuitInv ==
    \A t \in Threads :
        /\ quit[t] \/ Left(t) => existing[t]
        /\ existing[t] => Ending \/ base = "gone"
        /\ t \in joined => tpc[t] = "done"

\* The destructor deals with one thread after the other.
DestroyInv ==
    /\ Serving => i = 1
    /\ Ending => \A t \in Threads :
            /\ t < i => existing[t] /\ tpc[t] = "done"
            /\ t > i => ~existing[t]
    /\ base = "mark" => ~existing[i]
    /\ Ending /\ base # "mark" => existing[i]
    /\ base = "while" => i \in joined \/ (~quit[i] /\ Looping(i))
    /\ base = "gone" => \A t \in Threads : existing[t] /\ tpc[t] = "done"
    /\ base # "terminated"

PoolInv == TypeOK /\ LoopsInv /\ PhaseInv /\ QuitInv /\ DestroyInv

-----------------------------------------------------------------------------
\* The connections somebody holds.
Held == map \union {conn} \union HeldIn(queue) \union HeldIn(batch)

\* Calls are for connections of that loop; a batch is there while it is run, and a loop
\* that is gone has no calls.
CallsInv ==
    \A t \in Threads :
        /\ \A op \in {"establish", "destory"} :
               \A c \in Of(queue[t], op) \union Of(batch[t], op) : c \in Made /\ home[c] = t
        /\ tpc[t] # "calls" => batch[t] = <<>>
        /\ tpc[t] = "done" => queue[t] = <<>>

\* What its loop knows, or is about to know, is in the map or is to be destroyed there.
DestoryInv ==
    \A c \in Made :
        LET t == home[c]
            comes == Of(queue[t], "destory")
        IN  /\ c \in Of(queue[t], "establish") => c \in map \union comes
            /\ c \in known \union Of(batch[t], "establish")
                => c \in map \union comes \union Of(batch[t], "destory") \/ ~alive[t]

\* When there are connections, and who is about to be destroyed.
HeldInv ==
    /\ Starting => Made = {}
    /\ Starting \/ Ending \/ base = "gone" => map = {}
    /\ base # "drop" => conn = None
    /\ IsFiniteSet(Made)
    /\ freed = Made \ Held

ServerInv == EndTypeOK /\ CallsInv /\ DestoryInv /\ HeldInv

-----------------------------------------------------------------------------
(* The threads.                                                            *)

PoolThreadStep(t) == \/ Lock(t) \/ Publish(t) \/ Begin(t) \/ Check(t) \/ Poll(t)
                     \/ RunCalls(t) \/ Reset(t) \/ End(t)

ServerGoes == BaseGoes("serve", "hand") \/ BaseGoes("hand", "drop")
                  \/ BaseGoes("drop", "hand") \/ BaseGoes("hand", "mark")

PoolNext == StartStep \/ DestroyStep \/ ServerGoes \/ \E t \in Threads : PoolThreadStep(t)

\* What the server does on top leaves the threads alone, or is one of these steps.
LEMMA PoolSteps == ASSUME [Next]_endVars PROVE [PoolNext]_vars
<1>1. CASE BaseStep
  BY <1>1 DEF BaseStep, PoolNext
<1>2. CASE \E c \in Conns : Accept(c)
  BY <1>2 DEF Accept
<1>3. CASE EndServer \/ EndStep
  BY <1>3 DEF EndServer, EndStep, HandOverDestory, DropConn, EndMembers, PoolNext, ServerGoes
<1>4. ASSUME NEW t \in Threads, LoopStep(t) PROVE PoolNext
  BY <1>4 DEF LoopStep, TakeCalls, RunBatch, EndLoop, PoolNext, PoolThreadStep
<1>5. CASE UNCHANGED endVars
  BY <1>5 DEF endVars
<1> QED BY <1>1, <1>2, <1>3, <1>4, <1>5 DEF Next

\* No thread has been created when the program starts, so nothing is out of phase.
LEMMA PoolInit == EndInit => PoolInv
BY ThreadsAssumption DEF EndInit, Init, PoolInv, TypeOK, LoopsInv, PhaseInv, QuitInv, DestroyInv,
   Starting, Serving, Ending, Looping, Left, Threads

\* Each step of the base thread and of the threads keeps them in phase with each other.
LEMMA PoolStep == ASSUME PoolInv, [PoolNext]_vars PROVE PoolInv'
<1> USE ThreadsAssumption
    DEF PoolInv, TypeOK, LoopsInv, PhaseInv, QuitInv, DestroyInv, Starting, Ending,
        Looping, Left, Threads, Serving
<1>1. CASE StartStep
  <2>1. CASE Create
    <3> USE <2>1 DEF Create, Goto
    <3>1. DOMAIN loops = 1 .. (i - 1) OBVIOUS
    <3>2. \A t \in Threads : ~existing[t] /\ ~Left(t) /\ ~quit[t] /\ t \notin joined
      OBVIOUS
    <3>3. TypeOK' /\ DestroyInv' OBVIOUS
    <3>4. LoopsInv' BY <3>1
    <3>5. PhaseInv' OBVIOUS
    <3>6. QuitInv' BY <3>2
    <3> QED BY <3>3, <3>4, <3>5, <3>6
  <2>2. CASE MakeMembers BY <2>2 DEF MakeMembers, Goto
  <2>3. CASE GetLoop
    <3> USE <2>3 DEF GetLoop, Onward
    <3>1. CASE loopPtr[i]
      <4> DEFINE more == Append(loops, i)
      <4>0. /\ more \in Seq(Threads) /\ Len(more) = i /\ DOMAIN more = 1 .. i
            /\ \A k \in 1 .. i : more[k] = k
        OBVIOUS
      <4> HIDE DEF more
      <4>1. loops' = more /\ i \in 1 .. ThreadsNum BY <3>1 DEF more
      <4>2. TypeOK' BY <3>1, <4>0, <4>1
      <4>3. LoopsInv' BY <3>1, <4>0, <4>1
      <4>4. PhaseInv' /\ QuitInv' /\ DestroyInv' BY <3>1
      <4> QED BY <4>2, <4>3, <4>4
    <3>2. CASE ~loopPtr[i] BY <3>2
    <3> QED BY <3>1, <3>2
  <2>4. CASE Sleep BY <2>4 DEF Sleep, Goto
  <2> QED BY <1>1, <2>1, <2>2, <2>3, <2>4 DEF StartStep
<1>2. CASE DestroyStep
  <2>1. CASE Mark
    <3>1. TypeOK' /\ LoopsInv' /\ PhaseInv' BY <2>1 DEF Mark, Goto
    <3>2. QuitInv' BY <2>1 DEF Mark, Goto
    <3>3. DestroyInv' BY <2>1 DEF Mark, Goto
    <3> QED BY <3>1, <3>2, <3>3
  <2>2. CASE While BY <2>2 DEF While, Onward
  <2>3. CASE Quit
    <3>1. TypeOK' /\ LoopsInv' /\ PhaseInv' BY <2>3 DEF Quit, Goto
    <3>2. QuitInv' BY <2>3 DEF Quit, Goto
    <3>3. DestroyInv' BY <2>3 DEF Quit, Goto
    <3> QED BY <3>1, <3>2, <3>3
  <2>4. CASE Wakeup BY <2>4 DEF Wakeup, Goto
  <2>5. CASE Join BY <2>5 DEF Join, Goto
  <2> QED BY <1>2, <2>1, <2>2, <2>3, <2>4, <2>5 DEF DestroyStep
<1>3. CASE ServerGoes
  <2> USE DEF BaseGoes, Goto
  <2>1. CASE BaseGoes("hand", "mark") BY <2>1
  <2>2. CASE BaseGoes("serve", "hand") BY <2>2
  <2>3. CASE BaseGoes("hand", "drop") BY <2>3
  <2>4. CASE BaseGoes("drop", "hand") BY <2>4
  <2> QED BY <1>3, <2>1, <2>2, <2>3, <2>4 DEF ServerGoes
<1>4. ASSUME NEW t \in Threads, PoolThreadStep(t) PROVE PoolInv'
  <2> USE DEF ThreadGoto
  <2>1. CASE Lock(t) BY <2>1 DEF Lock
  <2>2. CASE Publish(t) BY <2>2 DEF Publish
  <2>3. CASE Begin(t) BY <2>3 DEF Begin
  <2>4. CASE Check(t) BY <2>4 DEF Check
  <2>5. CASE Poll(t) BY <2>5 DEF Poll
  <2>6. CASE RunCalls(t) BY <2>6 DEF RunCalls
  <2>7. CASE Reset(t) BY <2>7 DEF Reset
  <2>8. CASE End(t) BY <2>8 DEF End
  <2> QED BY <1>4, <2>1, <2>2, <2>3, <2>4, <2>5, <2>6, <2>7, <2>8 DEF PoolThreadStep
<1>5. CASE UNCHANGED vars BY <1>5 DEF vars
<1> QED BY <1>1, <1>2, <1>3, <1>4, <1>5 DEF PoolNext

\* What the invariant of the threads says of the loops: once the pool has started, every
\* thread has begun, and until the destructor marks it, none has left.
LEMMA PoolLoops ==
  ASSUME PoolInv
  PROVE  /\ ~Starting => \A t \in Threads : Looping(t) \/ Left(t)
         /\ Serving => \A t \in Threads : Looping(t) /\ alive[t]
         /\ ~Starting => \A t \in Threads : loops[t] = t
         /\ LoopsExist
         /\ AssertionsHold
<1> USE ThreadsAssumption
    DEF PoolInv, TypeOK, LoopsInv, PhaseInv, QuitInv, DestroyInv, Starting, Serving, Ending,
        Looping, Left, Threads
<1>1. ~Starting => \A t \in Threads : loops[t] = t /\ (Looping(t) \/ Left(t))
  <2> SUFFICES ASSUME ~Starting, NEW t \in Threads
               PROVE  loops[t] = t /\ (Looping(t) \/ Left(t))
    OBVIOUS
  <2>1. t \in DOMAIN loops OBVIOUS
  <2> QED BY <2>1
<1>2. Serving => \A t \in Threads : Looping(t) /\ alive[t] BY <1>1
<1>3. LoopsExist
  <2> SUFFICES ASSUME NEW k \in DOMAIN loops PROVE alive[loops[k]] \/ existing[loops[k]]
    BY DEF LoopsExist
  <2>1. k \in Threads /\ loops[k] = k /\ (Looping(k) \/ Left(k)) OBVIOUS
  <2> QED BY <2>1
<1>4. AssertionsHold BY DEF AssertionsHold
<1> QED BY <1>1, <1>2, <1>3, <1>4

-----------------------------------------------------------------------------
(* The calls.                                                              *)

\* A call more in a queue is one more connection of its kind.
LEMMA OfAppend ==
  ASSUME NEW q \in Seq(Functor), NEW o \in {"establish", "destory"}, NEW c \in Conns,
         NEW op \in {"establish", "destory"}
  PROVE  /\ Append(q, [op |-> o, conn |-> c]) \in Seq(Functor)
         /\ Of(Append(q, [op |-> o, conn |-> c]), op)
                = Of(q, op) \union (IF op = o THEN {c} ELSE {})
<1> DEFINE f == [op |-> o, conn |-> c]
           more == Append(q, f)
<1>1. f \in Functor BY DEF Functor
<1>2. /\ more \in Seq(Functor) /\ DOMAIN q = 1 .. Len(q) /\ Len(q) \in Nat
      /\ DOMAIN more = 1 .. (Len(q) + 1) /\ more[Len(q) + 1] = f
      /\ \A k \in 1 .. Len(q) : more[k] = q[k]
  BY <1>1
<1>3. ASSUME NEW d \in Conns
      PROVE  d \in Of(more, op) <=> d \in Of(q, op) \/ (op = o /\ d = c)
  <2> DEFINE g == [op |-> op, conn |-> d]
  <2>1. g = f <=> op = o /\ d = c
    <3>1. g = f => g.op = f.op /\ g.conn = f.conn OBVIOUS
    <3> QED BY <3>1
  <2>2. (\E k \in DOMAIN more : more[k] = g) <=> (\E k \in DOMAIN q : q[k] = g) \/ g = f
    <3> HIDE DEF g, f, more
    <3>1. \A k \in 1 .. (Len(q) + 1) : k \in 1 .. Len(q) \/ k = Len(q) + 1 BY <1>2
    <3>2. 1 .. Len(q) \subseteq DOMAIN more /\ Len(q) + 1 \in DOMAIN more BY <1>2
    <3>3. ASSUME NEW k \in DOMAIN more, more[k] = g
          PROVE  (\E j \in DOMAIN q : q[j] = g) \/ g = f
      BY <1>2, <3>1, <3>3
    <3>4. ASSUME NEW k \in DOMAIN q, q[k] = g PROVE \E j \in DOMAIN more : more[j] = g
      BY <1>2, <3>2, <3>4
    <3>5. g = f => \E j \in DOMAIN more : more[j] = g BY <1>2, <3>2
    <3> QED BY <3>3, <3>4, <3>5
  <2> QED BY <2>1, <2>2 DEF Of
<1> QED BY <1>2, <1>3 DEF Of

\* No call, no connection.
LEMMA OfNone == ASSUME NEW op PROVE Of(<<>>, op) = {}
BY DEF Of

-----------------------------------------------------------------------------
(* The connections.                                                        *)

\* When the program starts there are no connections and no calls.
LEMMA ServerInit == EndInit => ServerInv
<1> SUFFICES ASSUME EndInit PROVE ServerInv OBVIOUS
<1>1. PoolInv BY PoolInit
<1>2. /\ Made = {} /\ map = {} /\ conn = None /\ known = {} /\ freed = {}
      /\ \A t \in Threads : queue[t] = <<>> /\ batch[t] = <<>>
      /\ base = "create"
  BY DEF EndInit, Init, Made
<1>3. EndTypeOK BY <1>1, <1>2 DEF EndTypeOK, EndInit, PoolInv, Made
<1>4. CallsInv BY <1>2, OfNone DEF CallsInv
<1>5. DestoryInv BY <1>2 DEF DestoryInv
<1>6. HeldInv BY <1>2, FS_EmptySet DEF HeldInv, Starting
<1> QED BY <1>3, <1>4, <1>5, <1>6 DEF ServerInv

Silent(t) == Lock(t) \/ Publish(t) \/ Begin(t) \/ Check(t) \/ Reset(t)

\* What the steps that leave the connections alone do to the threads.
LEMMA QuietStep ==
  ASSUME PoolInv, BaseStep \/ \E t \in Threads : Silent(t)
  PROVE  /\ \A t \in Threads : /\ tpc'[t] = "calls" <=> tpc[t] = "calls"
                               /\ tpc'[t] = "done" => tpc[t] = "done"
                               /\ ~Starting /\ alive'[t] => alive[t]
         /\ Starting' => Starting
         /\ Starting' \/ Ending' \/ base' = "gone" => Starting \/ Ending \/ base = "gone"
         /\ base' = "drop" <=> base = "drop"
<1> USE DEF PoolInv, TypeOK, Starting, Ending, Goto, Onward
<1>1. CASE StartStep
  BY <1>1 DEF StartStep, Create, MakeMembers, GetLoop, Sleep, LoopsInv
<1>2. CASE DestroyStep
  BY <1>2 DEF DestroyStep, Mark, While, Quit, Wakeup, Join
<1>3. ASSUME NEW t \in Threads, Silent(t)
      PROVE  /\ \A s \in Threads : /\ tpc'[s] = "calls" <=> tpc[s] = "calls"
                                   /\ tpc'[s] = "done" => tpc[s] = "done"
                                   /\ ~Starting /\ alive'[s] => alive[s]
             /\ base' = base \/ (base = "waiting" /\ base' = "notified")
  <2>1. ~Starting => tpc[t] # "born" BY PoolLoops DEF Looping, Left
  <2> QED BY <1>3, <2>1 DEF Silent, Lock, Publish, Begin, Check, Reset, ThreadGoto
<1> QED BY <1>1, <1>2, <1>3 DEF BaseStep

\* Starting and ending a thread moves no connection; a loop that comes to life does so
\* before there are any.
LEMMA QuietKeeps ==
  ASSUME PoolInv, PoolInv', ServerInv, UNCHANGED server,
         BaseStep \/ (\E t \in Threads : Silent(t)) \/ UNCHANGED vars
  PROVE  ServerInv'
<1>1. /\ \A t \in Threads : /\ tpc'[t] = "calls" <=> tpc[t] = "calls"
                            /\ tpc'[t] = "done" => tpc[t] = "done"
                            /\ ~Starting /\ alive'[t] => alive[t]
      /\ Starting' => Starting
      /\ Starting' \/ Ending' \/ base' = "gone" => Starting \/ Ending \/ base = "gone"
      /\ base' = "drop" <=> base = "drop"
  BY QuietStep DEF vars, Starting, Ending
<1>2. UNCHANGED <<map, conn, home, queue, batch, known, freed, Made, Held>>
  BY DEF server, Made, Held, HeldIn, Of
<1>3. EndTypeOK' BY <1>2 DEF ServerInv, EndTypeOK, PoolInv
<1>4. CallsInv'
  <2> SUFFICES ASSUME NEW t \in Threads
               PROVE  /\ \A op \in {"establish", "destory"} :
                             \A c \in Of(queue'[t], op) \union Of(batch'[t], op) :
                                 c \in Made' /\ home'[c] = t
                      /\ tpc'[t] # "calls" => batch'[t] = <<>>
                      /\ tpc'[t] = "done" => queue'[t] = <<>>
    BY DEF CallsInv, Of
  <2> QED BY <1>1, <1>2 DEF ServerInv, CallsInv
<1>5. DestoryInv'
  <2>1. CASE Starting BY <1>2, <2>1 DEF ServerInv, HeldInv, DestoryInv
  <2>2. CASE ~Starting
    <3>1. \A c \in Made : home[c] \in Threads BY DEF ServerInv, EndTypeOK, Made
    <3>2. \A t \in Threads : alive'[t] => alive[t] BY <1>1, <2>2
    <3>3. \A t, op : Of(queue[t], op)' = Of(queue[t], op) /\ Of(batch[t], op)' = Of(batch[t], op)
      BY <1>2 DEF Of
    <3> QED BY <1>2, <3>1, <3>2, <3>3 DEF ServerInv, DestoryInv
  <2> QED BY <2>1, <2>2
<1>6. HeldInv' BY <1>1, <1>2 DEF ServerInv, HeldInv
<1> QED BY <1>3, <1>4, <1>5, <1>6 DEF ServerInv

\* A call handed over joins one queue, and its connection those that are held.
LEMMA HandOverAdds ==
  ASSUME ServerInv, NEW t \in Threads, NEW o \in {"establish", "destory"}, NEW c \in Conns,
         HandOver(t, o, c)
  PROVE  /\ queue' \in [Threads -> Seq(Functor)]
         /\ \A s \in Threads : \A op \in {"establish", "destory"} :
                Of(queue'[s], op) = Of(queue[s], op) \union (IF s = t /\ op = o THEN {c} ELSE {})
         /\ \A s \in Threads : s # t => queue'[s] = queue[s]
         /\ HeldIn(queue') = HeldIn(queue) \union {c}
<1> DEFINE f == [op |-> o, conn |-> c]
<1>1. queue \in [Threads -> Seq(Functor)] BY DEF ServerInv, EndTypeOK
<1>2. queue' = [queue EXCEPT ![t] = Append(@, f)] BY DEF HandOver
<1>3. queue[t] \in Seq(Functor) BY <1>1
<1>4. queue'[t] = Append(queue[t], f) /\ \A s \in Threads : s # t => queue'[s] = queue[s]
  BY <1>1, <1>2
<1>5. \A op \in {"establish", "destory"} :
         /\ Append(queue[t], f) \in Seq(Functor)
         /\ Of(Append(queue[t], f), op) = Of(queue[t], op) \union (IF op = o THEN {c} ELSE {})
  BY <1>3, OfAppend
<1> HIDE DEF f
<1>6. queue' \in [Threads -> Seq(Functor)] BY <1>1, <1>2, <1>5
<1>7. ASSUME NEW s \in Threads, NEW op \in {"establish", "destory"}
      PROVE  Of(queue'[s], op)
                 = Of(queue[s], op) \union (IF s = t /\ op = o THEN {c} ELSE {})
  BY <1>4, <1>5
<1>8. HeldIn(queue') = HeldIn(queue) \union {c}
  <2>1. \A d : d \in HeldIn(queue') <=> d \in HeldIn(queue) \/ d = c
    <3>1. ASSUME NEW d
          PROVE  (\E s \in Threads : \E op \in {"establish", "destory"} : d \in Of(queue'[s], op))
                     <=> d = c \/ \E s \in Threads : \E op \in {"establish", "destory"} :
                                      d \in Of(queue[s], op)
      BY <1>7
    <3> QED BY <3>1 DEF HeldIn
  <2> QED BY <2>1
<1> QED BY <1>4, <1>6, <1>7, <1>8

\* A new connection goes into the map, and to a loop that is running: onNewConnection().
LEMMA AcceptKeeps ==
  ASSUME PoolInv, PoolInv', ServerInv, NEW c \in Conns, Accept(c)
  PROVE  ServerInv'
<1> DEFINE t == loops[(Cardinality(Made) % ThreadsNum) + 1]
<1>0. base = "serve" /\ c \notin Made /\ UNCHANGED <<vars, conn, batch, known, freed>>
  BY DEF Accept
<1>1. t \in Threads /\ Looping(t)
  <2>1. Cardinality(Made) \in Nat BY FS_CardinalityType DEF ServerInv, HeldInv
  <2>2. (Cardinality(Made) % ThreadsNum) + 1 \in Threads
    BY <2>1, ThreadsAssumption DEF Threads
  <2> QED BY <1>0, <2>2, PoolLoops DEF Starting, Serving
<1>2. /\ home' = [d \in Made \union {c} |-> IF d = c THEN t ELSE home[d]]
      /\ HandOver(t, "establish", c) /\ map' = map \union {c}
  BY DEF Accept
<1> HIDE DEF t
<1>3. /\ Made' = Made \union {c} /\ home'[c] = t
      /\ \A d \in Made : home'[d] = home[d] /\ d # c
  BY <1>0, <1>2 DEF Made
<1>4. /\ queue' \in [Threads -> Seq(Functor)]
      /\ \A s \in Threads : \A op \in {"establish", "destory"} :
             Of(queue'[s], op)
                 = Of(queue[s], op) \union (IF s = t /\ op = "establish" THEN {c} ELSE {})
      /\ \A s \in Threads : s # t => queue'[s] = queue[s]
      /\ HeldIn(queue') = HeldIn(queue) \union {c}
  BY <1>1, <1>2, HandOverAdds
<1>5. EndTypeOK'
  <2>1. home' \in [Made' -> Threads] BY <1>1, <1>2, <1>3 DEF ServerInv, EndTypeOK
  <2> QED BY <1>0, <1>2, <1>3, <1>4, <2>1 DEF ServerInv, EndTypeOK, PoolInv
<1>6. CallsInv'
  <2>1. \A s \in Threads : batch'[s] = batch[s] /\ tpc'[s] = tpc[s] BY <1>0 DEF vars
  <2>2. tpc[t] # "done" BY <1>1 DEF Looping
  <2> QED BY <1>3, <1>4, <2>1, <2>2 DEF ServerInv, CallsInv
<1>7. DestoryInv'
  <2>1. \A s \in Threads : batch'[s] = batch[s] /\ alive'[s] = alive[s] BY <1>0 DEF vars
  <2>2. c \notin known /\ \A s \in Threads : c \notin Of(batch[s], "establish")
    BY <1>0 DEF ServerInv, EndTypeOK, CallsInv
  <2>3. \A d \in Made : home[d] \in Threads BY DEF ServerInv, EndTypeOK
  <2> QED BY <1>0, <1>1, <1>2, <1>3, <1>4, <2>1, <2>2, <2>3 DEF ServerInv, DestoryInv
<1>8. HeldInv'
  <2>1. Held' = Held \union {c}
    BY <1>0, <1>2, <1>4 DEF Held, HeldIn
  <2>2. IsFiniteSet(Made') BY <1>3, FS_AddElement DEF ServerInv, HeldInv
  <2> QED BY <1>0, <1>3, <2>1, <2>2 DEF ServerInv, HeldInv, Starting, Ending, vars
<1> QED BY <1>5, <1>6, <1>7, <1>8 DEF ServerInv

\* ~LightServer() lets go of a connection only when the call that destroys it is queued.
LEMMA DestructorKeeps ==
  ASSUME PoolInv, PoolInv', ServerInv, EndServer \/ EndStep
  PROVE  ServerInv'
<1> USE DEF ServerInv
<1>1. UNCHANGED <<tpc, alive>> /\ base \notin {"mark", "gone"}
  BY DEF EndServer, EndStep, HandOverDestory, DropConn, EndMembers, BaseGoes, Goto
<1>2. ASSUME NEW c \in Conns, HandOverDestory(c) PROVE ServerInv'
  <2> DEFINE t == home[c]
  <2>1. /\ base = "hand" /\ base' = "drop" /\ c \in map
        /\ conn' = c /\ map' = map \ {c} /\ HandOver(t, "destory", c)
        /\ UNCHANGED <<home, batch, known, freed, Made>>
    BY <1>2 DEF HandOverDestory, BaseGoes, Goto, Made
  <2>2. c \in Made /\ t \in Threads /\ \A d \in Made : home[d] \in Threads
    BY <2>1 DEF EndTypeOK
  <2>3. /\ queue' \in [Threads -> Seq(Functor)]
        /\ \A s \in Threads : \A op \in {"establish", "destory"} :
               Of(queue'[s], op)
                   = Of(queue[s], op) \union (IF s = t /\ op = "destory" THEN {c} ELSE {})
        /\ \A s \in Threads : s # t => queue'[s] = queue[s]
        /\ HeldIn(queue') = HeldIn(queue) \union {c}
    BY <2>1, <2>2, HandOverAdds
  <2>4. tpc[t] # "done" BY <2>1, <2>2, PoolLoops DEF Serving, Looping
  <2> HIDE DEF t
  <2>5. EndTypeOK' BY <2>1, <2>2, <2>3 DEF EndTypeOK, PoolInv
  <2>6. CallsInv' BY <1>1, <2>1, <2>2, <2>3, <2>4 DEF CallsInv, t
  <2>7. DestoryInv' BY <1>1, <2>1, <2>2, <2>3 DEF DestoryInv, t
  <2>8. HeldInv'
    <3>1. Held' \union {None} = Held \union {None}
      BY <2>1, <2>3 DEF Held, HeldIn, HeldInv
    <3>2. None \notin Made BY EndAssumption DEF EndTypeOK
    <3> QED BY <2>1, <3>1, <3>2 DEF HeldInv, Starting, Ending
  <2> QED BY <2>5, <2>6, <2>7, <2>8
<1>3. CASE DropConn
  <2>1. /\ base' = "hand" /\ base = "drop" /\ conn' = None
        /\ UNCHANGED <<map, home, queue, batch, known, Made>>
        /\ freed' = Made' \ Held'
    BY <1>3 DEF DropConn, BaseGoes, Goto, Free, Held, Made, HeldIn
  <2>2. EndTypeOK' BY <2>1 DEF EndTypeOK, PoolInv
  <2>3. CallsInv' BY <1>1, <2>1 DEF CallsInv
  <2>4. DestoryInv' BY <1>1, <2>1 DEF DestoryInv
  <2>5. HeldInv' BY <2>1 DEF HeldInv, Starting, Ending
  <2> QED BY <2>2, <2>3, <2>4, <2>5
<1>4. CASE EndServer \/ EndMembers
  <2>1. /\ UNCHANGED <<map, conn, home, queue, batch, known, freed, Made, Held>>
        /\ \/ base = "serve" /\ base' = "hand"
           \/ base = "hand" /\ base' = "mark" /\ map = {}
    BY <1>4 DEF EndServer, EndMembers, BaseGoes, Goto, server, Held, Made, HeldIn, Of
  <2>2. EndTypeOK' BY <2>1 DEF EndTypeOK, PoolInv
  <2>3. CallsInv' BY <1>1, <2>1 DEF CallsInv
  <2>4. DestoryInv' BY <1>1, <2>1 DEF DestoryInv
  <2>5. HeldInv' BY <2>1 DEF HeldInv, Starting, Ending
  <2> QED BY <2>2, <2>3, <2>4, <2>5
<1> QED BY <1>2, <1>3, <1>4 DEF EndStep

\* A loop that takes, runs or drops its calls loses no connection it knows, unless it goes
\* itself.
LEMMA LoopKeeps ==
  ASSUME PoolInv, PoolInv', ServerInv, NEW t \in Threads,
         TakeCalls(t) \/ RunBatch(t) \/ EndLoop(t)
  PROVE  ServerInv'
<1> USE DEF ServerInv
<1>1. /\ UNCHANGED <<base, map, conn, home, Made>>
      /\ \A s \in Threads : s # t => tpc'[s] = tpc[s] /\ alive'[s] = alive[s]
      /\ \A d \in Made : home[d] \in Threads
  BY DEF TakeCalls, RunBatch, EndLoop, Poll, RunCalls, End, ThreadGoto, EndTypeOK, Made,
         PoolInv, TypeOK
<1>2. <<>> \in Seq(Functor) /\ Of(<<>>, "establish") = {} /\ Of(<<>>, "destory") = {}
  BY OfNone
<1>3. CASE TakeCalls(t)
  <2>1. /\ queue'[t] = <<>> /\ batch'[t] = queue[t] /\ batch[t] = <<>>
        /\ \A s \in Threads : s # t => queue'[s] = queue[s] /\ batch'[s] = batch[s]
        /\ tpc'[t] = "calls" /\ alive' = alive /\ UNCHANGED <<known, freed>>
    BY <1>3 DEF TakeCalls, Poll, ThreadGoto, EndTypeOK, PoolInv, TypeOK, CallsInv
  <2>2. EndTypeOK'
    <3>1. queue' \in [Threads -> Seq(Functor)] /\ batch' \in [Threads -> Seq(Functor)]
      BY <1>2, <1>3 DEF TakeCalls, EndTypeOK
    <3> QED BY <1>1, <2>1, <3>1 DEF EndTypeOK, PoolInv
  <2>3. CallsInv' BY <1>1, <1>2, <2>1 DEF CallsInv
  <2>4. DestoryInv' BY <1>1, <1>2, <2>1 DEF DestoryInv
  <2>5. HeldInv'
    <3>1. HeldIn(queue') \union HeldIn(batch') = HeldIn(queue) \union HeldIn(batch)
      <4>1. ASSUME NEW d
            PROVE  (\E s \in Threads : \E op \in {"establish", "destory"} :
                        d \in Of(queue'[s], op) \union Of(batch'[s], op))
                   <=> (\E s \in Threads : \E op \in {"establish", "destory"} :
                        d \in Of(queue[s], op) \union Of(batch[s], op))
        BY <1>2, <2>1
      <4> QED BY <4>1 DEF HeldIn
    <3>2. Held' = Held BY <1>1, <3>1 DEF Held
    <3> QED BY <1>1, <2>1, <3>2 DEF HeldInv, Starting, Ending
  <2> QED BY <2>2, <2>3, <2>4, <2>5
<1>4. CASE RunBatch(t)
  <2>1. /\ batch'[t] = <<>> /\ queue' = queue
        /\ \A s \in Threads : s # t => batch'[s] = batch[s]
        /\ known' = (known \union Of(batch[t], "establish")) \ Of(batch[t], "destory")
        /\ tpc'[t] = "check" /\ alive' = alive
    BY <1>4 DEF RunBatch, RunCalls, ThreadGoto, EndTypeOK, PoolInv, TypeOK
  <2>2. freed' = Made' \ Held' BY <1>1, <1>4, <2>1 DEF RunBatch, Free, Held, Made, HeldIn
  <2>3. \A d \in Of(batch[t], "establish") : d \in Made /\ home[d] = t BY DEF CallsInv
  <2>4. EndTypeOK'
    <3>1. batch' \in [Threads -> Seq(Functor)] BY <1>2, <1>4 DEF RunBatch, EndTypeOK
    <3> QED BY <1>1, <2>1, <2>2, <2>3, <3>1 DEF EndTypeOK, PoolInv
  <2>5. CallsInv' BY <1>1, <1>2, <2>1 DEF CallsInv
  <2>6. DestoryInv' BY <1>1, <1>2, <2>1, <2>3 DEF DestoryInv
  <2>7. HeldInv' BY <1>1, <2>2 DEF HeldInv, Starting, Ending
  <2> QED BY <2>4, <2>5, <2>6, <2>7
<1>5. CASE EndLoop(t)
  <2>1. /\ queue'[t] = <<>> /\ batch' = batch /\ batch[t] = <<>>
        /\ \A s \in Threads : s # t => queue'[s] = queue[s]
        /\ tpc'[t] = "done" /\ ~alive'[t] /\ UNCHANGED known
    BY <1>5 DEF EndLoop, End, ThreadGoto, EndTypeOK, PoolInv, TypeOK, CallsInv
  <2>2. freed' = Made' \ Held' BY <1>1, <1>5, <2>1 DEF EndLoop, Free, Held, Made, HeldIn
  <2>3. EndTypeOK'
    <3>1. queue' \in [Threads -> Seq(Functor)] BY <1>2, <1>5 DEF EndLoop, EndTypeOK
    <3> QED BY <1>1, <2>1, <2>2, <3>1 DEF EndTypeOK, PoolInv
  <2>4. CallsInv' BY <1>1, <1>2, <2>1 DEF CallsInv
  <2>5. DestoryInv' BY <1>1, <1>2, <2>1 DEF DestoryInv
  <2>6. HeldInv' BY <1>1, <2>2 DEF HeldInv, Starting, Ending
  <2> QED BY <2>3, <2>4, <2>5, <2>6
<1> QED BY <1>3, <1>4, <1>5

\* Each step of the server and its threads keeps the invariant of the connections.
LEMMA ServerStep == ASSUME PoolInv, PoolInv', ServerInv, [Next]_endVars PROVE ServerInv'
<1>1. CASE BaseStep /\ UNCHANGED server BY <1>1, QuietKeeps
<1>2. CASE \E c \in Conns : Accept(c) BY <1>2, AcceptKeeps
<1>3. CASE EndServer \/ EndStep BY <1>3, DestructorKeeps
<1>4. ASSUME NEW t \in Threads, LoopStep(t) PROVE ServerInv'
  <2>1. CASE TakeCalls(t) \/ RunBatch(t) \/ EndLoop(t) BY <2>1, LoopKeeps
  <2>2. CASE Silent(t) /\ UNCHANGED server BY <2>2, QuietKeeps
  <2> QED BY <1>4, <2>1, <2>2 DEF LoopStep, Silent
<1>5. CASE UNCHANGED endVars BY <1>5, QuietKeeps DEF endVars
<1> QED BY <1>1, <1>2, <1>3, <1>4, <1>5 DEF Next

-----------------------------------------------------------------------------
\* The inductive invariant holds of every server, with any number of loops and clients.
THEOREM ServerInvariant == Spec => [](PoolInv /\ ServerInv)
<1>1. EndInit => PoolInv /\ ServerInv BY PoolInit, ServerInit
<1>2. PoolInv /\ ServerInv /\ [Next]_endVars => (PoolInv /\ ServerInv)'
  BY PoolSteps, PoolStep, ServerStep
<1> QED BY <1>1, <1>2, PTL DEF Spec

\* Whoever is handed a call can be: while the server serves, or tells the connections to
\* go, the loop of every thread has been published and is alive (getNextLoop(), ~LightServer()).
THEOREM HandedToLoops == Spec => []CallsMeetLoops
<1>1. PoolInv /\ ServerInv => CallsMeetLoops
  BY PoolLoops DEF CallsMeetLoops, ServerInv, Serving
<1> QED BY <1>1, ServerInvariant, PTL

\* The server ends cleanly (~LightServer(), ~EventLoopThread(), ~EventLoop()): the
\* assertions hold, every thread is joined, no living loop knows a destroyed connection,
\* and when the pool is gone no connection is left.
THEOREM EndIsClean == Spec => []EndsCleanly
<1>1. ASSUME PoolInv, ServerInv PROVE EndsCleanly
  <2>1. AssertionsHold BY <1>1, PoolLoops
  <2>2. ASSUME NEW c \in known \intersect freed PROVE ~alive[home[c]]
    <3>1. c \in Made /\ home[c] \in Threads /\ c \notin Held
      BY <1>1 DEF ServerInv, EndTypeOK, HeldInv
    <3>2. /\ c \notin map
          /\ c \notin Of(queue[home[c]], "destory") /\ c \notin Of(batch[home[c]], "destory")
      BY <3>1 DEF Held, HeldIn
    <3> QED BY <1>1, <3>1, <3>2 DEF ServerInv, DestoryInv
  <2>3. ASSUME base = "gone" PROVE freed = Made
    <3>1. map = {} /\ conn = None BY <1>1, <2>3 DEF ServerInv, HeldInv
    <3>2. \A t \in Threads : queue[t] = <<>> /\ batch[t] = <<>>
      BY <1>1, <2>3 DEF PoolInv, DestroyInv, ServerInv, CallsInv
    <3>3. Held = {None}
      <4>1. \A t \in Threads : \A op : Of(queue[t], op) = {} /\ Of(batch[t], op) = {}
        BY <3>2, OfNone
      <4> QED BY <3>1, <4>1 DEF Held, HeldIn
    <3>4. None \notin Made BY <1>1, EndAssumption DEF ServerInv, EndTypeOK
    <3> QED BY <1>1, <3>3, <3>4 DEF ServerInv, HeldInv
  <2> QED BY <2>1, <2>2, <2>3 DEF EndsCleanly
<1> QED BY <1>1, ServerInvariant, PTL
=============================================================================
