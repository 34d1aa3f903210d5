-------------------------- MODULE LightServerProofs --------------------------
(***************************************************************************)
(* Proofs about LightServer, for any clients, any number of loops and any  *)
(* times: no loop reaches a connection that is destroyed, but by what was  *)
(* sent too late (ChannelsOutliveTheirUse), accept() always finds a client *)
(* (AcceptAlwaysFinds), nobody is taken for dead too early                 *)
(* (PatienceIsKept), every loop of the pool works through the calls the    *)
(* server hands to it as EventLoop promises (LoopsImplementCallQueue), and *)
(* forgets nobody who was accepted (AcceptedAreEstablished).               *)
(*                                                                         *)
(* The inductive invariant follows a connection from the functor that      *)
(* establishes it to the one that destroys it: the two are handed to the   *)
(* same loop in this order, and from the moment the connection leaves the  *)
(* map the second of them is still to come, or its work is done.           *)
(***************************************************************************)
EXTENDS ServerLoops, SequenceTheorems, TLAPS

Establish(c) == [op |-> "establish", conn |-> c]
Destory(c) == [op |-> "destory", conn |-> c]

\* Somebody holds the connection.
Held(c) == c \in map \/ HeldIn(queue, c) \/ HeldIn(taken, c)

\* A functor of loop l that is still to be run.
InBatch(l, f) == \E k \in DOMAIN taken[l] : k > pos[l] /\ taken[l][k] = f
InQueue(l, f) == \E k \in DOMAIN queue[l] : queue[l][k] = f
Pends(l, f) == InBatch(l, f) \/ InQueue(l, f)

\* The objects that exist are those that are held, and they have a loop.
LifeInv ==
    \A c \in Clients : /\ Alive(c) <=> Held(c)
                       /\ Alive(c) => loopOf[c] \in Loops

\* The clients that wait to be accepted do so once each, one of them for the report of
\* the listening socket and one for the accept() that is to come.
BacklogInv ==
    /\ \A k \in DOMAIN backlog : life[backlog[k]] = "waiting"
    /\ \A j, k \in DOMAIN backlog : backlog[j] = backlog[k] => j = k
    /\ listenReady \/ bpc = "accept" => Len(backlog) >= 1
    /\ listenReady /\ bpc = "accept" => Len(backlog) >= 2

\* What a loop has in hand, in each phase of its turn, is its own.
LoopInv ==
    \A l \in Loops :
        /\ \A k \in DOMAIN queue[l] : loopOf[queue[l][k].conn] = l
        /\ \A k \in DOMAIN taken[l] : loopOf[taken[l][k].conn] = l
        /\ pos[l] <= Len(taken[l])
        /\ ipc[l] # "run" => taken[l] = <<>> /\ pos[l] = 0
        /\ ipc[l] # "dispatch" => active[l] = {}
        /\ \A c \in active[l] : c \in revived \/ (c \in known /\ loopOf[c] = l)

\* epoll knows a connection that was told to destroy itself only if it was sent to since.
KnownInv == \A c \in known : life[c] = "established" \/ (life[c] = "reaped" /\ c \in revived)

\* Whom the user can send to was established.
UsersInv == \A c \in users \union revived : life[c] \in {"established", "reaped", "freed"}

Ordered(fs, c) == \A j, k \in DOMAIN fs : fs[j] = Destory(c) /\ fs[k] = Establish(c) => k < j

\* connectDestory() is behind connectEstablished().
OrderInv ==
    \A l \in Loops : \A c \in Clients :
        /\ Ordered(queue[l], c)
        /\ Ordered(taken[l], c)
        /\ (\E j \in DOMAIN taken[l] : taken[l][j] = Destory(c)) => ~InQueue(l, Establish(c))

\* The heartbeat check is at a connection it has not let go of.
CurInv == /\ IF bpc \in {"add", "reap", "erase"} THEN cur \in map ELSE cur = None
          /\ cur \notin scan

\* The map has let go of the connection, or is about to.
LeavesMap(c) == c \notin map \/ (bpc = "erase" /\ cur = c)

\* A connection that leaves the map has its connectDestory() still to come, or it has run,
\* and no connectEstablished() is behind it.
DestoryInv ==
    \A c \in Clients :
        /\ life[c] \in {"made", "established"} /\ LeavesMap(c) => Pends(loopOf[c], Destory(c))
        /\ life[c] = "reaped" => ~Pends(loopOf[c], Establish(c))

ServerInv == /\ TypeOK /\ LifeInv /\ BacklogInv /\ LoopInv /\ KnownInv /\ UsersInv
             /\ OrderInv /\ CurInv /\ DestoryInv

\* What a client is charged with is no more than its silence and two turns; while a check
\* runs, the clients it has still to visit are to be charged with one more.  Of whom the
\* first check, or a lost reset, has wronged, nothing is said.
Patient(c) ==
    /\ ~Alive(c) => heart[c] = 0 /\ quiet[c] = 0
    /\ \/ c \in wronged
       \/ quiet[c] >= HeartTime
       \/ /\ heart[c] + elapsed <= quiet[c] + 2 * MaxTurn
          /\ c \in scan /\ checked => heart[c] + dt + elapsed <= quiet[c] + 2 * MaxTurn

CheckInv == /\ checked => dt <= MaxTurn
            /\ bpc = "add" => \/ ~checked \/ cur \in wronged
                              \/ quiet[cur] >= HeartTime
                              \/ sum + dt + elapsed <= quiet[cur] + 2 * MaxTurn

PatienceInv == CheckInv /\ \A c \in Clients : Patient(c)

-----------------------------------------------------------------------------
(* Functors and the sequences they are in.                                 *)

\* Which connection a functor is for, and what it does, tell it from the others.
LEMMA FunctorFacts ==
  /\ \A c, d : Establish(c) # Destory(d)
  /\ \A c, d : Establish(c) = Establish(d) => c = d
  /\ \A c, d : Destory(c) = Destory(d) => c = d
  /\ \A c : Establish(c).conn = c /\ Destory(c).conn = c
  /\ \A c \in Clients : Establish(c) \in Functor /\ Destory(c) \in Functor
  /\ \A f \in Functor : /\ f.conn \in Clients
                        /\ f.op = "establish" => f = Establish(f.conn)
                        /\ f.op = "destory" => f = Destory(f.conn)
                        /\ f.op \in {"establish", "destory"}
<1>1. \A c : Establish(c).conn = c /\ Destory(c).conn = c
  BY DEF Establish, Destory
<1>2. \A c : Establish(c).op = "establish" /\ Destory(c).op = "destory"
  BY DEF Establish, Destory
<1>3. \A c \in Clients : Establish(c) \in Functor /\ Destory(c) \in Functor
  BY DEF Establish, Destory, Functor
<1>4. ASSUME NEW f \in Functor
      PROVE  /\ f.conn \in Clients
             /\ f.op = "establish" => f = Establish(f.conn)
             /\ f.op = "destory" => f = Destory(f.conn)
             /\ f.op \in {"establish", "destory"}
  BY DEF Establish, Destory, Functor
<1> QED BY <1>1, <1>2, <1>3, <1>4

\* What is queued or taken are functors, each for a client.
LEMMA FunctorsIn ==
  ASSUME TypeOK, NEW l \in Loops
  PROVE  /\ \A k \in DOMAIN queue[l] : queue[l][k] \in Functor /\ queue[l][k].conn \in Clients
         /\ \A k \in DOMAIN taken[l] : taken[l][k] \in Functor /\ taken[l][k].conn \in Clients
<1>1. queue[l] \in Seq(Functor) /\ taken[l] \in Seq(Functor) BY DEF TypeOK
<1>2. ASSUME NEW fs \in Seq(Functor), NEW k \in DOMAIN fs PROVE fs[k] \in Functor
  BY <1>2
<1> QED BY <1>1, <1>2, FunctorFacts

-----------------------------------------------------------------------------
\* Nobody has come when the server starts.
LEMMA InitServer == Init => ServerInv
<1> SUFFICES ASSUME Init PROVE ServerInv OBVIOUS
<1> USE ServerAssumption DEF Init
<1>1. TypeOK
  <2>1. next \in Loops /\ backlog \in Seq(Clients) BY DEF Loops
  <2>2. life \in [Clients -> Lives] BY DEF Lives
  <2>3. queue \in [Loops -> Seq(Functor)] /\ taken \in [Loops -> Seq(Functor)] OBVIOUS
  <2>4. elapsed \in 0 .. MaxTurn /\ sum \in Int /\ dt \in Int OBVIOUS
  <2>5. heart \in [Clients -> Int] /\ quiet \in [Clients -> 0 .. HeartTime] OBVIOUS
  <2>6. pos \in [Loops -> Nat] /\ active \in [Loops -> SUBSET Clients] OBVIOUS
  <2> QED BY <2>1, <2>2, <2>3, <2>4, <2>5, <2>6 DEF TypeOK
<1>2. \A c \in Clients : ~Alive(c) /\ ~Held(c) BY DEF Alive, Held, HeldIn
<1>3. LifeInv BY <1>2 DEF LifeInv
<1>4. BacklogInv BY DEF BacklogInv
<1>5. LoopInv BY DEF LoopInv
<1>6. KnownInv /\ UsersInv /\ CurInv BY DEF KnownInv, UsersInv, CurInv
<1>7. OrderInv BY DEF OrderInv, Ordered
<1>8. DestoryInv BY DEF DestoryInv
<1> QED BY <1>1, <1>3, <1>4, <1>5, <1>6, <1>7, <1>8 DEF ServerInv

\* What the connections and the calls depend on.
crux == <<map, queue, taken, pos, life, loopOf, known, revived>>

\* Steps that leave the calls and the objects alone keep what is said of them.
LEMMA CruxKeeps ==
  ASSUME ServerInv, UNCHANGED crux,
         \/ bpc' = "erase" /\ bpc = "erase" /\ cur' = cur
         \/ bpc' # "erase" /\ bpc # "erase"
  PROVE  /\ LifeInv' /\ KnownInv' /\ OrderInv' /\ DestoryInv'
         /\ users' = users => UsersInv'
<1> USE DEF ServerInv, crux
<1>1. LifeInv' BY DEF LifeInv, Alive, Held, HeldIn
<1>2. KnownInv' BY DEF KnownInv
<1>3. OrderInv' BY DEF OrderInv, Ordered, InQueue
<1>4. DestoryInv' BY DEF DestoryInv, LeavesMap, Pends, InBatch, InQueue
<1>5. users' = users => UsersInv' BY DEF UsersInv
<1> QED BY <1>1, <1>2, <1>3, <1>4, <1>5

\* Who was established stays so, is told to destroy itself, or is freed.
LEMMA UsersKeep ==
  ASSUME TypeOK, UsersInv, UNCHANGED <<users, revived>>,
         \A c \in Clients : life[c] \in {"established", "reaped", "freed"}
                               => life'[c] \in {"established", "reaped", "freed"}
  PROVE  UsersInv'
BY DEF UsersInv, TypeOK

\* Clients come and time passes.
LEMMA ClientsKeep ==
  ASSUME ServerInv, Tick \/ \E c \in Clients : Connect(c)
  PROVE  ServerInv'
<1> USE ServerAssumption DEF ServerInv
<1>1. CASE Tick
  <2> USE <1>1 DEF Tick, base, check, io, reach
  <2>1. TypeOK' BY DEF TypeOK, Capped
  <2>2. LifeInv' /\ KnownInv' /\ UsersInv' /\ OrderInv' /\ DestoryInv' BY CruxKeeps DEF crux
  <2>3. BacklogInv' /\ LoopInv' /\ CurInv' BY DEF BacklogInv, LoopInv, CurInv
  <2> QED BY <2>1, <2>2, <2>3
<1>2. ASSUME NEW c \in Clients, Connect(c) PROVE ServerInv'
  <2> USE <1>2 DEF Connect, base, check, io, reach, beat
  <2>1. TypeOK' BY DEF TypeOK, Lives
  <2>2. /\ \A d \in Clients : d # c => life'[d] = life[d]
        /\ life'[c] = "waiting" /\ life[c] = "away"
    BY DEF TypeOK
  <2>3. \A d \in Clients : Alive(d)' = Alive(d) /\ Held(d)' = Held(d)
    BY <2>2 DEF Alive, Held, HeldIn
  <2>4. LifeInv' BY <2>3 DEF LifeInv
  <2>5. BacklogInv'
    <3> DEFINE n == Len(backlog)
    <3>1. /\ n \in Nat /\ Len(backlog') = n + 1 /\ DOMAIN backlog = 1 .. n
          /\ DOMAIN backlog' = 1 .. n + 1 /\ backlog'[n + 1] = c
          /\ \A k \in 1 .. n : backlog'[k] = backlog[k] /\ backlog[k] \in Clients
      BY DEF TypeOK
    <3>2. \A k \in 1 .. n : backlog[k] # c BY <2>2, <3>1 DEF BacklogInv
    <3> QED BY <2>2, <3>1, <3>2 DEF BacklogInv
  <2>6. LoopInv' /\ CurInv' BY DEF LoopInv, CurInv
  <2>7. KnownInv' /\ UsersInv' BY <2>2, UsersKeep DEF KnownInv, TypeOK
  <2>8. OrderInv' BY DEF OrderInv, Ordered, InQueue
  <2>9. DestoryInv' BY <2>2 DEF DestoryInv, LeavesMap, Pends, InBatch, InQueue
  <2> QED BY <2>1, <2>4, <2>5, <2>6, <2>7, <2>8, <2>9
<1> QED BY <1>1, <1>2

\* The base loop polls, and goes through the connections.
LEMMA CheckKeeps ==
  ASSUME ServerInv,
         \/ BasePoll \/ CheckBegins \/ AddToHeart \/ CheckEnds
         \/ \E c \in Clients : ReadHeart(c)
  PROVE  ServerInv'
<1> USE ServerAssumption DEF ServerInv, Goto, kernel, base, check, io, conn, reach, beat
<1>1. LifeInv' /\ KnownInv' /\ UsersInv' /\ OrderInv' /\ DestoryInv'
  BY CruxKeeps DEF crux, BasePoll, CheckBegins, AddToHeart, CheckEnds, ReadHeart
<1>2. LoopInv' BY DEF LoopInv, BasePoll, CheckBegins, AddToHeart, CheckEnds, ReadHeart
<1>3. TypeOK' /\ BacklogInv' /\ CurInv'
  <2> USE DEF TypeOK, BacklogInv, CurInv
  <2>1. CASE BasePoll BY <2>1 DEF BasePoll
  <2>2. CASE CheckBegins BY <2>2 DEF CheckBegins
  <2>3. CASE AddToHeart BY <2>3 DEF AddToHeart, Capped
  <2>4. CASE CheckEnds BY <2>4 DEF CheckEnds
  <2>5. ASSUME NEW c \in Clients, ReadHeart(c) PROVE TypeOK' /\ BacklogInv' /\ CurInv'
    BY <2>5 DEF ReadHeart
  <2> QED BY <2>1, <2>2, <2>3, <2>4, <2>5
<1> QED BY <1>1, <1>2, <1>3

-----------------------------------------------------------------------------
(* Handing over a call, and letting go of a connection.                    *)

\* A call handed over is the last of its loop's queue.
LEMMA HandOverAdds ==
  ASSUME TypeOK, NEW l \in Loops, NEW op \in {"establish", "destory"}, NEW c \in Clients,
         NEW f \in Functor, f = [op |-> op, conn |-> c], HandOver(l, op, c)
  PROVE  /\ queue' \in [Loops -> Seq(Functor)]
         /\ \A s \in Loops : s # l => queue'[s] = queue[s]
         /\ LET n == Len(queue[l])
            IN  /\ n \in Nat /\ DOMAIN queue[l] = 1 .. n
                /\ DOMAIN queue'[l] = 1 .. n + 1 /\ queue'[l][n + 1] = f
                /\ \A k \in 1 .. n : queue'[l][k] = queue[l][k]
         /\ \A d : HeldIn(queue', d) <=> HeldIn(queue, d) \/ d = c
         /\ \A s \in Loops : \A g : InQueue(s, g)' <=> InQueue(s, g) \/ (s = l /\ g = f)
<1>1. /\ queue \in [Loops -> Seq(Functor)] /\ queue[l] \in Seq(Functor)
      /\ queue' = [queue EXCEPT ![l] = Append(@, f)] /\ f.conn = c
  BY DEF HandOver, TypeOK
<1>2. queue'[l] = Append(queue[l], f) BY <1>1
<1>3. queue' \in [Loops -> Seq(Functor)] /\ \A s \in Loops : s # l => queue'[s] = queue[s]
  BY <1>1
<1> DEFINE n == Len(queue[l])
<1>4. /\ n \in Nat /\ DOMAIN queue[l] = 1 .. n
      /\ DOMAIN queue'[l] = 1 .. n + 1 /\ queue'[l][n + 1] = f
      /\ \A k \in 1 .. n : queue'[l][k] = queue[l][k]
  BY <1>1, <1>2
<1> HIDE DEF n
<1>5. /\ \A k \in DOMAIN queue'[l] : k = n + 1 \/ (k \in DOMAIN queue[l] /\ k # n + 1)
      /\ \A k \in DOMAIN queue[l] : k \in DOMAIN queue'[l] /\ queue'[l][k] = queue[l][k]
      /\ n + 1 \in DOMAIN queue'[l]
  BY <1>4
<1>6. ASSUME NEW d PROVE HeldIn(queue', d) <=> HeldIn(queue, d) \/ d = c
  <2>1. ASSUME HeldIn(queue', d) PROVE HeldIn(queue, d) \/ d = c
    BY <1>1, <1>3, <1>4, <1>5, <2>1 DEF HeldIn
  <2>2. ASSUME HeldIn(queue, d) PROVE HeldIn(queue', d)
    <3>1. PICK s \in Loops : \E k \in DOMAIN queue[s] : queue[s][k].conn = d
      BY <2>2 DEF HeldIn
    <3>2. \E k \in DOMAIN queue'[s] : queue'[s][k].conn = d BY <1>3, <1>5, <3>1
    <3> QED BY <3>2 DEF HeldIn
  <2>3. HeldIn(queue', c) BY <1>1, <1>4, <1>5 DEF HeldIn
  <2> QED BY <2>1, <2>2, <2>3
<1>7. ASSUME NEW s \in Loops, NEW g
      PROVE  InQueue(s, g)' <=> InQueue(s, g) \/ (s = l /\ g = f)
  <2>1. CASE s # l BY <1>3, <2>1 DEF InQueue
  <2>2. CASE s = l
    <3>1. InQueue(l, g)' => InQueue(l, g) \/ g = f BY <1>4, <1>5 DEF InQueue
    <3>2. InQueue(l, g) => InQueue(l, g)' BY <1>5 DEF InQueue
    <3>3. InQueue(l, f)' BY <1>4, <1>5 DEF InQueue
    <3> QED BY <2>2, <3>1, <3>2, <3>3
  <2> QED BY <2>1, <2>2
<1> QED BY <1>3, <1>4, <1>6, <1>7 DEF n

\* Free() destroys the objects that nobody holds, and changes nothing else.
LEMMA FreeFacts ==
  ASSUME TypeOK, Free(map', queue', taken')
  PROVE  /\ life' \in [Clients -> Lives] /\ loopOf' \in [Clients -> Loops \union {None}]
         /\ heart' \in [Clients -> Int] /\ quiet' \in [Clients -> 0 .. HeartTime]
         /\ known' \subseteq known /\ wronged' \subseteq wronged
         /\ \A c \in Clients :
                IF Alive(c) /\ ~Held(c)'
                THEN /\ life'[c] = "freed" /\ loopOf'[c] = None
                     /\ heart'[c] = 0 /\ quiet'[c] = 0 /\ c \notin known'
                ELSE /\ life'[c] = life[c] /\ loopOf'[c] = loopOf[c]
                     /\ heart'[c] = heart[c] /\ quiet'[c] = quiet[c]
                     /\ (c \in known' <=> c \in known) /\ (c \in wronged' <=> c \in wronged)
BY ServerAssumption DEF TypeOK, Free, Held, Lives

\* A client that is accepted is held by the map and by the call that establishes it.
LEMMA AcceptKeeps == ASSUME ServerInv, Accept PROVE ServerInv'
<1> USE DEF ServerInv
<1> DEFINE c == NextClient
           n == Len(backlog)
<1>1. /\ bpc = "accept" /\ bpc' = "heart"
      /\ map' = map \union {c} /\ loopOf' = [loopOf EXCEPT ![c] = next]
      /\ HandOver(next, "establish", c)
      /\ life' = [life EXCEPT ![c] = "made"]
      /\ next' = (next + 1) % LoopsNum /\ backlog' = Tail(backlog)
      /\ UNCHANGED <<listenReady, elapsed, check, ipc, taken, pos, active>>
      /\ UNCHANGED <<known, users, revived, heart, quiet, wronged>>
  BY DEF Accept, Goto, reach, beat
<1>2. /\ n \in Nat /\ n >= 1 /\ (listenReady => n >= 2)
      /\ DOMAIN backlog = 1 .. n /\ c = backlog[1] /\ \A k \in 1 .. n : backlog[k] \in Clients
      /\ backlog' \in Seq(Clients) /\ Len(backlog') = n - 1 /\ DOMAIN backlog' = 1 .. n - 1
      /\ \A k \in 1 .. n - 1 : backlog'[k] = backlog[k + 1]
  BY <1>1 DEF TypeOK, BacklogInv, NextClient
<1>3. c \in Clients /\ life[c] = "waiting" /\ ~Alive(c) /\ ~Held(c) /\ c \notin map
  BY <1>2 DEF BacklogInv, LifeInv, Alive, Held
<1>4. next \in Loops /\ next' \in Loops BY <1>1, ServerAssumption DEF TypeOK, Loops
<1>5. Establish(c) \in Functor BY <1>3, FunctorFacts
<1> HIDE DEF c, n
<1>6. /\ queue' \in [Loops -> Seq(Functor)]
      /\ \A s \in Loops : s # next => queue'[s] = queue[s]
      /\ LET m == Len(queue[next])
         IN  /\ m \in Nat /\ DOMAIN queue[next] = 1 .. m
             /\ DOMAIN queue'[next] = 1 .. m + 1 /\ queue'[next][m + 1] = Establish(c)
             /\ \A k \in 1 .. m : queue'[next][k] = queue[next][k]
      /\ \A d : HeldIn(queue', d) <=> HeldIn(queue, d) \/ d = c
      /\ \A s \in Loops : \A g : InQueue(s, g)' <=> InQueue(s, g) \/ (s = next /\ g = Establish(c))
  BY <1>1, <1>3, <1>4, <1>5, HandOverAdds DEF Establish
<1>7. \A d \in Clients : /\ d # c => life'[d] = life[d] /\ loopOf'[d] = loopOf[d]
                         /\ life'[c] = "made" /\ loopOf'[c] = next
  BY <1>1, <1>3 DEF TypeOK
<1>8. TypeOK' BY <1>1, <1>2, <1>3, <1>4, <1>6 DEF TypeOK, Lives, check
<1>9. \A d \in Clients : /\ Alive(d)' <=> Alive(d) \/ d = c
                         /\ Held(d)' <=> Held(d) \/ d = c
  <2>1. \A d \in Clients : Alive(d)' <=> Alive(d) \/ d = c BY <1>3, <1>7 DEF Alive
  <2>2. \A d : HeldIn(taken, d)' <=> HeldIn(taken, d) BY <1>1 DEF HeldIn
  <2>3. \A d : HeldIn(queue, d)' <=> HeldIn(queue, d) \/ d = c BY <1>6 DEF HeldIn
  <2>4. \A d : d \in map' <=> d \in map \/ d = c BY <1>1
  <2> QED BY <2>1, <2>2, <2>3, <2>4 DEF Held
<1>10. LifeInv' BY <1>4, <1>7, <1>9 DEF LifeInv
<1>11. BacklogInv'
  <2>1. \A k \in 1 .. n - 1 : backlog'[k] # c BY <1>2, <1>3 DEF BacklogInv
  <2> QED BY <1>1, <1>2, <1>7, <2>1 DEF BacklogInv
<1>12. LoopInv'
  <2>1. \A s \in Loops : /\ \A k \in DOMAIN queue[s] : queue[s][k].conn # c
                         /\ \A k \in DOMAIN taken[s] : taken[s][k].conn # c
    BY <1>3 DEF Held, HeldIn
  <2>2. \A s \in Loops : /\ \A k \in DOMAIN queue[s] : queue[s][k].conn \in Clients
                         /\ \A k \in DOMAIN taken[s] : taken[s][k].conn \in Clients
    BY FunctorsIn
  <2>3. ASSUME NEW s \in Loops, NEW k \in DOMAIN queue'[s] PROVE loopOf'[queue'[s][k].conn] = s
    <3>1. CASE s # next BY <1>6, <1>7, <2>1, <2>2, <2>3, <3>1 DEF LoopInv
    <3>2. CASE s = next
      <4> DEFINE m == Len(queue[next])
      <4>1. k = m + 1 \/ (k \in DOMAIN queue[next] /\ queue'[next][k] = queue[next][k])
        BY <1>6, <2>3, <3>2
      <4>2. CASE k = m + 1 BY <1>6, <1>7, <3>2, <4>2, <1>3, FunctorFacts
      <4>3. CASE k \in DOMAIN queue[next] /\ queue'[next][k] = queue[next][k]
        BY <1>4, <1>7, <2>1, <2>2, <3>2, <4>3 DEF LoopInv
      <4> QED BY <4>1, <4>2, <4>3
    <3> QED BY <3>1, <3>2
  <2>4. \A d \in known : d # c /\ d \in Clients BY <1>3 DEF KnownInv, TypeOK, Alive
  <2> QED BY <1>1, <1>7, <2>1, <2>2, <2>3, <2>4 DEF LoopInv
<1>13. KnownInv' /\ UsersInv' BY <1>1, <1>3, <1>7, UsersKeep DEF KnownInv, TypeOK, Alive
<1>14. OrderInv'
  <2>1. \A s \in Loops : /\ \A k \in DOMAIN queue[s] : queue[s][k] # Destory(c)
                         /\ \A k \in DOMAIN taken[s] : taken[s][k] # Destory(c)
    BY <1>3, FunctorFacts DEF Held, HeldIn
  <2>2. ASSUME NEW s \in Loops, NEW d \in Clients PROVE Ordered(queue'[s], d)
    <3>1. CASE s # next BY <1>6, <2>2, <3>1 DEF OrderInv
    <3>2. CASE s = next /\ d # c
      BY <1>6, <3>2, FunctorFacts DEF OrderInv, Ordered
    <3>3. CASE s = next /\ d = c
      BY <1>6, <2>1, <3>3, FunctorFacts DEF OrderInv, Ordered
    <3> QED BY <3>1, <3>2, <3>3
  <2> QED BY <1>1, <1>6, <2>1, <2>2, FunctorFacts DEF OrderInv, Ordered
<1>15. CurInv' BY <1>1, ServerAssumption DEF CurInv, check, TypeOK
<1>16. DestoryInv'
  <2>1. \A d \in Clients : LeavesMap(d)' => d # c /\ LeavesMap(d) BY <1>1 DEF LeavesMap
  <2>2. \A d \in Clients : d # c => \A s \in Loops :
            /\ Pends(s, Establish(d))' = Pends(s, Establish(d))
            /\ Pends(s, Destory(d))' = Pends(s, Destory(d))
    BY <1>1, <1>6, FunctorFacts DEF Pends, InBatch
  <2>3. ASSUME NEW d \in Clients, d # c
        PROVE  /\ (life'[d] \in {"made", "established"} /\ LeavesMap(d)')
                      => Pends(loopOf[d], Destory(d))'
               /\ life'[d] = "reaped" => ~Pends(loopOf[d], Establish(d))'
    <3>1. life'[d] = life[d] /\ loopOf'[d] = loopOf[d] BY <1>7, <2>3
    <3>2. CASE Alive(d)
      <4>1. loopOf[d] \in Loops BY <3>2 DEF LifeInv
      <4>2. \A s \in Loops : /\ Pends(s, Establish(d))' = Pends(s, Establish(d))
                            /\ Pends(s, Destory(d))' = Pends(s, Destory(d))
        BY <2>2, <2>3
      <4> QED BY <2>1, <3>1, <4>1, <4>2 DEF DestoryInv
    <3>3. CASE ~Alive(d) BY <3>1, <3>3 DEF Alive
    <3> QED BY <3>2, <3>3
  <2> QED BY <1>7, <1>3, <2>1, <2>3 DEF DestoryInv
<1> QED BY <1>8, <1>10, <1>11, <1>12, <1>13, <1>14, <1>15, <1>16

\* A functor that is still to be run holds its connection.
LEMMA PendingHolds ==
  ASSUME TypeOK, NEW l \in Loops, NEW f, Pends(l, f)
  PROVE  Held(f.conn)
BY DEF Pends, InBatch, InQueue, Held, HeldIn

\* connectDestory() is handed to the loop the connection was given, behind whatever was
\* handed to it before.
LEMMA ReapHandOverKeeps == ASSUME ServerInv, ReapHandOver PROVE ServerInv'
<1> USE DEF ServerInv
<1> DEFINE l == loopOf[cur]
           f == Destory(cur)
<1>1. /\ bpc = "reap" /\ bpc' = "erase" /\ cur' = cur
      /\ HandOver(l, "destory", cur)
      /\ UNCHANGED <<kernel, next, map, check, ipc, taken, pos, active, conn>>
  BY DEF ReapHandOver, Goto, check
<1>2. cur \in map /\ cur \in Clients /\ Held(cur) /\ Alive(cur) /\ l \in Loops
  BY <1>1 DEF CurInv, TypeOK, Held, LifeInv
<1>3. f \in Functor /\ f.conn = cur BY <1>2, FunctorFacts
<1> HIDE DEF l, f
<1>4. /\ queue' \in [Loops -> Seq(Functor)]
      /\ \A s \in Loops : s # l => queue'[s] = queue[s]
      /\ LET n == Len(queue[l])
         IN  /\ n \in Nat /\ DOMAIN queue[l] = 1 .. n
             /\ DOMAIN queue'[l] = 1 .. n + 1 /\ queue'[l][n + 1] = f
             /\ \A k \in 1 .. n : queue'[l][k] = queue[l][k]
      /\ \A d : HeldIn(queue', d) <=> HeldIn(queue, d) \/ d = cur
      /\ \A s \in Loops : \A g : InQueue(s, g)' <=> InQueue(s, g) \/ (s = l /\ g = f)
  BY <1>1, <1>2, <1>3, HandOverAdds DEF Destory, f
<1>5. TypeOK' BY <1>1, <1>4 DEF TypeOK, kernel, check, conn, reach, beat
<1>6. \A d \in Clients : Alive(d)' = Alive(d) /\ Held(d)' = Held(d)
  <2>1. \A d \in Clients : Alive(d)' = Alive(d) BY <1>1 DEF Alive, conn
  <2>2. \A d : HeldIn(taken, d)' <=> HeldIn(taken, d) BY <1>1 DEF HeldIn
  <2>3. \A d : HeldIn(queue, d)' <=> HeldIn(queue, d) \/ d = cur BY <1>4 DEF HeldIn
  <2>4. map' = map /\ cur \in map BY <1>1, <1>2
  <2> QED BY <2>1, <2>2, <2>3, <2>4 DEF Held
<1>7. LifeInv' BY <1>1, <1>6 DEF LifeInv, conn
<1>8. BacklogInv' BY <1>1 DEF BacklogInv, kernel, conn
<1>9. LoopInv'
  <2>1. ASSUME NEW s \in Loops, NEW k \in DOMAIN queue'[s] PROVE loopOf'[queue'[s][k].conn] = s
    <3>1. CASE s # l BY <1>1, <1>4, <2>1, <3>1 DEF LoopInv, conn
    <3>2. CASE s = l
      <4> DEFINE n == Len(queue[l])
      <4>1. k = n + 1 \/ (k \in DOMAIN queue[l] /\ queue'[l][k] = queue[l][k])
        BY <1>4, <2>1, <3>2
      <4>2. CASE k = n + 1 BY <1>1, <1>3, <1>4, <3>2, <4>2 DEF conn, l
      <4>3. CASE k \in DOMAIN queue[l] /\ queue'[l][k] = queue[l][k]
        BY <1>1, <1>2, <3>2, <4>3 DEF LoopInv, conn
      <4> QED BY <4>1, <4>2, <4>3
    <3> QED BY <3>1, <3>2
  <2> QED BY <1>1, <2>1 DEF LoopInv, conn, reach
<1>10. KnownInv' /\ UsersInv' BY <1>1, UsersKeep DEF KnownInv, conn, reach
<1>11. OrderInv'
  <2>1. ASSUME NEW s \in Loops, NEW d \in Clients PROVE Ordered(queue'[s], d)
    <3>1. CASE s # l BY <1>4, <2>1, <3>1 DEF OrderInv
    <3>2. CASE s = l
      <4> DEFINE n == Len(queue[l])
      <4>1. Ordered(queue[l], d) BY <1>2, <2>1 DEF OrderInv
      <4>2. ASSUME NEW j \in DOMAIN queue'[l], NEW k \in DOMAIN queue'[l],
                   queue'[l][j] = Destory(d), queue'[l][k] = Establish(d)
            PROVE  k < j
        <5>1. k \in DOMAIN queue[l] /\ queue[l][k] = Establish(d)
          BY <1>4, <4>2, FunctorFacts DEF f
        <5>2. CASE j = n + 1 BY <1>4, <5>1, <5>2
        <5>3. CASE j # n + 1 BY <1>4, <4>1, <4>2, <5>1, <5>3 DEF Ordered
        <5> QED BY <5>2, <5>3
      <4> QED BY <3>2, <4>2 DEF Ordered
    <3> QED BY <3>1, <3>2
  <2>2. \A d : Establish(d) # f BY FunctorFacts DEF f
  <2>3. \A s \in Loops : \A d \in Clients : InQueue(s, Establish(d))' <=> InQueue(s, Establish(d))
    BY <1>4, <2>2
  <2> QED BY <1>1, <2>1, <2>3 DEF OrderInv
<1>12. CurInv' BY <1>1 DEF CurInv, check
<1>13. DestoryInv'
  <2>1. \A s \in Loops : \A d \in Clients :
            /\ Pends(s, Establish(d))' = Pends(s, Establish(d))
            /\ Pends(s, Destory(d)) => Pends(s, Destory(d))'
    BY <1>1, <1>4, FunctorFacts DEF Pends, InBatch, f
  <2>2. \A s \in Loops : \A g : s = l /\ g = f => Pends(s, g)' BY <1>4 DEF Pends
  <2>3. \A d \in Clients : d # cur /\ LeavesMap(d)' => LeavesMap(d)
    BY <1>1 DEF LeavesMap
  <2>4. loopOf' = loopOf /\ life' = life BY <1>1 DEF conn
  <2>5. ASSUME NEW d \in Clients, Alive(d)
        PROVE  /\ life'[d] \in {"made", "established"} /\ LeavesMap(d)'
                    => Pends(loopOf[d], Destory(d))'
               /\ life'[d] = "reaped" => ~Pends(loopOf[d], Establish(d))'
    <3>1. loopOf[d] \in Loops BY <2>5 DEF LifeInv
    <3>2. CASE d = cur
      <4>1. loopOf[d] = l /\ Destory(d) = f BY <3>2 DEF f, l
      <4> QED BY <1>2, <2>1, <2>2, <2>4, <2>5, <3>1, <4>1 DEF DestoryInv
    <3>3. CASE d # cur
      <4>1. LeavesMap(d)' => LeavesMap(d) BY <2>3, <2>5, <3>3
      <4> QED BY <2>1, <2>4, <2>5, <3>1, <4>1 DEF DestoryInv
    <3> QED BY <3>2, <3>3
  <2> QED BY <2>4, <2>5 DEF DestoryInv, Alive
<1> QED BY <1>5, <1>7, <1>8, <1>9, <1>10, <1>11, <1>12, <1>13

\* Letting go of connections, as long as nobody lets go of one that epoll knows and that was
\* not told to destroy itself.
LEMMA FreeKeeps ==
  ASSUME ServerInv, Free(map', queue', taken'), UNCHANGED <<users, revived>>,
         \A c \in Clients : Held(c)' => Held(c),
         \A c \in known \ revived : Held(c)',
         \A s \in Loops : \A g : Pends(s, g)' <=> Pends(s, g),
         \A c \in Clients : LeavesMap(c)' => LeavesMap(c)
  PROVE  /\ LifeInv' /\ KnownInv' /\ UsersInv' /\ DestoryInv'
         /\ \A c \in Clients : /\ Held(c)' => life'[c] = life[c] /\ loopOf'[c] = loopOf[c]
                               /\ life[c] = "waiting" => life'[c] = "waiting"
         /\ \A c \in known \ revived : c \in known' /\ loopOf'[c] = loopOf[c]
<1> USE DEF ServerInv
<1>1. \A c \in Clients :
          IF Alive(c) /\ ~Held(c)'
          THEN life'[c] = "freed" /\ loopOf'[c] = None /\ c \notin known'
          ELSE life'[c] = life[c] /\ loopOf'[c] = loopOf[c] /\ (c \in known' <=> c \in known)
  BY FreeFacts
<1>2. \A c \in Clients : Alive(c)' <=> Held(c)' BY <1>1 DEF LifeInv, Alive
<1>3. \A c \in Clients : /\ Held(c)' => life'[c] = life[c] /\ loopOf'[c] = loopOf[c]
                         /\ life[c] = "waiting" => life'[c] = "waiting"
  BY <1>1 DEF Alive
<1>4. LifeInv' BY <1>2, <1>3 DEF LifeInv
<1>5. KnownInv'
  <2>1. known' \subseteq known /\ known \subseteq Clients BY FreeFacts DEF TypeOK
  <2> QED BY <1>1, <2>1 DEF KnownInv
<1>6. \A c \in known \ revived : c \in known' /\ loopOf'[c] = loopOf[c]
  BY <1>1, <1>3 DEF TypeOK
<1>7. DestoryInv'
  <2>1. ASSUME NEW c \in Clients, Alive(c)'
        PROVE  /\ life'[c] \in {"made", "established"} /\ LeavesMap(c)'
                    => Pends(loopOf[c], Destory(c))'
               /\ life'[c] = "reaped" => ~Pends(loopOf[c], Establish(c))'
    <3>1. /\ life'[c] = life[c] /\ loopOf'[c] = loopOf[c] /\ loopOf[c] \in Loops
      BY <1>2, <1>3, <2>1 DEF LifeInv
    <3> QED BY <3>1 DEF DestoryInv
  <2> QED BY <2>1 DEF DestoryInv, Alive
<1>8. UsersInv' BY <1>1, UsersKeep
<1> QED BY <1>3, <1>4, <1>5, <1>6, <1>7, <1>8

\* The map lets go of the connection; if epoll knows it, its connectDestory() holds it.
LEMMA ReapEraseKeeps == ASSUME ServerInv, ReapErase PROVE ServerInv'
<1> USE DEF ServerInv
<1>1. /\ bpc = "erase" /\ bpc' = "scan" /\ cur' = None /\ map' = map \ {cur}
      /\ Free(map', queue, taken)
      /\ UNCHANGED <<kernel, next, scan, sum, dt, checked, io, users, revived>>
  BY DEF ReapErase, Goto
<1>2. cur \in map /\ cur \notin scan BY <1>1 DEF CurInv
<1>3. \A d \in Clients : Held(d)' <=> d \in map' \/ HeldIn(queue, d) \/ HeldIn(taken, d)
  BY <1>1 DEF Held, HeldIn, io
<1>4. \A d \in Clients : Held(d)' => Held(d) BY <1>1, <1>3 DEF Held
<1>5. ASSUME NEW d \in known \ revived PROVE Held(d)'
  <2>1. d \in Clients /\ life[d] = "established" /\ loopOf[d] \in Loops
    BY DEF KnownInv, TypeOK, LifeInv, Alive
  <2>2. CASE d \in map' BY <1>3, <2>1, <2>2
  <2>3. CASE d \notin map'
    <3>1. Pends(loopOf[d], Destory(d)) BY <1>1, <2>1, <2>3 DEF DestoryInv, LeavesMap
    <3>2. HeldIn(queue, d) \/ HeldIn(taken, d)
      BY <2>1, <3>1, FunctorFacts DEF Pends, InBatch, InQueue, HeldIn
    <3> QED BY <1>3, <2>1, <3>2
  <2> QED BY <2>2, <2>3
<1>6. Free(map', queue', taken') BY <1>1 DEF io
<1>7. /\ \A s \in Loops : \A g : Pends(s, g)' <=> Pends(s, g)
      /\ \A d \in Clients : LeavesMap(d)' => LeavesMap(d)
  BY <1>1 DEF Pends, InBatch, InQueue, io, LeavesMap
<1>8. /\ LifeInv' /\ KnownInv' /\ UsersInv' /\ DestoryInv'
      /\ \A c \in Clients : /\ Held(c)' => life'[c] = life[c] /\ loopOf'[c] = loopOf[c]
                            /\ life[c] = "waiting" => life'[c] = "waiting"
      /\ \A c \in known \ revived : c \in known' /\ loopOf'[c] = loopOf[c]
  BY <1>1, <1>4, <1>5, <1>6, <1>7, FreeKeeps
<1>9. TypeOK'
  <2>1. scan \subseteq map' BY <1>1, <1>2 DEF TypeOK
  <2> QED BY <1>1, <1>6, <2>1, FreeFacts, ServerAssumption DEF TypeOK, kernel, io
<1>10. BacklogInv'
  <2>1. \A k \in DOMAIN backlog : backlog[k] \in Clients BY DEF TypeOK
  <2> QED BY <1>1, <1>8, <2>1 DEF BacklogInv, kernel
<1>11. LoopInv'
  <2>1. \A s \in Loops : /\ \A k \in DOMAIN queue[s] : Held(queue[s][k].conn)'
                         /\ \A k \in DOMAIN taken[s] : Held(taken[s][k].conn)'
    BY <1>1 DEF Held, HeldIn, io
  <2>2. \A s \in Loops : /\ \A k \in DOMAIN queue[s] : queue[s][k].conn \in Clients
                         /\ \A k \in DOMAIN taken[s] : taken[s][k].conn \in Clients
    BY FunctorsIn
  <2> QED BY <1>1, <1>8, <2>1, <2>2 DEF LoopInv, io
<1>12. OrderInv' BY <1>1 DEF OrderInv, Ordered, InQueue, io
<1>13. CurInv' BY <1>1, ServerAssumption DEF CurInv, TypeOK
<1> QED BY <1>8, <1>9, <1>10, <1>11, <1>12, <1>13

-----------------------------------------------------------------------------
(* The I/O loops.                                                          *)

\* A loop polls the connections it has, and dispatches what they tell; one of them may
\* be taken out of epoll.
LEMMA DispatchKeeps ==
  ASSUME ServerInv, NEW l \in Loops,
         \/ \E ready \in SUBSET Clients : IoPoll(l, ready)
         \/ \E c \in Clients : \/ HandleMessage(l, c) \/ HandleHeartbeat(l, c)
                               \/ HandleHangup(l, c)
  PROVE  ServerInv'
<1> USE DEF ServerInv
<1>1. ASSUME NEW ready \in SUBSET Clients, IoPoll(l, ready) PROVE ServerInv'
  <2> USE <1>1 DEF IoPoll, IoGoto, kernel, base, check, conn, reach, beat
  <2>1. TypeOK' BY DEF TypeOK
  <2>2. LifeInv' /\ KnownInv' /\ UsersInv' /\ OrderInv' /\ DestoryInv' BY CruxKeeps DEF crux
  <2>3. BacklogInv' /\ CurInv' BY DEF BacklogInv, CurInv
  <2>4. LoopInv' BY DEF LoopInv, TypeOK
  <2> QED BY <2>1, <2>2, <2>3, <2>4
<1>2. ASSUME NEW c \in Clients, HandleMessage(l, c) \/ HandleHeartbeat(l, c) PROVE ServerInv'
  <2>1. /\ ipc[l] = "dispatch" /\ active' = [active EXCEPT ![l] = @ \ {c}]
        /\ UNCHANGED <<kernel, base, ipc, queue, taken, pos, life, loopOf, known, revived>>
        /\ users' \subseteq users \union {c} /\ c \in active[l] /\ wronged' \subseteq Clients
        /\ heart' \in [Clients -> Int] /\ quiet' \in [Clients -> 0 .. HeartTime]
    <3>1. CASE HandleMessage(l, c) BY <3>1 DEF HandleMessage, Dispatch, beat, TypeOK
    <3>2. CASE HandleHeartbeat(l, c)
      BY <3>2, ServerAssumption DEF HandleHeartbeat, Dispatch, TypeOK, reach
    <3> QED BY <1>2, <3>1, <3>2
  <2> USE <2>1 DEF kernel, base, check
  <2>2. TypeOK' BY DEF TypeOK
  <2>3. LifeInv' /\ KnownInv' /\ OrderInv' /\ DestoryInv' BY CruxKeeps DEF crux
  <2>4. BacklogInv' /\ CurInv' BY DEF BacklogInv, CurInv
  <2>5. LoopInv'
    <3>1. \A s \in Loops : \A d \in active'[s] : d \in active[s] BY DEF TypeOK
    <3>2. \A s \in Loops : ipc[s] # "dispatch" => active'[s] = {} BY <3>1 DEF LoopInv
    <3>3. \A s \in Loops : \A d \in active'[s] : d \in revived \/ (d \in known /\ loopOf[d] = s)
      BY <3>1 DEF LoopInv
    <3> QED BY <3>2, <3>3 DEF LoopInv
  <2>6. UsersInv'
    <3>1. life[c] \in {"established", "reaped", "freed"} BY DEF LoopInv, KnownInv, UsersInv
    <3> QED BY <3>1 DEF UsersInv
  <2> QED BY <2>2, <2>3, <2>4, <2>5, <2>6
<1>3. ASSUME NEW c \in Clients, HandleHangup(l, c) PROVE ServerInv'
  <2>1. /\ ipc[l] = "dispatch" /\ c \in active[l] /\ active' = [active EXCEPT ![l] = @ \ {c}]
        /\ known' = known \ {c} \/ known' = known
        /\ UNCHANGED <<kernel, base, ipc, queue, taken, pos, life, loopOf, users, revived>>
        /\ UNCHANGED <<heart, quiet, wronged>>
    BY <1>3 DEF HandleHangup, Dispatch, beat
  <2> USE <2>1 DEF kernel, base, check
  <2>2. TypeOK' BY DEF TypeOK
  <2>3. LifeInv' BY DEF LifeInv, Alive, Held, HeldIn
  <2>4. BacklogInv' /\ CurInv' /\ KnownInv' /\ UsersInv'
    BY DEF BacklogInv, CurInv, KnownInv, UsersInv
  <2>5. OrderInv' BY DEF OrderInv, Ordered, InQueue
  <2>6. LoopInv'
    <3>1. \A s \in Loops : \A d \in active'[s] : d \in active[s] /\ (d # c \/ s # l)
      BY DEF TypeOK
    <3>2. c \in revived \/ loopOf[c] = l BY DEF LoopInv
    <3>3. \A s \in Loops : \A d \in active'[s] : d \in revived' \/ (d \in known' /\ loopOf'[d] = s)
      BY <3>1, <3>2 DEF LoopInv
    <3>4. \A s \in Loops : ipc[s] # "dispatch" => active[s] = {} BY DEF LoopInv
    <3>5. \A s \in Loops : ipc'[s] # "dispatch" => active'[s] = {} BY <3>1, <3>4
    <3> QED BY <3>3, <3>5 DEF LoopInv
  <2>7. DestoryInv' BY DEF DestoryInv, LeavesMap, Pends, InBatch, InQueue
  <2> QED BY <2>2, <2>3, <2>4, <2>5, <2>6, <2>7
<1> QED BY <1>1, <1>2, <1>3

\* What the user sends may make a connection known to epoll that has run its
\* connectDestory(): then it is one of the revived.
LEMMA SendKeeps ==
  ASSUME ServerInv, NEW l \in Loops, NEW d \in Clients, SendTo(l, d)
  PROVE  ServerInv'
<1> USE DEF ServerInv
<1>1. /\ d \in users /\ Alive(d) /\ known' = known \union {d}
      /\ revived' = IF life[d] = "reaped" THEN revived \union {d} ELSE revived
      /\ UNCHANGED <<kernel, base, io, life, loopOf, users, beat>>
  BY DEF SendTo
<1>2. d \in known' /\ revived \subseteq revived' /\ known \subseteq known' BY <1>1
<1>3. TypeOK' BY <1>1 DEF TypeOK, kernel, base, check, io, beat
<1>4. LifeInv' BY <1>1 DEF LifeInv, Alive, Held, HeldIn, base, io
<1>5. BacklogInv' /\ CurInv' BY <1>1 DEF BacklogInv, CurInv, kernel, base, check
<1>6. LoopInv'
  <2>1. \A s \in Loops : \A c \in active[s] : c \in revived' \/ (c \in known' /\ loopOf[c] = s)
    BY <1>2 DEF LoopInv
  <2> QED BY <1>1, <2>1 DEF LoopInv, io
<1>7. KnownInv' /\ UsersInv'
  <2>1. life[d] \in {"established", "reaped"} BY <1>1 DEF UsersInv, Alive
  <2> QED BY <1>1, <2>1 DEF KnownInv, UsersInv
<1>8. OrderInv' BY <1>1 DEF OrderInv, Ordered, InQueue, io
<1>9. DestoryInv' BY <1>1 DEF DestoryInv, LeavesMap, Pends, InBatch, InQueue, base, check, io
<1> QED BY <1>3, <1>4, <1>5, <1>6, <1>7, <1>8, <1>9

\* The queue becomes the batch, in its order.
LEMMA TakeCallsKeeps == ASSUME ServerInv, NEW l \in Loops, TakeCalls(l) PROVE ServerInv'
<1> USE DEF ServerInv
<1>1. /\ ipc[l] = "dispatch" /\ ipc' = [ipc EXCEPT ![l] = "run"] /\ active[l] = {}
      /\ taken' = [taken EXCEPT ![l] = queue[l]] /\ queue' = [queue EXCEPT ![l] = <<>>]
      /\ pos' = [pos EXCEPT ![l] = 0]
      /\ UNCHANGED <<kernel, base, active, conn>>
  BY DEF TakeCalls, IoGoto
<1>2. /\ taken'[l] = queue[l] /\ queue'[l] = <<>> /\ pos'[l] = 0
      /\ taken[l] = <<>> /\ pos[l] = 0
      /\ DOMAIN taken[l] = {} /\ DOMAIN queue'[l] = {}
      /\ \A s \in Loops : s # l => /\ taken'[s] = taken[s] /\ queue'[s] = queue[s]
                                   /\ pos'[s] = pos[s] /\ ipc'[s] = ipc[s]
      /\ ipc'[l] = "run"
  BY <1>1 DEF TypeOK, LoopInv
<1>3. queue[l] \in Seq(Functor) /\ Len(queue[l]) \in Nat /\ DOMAIN queue[l] = 1 .. Len(queue[l])
  BY DEF TypeOK
<1>4. TypeOK' BY <1>1, <1>3 DEF TypeOK, kernel, base, check, conn, reach, beat
<1>5. \A d : HeldIn(queue', d) \/ HeldIn(taken', d) <=> HeldIn(queue, d) \/ HeldIn(taken, d)
  <2>1. ASSUME NEW d, NEW s \in Loops
        PROVE  (\E k \in DOMAIN queue'[s] : queue'[s][k].conn = d)
                    \/ (\E k \in DOMAIN taken'[s] : taken'[s][k].conn = d)
               <=> (\E k \in DOMAIN queue[s] : queue[s][k].conn = d)
                    \/ (\E k \in DOMAIN taken[s] : taken[s][k].conn = d)
    <3>1. CASE s = l BY <1>2, <3>1
    <3>2. CASE s # l BY <1>2, <3>2
    <3> QED BY <3>1, <3>2
  <2> QED BY <2>1 DEF HeldIn
<1>6. \A d \in Clients : Alive(d)' = Alive(d) /\ (Held(d)' <=> Held(d))
  BY <1>1, <1>5 DEF Alive, Held, HeldIn, base, conn
<1>7. LifeInv' BY <1>1, <1>6 DEF LifeInv, conn
<1>8. BacklogInv' /\ KnownInv' /\ UsersInv' /\ CurInv'
  BY <1>1 DEF BacklogInv, KnownInv, UsersInv, CurInv, kernel, base, check, conn, reach
<1>9. LoopInv'
  <2>1. ASSUME NEW s \in Loops
        PROVE  /\ \A k \in DOMAIN queue'[s] : loopOf'[queue'[s][k].conn] = s
               /\ \A k \in DOMAIN taken'[s] : loopOf'[taken'[s][k].conn] = s
               /\ pos'[s] <= Len(taken'[s])
               /\ ipc'[s] # "run" => taken'[s] = <<>> /\ pos'[s] = 0
               /\ ipc'[s] # "dispatch" => active'[s] = {}
               /\ \A c \in active'[s] : c \in revived' \/ (c \in known' /\ loopOf'[c] = s)
    <3>1. CASE s = l BY <1>1, <1>2, <1>3, <3>1 DEF LoopInv, conn, reach
    <3>2. CASE s # l BY <1>1, <1>2, <3>2 DEF LoopInv, conn, reach
    <3> QED BY <3>1, <3>2
  <2> QED BY <2>1 DEF LoopInv
<1>10. OrderInv'
  <2>1. ASSUME NEW s \in Loops, NEW c \in Clients
        PROVE  /\ Ordered(queue'[s], c) /\ Ordered(taken'[s], c)
               /\ (\E j \in DOMAIN taken'[s] : taken'[s][j] = Destory(c))
                    => ~\E k \in DOMAIN queue'[s] : queue'[s][k] = Establish(c)
    <3>1. CASE s = l BY <1>2, <3>1 DEF OrderInv, Ordered
    <3>2. CASE s # l BY <1>2, <3>2 DEF OrderInv, Ordered, InQueue
    <3> QED BY <3>1, <3>2
  <2> QED BY <2>1 DEF OrderInv, InQueue
<1>11. DestoryInv'
  <2>1. ASSUME NEW s \in Loops, NEW g PROVE Pends(s, g)' <=> Pends(s, g)
    <3>1. CASE s = l BY <1>2, <1>3, <3>1 DEF Pends, InBatch, InQueue
    <3>2. CASE s # l BY <1>2, <3>2 DEF Pends, InBatch, InQueue
    <3> QED BY <3>1, <3>2
  <2>2. \A c \in Clients : LeavesMap(c)' <=> LeavesMap(c) BY <1>1 DEF LeavesMap, base, check
  <2>3. life' = life /\ loopOf' = loopOf BY <1>1 DEF conn
  <2>4. \A d \in Clients : Alive(d) => loopOf[d] \in Loops BY DEF LifeInv
  <2> QED BY <2>1, <2>2, <2>3, <2>4 DEF DestoryInv, Alive
<1> QED BY <1>4, <1>7, <1>8, <1>9, <1>10, <1>11

\* The batch is dropped: its calls have all been run, so no connection that epoll knows
\* is held by them alone.
LEMMA DropCallsKeeps == ASSUME ServerInv, NEW l \in Loops, DropCalls(l) PROVE ServerInv'
<1> USE DEF ServerInv
<1>1. /\ ipc[l] = "run" /\ ipc' = [ipc EXCEPT ![l] = "poll"] /\ pos[l] = Len(taken[l])
      /\ taken' = [taken EXCEPT ![l] = <<>>] /\ pos' = [pos EXCEPT ![l] = 0]
      /\ Free(map, queue, taken')
      /\ UNCHANGED <<kernel, base, queue, active, users, revived>>
  BY DEF DropCalls, IoGoto
<1>2. /\ taken'[l] = <<>> /\ pos'[l] = 0 /\ DOMAIN taken'[l] = {} /\ Len(taken'[l]) = 0
      /\ \A s \in Loops : s # l => /\ taken'[s] = taken[s] /\ pos'[s] = pos[s]
                                   /\ ipc'[s] = ipc[s]
      /\ ipc'[l] = "poll"
  BY <1>1 DEF TypeOK
<1>3. /\ Len(taken[l]) \in Nat /\ DOMAIN taken[l] = 1 .. Len(taken[l])
  BY DEF TypeOK
<1>4. Free(map', queue', taken') BY <1>1 DEF base
<1>5. \A d \in Clients : Held(d)' => Held(d)
  <2>1. \A d : HeldIn(taken, d)' => HeldIn(taken, d) BY <1>2 DEF HeldIn
  <2>2. \A d : HeldIn(queue, d)' <=> HeldIn(queue, d) BY <1>1 DEF HeldIn
  <2> QED BY <1>1, <2>1, <2>2 DEF Held, base
<1>6. \A s \in Loops : \A g : Pends(s, g)' <=> Pends(s, g)
  <2>1. ASSUME NEW s \in Loops, NEW g PROVE InBatch(s, g)' <=> InBatch(s, g)
    <3>1. CASE s = l BY <1>1, <1>2, <1>3, <3>1 DEF InBatch
    <3>2. CASE s # l BY <1>2, <3>2 DEF InBatch
    <3> QED BY <3>1, <3>2
  <2>2. \A s \in Loops : \A g : InQueue(s, g)' <=> InQueue(s, g) BY <1>1 DEF InQueue
  <2> QED BY <2>1, <2>2 DEF Pends
<1>7. ASSUME NEW d \in known \ revived PROVE Held(d)'
  <2>1. d \in Clients /\ life[d] = "established" /\ loopOf[d] \in Loops
    BY DEF KnownInv, TypeOK, LifeInv, Alive
  <2>2. CASE d \in map BY <1>1, <2>2 DEF Held, base
  <2>3. CASE d \notin map
    <3>1. Pends(loopOf[d], Destory(d)) BY <2>1, <2>3 DEF DestoryInv, LeavesMap
    <3>2. CASE InQueue(loopOf[d], Destory(d))
      BY <1>1, <2>1, <3>2, FunctorFacts DEF InQueue, Held, HeldIn
    <3>3. CASE InBatch(loopOf[d], Destory(d))
      <4>1. loopOf[d] # l BY <1>1, <1>3, <3>3 DEF InBatch
      <4>2. \E k \in DOMAIN taken'[loopOf[d]] : taken'[loopOf[d]][k].conn = d
        BY <1>2, <2>1, <3>3, <4>1, FunctorFacts DEF InBatch
      <4> QED BY <2>1, <4>2 DEF Held, HeldIn
    <3> QED BY <3>1, <3>2, <3>3 DEF Pends
  <2> QED BY <2>2, <2>3
<1>8. /\ LifeInv' /\ KnownInv' /\ UsersInv' /\ DestoryInv'
      /\ \A c \in Clients : /\ Held(c)' => life'[c] = life[c] /\ loopOf'[c] = loopOf[c]
                            /\ life[c] = "waiting" => life'[c] = "waiting"
      /\ \A c \in known \ revived : c \in known' /\ loopOf'[c] = loopOf[c]
  <2>1. \A d \in Clients : LeavesMap(d)' => LeavesMap(d) BY <1>1 DEF LeavesMap, base, check
  <2> QED BY <1>1, <1>4, <1>5, <1>6, <1>7, <2>1, FreeKeeps
<1>9. TypeOK'
  <2>1. taken' \in [Loops -> Seq(Functor)] /\ pos' \in [Loops -> Nat] BY <1>1 DEF TypeOK
  <2>2. ipc' \in [Loops -> {"poll", "dispatch", "run"}] BY <1>1 DEF TypeOK
  <2>3. /\ life' \in [Clients -> Lives] /\ loopOf' \in [Clients -> Loops \union {None}]
        /\ heart' \in [Clients -> Int] /\ quiet' \in [Clients -> 0 .. HeartTime]
        /\ known' \subseteq known /\ wronged' \subseteq wronged
    BY <1>4, FreeFacts
  <2> QED BY <1>1, <2>1, <2>2, <2>3 DEF TypeOK, kernel, base, check
<1>10. BacklogInv'
  <2>1. \A k \in DOMAIN backlog : backlog[k] \in Clients BY DEF TypeOK
  <2> QED BY <1>1, <1>8, <2>1 DEF BacklogInv, kernel, base
<1>11. LoopInv'
  <2>1. ASSUME NEW s \in Loops
        PROVE  /\ \A k \in DOMAIN queue'[s] : loopOf'[queue'[s][k].conn] = s
               /\ \A k \in DOMAIN taken'[s] : loopOf'[taken'[s][k].conn] = s
    <3>1. \A k \in DOMAIN queue'[s] : /\ queue'[s][k].conn \in Clients
                                      /\ \A d : d = queue'[s][k].conn => Held(d)'
      <4>1. \A k \in DOMAIN queue'[s] : \A d : d = queue'[s][k].conn => Held(d)'
        BY DEF Held, HeldIn
      <4> QED BY <1>1, <4>1, FunctorsIn
    <3>2. \A k \in DOMAIN taken'[s] : \A d : d = taken'[s][k].conn => Held(d)'
      BY DEF Held, HeldIn
    <3>3. \A k \in DOMAIN taken'[s] : /\ s # l /\ k \in DOMAIN taken[s]
                                      /\ taken'[s][k] = taken[s][k]
                                      /\ taken'[s][k].conn \in Clients
      BY <1>2, FunctorsIn
    <3> QED BY <1>1, <1>8, <3>1, <3>2, <3>3 DEF LoopInv
  <2>2. ASSUME NEW s \in Loops
        PROVE  /\ pos'[s] <= Len(taken'[s])
               /\ ipc'[s] # "run" => taken'[s] = <<>> /\ pos'[s] = 0
    BY <1>2 DEF LoopInv
  <2>3. ASSUME NEW s \in Loops
        PROVE  ipc'[s] # "dispatch" => active'[s] = {}
    BY <1>1, <1>2 DEF LoopInv
  <2>5. ASSUME NEW s \in Loops
        PROVE  \A c \in active'[s] : c \in revived' \/ (c \in known' /\ loopOf'[c] = s)
    BY <1>1, <1>8 DEF LoopInv
  <2> QED BY <2>1, <2>2, <2>3, <2>5 DEF LoopInv
<1>12. OrderInv'
  <2>1. ASSUME NEW s \in Loops, NEW c \in Clients
        PROVE  /\ Ordered(queue'[s], c) /\ Ordered(taken'[s], c)
               /\ (\E j \in DOMAIN taken'[s] : taken'[s][j] = Destory(c))
                    => ~\E k \in DOMAIN queue'[s] : queue'[s][k] = Establish(c)
    <3>1. CASE s = l BY <1>1, <1>2, <3>1 DEF OrderInv, Ordered
    <3>2. CASE s # l BY <1>1, <1>2, <3>2 DEF OrderInv, Ordered, InQueue
    <3> QED BY <3>1, <3>2
  <2> QED BY <2>1 DEF OrderInv, InQueue
<1>13. CurInv' BY <1>1 DEF CurInv, base, check
<1> QED BY <1>8, <1>9, <1>10, <1>11, <1>12, <1>13

\* A call is run.  A connectEstablished() finds the object alive, and its connectDestory(),
\* should the map have let go, is behind it; a connectDestory() is the last of its calls.
LEMMA RunCallKeeps == ASSUME ServerInv, NEW l \in Loops, RunCall(l) PROVE ServerInv'
<1> USE DEF ServerInv
<1> DEFINE i == pos[l] + 1
           f == taken[l][i]
           c == f.conn
<1>1. /\ ipc[l] = "run" /\ pos[l] < Len(taken[l]) /\ pos' = [pos EXCEPT ![l] = i]
      /\ \/ /\ f.op = "establish" /\ known' = known \union {c}
            /\ life' = [life EXCEPT ![c] = "established"]
         \/ /\ f.op = "destory" /\ known' = known \ {c}
            /\ life' = [life EXCEPT ![c] = "reaped"]
      /\ UNCHANGED <<kernel, base, ipc, queue, taken, active, loopOf, users, revived, beat>>
  BY DEF RunCall
<1>2. /\ pos[l] \in Nat /\ Len(taken[l]) \in Nat /\ DOMAIN taken[l] = 1 .. Len(taken[l])
      /\ i \in DOMAIN taken[l] /\ i <= Len(taken[l])
  BY <1>1 DEF TypeOK
<1>3. /\ pos'[l] = i /\ \A s \in Loops : s # l => pos'[s] = pos[s] BY <1>1 DEF TypeOK
<1>4. /\ f \in Functor /\ c \in Clients /\ Held(c) /\ Alive(c) /\ loopOf[c] = l
  <2>1. f \in Functor /\ c \in Clients BY <1>2, FunctorsIn
  <2>2. Held(c) BY <1>2 DEF Held, HeldIn
  <2> QED BY <1>2, <2>1, <2>2 DEF LifeInv, LoopInv
<1>5. \/ /\ f = Establish(c) /\ known' = known \union {c}
         /\ life' = [life EXCEPT ![c] = "established"]
      \/ /\ f = Destory(c) /\ known' = known \ {c}
         /\ life' = [life EXCEPT ![c] = "reaped"]
  BY <1>1, <1>4, FunctorFacts
<1> HIDE DEF c
<1>6. \A d \in Clients : /\ d # c => life'[d] = life[d]
                         /\ life'[c] = IF f = Establish(c) THEN "established" ELSE "reaped"
  BY <1>4, <1>5, FunctorFacts DEF TypeOK
<1>7. \A d \in Clients : (Alive(d)' <=> Alive(d)) /\ (Held(d)' <=> Held(d))
  <2>1. \A d \in Clients : Alive(d)' <=> Alive(d) BY <1>4, <1>6 DEF Alive
  <2>2. \A d \in Clients : Held(d)' <=> Held(d) BY <1>1 DEF Held, HeldIn, base
  <2> QED BY <2>1, <2>2
<1>8. TypeOK'
  <2>1. life' \in [Clients -> Lives] BY <1>4, <1>5 DEF TypeOK, Lives
  <2> QED BY <1>1, <1>2, <1>4, <1>5, <2>1 DEF TypeOK, kernel, base, check, beat
<1>9. LifeInv' BY <1>1, <1>7 DEF LifeInv
<1>10. BacklogInv'
  <2>1. life[c] # "waiting" BY <1>4 DEF Alive
  <2>2. \A k \in DOMAIN backlog : backlog[k] \in Clients BY DEF TypeOK
  <2> QED BY <1>1, <1>6, <2>1, <2>2 DEF BacklogInv, kernel, base
<1>11. LoopInv'
  <2>1. ASSUME NEW s \in Loops PROVE pos'[s] <= Len(taken'[s])
    BY <1>1, <1>2, <1>3 DEF LoopInv
  <2>2. \A s \in Loops : s = l \/ c \notin active[s] \/ c \in revived BY <1>4 DEF LoopInv
  <2>3. active[l] = {} BY <1>1 DEF LoopInv
  <2>4. ASSUME NEW s \in Loops
        PROVE  \A d \in active'[s] : d \in revived' \/ (d \in known' /\ loopOf'[d] = s)
    BY <1>1, <1>5, <2>2, <2>3 DEF LoopInv
  <2>5. ASSUME NEW s \in Loops PROVE ipc'[s] # "run" => taken'[s] = <<>> /\ pos'[s] = 0
    BY <1>1, <1>3 DEF LoopInv
  <2> QED BY <1>1, <2>1, <2>4, <2>5 DEF LoopInv
<1>12. KnownInv' /\ UsersInv'
  <2>1. KnownInv' BY <1>1, <1>4, <1>5, <1>6, FunctorFacts DEF KnownInv, TypeOK
  <2>2. UsersInv' BY <1>1, <1>6, UsersKeep
  <2> QED BY <2>1, <2>2
<1>13. OrderInv' BY <1>1 DEF OrderInv, Ordered, InQueue
<1>14. CurInv' BY <1>1 DEF CurInv, base, check
<1>15. DestoryInv'
  <2>1. \A s \in Loops : \A g : /\ g # f => (Pends(s, g)' <=> Pends(s, g))
                                /\ s # l => (Pends(s, g)' <=> Pends(s, g))
                                /\ Pends(s, g)' => Pends(s, g)
    <3>1. \A s \in Loops : \A g : /\ g # f => (InBatch(s, g)' <=> InBatch(s, g))
                                  /\ s # l => (InBatch(s, g)' <=> InBatch(s, g))
                                  /\ InBatch(s, g)' => InBatch(s, g)
      <4>1. ASSUME NEW s \in Loops, NEW g, s # l PROVE InBatch(s, g)' <=> InBatch(s, g)
        BY <1>1, <1>3, <4>1 DEF InBatch
      <4>2. ASSUME NEW g PROVE InBatch(l, g)' => InBatch(l, g)
        BY <1>1, <1>2, <1>3 DEF InBatch
      <4>3. ASSUME NEW g, g # f, InBatch(l, g) PROVE InBatch(l, g)'
        <5>1. PICK k \in DOMAIN taken[l] : k > pos[l] /\ taken[l][k] = g BY <4>3 DEF InBatch
        <5>2. k # i BY <4>3, <5>1
        <5>3. k > i BY <1>2, <5>1, <5>2
        <5> QED BY <1>1, <1>3, <5>1, <5>3 DEF InBatch
      <4> QED BY <4>1, <4>2, <4>3
    <3>2. \A s \in Loops : \A g : InQueue(s, g)' <=> InQueue(s, g) BY <1>1 DEF InQueue
    <3> QED BY <3>1, <3>2 DEF Pends
  <2>2. \A d : (LeavesMap(d)' <=> LeavesMap(d)) BY <1>1 DEF LeavesMap, base, check
  <2>3. ASSUME NEW d \in Clients, Alive(d)
        PROVE  /\ life'[d] \in {"made", "established"} /\ LeavesMap(d)'
                    => Pends(loopOf[d], Destory(d))'
               /\ life'[d] = "reaped" => ~Pends(loopOf[d], Establish(d))'
    <3>1. LeavesMap(d)' = LeavesMap(d) /\ loopOf[d] \in Loops /\ loopOf' = loopOf
      BY <1>1, <2>2, <2>3 DEF LifeInv
    <3>2. CASE d # c
      <4>1. life'[d] = life[d] /\ Destory(d) # f
        BY <1>5, <1>6, <3>2, FunctorFacts
      <4> QED BY <2>1, <3>1, <4>1 DEF DestoryInv
    <3>3. CASE d = c /\ f = Establish(c)
      <4>1. InBatch(l, Establish(c)) BY <1>2, <3>3 DEF InBatch
      <4>2. life[d] \in {"made", "established"} /\ life'[d] = "established"
        BY <1>4, <1>6, <2>3, <3>3, <4>1 DEF DestoryInv, Pends, Alive
      <4>3. Destory(d) # f BY <3>3, FunctorFacts
      <4> QED BY <2>1, <3>1, <4>2, <4>3 DEF DestoryInv
    <3>4. CASE d = c /\ f = Destory(c)
      <4>1. life'[d] = "reaped" BY <1>6, <3>4, FunctorFacts
      <4>2. ~InQueue(l, Establish(d)) BY <1>2, <1>4, <3>4 DEF OrderInv
      <4>3. ~Pends(l, Establish(d))'
        <5> SUFFICES ASSUME Pends(l, Establish(d))' PROVE FALSE OBVIOUS
        <5>1. PICK k \in DOMAIN taken[l] : k > i /\ taken[l][k] = Establish(d)
          BY <1>1, <1>3, <4>2 DEF Pends, InBatch, InQueue
        <5>2. k < i BY <1>2, <1>4, <3>4, <5>1 DEF OrderInv, Ordered
        <5> QED BY <1>2, <5>1, <5>2
      <4> QED BY <1>4, <3>1, <3>4, <4>1, <4>3
    <3> QED BY <1>5, <3>2, <3>3, <3>4
  <2> QED BY <1>7, <2>3 DEF DestoryInv, Alive
<1> QED BY <1>8, <1>9, <1>10, <1>11, <1>12, <1>13, <1>14, <1>15

-----------------------------------------------------------------------------
\* Every step of the server keeps the invariant.
LEMMA ServerStep == ServerInv /\ [Next]_vars => ServerInv'
<1> SUFFICES ASSUME ServerInv, [Next]_vars PROVE ServerInv' OBVIOUS
<1>1. CASE BaseStep
  BY <1>1, CheckKeeps, AcceptKeeps, ReapHandOverKeeps, ReapEraseKeeps DEF BaseStep
<1>2. CASE Tick BY <1>2, ClientsKeep
<1>3. CASE ClientStep BY <1>3, ServerAssumption, ClientsKeep, DispatchKeeps, SendKeeps DEF ClientStep
<1>4. ASSUME NEW l \in Loops, IoStep(l) PROVE ServerInv'
  <2>1. CASE \/ \E ready \in SUBSET Clients : IoPoll(l, ready)
             \/ \E c \in Clients : \/ HandleMessage(l, c) \/ HandleHeartbeat(l, c)
                                   \/ HandleHangup(l, c)
    BY <2>1, DispatchKeeps
  <2>2. CASE TakeCalls(l) BY <2>2, TakeCallsKeeps
  <2>3. CASE RunCall(l) BY <2>3, RunCallKeeps
  <2>4. CASE DropCalls(l) BY <2>4, DropCallsKeeps
  <2> QED BY <1>4, <2>1, <2>2, <2>3, <2>4 DEF IoStep
<1>5. CASE UNCHANGED vars
  <2> USE <1>5 DEF vars, kernel, base, check, io, conn, reach, beat, ServerInv
  <2>1. TypeOK' BY DEF TypeOK
  <2>2. LifeInv' /\ KnownInv' /\ UsersInv' /\ OrderInv' /\ DestoryInv' BY CruxKeeps DEF crux
  <2>3. BacklogInv' /\ LoopInv' /\ CurInv' BY DEF BacklogInv, LoopInv, CurInv
  <2> QED BY <2>1, <2>2, <2>3
<1> QED BY <1>1, <1>2, <1>3, <1>4, <1>5 DEF Next

\* The inductive invariant: who holds a connection, what its loop has still to run for it,
\* and who waits at the listening socket.
THEOREM ServerInvHolds == Spec => []ServerInv
<1> QED BY InitServer, ServerStep, PTL DEF Spec

\* What remains of the batch, and the queue behind it, is what is still to be run.
LEMMA PendingRange ==
  ASSUME TypeOK, NEW l \in Loops, NEW f, Pends(l, f)
  PROVE  f \in Range(Pending(l))
<1> DEFINE m == Len(taken[l])
           p == pos[l]
           rest == SubSeq(taken[l], p + 1, m)
           q == queue[l]
           n == Len(rest)
<1>1. taken[l] \in Seq(Functor) /\ q \in Seq(Functor) /\ p \in Nat BY DEF TypeOK
<1>2. /\ m \in Nat /\ DOMAIN taken[l] = 1 .. m /\ \A k \in p + 1 .. m : taken[l][k] \in Functor
      /\ p + 1 \in Int /\ m \in Int
  BY <1>1, LenProperties
<1>3. /\ rest \in Seq(Functor) /\ n = (IF p + 1 <= m THEN m - (p + 1) + 1 ELSE 0)
      /\ \A k \in 1 .. m - (p + 1) + 1 : rest[k] = taken[l][(p + 1) + k - 1]
  <2> HIDE DEF m, p
  <2> QED BY <1>2, SubSeqProperties
<1>4. /\ rest \o q \in Seq(Functor) /\ Len(rest \o q) = n + Len(q)
      /\ \A k \in 1 .. (n + Len(q)) : (rest \o q)[k] = IF k <= n THEN rest[k] ELSE q[k - n]
  <2> HIDE DEF rest, q
  <2> QED BY <1>1, <1>3, ConcatProperties
<1>5. /\ DOMAIN (rest \o q) = 1 .. (n + Len(q)) /\ n \in Nat
      /\ Len(q) \in Nat /\ DOMAIN q = 1 .. Len(q)
  <2> HIDE DEF rest, q
  <2> QED BY <1>1, <1>3, <1>4, LenProperties
<1> HIDE DEF rest, n, q, m, p
<1>6. CASE InBatch(l, f)
  <2>1. PICK k \in 1 .. m : k > p /\ taken[l][k] = f BY <1>2, <1>6 DEF InBatch, p
  <2>2. k - p \in 1 .. n /\ k - p \in 1 .. m - (p + 1) + 1 /\ (p + 1) + (k - p) - 1 = k
    BY <1>1, <1>2, <1>3, <2>1
  <2>3. rest[k - p] = f BY <1>3, <2>1, <2>2
  <2>4. k - p \in DOMAIN (rest \o q) /\ (rest \o q)[k - p] = f
    BY <1>4, <1>5, <2>2, <2>3
  <2> QED BY <2>4 DEF Range, Pending, rest, m, p, q
<1>7. CASE InQueue(l, f)
  <2>1. PICK k \in 1 .. Len(q) : q[k] = f BY <1>5, <1>7 DEF InQueue, q
  <2>2. k + n \in DOMAIN (rest \o q) /\ (k + n) - n = k /\ ~(k + n <= n)
    BY <1>5, <2>1
  <2>3. (rest \o q)[k + n] = f BY <1>4, <1>5, <2>1, <2>2
  <2> QED BY <2>2, <2>3 DEF Range, Pending, rest, m, p, q
<1> QED BY <1>6, <1>7 DEF Pends

\* No loop reaches a connection that is destroyed, unless it was sent to too late: epoll's
\* raw pointer is good until the loop has taken the channel out, and if the map has let go,
\* the call that does it comes.
THEOREM ChannelsOutliveTheirUse == Spec => []NoDanglingChannel
<1>1. ServerInv => NoDanglingChannel
  <2> SUFFICES ASSUME ServerInv PROVE NoDanglingChannel OBVIOUS
  <2> USE DEF ServerInv
  <2>1. \A c \in Clients : c \in known \/ (\E l \in Loops : c \in active[l])
                             => life[c] = "established" \/ c \in revived
    BY DEF LoopInv, KnownInv
  <2>2. ASSUME NEW c \in known \ (map \union revived)
        PROVE  [op |-> "destory", conn |-> c] \in Range(Pending(loopOf[c]))
    <3>1. c \in Clients /\ life[c] = "established" /\ loopOf[c] \in Loops
      BY DEF KnownInv, TypeOK, LifeInv, Alive
    <3>2. Pends(loopOf[c], Destory(c)) BY <3>1 DEF DestoryInv, LeavesMap
    <3>3. Destory(c) \in Range(Pending(loopOf[c])) BY <3>1, <3>2, PendingRange
    <3> QED BY <3>3 DEF Destory
  <2> QED BY <2>1, <2>2 DEF NoDanglingChannel
<1> QED BY <1>1, ServerInvHolds, PTL

\* accept() finds a client whenever the listening socket is reported: one waits for each
\* report, and another one for the accept() that is on its way.
THEOREM AcceptAlwaysFinds == Spec => []AcceptFindsClient
<1>1. ServerInv => AcceptFindsClient
  BY DEF ServerInv, AcceptFindsClient, BacklogInv, TypeOK
<1> QED BY <1>1, ServerInvHolds, PTL

-----------------------------------------------------------------------------
(* The heartbeat check's patience.  oldTime_ is read by the first check     *)
(* before anything has set it: whatever it adds, and whatever reset is      *)
(* overwritten, is undone by the next heartbeat.                            *)

\* The counts are numbers.
LEMMA Counts ==
  ASSUME TypeOK
  PROVE  /\ \A c \in Clients : /\ heart[c] \in Int
                              /\ quiet[c] \in Nat /\ quiet[c] <= HeartTime
         /\ elapsed \in Nat /\ elapsed <= MaxTurn /\ sum \in Int /\ dt \in Int
         /\ MaxTurn \in Nat /\ HeartTime \in Nat
BY ServerAssumption DEF TypeOK

\* Letting go of connections wipes their counts.
LEMMA FreesPatiently ==
  ASSUME ServerInv, ServerInv', PatienceInv, Free(map', queue', taken'),
         UNCHANGED <<elapsed, scan, dt, checked>>,
         NEW c \in Clients
  PROVE  Patient(c)'
<1> USE ServerAssumption DEF ServerInv, PatienceInv, TypeOK
<1>1. /\ Alive(c)' <=> Held(c)'
      /\ IF Alive(c) /\ ~Held(c)'
         THEN heart'[c] = 0 /\ quiet'[c] = 0
         ELSE heart'[c] = heart[c] /\ quiet'[c] = quiet[c] /\ (c \in wronged' <=> c \in wronged)
  BY FreeFacts DEF LifeInv
<1>2. c \in scan' => Held(c)' BY DEF Held
<1>3. CASE Alive(c) /\ ~Held(c)' BY <1>1, <1>2, <1>3 DEF Patient
<1>4. CASE ~(Alive(c) /\ ~Held(c)') BY <1>1, <1>4 DEF Patient
<1> QED BY <1>3, <1>4

\* The base loop's own steps, and the time that passes meanwhile.
LEMMA BasePatience ==
  ASSUME ServerInv, ServerInv', PatienceInv, BaseStep \/ Tick
  PROVE  PatienceInv'
<1>0. TypeOK /\ CheckInv /\ \A c \in Clients : Patient(c) BY DEF ServerInv, PatienceInv
<1> USE ServerAssumption DEF ServerInv, PatienceInv, TypeOK, Goto, Capped
<1>1. \A c \in Clients : c \in map => Alive(c) BY DEF LifeInv, Held
<1>2. CASE Tick
  <2> USE <1>2 DEF Tick, base, check
  <2>1. \A c \in Clients : Alive(c)' <=> Alive(c) BY DEF Alive
  <2>2. CheckInv' BY <1>1 DEF CheckInv, CurInv
  <2>3. ASSUME NEW c \in Clients PROVE Patient(c)'
    <3>1. /\ elapsed' = elapsed + 1 /\ UNCHANGED <<scan, dt, checked, heart, wronged>>
          /\ quiet'[c] = IF Alive(c) THEN IF quiet[c] + 1 < HeartTime THEN quiet[c] + 1
                                                                      ELSE HeartTime
                                    ELSE quiet[c]
          /\ ~Alive(c) => c \notin scan
      BY <1>1
    <3> HIDE <1>2 DEF Tick, ServerInv, PatienceInv, TypeOK, Goto, Capped, base, check
    <3> QED BY <1>0, <2>1, <3>1, Counts DEF Patient
  <2> QED BY <2>2, <2>3
<1>3. CASE BasePoll
  BY <1>3 DEF BasePoll, check, conn, reach, beat, Patient, CheckInv, Alive
<1>4. CASE CheckEnds
  <2>1. /\ bpc' = "poll" /\ scan' = {} /\ dt' = 0
        /\ UNCHANGED <<elapsed, life, heart, quiet, wronged>>
    BY <1>4 DEF CheckEnds, kernel, conn, beat
  <2>2. CheckInv' BY <2>1 DEF CheckInv
  <2>3. ASSUME NEW c \in Clients PROVE Patient(c)'
    <3>1. Alive(c)' <=> Alive(c) BY <2>1 DEF Alive
    <3> QED BY <2>1, <3>1 DEF Patient
  <2> QED BY <2>2, <2>3
<1>5. CASE Accept
  <2> DEFINE a == NextClient
  <2>1. /\ bpc' = "heart" /\ UNCHANGED <<elapsed, check, heart, quiet, wronged>>
        /\ life' = [life EXCEPT ![a] = "made"]
    BY <1>5 DEF Accept, beat
  <2> HIDE DEF a
  <2>2. \A c \in Clients : Alive(c) => Alive(c)' BY <2>1 DEF Alive
  <2> QED BY <2>1, <2>2 DEF Patient, CheckInv, check
<1>6. CASE CheckBegins
  <2>1. /\ bpc' = "scan" /\ dt' \in Int /\ (checked => dt' = elapsed)
        /\ elapsed' = 0 /\ UNCHANGED <<checked, life, heart, quiet, wronged>>
    BY <1>6 DEF CheckBegins, conn, beat
  <2>2. CheckInv' BY <2>1 DEF CheckInv
  <2>3. ASSUME NEW c \in Clients PROVE Patient(c)'
    <3>1. Alive(c)' <=> Alive(c) BY <2>1 DEF Alive
    <3> HIDE DEF ServerInv, PatienceInv, TypeOK, Goto, Capped
    <3> QED BY <1>0, <2>1, <3>1, Counts DEF Patient
  <2> QED BY <2>2, <2>3
<1>7. ASSUME NEW c \in Clients, ReadHeart(c) PROVE PatienceInv'
  BY <1>7 DEF ReadHeart, kernel, conn, beat, Patient, CheckInv, Alive
<1>8. CASE AddToHeart
  <2>1. /\ bpc = "add" /\ bpc' # "add" /\ cur \in map /\ cur \notin scan
        /\ heart' = [heart EXCEPT ![cur] = Capped(sum + dt)]
        /\ wronged' = IF checked THEN wronged ELSE wronged \union {cur}
        /\ UNCHANGED <<elapsed, scan, dt, checked, life, quiet>>
    BY <1>8 DEF AddToHeart, CurInv, CheckInv, kernel
  <2>2. \A c \in Clients : Alive(c)' <=> Alive(c) BY <2>1 DEF Alive
  <2>3. CheckInv' BY <2>1 DEF CheckInv
  <2>4. ASSUME NEW c \in Clients PROVE Patient(c)'
    <3>1. CASE c = cur
      <4>1. heart'[c] <= sum + dt /\ quiet'[c] = quiet[c] /\ heart'[c] \in Int
        BY <2>1, <3>1
      <4>2. Alive(c)' /\ c \notin scan' /\ (checked \/ c \in wronged')
            /\ (c \in wronged => c \in wronged')
        BY <1>1, <2>1, <2>2, <3>1
      <4> HIDE DEF ServerInv, PatienceInv, TypeOK, Goto, Capped
      <4> QED BY <1>0, <2>1, <3>1, <4>1, <4>2, Counts DEF Patient, CheckInv
    <3>2. CASE c # cur BY <2>1, <2>2, <3>2 DEF Patient
    <3> QED BY <3>1, <3>2
  <2> QED BY <2>3, <2>4
<1>9. CASE ReapHandOver
  BY <1>9 DEF ReapHandOver, kernel, check, conn, beat, Patient, CheckInv, Alive
<1>10. CASE ReapErase
  <2>1. /\ bpc = "erase" /\ bpc' = "scan" /\ UNCHANGED <<kernel, scan, sum, dt, checked>>
        /\ Free(map', queue', taken')
    BY <1>10 DEF ReapErase, io
  <2>2. CheckInv' BY <2>1 DEF CheckInv
  <2>3. ASSUME NEW c \in Clients PROVE Patient(c)' BY <2>1, FreesPatiently DEF kernel
  <2> QED BY <2>2, <2>3
<1> QED BY <1>2, <1>3, <1>4, <1>5, <1>6, <1>7, <1>8, <1>9, <1>10 DEF BaseStep

\* The I/O loops: a heartbeat brings both counts back, except that one which comes just
\* while the check adds to heartTime_ is overwritten.
LEMMA IoPatience ==
  ASSUME ServerInv, ServerInv', PatienceInv,
         ClientStep \/ \E l \in Loops : IoStep(l)
  PROVE  PatienceInv'
<1>0. TypeOK /\ CheckInv /\ \A c \in Clients : Patient(c) BY DEF ServerInv, PatienceInv
<1> USE ServerAssumption DEF ServerInv, PatienceInv, TypeOK
<1>1. ASSUME UNCHANGED <<elapsed, bpc, check, heart, quiet, wronged>>,
             \A c \in Clients : Alive(c)' <=> Alive(c)
      PROVE  PatienceInv'
  BY <1>1 DEF Patient, CheckInv, check
<1>2. ASSUME NEW c \in Clients, Connect(c) PROVE PatienceInv'
  BY <1>1, <1>2 DEF Connect, base, beat, Alive
<1>3. ASSUME NEW l \in Loops, NEW ready \in SUBSET Clients, IoPoll(l, ready) PROVE PatienceInv'
  BY <1>1, <1>3 DEF IoPoll, kernel, base, conn, beat, Alive
<1>4. ASSUME NEW l \in Loops, NEW c \in Clients,
             HandleMessage(l, c) \/ HandleHangup(l, c) \/ SendTo(l, c)
      PROVE  PatienceInv'
  BY <1>1, <1>4 DEF HandleMessage, HandleHangup, SendTo, kernel, base, beat, Alive
<1>5. ASSUME NEW l \in Loops, TakeCalls(l) PROVE PatienceInv'
  BY <1>1, <1>5 DEF TakeCalls, kernel, base, conn, beat, Alive
<1>6. ASSUME NEW l \in Loops, RunCall(l) PROVE PatienceInv'
  <2>1. UNCHANGED <<elapsed, bpc, map, check, queue, taken, heart, quiet, wronged>>
    BY <1>6 DEF RunCall, kernel, base, beat
  <2>2. \A c \in Clients : Held(c)' <=> Held(c) BY <2>1 DEF Held, HeldIn
  <2>3. \A c \in Clients : Alive(c)' <=> Alive(c) BY <2>2 DEF LifeInv
  <2> QED BY <1>1, <2>1, <2>3
<1>7. ASSUME NEW l \in Loops, NEW c \in Clients, HandleHeartbeat(l, c) PROVE PatienceInv'
  <2>1. /\ UNCHANGED <<elapsed, bpc, check, life>> /\ Alive(c)
        /\ heart' = [heart EXCEPT ![c] = 0] /\ quiet' = [quiet EXCEPT ![c] = 0]
        /\ wronged' = IF bpc = "add" /\ cur = c THEN wronged \union {c} ELSE wronged \ {c}
    BY <1>7 DEF HandleHeartbeat, kernel, base
  <2>2. CheckInv' BY <2>1 DEF CheckInv, CurInv, check
  <2>3. ASSUME NEW d \in Clients PROVE Patient(d)'
    <3>1. Alive(d)' <=> Alive(d) BY <2>1 DEF Alive
    <3>2. CASE d # c BY <2>1, <3>1, <3>2 DEF Patient, check
    <3>3. CASE d = c
      <4>1. heart'[d] = 0 /\ quiet'[d] = 0 BY <2>1, <3>3
      <4>2. UNCHANGED <<scan, dt, checked, elapsed>> BY <2>1 DEF check
      <4> HIDE DEF ServerInv, PatienceInv, TypeOK
      <4> QED BY <1>0, <4>1, <4>2, Counts DEF Patient, CheckInv
    <3> QED BY <3>2, <3>3
  <2> QED BY <2>2, <2>3
<1>8. ASSUME NEW l \in Loops, DropCalls(l) PROVE PatienceInv'
  <2>1. UNCHANGED <<kernel, base>> /\ Free(map', queue', taken')
    BY <1>8 DEF DropCalls, base
  <2>2. \A c \in Clients : Patient(c)' BY <2>1, FreesPatiently DEF kernel, base, check
  <2>3. bpc = "add" => cur \in Clients /\ Held(cur)' BY <2>1 DEF CurInv, Held, base, check
  <2>4. bpc = "add" => quiet'[cur] = quiet[cur] /\ (cur \in wronged' <=> cur \in wronged)
    BY <2>1, <2>3, FreeFacts DEF base, check
  <2>5. CheckInv' BY <2>1, <2>4 DEF CheckInv, kernel, base, check
  <2> QED BY <2>2, <2>5
<1> QED BY <1>2, <1>3, <1>4, <1>5, <1>6, <1>7, <1>8 DEF ClientStep, IoStep

\* Nobody is taken for dead, as long as the time since its last heartbeat, and two turns of
\* the base loop, do not make up HEART_TIME: whatever the first check takes for the time
\* elapsed, but for those it has added this to, and those whose last reset was overwritten.
THEOREM PatienceIsKept == Spec => NotReapedEarly
<1>1. Init => PatienceInv
  BY ServerAssumption DEF Init, PatienceInv, CheckInv, Patient
<1>2. ServerInv /\ ServerInv' /\ PatienceInv /\ [Next]_vars => PatienceInv'
  <2> SUFFICES ASSUME ServerInv, ServerInv', PatienceInv, [Next]_vars PROVE PatienceInv'
    OBVIOUS
  <2>1. CASE BaseStep \/ Tick BY <2>1, BasePatience
  <2>2. CASE ClientStep \/ \E l \in Loops : IoStep(l) BY <2>2, IoPatience
  <2>3. CASE UNCHANGED vars
    BY <2>3 DEF vars, kernel, base, check, conn, beat, PatienceInv, CheckInv, Patient, Alive
  <2> QED BY <2>1, <2>2, <2>3 DEF Next
<1>3. ServerInv /\ PatienceInv /\ [Next]_vars
        => [Condemns => cur \in wronged' \/ quiet[cur] + 2 * MaxTurn >= HeartTime]_vars
  <2> SUFFICES ASSUME ServerInv, PatienceInv, [Next]_vars, Condemns
               PROVE  cur \in wronged' \/ quiet[cur] + 2 * MaxTurn >= HeartTime
    OBVIOUS
  <2>1. AddToHeart
    BY DEF Condemns, Next, BaseStep, ClientStep, IoStep, Tick, BasePoll, Accept, CheckBegins,
           ReapHandOver, ReapErase, CheckEnds, ReadHeart, Connect, IoPoll, TakeCalls, RunCall,
           DropCalls, HandleMessage, HandleHeartbeat, HandleHangup, SendTo, Goto, base, vars
  <2>2. /\ sum + dt >= HeartTime
        /\ wronged' = IF checked THEN wronged ELSE wronged \union {cur}
    BY <2>1 DEF AddToHeart, Goto, Condemns
  <2>3. cur \in Clients BY DEF Condemns, ServerInv, CurInv, TypeOK
  <2> QED BY <2>2, <2>3, ServerAssumption
          DEF Condemns, ServerInv, PatienceInv, CheckInv, TypeOK
<1> QED BY <1>1, <1>2, <1>3, ServerInvHolds, PTL DEF Spec, NotReapedEarly

-----------------------------------------------------------------------------
(* The loops of the pool, as lines of calls (ServerLoops).                  *)

\* Loop l has run the functor.
HasRun(l, f) == \E k \in DOMAIN ran[l] : ran[l][k] = f

\* The client was accepted, whatever has become of its connection.
Came(c) == life[c] \notin {"away", "waiting"}

\* A connection has a functor in a line, the one that establishes it, only if it was
\* accepted, and the one that destroys it only if the map has let go of it, or is about to.
RanInv ==
    /\ ran \in [Loops -> Seq(Functor)]
    /\ \A l \in Loops : \A c \in Clients :
           /\ HasRun(l, Establish(c)) => Came(c)
           /\ HasRun(l, Destory(c)) \/ Pends(l, Destory(c)) => Came(c) /\ LeavesMap(c)

\* Appending to a concatenation appends to its second part.
LEMMA AppendToConcat ==
  ASSUME NEW S, NEW s \in Seq(S), NEW t \in Seq(S), NEW e \in S
  PROVE  s \o Append(t, e) = Append(s \o t, e)
<1>1. Append(t, e) = t \o <<e>> /\ <<e>> \in Seq(S) BY AppendIsConcat
<1>2. s \o (t \o <<e>>) = (s \o t) \o <<e>> BY <1>1, ConcatAssociative
<1>3. s \o t \in Seq(S) BY ConcatProperties
<1> QED BY <1>1, <1>2, <1>3, AppendIsConcat

\* A functor in the line of a loop has been run or is still to be run.
LEMMA LineHas ==
  ASSUME TypeOK, RanInv, NEW l \in Loops, NEW f, f \in Range(LoopLine(l))
  PROVE  HasRun(l, f) \/ Pends(l, f)
<1> DEFINE r == ran[l]
           b == taken[l]
           p == pos[l]
           m == Len(b)
           rest == SubSeq(b, p + 1, m)
           q == queue[l]
           w == rest \o q
<1>1. r \in Seq(Functor) /\ b \in Seq(Functor) /\ q \in Seq(Functor) /\ p \in Nat
  BY DEF TypeOK, RanInv
<1>2. /\ m \in Nat /\ DOMAIN b = 1 .. m /\ \A k \in p + 1 .. m : b[k] \in Functor
      /\ p + 1 \in Int /\ m \in Int
  BY <1>1, LenProperties
<1>3. /\ rest \in Seq(Functor) /\ Len(rest) = (IF p + 1 <= m THEN m - (p + 1) + 1 ELSE 0)
      /\ \A k \in 1 .. m - (p + 1) + 1 : rest[k] = b[(p + 1) + k - 1]
  <2> HIDE DEF b, m, p
  <2> QED BY <1>2, SubSeqProperties
<1> HIDE DEF rest
<1>4. /\ w \in Seq(Functor) /\ Len(w) = Len(rest) + Len(q)
      /\ \A k \in 1 .. Len(rest) + Len(q) :
             w[k] = IF k <= Len(rest) THEN rest[k] ELSE q[k - Len(rest)]
  <2> HIDE DEF q
  <2> QED BY <1>1, <1>3, ConcatProperties
<1> HIDE DEF w
<1>5. /\ Len(r \o w) = Len(r) + Len(w) /\ r \o w \in Seq(Functor)
      /\ \A k \in 1 .. Len(r) + Len(w) : (r \o w)[k] = IF k <= Len(r) THEN r[k] ELSE w[k - Len(r)]
  <2>1. r \in Seq(Functor) /\ w \in Seq(Functor) BY <1>1, <1>4
  <2> HIDE DEF r
  <2> QED BY ONLY <2>1, ConcatProperties
<1>6. LoopLine(l) = r \o w BY DEF LoopLine, Pending, r, w, rest, q, b, p, m
<1>7. /\ DOMAIN (r \o w) = 1 .. Len(r) + Len(w)
      /\ Len(r) \in Nat /\ Len(w) \in Nat /\ Len(rest) \in Nat /\ Len(q) \in Nat
      /\ DOMAIN r = 1 .. Len(r) /\ DOMAIN q = 1 .. Len(q)
  <2> HIDE DEF r, q
  <2> QED BY <1>1, <1>3, <1>4, <1>5, LenProperties
<1> HIDE DEF r, q, b, p, m
<1>8. PICK i \in 1 .. Len(r) + Len(w) : (r \o w)[i] = f BY <1>6, <1>7 DEF Range
<1>9. CASE i <= Len(r)
  <2>1. i \in DOMAIN r /\ r[i] = f BY <1>5, <1>7, <1>8, <1>9
  <2> QED BY <2>1 DEF HasRun, r
<1>10. CASE ~(i <= Len(r)) /\ i - Len(r) <= Len(rest)
  <2> DEFINE j == i - Len(r)
  <2>1. j \in 1 .. Len(rest) /\ j \in 1 .. Len(rest) + Len(q) BY <1>7, <1>8, <1>10
  <2>2. rest[j] = f BY <1>4, <1>5, <1>8, <1>10, <2>1
  <2> HIDE DEF j
  <2>3. /\ j \in 1 .. m - (p + 1) + 1 /\ (p + 1) + j - 1 = p + j
        /\ p + j \in 1 .. m /\ p + j > p
    BY <1>1, <1>2, <1>3, <1>7, <2>1
  <2>4. b[p + j] = f BY <1>3, <2>2, <2>3
  <2> QED BY <1>2, <2>3, <2>4 DEF Pends, InBatch, b, p
<1>11. CASE ~(i <= Len(r)) /\ ~(i - Len(r) <= Len(rest))
  <2> DEFINE j == i - Len(r)
  <2>1. j \in 1 .. Len(rest) + Len(q) /\ j - Len(rest) \in 1 .. Len(q)
    BY <1>4, <1>7, <1>8, <1>11
  <2>2. q[j - Len(rest)] = f BY <1>4, <1>5, <1>8, <1>11, <2>1
  <2> QED BY <1>7, <2>1, <2>2 DEF Pends, InQueue, q
<1> QED BY <1>9, <1>10, <1>11

\* A call handed over is the last of its loop's line, and of no other.
LEMMA HandOverExtends ==
  ASSUME TypeOK, RanInv, NEW l \in Loops, NEW op \in {"establish", "destory"},
         NEW c \in Clients, NEW f \in Functor, f = [op |-> op, conn |-> c],
         HandOver(l, op, c), UNCHANGED <<taken, pos, ran>>
  PROVE  /\ LoopLine(l)' = Append(LoopLine(l), f)
         /\ \A s \in Loops : s # l => LoopLine(s)' = LoopLine(s)
<1> DEFINE rest == SubSeq(taken[l], pos[l] + 1, Len(taken[l]))
<1>1. /\ queue'[l] = Append(queue[l], f)
      /\ \A s \in Loops : s # l => queue'[s] = queue[s]
  BY DEF HandOver, TypeOK
<1>2. queue[l] \in Seq(Functor) /\ taken[l] \in Seq(Functor) /\ ran[l] \in Seq(Functor)
      /\ pos[l] \in Nat
  BY DEF TypeOK, RanInv
<1>3. rest \in Seq(Functor)
  <2>1. /\ pos[l] + 1 \in Int /\ Len(taken[l]) \in Int
        /\ \A i \in pos[l] + 1 .. Len(taken[l]) : taken[l][i] \in Functor
    BY <1>2
  <2> QED BY <2>1, SubSeqProperties
<1>4. Pending(l) = rest \o queue[l] /\ Pending(l)' = rest \o Append(queue[l], f)
  BY <1>1 DEF Pending
<1> HIDE DEF rest
<1>5. /\ rest \o Append(queue[l], f) = Append(rest \o queue[l], f)
      /\ rest \o queue[l] \in Seq(Functor)
  BY <1>2, <1>3, AppendToConcat, ConcatProperties
<1>6. ran[l] \o Append(rest \o queue[l], f) = Append(ran[l] \o (rest \o queue[l]), f)
  <2> DEFINE r == ran[l]
             w == rest \o queue[l]
  <2>1. r \in Seq(Functor) /\ w \in Seq(Functor) /\ f \in Functor BY <1>2, <1>5
  <2> HIDE DEF r, w
  <2>2. r \o Append(w, f) = Append(r \o w, f) BY ONLY <2>1, AppendToConcat
  <2> QED BY <2>2 DEF r, w
<1>7. LoopLine(l)' = Append(LoopLine(l), f) BY <1>4, <1>5, <1>6 DEF LoopLine
<1>8. \A s \in Loops : s # l => LoopLine(s)' = LoopLine(s) BY <1>1 DEF LoopLine, Pending
<1> QED BY <1>7, <1>8

\* The batch is taken as a whole: what was queued remains to be run, in its order.
LEMMA TakeKeepsLine ==
  ASSUME ServerInv, NEW l \in Loops, TakeCalls(l)
  PROVE  \A s \in Loops : Pending(s)' = Pending(s)
<1>1. /\ taken'[l] = queue[l] /\ queue'[l] = <<>> /\ pos'[l] = 0
      /\ \A s \in Loops : s # l => /\ taken'[s] = taken[s] /\ queue'[s] = queue[s]
                                   /\ pos'[s] = pos[s]
  BY DEF TakeCalls, ServerInv, TypeOK
<1>2. taken[l] = <<>> /\ pos[l] = 0 /\ queue[l] \in Seq(Functor)
  BY DEF TakeCalls, IoGoto, ServerInv, LoopInv, TypeOK
<1>3. Pending(l) = queue[l]
  <2>1. SubSeq(<<>>, 0 + 1, Len(<<>>)) = <<>> OBVIOUS
  <2>2. <<>> \o queue[l] = queue[l] BY <1>2, ConcatEmptySeq
  <2> QED BY <1>2, <2>1, <2>2 DEF Pending
<1>4. Pending(l)' = queue[l]
  <2>1. SubSeq(queue[l], 0 + 1, Len(queue[l])) = queue[l] BY <1>2, SubSeqFull
  <2>2. queue[l] \o <<>> = queue[l] BY <1>2, ConcatEmptySeq
  <2> QED BY <1>1, <2>1, <2>2 DEF Pending
<1>5. \A s \in Loops : s # l => Pending(s)' = Pending(s) BY <1>1 DEF Pending
<1> QED BY <1>3, <1>4, <1>5

\* The functors of a batch are destroyed when all of them have run.
LEMMA DropKeepsLine ==
  ASSUME ServerInv, NEW l \in Loops, DropCalls(l)
  PROVE  \A s \in Loops : Pending(s)' = Pending(s)
<1>1. /\ taken'[l] = <<>> /\ pos'[l] = 0 /\ queue' = queue /\ pos[l] = Len(taken[l])
      /\ \A s \in Loops : s # l => taken'[s] = taken[s] /\ pos'[s] = pos[s]
  BY DEF DropCalls, ServerInv, TypeOK
<1>2. Len(taken[l]) \in Nat BY DEF ServerInv, TypeOK
<1>3. SubSeq(taken[l], pos[l] + 1, Len(taken[l])) = <<>>
  <2> DEFINE n == Len(taken[l])
  <2>1. n + 1 \in Int /\ n \in Int /\ n < n + 1 BY <1>2
  <2> HIDE DEF n
  <2>2. SubSeq(taken[l], n + 1, n) = <<>> BY <2>1, SubSeqEmpty
  <2> QED BY <1>1, <2>2 DEF n
<1>4. SubSeq(<<>>, 0 + 1, Len(<<>>)) = <<>> OBVIOUS
<1>5. Pending(l)' = Pending(l) BY <1>1, <1>3, <1>4 DEF Pending
<1>6. \A s \in Loops : s # l => Pending(s)' = Pending(s) BY <1>1 DEF Pending
<1> QED BY <1>5, <1>6

\* A call that is run moves from what remains of the batch to what has run.
LEMMA RunKeepsLine ==
  ASSUME ServerInv, RanInv, NEW l \in Loops, RunCall(l), RecordRuns
  PROVE  /\ ran'[l] = Append(ran[l], taken[l][pos[l] + 1]) /\ taken[l][pos[l] + 1] \in Functor
         /\ \A s \in Loops : s # l => ran'[s] = ran[s]
         /\ \A s \in Loops : LoopLine(s)' = LoopLine(s)
         /\ Len(ran[l]) \in Nat /\ Len(ran'[l]) = Len(ran[l]) + 1
         /\ Len(ran[l]) < Len(LoopLine(l))
<1> DEFINE b == taken[l]
           p == pos[l]
           n == Len(b)
           f == b[p + 1]
           r == ran[l]
           q == queue[l]
           rest == SubSeq(b, p + 1, n)
           left == SubSeq(b, p + 2, n)
<1>1. b \in Seq(Functor) /\ q \in Seq(Functor) /\ r \in Seq(Functor) /\ p \in Nat /\ n \in Nat
  BY DEF ServerInv, TypeOK, RanInv
<1>2. /\ p < n /\ pos'[l] = p + 1 /\ UNCHANGED <<queue, taken>>
      /\ \A s \in Loops : s # l => pos'[s] = pos[s]
  BY DEF RunCall, ServerInv, TypeOK, io
<1>3. /\ ran'[l] = Append(r, f)
      /\ \A s \in Loops : s # l => ran'[s] = ran[s]
  <2>1. \A s \in Loops : pos[s] \in Nat BY DEF ServerInv, TypeOK
  <2> QED BY <1>1, <1>2, <2>1 DEF RecordRuns
<1>4. f \in Functor /\ <<f>> \in Seq(Functor) BY <1>1, <1>2
<1>5. rest = <<f>> \o left /\ rest \in Seq(Functor) /\ left \in Seq(Functor)
  <2>1. p + 1 \in 1 .. n /\ n \in p + 1 .. n /\ (p + 1) + 1 = p + 2 BY <1>1, <1>2
  <2>2. /\ p + 1 \in Int /\ p + 2 \in Int /\ n \in Int
        /\ \A i \in p + 1 .. n : b[i] \in Functor
        /\ \A i \in p + 2 .. n : b[i] \in Functor
    BY <1>1
  <2>3. rest = <<f>> \o SubSeq(b, (p + 1) + 1, n)
    <3>1. b \in Seq(Functor) /\ p + 1 \in 1 .. Len(b) /\ n \in p + 1 .. Len(b) BY <1>1, <2>1
    <3> HIDE DEF b, p, n
    <3> QED BY <3>1, SubSeqRecursiveFirst
  <2>4. rest \in Seq(Functor) /\ left \in Seq(Functor)
    <3> HIDE DEF b, p, n
    <3> QED BY <2>2, SubSeqProperties
  <2> QED BY <2>1, <2>3, <2>4
<1>6. Pending(l) = rest \o q BY DEF Pending
<1>7. Pending(l)' = left \o q
  <2>1. (p + 1) + 1 = p + 2 BY <1>1
  <2> QED BY <1>2, <2>1 DEF Pending
<1> HIDE DEF b, p, n, f, r, q, rest, left
<1>8. left \o q \in Seq(Functor) /\ rest \o q = <<f>> \o (left \o q)
  BY <1>1, <1>4, <1>5, ConcatProperties, ConcatAssociative
<1>9. Append(r, f) = r \o <<f>> BY <1>1, <1>4, AppendIsConcat
<1>10. Append(r, f) \o (left \o q) = r \o (rest \o q)
  BY <1>1, <1>4, <1>8, <1>9, ConcatAssociative
<1>11. LoopLine(l) = r \o (rest \o q) BY <1>6 DEF LoopLine, r
<1>12. LoopLine(l)' = Append(r, f) \o (left \o q) BY <1>3, <1>7 DEF LoopLine
<1>13. ASSUME NEW s \in Loops, s # l PROVE LoopLine(s)' = LoopLine(s)
  BY <1>2, <1>3, <1>13 DEF LoopLine, Pending
<1>14. \A s \in Loops : LoopLine(s)' = LoopLine(s) BY <1>10, <1>11, <1>12, <1>13
<1>15. /\ Len(r) \in Nat /\ Len(Append(r, f)) = Len(r) + 1
       /\ Len(r \o (rest \o q)) = Len(r) + (1 + Len(left \o q)) /\ Len(left \o q) \in Nat
  <2>1. Len(r) \in Nat /\ Len(Append(r, f)) = Len(r) + 1 BY <1>1, <1>4, AppendProperties
  <2>2. Len(left \o q) \in Nat BY <1>8
  <2>3. Len(<<f>>) = 1 OBVIOUS
  <2>4. rest \o q \in Seq(Functor) /\ Len(rest \o q) = 1 + Len(left \o q)
    BY <1>4, <1>8, <2>3, ConcatProperties
  <2>5. Len(r \o (rest \o q)) = Len(r) + Len(rest \o q) BY <1>1, <2>4, ConcatProperties
  <2> QED BY <2>1, <2>2, <2>4, <2>5
<1>16. Len(r) < Len(r \o (rest \o q)) BY <1>15
<1> QED BY <1>3, <1>4, <1>11, <1>14, <1>15, <1>16 DEF f, b, p, r

\* What is still to be run is for a client that was accepted.
LEMMA PendingCame ==
  ASSUME ServerInv, NEW l \in Loops, NEW c \in Clients,
         Pends(l, Establish(c)) \/ Pends(l, Destory(c))
  PROVE  Came(c)
<1>1. Held(c) BY PendingHolds, FunctorFacts DEF ServerInv
<1> QED BY <1>1 DEF ServerInv, LifeInv, Alive, Came

\* The client that is accepted has waited for it.
LEMMA AcceptTakes ==
  ASSUME ServerInv, Accept
  PROVE  /\ NextClient \in Clients /\ life[NextClient] = "waiting" /\ next \in Loops
         /\ HandOver(next, "establish", NextClient)
         /\ map' = map \union {NextClient} /\ life' = [life EXCEPT ![NextClient] = "made"]
         /\ bpc = "accept" /\ UNCHANGED <<taken, pos>>
<1>1. /\ bpc = "accept" /\ HandOver(next, "establish", NextClient)
      /\ map' = map \union {NextClient} /\ life' = [life EXCEPT ![NextClient] = "made"]
      /\ UNCHANGED <<taken, pos>>
  BY DEF Accept, Goto
<1>2. Len(backlog) >= 1 /\ backlog \in Seq(Clients) BY <1>1 DEF ServerInv, BacklogInv, TypeOK
<1>3. 1 \in DOMAIN backlog /\ NextClient = backlog[1] /\ backlog[1] \in Clients
  BY <1>2 DEF NextClient
<1>4. life[NextClient] = "waiting" BY <1>3 DEF ServerInv, BacklogInv
<1> QED BY <1>1, <1>3, <1>4 DEF ServerInv, TypeOK

\* The connection that is taken for dead is in the map, and about to leave it.
LEMMA ReapTakes ==
  ASSUME ServerInv, ReapHandOver
  PROVE  /\ cur \in Clients /\ cur \in map /\ Came(cur) /\ loopOf[cur] \in Loops
         /\ HandOver(loopOf[cur], "destory", cur)
         /\ bpc = "reap" /\ bpc' = "erase" /\ UNCHANGED <<cur, map, life, taken, pos>>
<1>1. /\ HandOver(loopOf[cur], "destory", cur) /\ bpc = "reap" /\ bpc' = "erase"
      /\ UNCHANGED <<cur, map, life, taken, pos>>
  BY DEF ReapHandOver, Goto, check, conn
<1>2. cur \in map /\ cur \in Clients BY <1>1 DEF ServerInv, CurInv, TypeOK
<1>3. Alive(cur) /\ loopOf[cur] \in Loops BY <1>2 DEF ServerInv, LifeInv, Held
<1> QED BY <1>1, <1>2, <1>3 DEF Alive, Came

\* Nobody is accepted twice, and a connection the map lets go of does not come back.
LEMMA GoneForGood ==
  ASSUME ServerInv, Next, NEW c \in Clients, Came(c)
  PROVE  Came(c)' /\ (LeavesMap(c) => LeavesMap(c)')
<1> USE DEF Came, LeavesMap
<1>1. CASE BasePoll \/ CheckBegins \/ AddToHeart \/ CheckEnds \/ ReapHandOver
           \/ \E d \in Clients : ReadHeart(d)
  BY <1>1 DEF BasePoll, CheckBegins, AddToHeart, CheckEnds, ReapHandOver, ReadHeart, Goto, conn
<1>2. CASE Accept BY <1>2, AcceptTakes DEF ServerInv, TypeOK
<1>3. CASE ReapErase
  <2>1. Free(map', queue', taken') /\ map' = map \ {cur} /\ bpc' = "scan"
    BY <1>3 DEF ReapErase, Goto, io
  <2>2. Came(c)' BY <2>1, FreeFacts DEF ServerInv
  <2> QED BY <2>1, <2>2
<1>4. CASE Tick BY <1>4 DEF Tick, base, check
<1>5. ASSUME NEW d \in Clients, Connect(d) PROVE Came(c)' /\ (LeavesMap(c) => LeavesMap(c)')
  BY <1>5 DEF Connect, base, check, ServerInv, TypeOK
<1>6. ASSUME NEW l \in Loops, NEW ready \in SUBSET Clients, IoPoll(l, ready)
      PROVE  Came(c)' /\ (LeavesMap(c) => LeavesMap(c)')
  BY <1>6 DEF IoPoll, base, check, conn
<1>7. ASSUME NEW l \in Loops, NEW d \in Clients,
             \/ HandleMessage(l, d) \/ HandleHeartbeat(l, d) \/ HandleHangup(l, d)
             \/ SendTo(l, d)
      PROVE  Came(c)' /\ (LeavesMap(c) => LeavesMap(c)')
  BY <1>7 DEF HandleMessage, HandleHeartbeat, HandleHangup, SendTo, base, check
<1>8. ASSUME NEW l \in Loops, TakeCalls(l) PROVE Came(c)' /\ (LeavesMap(c) => LeavesMap(c)')
  BY <1>8 DEF TakeCalls, base, check, conn
<1>9. ASSUME NEW l \in Loops, RunCall(l) PROVE Came(c)' /\ (LeavesMap(c) => LeavesMap(c)')
  <2>1. UNCHANGED <<bpc, cur, map>> BY <1>9 DEF RunCall, base, check
  <2>2. life'[c] \in {life[c], "established", "reaped"} BY <1>9 DEF RunCall, ServerInv, TypeOK
  <2> QED BY <2>1, <2>2
<1>10. ASSUME NEW l \in Loops, DropCalls(l) PROVE Came(c)' /\ (LeavesMap(c) => LeavesMap(c)')
  <2>1. Free(map', queue', taken') /\ UNCHANGED <<bpc, cur, map>>
    BY <1>10 DEF DropCalls, base, check
  <2>2. Came(c)' BY <2>1, FreeFacts DEF ServerInv
  <2> QED BY <2>1, <2>2
<1> QED BY <1>1, <1>2, <1>3, <1>4, <1>5, <1>6, <1>7, <1>8, <1>9, <1>10, ServerAssumption
        DEF Next, BaseStep, ClientStep, IoStep

\* A loop that runs nothing records nothing.
LEMMA NothingRecorded ==
  ASSUME RanInv, RecordRuns, \A l \in Loops : ~(pos'[l] > pos[l])
  PROVE  ran' = ran
<1>1. ran' = [l \in Loops |-> ran[l]] BY DEF RecordRuns
<1> QED BY <1>1 DEF RanInv

\* Only these steps touch the calls.
LEMMA OthersLeaveCalls ==
  ASSUME Next, ~Accept, ~ReapHandOver,
         \A l \in Loops : ~TakeCalls(l) /\ ~RunCall(l) /\ ~DropCalls(l)
  PROVE  UNCHANGED <<queue, taken, pos>>
BY DEF Next, BaseStep, ClientStep, IoStep, BasePoll, CheckBegins, AddToHeart, CheckEnds,
       ReapErase, ReadHeart, Tick, Connect, IoPoll, HandleMessage, HandleHeartbeat,
       HandleHangup, SendTo, io

\* The step of each line: at most one call is handed over, one that is in no place of the
\* line, or one is run, the next of the line.
LineStep == \A l \in Loops : [Loop(l)!Next]_(Loop(l)!vars)

\* A loop whose line and runs stay as they are does not step.
LEMMA LineStutters ==
  ASSUME NEW l \in Loops, LoopLine(l)' = LoopLine(l), ran'[l] = ran[l]
  PROVE  [Loop(l)!Next]_(Loop(l)!vars)
BY DEF Loop!vars

\* Handing over a functor the line does not hold is a step of its loop, and of no other.
LEMMA HandOverPosts ==
  ASSUME ServerInv, RanInv, NEW l \in Loops, NEW op \in {"establish", "destory"},
         NEW c \in Clients, NEW f \in Functor, f = [op |-> op, conn |-> c],
         HandOver(l, op, c), UNCHANGED <<taken, pos>>, RecordRuns,
         ~HasRun(l, f), ~Pends(l, f)
  PROVE  /\ LineStep /\ ran' = ran
         /\ \A s \in Loops : \A g : Pends(s, g)' => Pends(s, g) \/ (s = l /\ g = f)
<1>1. TypeOK BY DEF ServerInv
<1>2. ran' = ran
  <2>1. \A s \in Loops : ~(pos'[s] > pos[s]) BY <1>1 DEF TypeOK
  <2> QED BY <2>1, NothingRecorded
<1>3. /\ LoopLine(l)' = Append(LoopLine(l), f)
      /\ \A s \in Loops : s # l => LoopLine(s)' = LoopLine(s)
  BY <1>1, <1>2, HandOverExtends
<1>4. f \notin Range(LoopLine(l)) BY <1>1, LineHas
<1>5. Loop(l)!Next BY <1>2, <1>3, <1>4 DEF Loop!Next, Loop!Post, Loop!Range, Range
<1>6. ASSUME NEW s \in Loops PROVE [Loop(s)!Next]_(Loop(s)!vars)
  <2>1. CASE s = l BY <1>5, <2>1
  <2>2. CASE s # l BY <1>2, <1>3, <2>2, LineStutters
  <2> QED BY <2>1, <2>2
<1>7. \A s \in Loops : \A g : InQueue(s, g)' <=> InQueue(s, g) \/ (s = l /\ g = f)
  BY <1>1, HandOverAdds
<1>8. \A s \in Loops : \A g : InBatch(s, g)' <=> InBatch(s, g) BY DEF InBatch
<1> QED BY <1>2, <1>6, <1>7, <1>8 DEF LineStep, Pends

\* A functor that has been run was one to be run.
LEMMA RunRecords ==
  ASSUME ServerInv, RanInv, NEW l \in Loops, RunCall(l), RecordRuns
  PROVE  /\ ran' \in [Loops -> Seq(Functor)]
         /\ \A s \in Loops : \A g :
                /\ HasRun(s, g)' => HasRun(s, g) \/ Pends(s, g)
                /\ Pends(s, g)' => Pends(s, g)
<1> DEFINE f == taken[l][pos[l] + 1]
<1>1. /\ ran'[l] = Append(ran[l], f) /\ f \in Functor
      /\ \A s \in Loops : s # l => ran'[s] = ran[s]
  BY RunKeepsLine
<1>2. /\ pos[l] \in Nat /\ pos[l] < Len(taken[l]) /\ pos'[l] = pos[l] + 1
      /\ \A s \in Loops : s # l => pos'[s] = pos[s]
      /\ UNCHANGED <<queue, taken>> /\ taken[l] \in Seq(Functor) /\ ran[l] \in Seq(Functor)
  BY DEF RunCall, ServerInv, TypeOK, RanInv
<1>3. pos[l] + 1 \in DOMAIN taken[l] /\ pos[l] + 1 > pos[l] BY <1>2
<1>4. Pends(l, f) BY <1>3 DEF Pends, InBatch
<1> HIDE DEF f
<1>5. ran' \in [Loops -> Seq(Functor)]
  <2>1. ran' = [s \in Loops |-> ran'[s]] BY DEF RecordRuns
  <2>2. ran'[l] \in Seq(Functor) BY <1>1, <1>2, AppendProperties
  <2>3. \A s \in Loops : ran'[s] \in Seq(Functor) BY <1>1, <2>2 DEF RanInv
  <2> QED BY <2>1, <2>3
<1>6. ASSUME NEW s \in Loops, NEW g, HasRun(s, g)' PROVE HasRun(s, g) \/ Pends(s, g)
  <2>1. CASE s # l BY <1>1, <1>6, <2>1 DEF HasRun
  <2>2. CASE s = l
    <3>1. PICK k \in DOMAIN ran'[l] : ran'[l][k] = g BY <1>6, <2>2 DEF HasRun
    <3>2. /\ DOMAIN ran'[l] = 1 .. Len(ran[l]) + 1 /\ DOMAIN ran[l] = 1 .. Len(ran[l])
          /\ ran'[l][Len(ran[l]) + 1] = f /\ Len(ran[l]) \in Nat
          /\ \A i \in 1 .. Len(ran[l]) : ran'[l][i] = ran[l][i]
      BY <1>1, <1>2
    <3>3. CASE k = Len(ran[l]) + 1 BY <1>4, <2>2, <3>1, <3>2, <3>3
    <3>4. CASE k # Len(ran[l]) + 1 BY <2>2, <3>1, <3>2, <3>4 DEF HasRun
    <3> QED BY <3>3, <3>4
  <2> QED BY <2>1, <2>2
<1>7. ASSUME NEW s \in Loops, NEW g, Pends(s, g)' PROVE Pends(s, g)
  <2>1. CASE s # l BY <1>2, <1>7, <2>1 DEF Pends, InBatch, InQueue
  <2>2. CASE s = l BY <1>2, <1>7, <2>2 DEF Pends, InBatch, InQueue
  <2> QED BY <2>1, <2>2
<1> QED BY <1>5, <1>6, <1>7

\* The next call of the line is run by its loop, and by no other.
LEMMA RunSteps ==
  ASSUME ServerInv, RanInv, NEW l \in Loops, RunCall(l), RecordRuns
  PROVE  LineStep
<1>1. /\ \A s \in Loops : s # l => ran'[s] = ran[s]
      /\ \A s \in Loops : LoopLine(s)' = LoopLine(s)
      /\ Len(ran'[l]) = Len(ran[l]) + 1 /\ Len(ran[l]) < Len(LoopLine(l))
  BY RunKeepsLine
<1>2. Loop(l)!Next BY <1>1 DEF Loop!Next, Loop!RunNext
<1>3. ASSUME NEW s \in Loops PROVE [Loop(s)!Next]_(Loop(s)!vars)
  <2>1. CASE s = l BY <1>2, <2>1
  <2>2. CASE s # l BY <1>1, <2>2, LineStutters
  <2> QED BY <2>1, <2>2
<1> QED BY <1>3 DEF LineStep

\* Between one batch and the next nothing is run, and nothing comes or is lost.
LEMMA BatchesStutter ==
  ASSUME ServerInv, RanInv, NEW l \in Loops, TakeCalls(l) \/ DropCalls(l), RecordRuns
  PROVE  /\ LineStep /\ ran' = ran
         /\ \A s \in Loops : \A g : Pends(s, g)' => Pends(s, g)
<1>1. /\ pos'[l] = 0 /\ pos[l] \in Nat /\ \A s \in Loops : s # l => pos'[s] = pos[s]
      /\ \A s \in Loops : pos[s] \in Nat
  BY DEF TakeCalls, DropCalls, ServerInv, TypeOK
<1>2. ran' = ran
  <2>1. \A s \in Loops : ~(pos'[s] > pos[s]) BY <1>1
  <2> QED BY <2>1, NothingRecorded
<1>3. \A s \in Loops : Pending(s)' = Pending(s) BY TakeKeepsLine, DropKeepsLine
<1>4. LineStep
  <2>1. ASSUME NEW s \in Loops PROVE [Loop(s)!Next]_(Loop(s)!vars)
    BY <1>2, <1>3, LineStutters DEF LoopLine
  <2> QED BY <2>1 DEF LineStep
<1>5. ASSUME NEW s \in Loops, NEW g, Pends(s, g)' PROVE Pends(s, g)
  <2>1. CASE TakeCalls(l)
    <3>1. /\ taken'[l] = queue[l] /\ queue'[l] = <<>>
          /\ s # l => UNCHANGED <<taken[s], queue[s], pos[s]>>
      BY <2>1 DEF TakeCalls, ServerInv, TypeOK
    <3> QED BY <1>5, <3>1 DEF Pends, InBatch, InQueue
  <2>2. CASE DropCalls(l)
    <3>1. /\ taken'[l] = <<>> /\ queue' = queue
          /\ s # l => UNCHANGED <<taken[s], pos[s]>>
      BY <2>2 DEF DropCalls, ServerInv, TypeOK
    <3> QED BY <1>5, <3>1 DEF Pends, InBatch, InQueue
  <2> QED BY <2>1, <2>2
<1> QED BY <1>2, <1>4, <1>5

\* What is said of the runs is kept by steps that bring no connectDestory() but for the
\* connection that leaves the map.
LEMMA RanKeeps ==
  ASSUME ServerInv, RanInv, Next, ran' \in [Loops -> Seq(Functor)],
         \A l \in Loops : \A c \in Clients :
             /\ HasRun(l, Establish(c))' => HasRun(l, Establish(c)) \/ Pends(l, Establish(c))
             /\ HasRun(l, Destory(c))' => HasRun(l, Destory(c)) \/ Pends(l, Destory(c))
             /\ Pends(l, Destory(c))' => \/ Pends(l, Destory(c))
                                         \/ Came(c) /\ LeavesMap(c)'
  PROVE  RanInv'
<1>1. ASSUME NEW l \in Loops, NEW c \in Clients, HasRun(l, Establish(c))' PROVE Came(c)'
  <2>1. Came(c) BY <1>1, PendingCame DEF RanInv
  <2> QED BY <2>1, GoneForGood
<1>2. ASSUME NEW l \in Loops, NEW c \in Clients, HasRun(l, Destory(c))' \/ Pends(l, Destory(c))'
      PROVE  Came(c)' /\ LeavesMap(c)'
  <2>1. Came(c) /\ (LeavesMap(c) \/ LeavesMap(c)') BY <1>2 DEF RanInv
  <2> QED BY <2>1, GoneForGood
<1> QED BY <1>1, <1>2 DEF RanInv

\* Every step of the server is a step of each line, or leaves it alone.
LEMMA LinesStep ==
  ASSUME ServerInv, RanInv, [Next /\ RecordRuns]_loopVars
  PROVE  RanInv' /\ LineStep
<1>1. CASE UNCHANGED loopVars
  <2>1. UNCHANGED <<ran, queue, taken, pos, life, map, bpc, cur>>
    BY <1>1 DEF loopVars, vars, base, check, io, conn
  <2>2. RanInv'
    BY <2>1 DEF RanInv, HasRun, Pends, InBatch, InQueue, Came, LeavesMap
  <2>3. ASSUME NEW l \in Loops PROVE [Loop(l)!Next]_(Loop(l)!vars)
    BY <2>1, LineStutters DEF LoopLine, Pending
  <2> QED BY <2>2, <2>3 DEF LineStep
<1>2. CASE Accept /\ Next /\ RecordRuns
  <2> DEFINE c == NextClient
             f == Establish(c)
  <2>1. /\ c \in Clients /\ life[c] = "waiting" /\ next \in Loops
        /\ HandOver(next, "establish", c) /\ UNCHANGED <<taken, pos>>
    BY <1>2, AcceptTakes
  <2> HIDE DEF c
  <2>2. f \in Functor /\ f = [op |-> "establish", conn |-> c] BY <2>1, FunctorFacts DEF Establish
  <2>3. ~HasRun(next, f) /\ ~Pends(next, f) BY <2>1, PendingCame DEF RanInv, Came
  <2> HIDE DEF f
  <2>4. /\ LineStep /\ ran' = ran
        /\ \A s \in Loops : \A g : Pends(s, g)' => Pends(s, g) \/ (s = next /\ g = f)
    BY <1>2, <2>1, <2>2, <2>3, HandOverPosts
  <2>5. \A d : Destory(d) # f BY FunctorFacts DEF f
  <2>6. RanInv' BY <1>2, <2>4, <2>5, RanKeeps DEF HasRun, RanInv
  <2> QED BY <2>4, <2>6
<1>3. CASE ReapHandOver /\ Next /\ RecordRuns
  <2> DEFINE l == loopOf[cur]
             f == Destory(cur)
  <2>1. /\ cur \in Clients /\ cur \in map /\ Came(cur) /\ l \in Loops
        /\ HandOver(l, "destory", cur)
        /\ bpc = "reap" /\ bpc' = "erase" /\ UNCHANGED <<cur, map, life, taken, pos>>
    BY <1>3, ReapTakes
  <2> HIDE DEF l
  <2>2. f \in Functor /\ f = [op |-> "destory", conn |-> cur] BY <2>1, FunctorFacts DEF Destory
  <2>3. ~HasRun(l, f) /\ ~Pends(l, f) BY <2>1 DEF RanInv, LeavesMap
  <2>4. \A c \in Clients : c = cur => Came(c) /\ LeavesMap(c)' BY <2>1 DEF LeavesMap
  <2> HIDE DEF f
  <2>5. /\ LineStep /\ ran' = ran
        /\ \A s \in Loops : \A g : Pends(s, g)' => Pends(s, g) \/ (s = l /\ g = f)
    BY <1>3, <2>1, <2>2, <2>3, HandOverPosts
  <2>6. \A s \in Loops : \A c \in Clients :
            Pends(s, Destory(c))' => Pends(s, Destory(c)) \/ (Came(c) /\ LeavesMap(c)')
    <3>1. \A c : Destory(c) = f => c = cur BY FunctorFacts DEF f
    <3> QED BY <2>4, <2>5, <3>1
  <2>7. RanInv' BY <1>3, <2>5, <2>6, RanKeeps DEF HasRun, RanInv
  <2> QED BY <2>5, <2>7
<1>4. ASSUME NEW l \in Loops, RunCall(l), Next, RecordRuns PROVE RanInv' /\ LineStep
  BY <1>4, RunRecords, RunSteps, RanKeeps
<1>5. ASSUME NEW l \in Loops, TakeCalls(l) \/ DropCalls(l), Next, RecordRuns
      PROVE  RanInv' /\ LineStep
  BY <1>5, BatchesStutter, RanKeeps DEF HasRun, RanInv
<1>6. CASE /\ Next /\ RecordRuns /\ ~Accept /\ ~ReapHandOver
           /\ \A l \in Loops : ~TakeCalls(l) /\ ~RunCall(l) /\ ~DropCalls(l)
  <2>1. UNCHANGED <<queue, taken, pos>> BY <1>6, OthersLeaveCalls
  <2>2. ran' = ran
    <3>1. \A l \in Loops : ~(pos'[l] > pos[l]) BY <2>1 DEF ServerInv, TypeOK
    <3> QED BY <1>6, <3>1, NothingRecorded
  <2>3. ASSUME NEW l \in Loops PROVE [Loop(l)!Next]_(Loop(l)!vars)
    BY <2>1, <2>2, LineStutters DEF LoopLine, Pending
  <2>4. \A l \in Loops : \A g : /\ HasRun(l, g)' <=> HasRun(l, g)
                                /\ Pends(l, g)' <=> Pends(l, g)
    BY <2>1, <2>2 DEF HasRun, Pends, InBatch, InQueue
  <2>5. RanInv' BY <1>6, <2>2, <2>4, RanKeeps DEF RanInv
  <2> QED BY <2>3, <2>5 DEF LineStep
<1> QED BY <1>1, <1>2, <1>3, <1>4, <1>5, <1>6

\* Nothing has been handed over when the server starts.
LEMMA LoopsStart == LoopsInit => ServerInv /\ RanInv /\ \A l \in Loops : Loop(l)!Init
<1> SUFFICES ASSUME LoopsInit PROVE ServerInv /\ RanInv /\ \A l \in Loops : Loop(l)!Init
  OBVIOUS
<1>1. Init /\ ran = [l \in Loops |-> <<>>] BY DEF LoopsInit
<1>2. ServerInv BY <1>1, InitServer
<1>3. RanInv BY <1>1 DEF RanInv, HasRun, Pends, InBatch, InQueue, Init
<1>4. ASSUME NEW l \in Loops PROVE Loop(l)!Init
  <2>1. ran[l] = <<>> /\ queue[l] = <<>> /\ taken[l] = <<>> /\ pos[l] = 0
    BY <1>1 DEF Init
  <2>2. SubSeq(<<>>, 0 + 1, Len(<<>>)) = <<>> /\ <<>> \o <<>> = <<>> OBVIOUS
  <2>3. LoopLine(l) = <<>> /\ Len(ran[l]) = 0 BY <2>1, <2>2 DEF LoopLine, Pending
  <2> QED BY <2>3 DEF Loop!Init
<1> QED BY <1>2, <1>3, <1>4

\* The loops of the pool keep the promise of CallQueue: what the server hands to a loop,
\* no functor twice, is run in the order of handing over, each once.
THEOREM LoopsImplementCallQueue == LoopsSpec => LoopsAreCallQueues
<1>1. LoopsInit => ServerInv /\ RanInv /\ \A l \in Loops : Loop(l)!Init BY LoopsStart
<1>2. ServerInv /\ RanInv /\ [Next /\ RecordRuns]_loopVars
        => /\ ServerInv' /\ RanInv'
           /\ [\A l \in Loops : [Loop(l)!Next]_(Loop(l)!vars)]_loopVars
  <2> SUFFICES ASSUME ServerInv, RanInv, [Next /\ RecordRuns]_loopVars
               PROVE  /\ ServerInv' /\ RanInv'
                      /\ [\A l \in Loops : [Loop(l)!Next]_(Loop(l)!vars)]_loopVars
    OBVIOUS
  <2>1. [Next]_vars BY DEF loopVars
  <2>2. ServerInv' BY <2>1, ServerStep
  <2>3. RanInv' /\ LineStep BY LinesStep
  <2> QED BY <2>2, <2>3 DEF LineStep
<1> QED BY <1>1, <1>2, PTL DEF LoopsSpec, LoopsAreCallQueues

\* What a loop has run is the beginning of its line.
LEMMA LineParts ==
  ASSUME ServerInv, RanInv, NEW l \in Loops
  PROVE  /\ LoopLine(l) \in Seq(Functor)
         /\ \A k \in DOMAIN ran[l] : k \in DOMAIN LoopLine(l) /\ LoopLine(l)[k] = ran[l][k]
<1> DEFINE r == ran[l]
           rest == SubSeq(taken[l], pos[l] + 1, Len(taken[l]))
           w == rest \o queue[l]
<1>1. /\ r \in Seq(Functor) /\ queue[l] \in Seq(Functor) /\ taken[l] \in Seq(Functor)
      /\ pos[l] \in Nat
  BY DEF ServerInv, TypeOK, RanInv
<1>2. rest \in Seq(Functor)
  <2>1. /\ pos[l] + 1 \in Int /\ Len(taken[l]) \in Int
        /\ \A i \in pos[l] + 1 .. Len(taken[l]) : taken[l][i] \in Functor
    BY <1>1
  <2> QED BY <2>1, SubSeqProperties
<1>3. LoopLine(l) = r \o w BY DEF LoopLine, Pending
<1> HIDE DEF rest, r
<1>4. w \in Seq(Functor) BY <1>1, <1>2, ConcatProperties
<1> HIDE DEF w
<1>5. /\ r \o w \in Seq(Functor) /\ Len(r \o w) = Len(r) + Len(w)
      /\ \A k \in 1 .. Len(r) + Len(w) : (r \o w)[k] = IF k <= Len(r) THEN r[k] ELSE w[k - Len(r)]
  <2>1. r \in Seq(Functor) /\ w \in Seq(Functor) BY <1>1, <1>4
  <2> QED BY ONLY <2>1, ConcatProperties
<1>6. /\ DOMAIN r = 1 .. Len(r) /\ DOMAIN (r \o w) = 1 .. Len(r) + Len(w)
      /\ Len(r) \in Nat /\ Len(w) \in Nat
  BY <1>1, <1>4, <1>5
<1>7. \A k \in DOMAIN r : k \in DOMAIN (r \o w) /\ (r \o w)[k] = r[k] BY <1>5, <1>6
<1> QED BY <1>3, <1>5, <1>7 DEF r

\* The functor is in the line of the loop.
InLine(l, f) == HasRun(l, f) \/ Pends(l, f)

\* No functor is in the lines of two loops, ...
OneLine == \A l, s \in Loops : \A f : InLine(l, f) /\ InLine(s, f) => l = s

\* ... nor in two places of a line.
Single(line) == \A j, k \in DOMAIN line : line[j] = line[k] => j = k

\* What is in the line of a loop after a step was there before, or was just handed over and
\* in no line.
LEMMA LinesGrow ==
  ASSUME ServerInv, RanInv, [Next /\ RecordRuns]_loopVars
  PROVE  OneLine => OneLine'
<1> USE DEF InLine
<1>1. ASSUME NEW l \in Loops, NEW f, \A s \in Loops : ~InLine(s, f),
             \A s \in Loops : \A g : InLine(s, g)' => InLine(s, g) \/ (s = l /\ g = f)
      PROVE  OneLine => OneLine'
  <2> HIDE DEF InLine
  <2> QED BY <1>1 DEF OneLine
<1>2. ASSUME \A s \in Loops : \A g : InLine(s, g)' => InLine(s, g) PROVE OneLine => OneLine'
  <2> HIDE DEF InLine
  <2> QED BY <1>2 DEF OneLine
<1>3. CASE UNCHANGED loopVars
  BY <1>2, <1>3 DEF loopVars, vars, io, HasRun, Pends, InBatch, InQueue
<1>4. CASE Accept /\ Next /\ RecordRuns
  <2> DEFINE c == NextClient
             f == Establish(c)
  <2>1. /\ c \in Clients /\ life[c] = "waiting" /\ next \in Loops
        /\ HandOver(next, "establish", c) /\ UNCHANGED <<taken, pos>>
    BY <1>4, AcceptTakes
  <2> HIDE DEF c
  <2>2. f \in Functor /\ f = [op |-> "establish", conn |-> c] BY <2>1, FunctorFacts DEF Establish
  <2>3. \A s \in Loops : ~HasRun(s, f) /\ ~Pends(s, f) BY <2>1, PendingCame DEF RanInv, Came
  <2> HIDE DEF f
  <2>4. /\ ran' = ran
        /\ \A s \in Loops : \A g : Pends(s, g)' => Pends(s, g) \/ (s = next /\ g = f)
    BY <1>4, <2>1, <2>2, <2>3, HandOverPosts
  <2>5. \A s \in Loops : \A g : HasRun(s, g)' => HasRun(s, g) BY <2>4 DEF HasRun
  <2> QED BY <1>1, <2>1, <2>3, <2>4, <2>5
<1>5. CASE ReapHandOver /\ Next /\ RecordRuns
  <2> DEFINE l == loopOf[cur]
             f == Destory(cur)
  <2>1. /\ cur \in Clients /\ cur \in map /\ l \in Loops
        /\ HandOver(l, "destory", cur)
        /\ bpc = "reap" /\ UNCHANGED <<taken, pos>>
    BY <1>5, ReapTakes
  <2> HIDE DEF l
  <2>2. f \in Functor /\ f = [op |-> "destory", conn |-> cur] BY <2>1, FunctorFacts DEF Destory
  <2>3. \A s \in Loops : ~HasRun(s, f) /\ ~Pends(s, f) BY <2>1 DEF RanInv, LeavesMap
  <2> HIDE DEF f
  <2>4. /\ ran' = ran
        /\ \A s \in Loops : \A g : Pends(s, g)' => Pends(s, g) \/ (s = l /\ g = f)
    BY <1>5, <2>1, <2>2, <2>3, HandOverPosts
  <2>5. \A s \in Loops : \A g : HasRun(s, g)' => HasRun(s, g) BY <2>4 DEF HasRun
  <2> QED BY <1>1, <2>1, <2>3, <2>4, <2>5
<1>6. ASSUME NEW l \in Loops, RunCall(l), Next, RecordRuns PROVE OneLine => OneLine'
  BY <1>2, <1>6, RunRecords
<1>7. ASSUME NEW l \in Loops, TakeCalls(l) \/ DropCalls(l), Next, RecordRuns
      PROVE  OneLine => OneLine'
  BY <1>2, <1>7, BatchesStutter DEF HasRun
<1>8. CASE /\ Next /\ RecordRuns /\ ~Accept /\ ~ReapHandOver
           /\ \A l \in Loops : ~TakeCalls(l) /\ ~RunCall(l) /\ ~DropCalls(l)
  <2>1. UNCHANGED <<queue, taken, pos>> BY <1>8, OthersLeaveCalls
  <2>2. ran' = ran
    <3>1. \A l \in Loops : ~(pos'[l] > pos[l]) BY <2>1 DEF ServerInv, TypeOK
    <3> QED BY <1>8, <3>1, NothingRecorded
  <2> QED BY <1>2, <2>1, <2>2 DEF HasRun, Pends, InBatch, InQueue
<1> QED BY <1>3, <1>4, <1>5, <1>6, <1>7, <1>8

\* A step of CallQueue leaves no call twice in the line.
LEMMA StepsKeepSingle ==
  ASSUME NEW l \in Loops, LoopLine(l) \in Seq(Functor), Single(LoopLine(l)),
         [Loop(l)!Next]_(Loop(l)!vars)
  PROVE  Single(LoopLine(l))'
<1> DEFINE q == LoopLine(l)
           n == Len(q)
<1>1. ASSUME NEW f \in Functor, Loop(l)!Post(f) PROVE Single(LoopLine(l))'
  <2>1. q' = Append(q, f) /\ \A k \in DOMAIN q : q[k] # f
    BY <1>1 DEF Loop!Post, Loop!Range
  <2>2. q \in Seq(Functor) /\ Single(q) OBVIOUS
  <2> HIDE DEF q
  <2>3. /\ n \in Nat /\ DOMAIN q = 1 .. n /\ DOMAIN q' = 1 .. n + 1 /\ q'[n + 1] = f
        /\ \A k \in 1 .. n : q'[k] = q[k]
    BY <2>1, <2>2
  <2>4. ASSUME NEW j \in DOMAIN q', NEW k \in DOMAIN q', q'[j] = q'[k] PROVE j = k
    BY <2>1, <2>2, <2>3, <2>4 DEF Single
  <2> QED BY <2>4 DEF Single, q
<1>2. CASE LoopLine(l)' = LoopLine(l) BY <1>2 DEF Single
<1> QED BY <1>1, <1>2 DEF Loop!Next, Loop!RunNext, Loop!vars

\* Nobody is established twice, nor destroyed twice, in one loop or in two.
THEOREM FunctorsRunOnce ==
    LoopsSpec => [](\A l, s \in Loops : \A j \in DOMAIN ran[l], k \in DOMAIN ran[s] :
                        ran[l][j] = ran[s][k] => l = s /\ j = k)
<1> DEFINE Inv == ServerInv /\ RanInv /\ OneLine /\ \A l \in Loops : Single(LoopLine(l))
           Once == \A l, s \in Loops : \A j \in DOMAIN ran[l], k \in DOMAIN ran[s] :
                       ran[l][j] = ran[s][k] => l = s /\ j = k
<1>1. LoopsInit => Inv
  <2> SUFFICES ASSUME LoopsInit PROVE Inv OBVIOUS
  <2>1. ServerInv /\ RanInv /\ \A l \in Loops : Loop(l)!Init BY LoopsStart
  <2>2. OneLine
    BY DEF LoopsInit, Init, OneLine, InLine, HasRun, Pends, InBatch, InQueue
  <2>3. \A l \in Loops : Single(LoopLine(l)) BY <2>1 DEF Loop!Init, Single
  <2> QED BY <2>1, <2>2, <2>3
<1>2. Inv /\ [Next /\ RecordRuns]_loopVars => Inv'
  <2> SUFFICES ASSUME Inv, [Next /\ RecordRuns]_loopVars PROVE Inv' OBVIOUS
  <2>1. ServerInv' BY ServerStep DEF loopVars
  <2>2. RanInv' /\ LineStep BY LinesStep
  <2>3. OneLine' BY LinesGrow
  <2>4. ASSUME NEW l \in Loops PROVE Single(LoopLine(l))'
    BY <2>2, StepsKeepSingle, LineParts DEF LineStep
  <2> QED BY <2>1, <2>2, <2>3, <2>4
<1>3. Inv => Once
  <2> SUFFICES ASSUME Inv, NEW l \in Loops, NEW s \in Loops,
                      NEW j \in DOMAIN ran[l], NEW k \in DOMAIN ran[s], ran[l][j] = ran[s][k]
               PROVE  l = s /\ j = k
    OBVIOUS
  <2>1. InLine(l, ran[l][j]) /\ InLine(s, ran[l][j]) BY DEF InLine, HasRun
  <2>2. l = s BY <2>1 DEF OneLine
  <2>3. /\ j \in DOMAIN LoopLine(l) /\ LoopLine(l)[j] = ran[l][j]
        /\ k \in DOMAIN LoopLine(l) /\ LoopLine(l)[k] = ran[l][k]
    BY <2>2, LineParts
  <2> QED BY <2>2, <2>3 DEF Single
<1> HIDE DEF Inv
<1> QED BY <1>1, <1>2, <1>3, PTL DEF LoopsSpec

-----------------------------------------------------------------------------
(* Connections that are yet to be established.                             *)

\* The connectEstablished() of a connection that is made is still to be run.
AwaitInv == \A c \in Clients : life[c] = "made" => Pends(loopOf[c], Establish(c))

\* Taking the queue as a batch moves calls, and dropping a batch that has been run, none.
LEMMA BatchesKeepPending ==
  ASSUME ServerInv, NEW l \in Loops, TakeCalls(l) \/ DropCalls(l),
         NEW s \in Loops, NEW g
  PROVE  Pends(s, g)' <=> Pends(s, g)
<1> USE DEF ServerInv
<1>1. CASE TakeCalls(l)
  <2>1. /\ taken'[l] = queue[l] /\ queue'[l] = <<>> /\ pos'[l] = 0 /\ taken[l] = <<>>
        /\ s # l => taken'[s] = taken[s] /\ queue'[s] = queue[s] /\ pos'[s] = pos[s]
    BY <1>1 DEF TakeCalls, IoGoto, TypeOK, LoopInv
  <2>2. /\ DOMAIN queue[l] = 1 .. Len(queue[l]) /\ Len(queue[l]) \in Nat
        /\ DOMAIN <<>> = {}
    BY DEF TypeOK
  <2>3. CASE s = l BY <2>1, <2>2, <2>3 DEF Pends, InBatch, InQueue
  <2>4. CASE s # l BY <2>1, <2>4 DEF Pends, InBatch, InQueue
  <2> QED BY <2>3, <2>4
<1>2. CASE DropCalls(l)
  <2>1. /\ pos[l] = Len(taken[l]) /\ taken'[l] = <<>> /\ queue' = queue
        /\ s # l => taken'[s] = taken[s] /\ pos'[s] = pos[s]
    BY <1>2 DEF DropCalls, IoGoto, TypeOK
  <2>2. /\ DOMAIN taken[l] = 1 .. Len(taken[l]) /\ Len(taken[l]) \in Nat
        /\ DOMAIN <<>> = {}
    BY DEF TypeOK
  <2>3. CASE s = l BY <2>1, <2>2, <2>3 DEF Pends, InBatch, InQueue
  <2>4. CASE s # l BY <2>1, <2>4 DEF Pends, InBatch, InQueue
  <2> QED BY <2>3, <2>4
<1> QED BY <1>1, <1>2

\* Letting go makes no connection, and gives none to another loop.
LEMMA FreeMakesNone ==
  ASSUME TypeOK, ReapErase \/ \E l \in Loops : DropCalls(l), NEW c \in Clients, life'[c] = "made"
  PROVE  life[c] = "made" /\ loopOf'[c] = loopOf[c]
<1>1. Free(map', queue', taken') BY DEF ReapErase, DropCalls, base, io
<1>2. IF Alive(c) /\ ~Held(c)'
      THEN life'[c] = "freed" /\ loopOf'[c] = None
      ELSE life'[c] = life[c] /\ loopOf'[c] = loopOf[c]
  BY <1>1, FreeFacts
<1> QED BY <1>2

\* A call handed over is added to those that are still to be run.
LEMMA HandOverKeepsPending ==
  ASSUME TypeOK, NEW l \in Loops, NEW op \in {"establish", "destory"}, NEW c \in Clients,
         HandOver(l, op, c), UNCHANGED <<taken, pos>>
  PROVE  /\ \A s \in Loops : \A g : Pends(s, g) => Pends(s, g)'
         /\ Pends(l, [op |-> op, conn |-> c])'
<1> DEFINE f == [op |-> op, conn |-> c]
<1>1. f \in Functor BY DEF Functor
<1> HIDE DEF f
<1>2. \A s \in Loops : \A g : InQueue(s, g)' <=> InQueue(s, g) \/ (s = l /\ g = f)
  BY <1>1, HandOverAdds DEF f
<1>3. \A s \in Loops : \A g : InBatch(s, g)' <=> InBatch(s, g) BY DEF InBatch
<1> QED BY <1>2, <1>3 DEF Pends, f

\* The call that is run establishes its connection; the others are still to come.
LEMMA RunCallAwaits ==
  ASSUME ServerInv, AwaitInv, NEW l \in Loops, RunCall(l)
  PROVE  AwaitInv'
<1> USE DEF ServerInv
<1> DEFINE i == pos[l] + 1
           f == taken[l][i]
<1>1. /\ pos[l] < Len(taken[l]) /\ pos' = [pos EXCEPT ![l] = i]
      /\ \/ f.op = "establish" /\ life' = [life EXCEPT ![f.conn] = "established"]
         \/ f.op = "destory" /\ life' = [life EXCEPT ![f.conn] = "reaped"]
      /\ UNCHANGED <<queue, taken, loopOf>>
  BY DEF RunCall, io
<1>2. /\ pos[l] \in Nat /\ Len(taken[l]) \in Nat /\ DOMAIN taken[l] = 1 .. Len(taken[l])
      /\ i \in DOMAIN taken[l]
  BY <1>1 DEF TypeOK
<1>3. pos'[l] = i /\ \A s \in Loops : s # l => pos'[s] = pos[s] BY <1>1 DEF TypeOK
<1>4. f \in Functor /\ f.conn \in Clients BY <1>2, FunctorsIn
<1> SUFFICES ASSUME NEW c \in Clients, life'[c] = "made"
             PROVE  Pends(loopOf[c], Establish(c))'
  BY DEF AwaitInv
<1>5. life[c] = "made" /\ f # Establish(c)
  <2>1. c # f.conn /\ life[c] = "made" BY <1>1, <1>4 DEF TypeOK
  <2> QED BY <2>1, FunctorFacts
<1>6. Pends(loopOf[c], Establish(c)) /\ loopOf[c] \in Loops BY <1>5 DEF AwaitInv, LifeInv, Alive
<1> DEFINE s == loopOf[c]
<1>7. CASE InQueue(s, Establish(c)) BY <1>1, <1>7 DEF Pends, InQueue
<1>8. CASE InBatch(s, Establish(c))
  <2>1. PICK k \in DOMAIN taken[s] : k > pos[s] /\ taken[s][k] = Establish(c)
    BY <1>8 DEF InBatch
  <2>2. k > pos'[s]
    <3>1. CASE s = l
      <4>1. k # i /\ k \in Nat BY <1>2, <1>5, <2>1, <3>1
      <4>2. k > pos[l] /\ pos'[s] = i BY <1>3, <2>1, <3>1
      <4> QED BY <1>2, <4>1, <4>2
    <3>2. CASE s # l BY <1>3, <1>6, <2>1, <3>2
    <3> QED BY <3>1, <3>2
  <2> QED BY <1>1, <2>1, <2>2 DEF Pends, InBatch
<1> QED BY <1>6, <1>7, <1>8 DEF Pends

\* Every step keeps it, whoever else has the connection.
LEMMA AwaitStep == ASSUME ServerInv, AwaitInv, [Next]_vars PROVE AwaitInv'
<1>0. TypeOK /\ LifeInv BY DEF ServerInv
<1>1. CASE Accept
  <2>1. PICK c \in Clients, n \in Loops :
            /\ HandOver(n, "establish", c) /\ life' = [life EXCEPT ![c] = "made"]
            /\ loopOf' = [loopOf EXCEPT ![c] = n] /\ UNCHANGED <<taken, pos>>
    BY <1>1, AcceptTakes DEF Accept
  <2>2. /\ \A s \in Loops : \A g : Pends(s, g) => Pends(s, g)'
        /\ Pends(n, Establish(c))'
    BY <1>0, <2>1, HandOverKeepsPending DEF Establish
  <2>3. ASSUME NEW d \in Clients, life'[d] = "made" PROVE Pends(loopOf[d], Establish(d))'
    <3>1. CASE d = c
      <4>1. loopOf'[d] = n BY <1>0, <2>1, <3>1 DEF TypeOK
      <4> QED BY <2>2, <3>1, <4>1 DEF Pends, InBatch, InQueue
    <3>2. CASE d # c
      <4>1. life[d] = "made" /\ loopOf'[d] = loopOf[d]
        BY <1>0, <2>1, <2>3, <3>2 DEF TypeOK
      <4>2. loopOf[d] \in Loops /\ Pends(loopOf[d], Establish(d))
        BY <1>0, <4>1 DEF AwaitInv, LifeInv, Alive
      <4> QED BY <2>2, <4>1, <4>2 DEF Pends, InBatch, InQueue
    <3> QED BY <3>1, <3>2
  <2> QED BY <2>3 DEF AwaitInv
<1>2. CASE ReapHandOver
  <2>1. PICK c \in Clients, n \in Loops :
            HandOver(n, "destory", c) /\ UNCHANGED <<life, taken, pos>>
    BY <1>2, ReapTakes
  <2>2. loopOf' = loopOf BY <1>2 DEF ReapHandOver, conn
  <2>3. \A s \in Loops : \A g : Pends(s, g) => Pends(s, g)'
    BY <1>0, <2>1, HandOverKeepsPending
  <2>4. ASSUME NEW d \in Clients, life'[d] = "made" PROVE Pends(loopOf[d], Establish(d))'
    <3>1. life[d] = "made" BY <2>1, <2>4
    <3>2. loopOf[d] \in Loops /\ Pends(loopOf[d], Establish(d))
      BY <1>0, <3>1 DEF AwaitInv, LifeInv, Alive
    <3> QED BY <2>2, <2>3, <3>2 DEF Pends, InBatch, InQueue
  <2> QED BY <2>4 DEF AwaitInv
<1>3. ASSUME NEW l \in Loops, RunCall(l) PROVE AwaitInv' BY <1>3, RunCallAwaits
<1>4. ASSUME NEW l \in Loops, TakeCalls(l) \/ DropCalls(l) PROVE AwaitInv'
  <2>1. ASSUME NEW d \in Clients, life'[d] = "made" PROVE Pends(loopOf[d], Establish(d))'
    <3>1. life[d] = "made" /\ loopOf'[d] = loopOf[d]
      <4>1. CASE TakeCalls(l) BY <2>1, <4>1 DEF TakeCalls, conn
      <4>2. CASE DropCalls(l) BY <1>0, <2>1, <4>2, FreeMakesNone
      <4> QED BY <1>4, <4>1, <4>2
    <3>2. loopOf[d] \in Loops /\ Pends(loopOf[d], Establish(d))
      BY <1>0, <3>1 DEF AwaitInv, LifeInv, Alive
    <3>3. Pends(loopOf[d], Establish(d)) => \A s : s = loopOf[d] => Pends(s, Establish(d))'
      BY <1>4, <3>2, BatchesKeepPending
    <3> QED BY <3>1, <3>2, <3>3 DEF Pends, InBatch, InQueue
  <2> QED BY <2>1 DEF AwaitInv
<1>5. ASSUME UNCHANGED <<queue, taken, pos>>,
             \A d \in Clients : life'[d] = "made" => life[d] = "made" /\ loopOf'[d] = loopOf[d]
      PROVE  AwaitInv'
  BY <1>5 DEF AwaitInv, Pends, InBatch, InQueue
<1>6. CASE ReapErase
  <2>1. UNCHANGED <<queue, taken, pos>> BY <1>6 DEF ReapErase, io
  <2> QED BY <1>0, <1>5, <1>6, <2>1, FreeMakesNone
<1>7. CASE UNCHANGED vars BY <1>5, <1>7 DEF vars, io, conn
<1>8. CASE /\ Next /\ ~Accept /\ ~ReapHandOver /\ ~ReapErase
           /\ \A l \in Loops : ~TakeCalls(l) /\ ~RunCall(l) /\ ~DropCalls(l)
  <2>1. UNCHANGED <<queue, taken, pos>> BY <1>8, OthersLeaveCalls
  <2>2. loopOf' = loopOf
    BY <1>8 DEF Next, BaseStep, ClientStep, IoStep, BasePoll, CheckBegins, AddToHeart, CheckEnds,
                ReadHeart, Tick, Connect, IoPoll, HandleMessage, HandleHeartbeat,
                HandleHangup, SendTo, conn
  <2>3. \/ life' = life \/ \E c \in Clients : life' = [life EXCEPT ![c] = "waiting"]
    BY <1>8 DEF Next, BaseStep, ClientStep, IoStep, BasePoll, CheckBegins, AddToHeart, CheckEnds,
                ReadHeart, Tick, Connect, IoPoll, HandleMessage, HandleHeartbeat,
                HandleHangup, SendTo, conn
  <2>4. ASSUME NEW d \in Clients, life'[d] = "made" PROVE life[d] = "made"
    BY <1>0, <2>3, <2>4 DEF TypeOK
  <2> QED BY <1>5, <2>1, <2>2, <2>4
<1> QED BY <1>1, <1>2, <1>3, <1>4, <1>6, <1>7, <1>8

\* It has its connectEstablished() in the rest of its loop's batch, or in the queue.
MadeIsAwaited ==
    \A c \in Clients :
        life[c] = "made" => [op |-> "establish", conn |-> c] \in Range(Pending(loopOf[c]))

\* A connection that was accepted has its connectEstablished() to come, whatever its loop
\* is at and though the map has let go of it.
THEOREM AcceptedAreEstablished == Spec => []MadeIsAwaited
<1>1. Init => AwaitInv BY DEF Init, AwaitInv
<1>2. ServerInv /\ AwaitInv /\ [Next]_vars => AwaitInv' BY AwaitStep
<1>3. ServerInv /\ AwaitInv => MadeIsAwaited
  <2> SUFFICES ASSUME ServerInv, AwaitInv, NEW c \in Clients, life[c] = "made"
               PROVE  [op |-> "establish", conn |-> c] \in Range(Pending(loopOf[c]))
    BY DEF MadeIsAwaited
  <2>1. loopOf[c] \in Loops /\ Pends(loopOf[c], Establish(c)) /\ TypeOK
    BY DEF ServerInv, LifeInv, Alive, AwaitInv
  <2>2. Establish(c) \in Range(Pending(loopOf[c])) BY <2>1, PendingRange
  <2> QED BY <2>2 DEF Establish
<1> QED BY <1>1, <1>2, <1>3, ServerInvHolds, PTL DEF Spec
=============================================================================
