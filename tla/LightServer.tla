----------------------------- MODULE LightServer -----------------------------
(***************************************************************************)
(* The server: the base loop that accepts clients and checks their         *)
(* heartbeats, the I/O loops of the EventLoopThreadPool the clients are    *)
(* spread over, and the life of every ClientConnection object between them *)
(* (common/src/LightServer.cpp, EventLoopThreadPool.cpp,                   *)
(* ClientConnection.cpp).                                                  *)
(*                                                                         *)
(* The loops are those of EventLoop, reduced to what it shows of them: a   *)
(* call handed over is run once, in order, in a batch that is taken as a   *)
(* whole.  A connection is that of ClientConnection, reduced to whether    *)
(* epoll knows it.  The objects are held by shared_ptr: by the map of the  *)
(* server and by the functors of the queues and batches; the last one to   *)
(* let go destroys the object, and ~Socket closes its descriptor.  The     *)
(* user of the library (main.cpp) keeps a plain pointer to each connection *)
(* that registered, and sends to them all: from the callback of any other  *)
(* connection of their loop, and by functors that hold nothing.  What it   *)
(* does with the pointer to a destroyed one is for ChatServer to say.      *)
(***************************************************************************)
EXTENDS Integers, Sequences, FiniteSets, Functions

CONSTANTS
    Clients,     \* each connects at most once
    Registering, \* bound: the clients that may register with the user
    LoopsNum,    \* threadsNum, the number of I/O loops
    HeartTime,   \* HEART_TIME, in ticks of the clock
    MaxTurn,     \* bound: a turn of the base loop takes at most so many ticks
    FirstDt,     \* what the first heartbeat check may take for the time elapsed:
                 \* oldTime_ is not initialised, and time_t is signed
    None

ASSUME ServerAssumption ==
    /\ LoopsNum \in Nat \ {0} /\ MaxTurn \in Nat \ {0}
    /\ HeartTime \in Nat /\ HeartTime > MaxTurn
    /\ FirstDt \subseteq Int /\ FirstDt # {} /\ Registering \subseteq Clients
    /\ None \notin Clients

Loops == 0 .. LoopsNum - 1   \* the indices of loops_

VARIABLES
    \* the kernel
    backlog,     \* clients waiting to be accepted
    listenReady, \* epoll holds the listening socket in its ready list
    elapsed,     \* ticks since the last heartbeat check (oldTime_)
    \* the base loop
    bpc,         \* where it is
    next,        \* next_ of the pool
    map,         \* the clients in ClientConnectionMap_
    scan,        \* those the running heartbeat check has still to visit
    cur,         \* the one it visits
    sum,         \* the value of heartTime_ it has read
    dt,          \* the time it adds
    checked,     \* the first heartbeat check, which sets oldTime_, is over
    \* the I/O loops
    ipc,         \* where each is
    queue,       \* otherThreadCalls of each
    taken,       \* the batch each runs; its functors live until the batch ends
    pos,         \* how many functors of the batch have run
    active,      \* the connections each has still to dispatch
    \* the connections
    life,        \* of the client and its object, see Lives
    loopOf,      \* the loop the connection was given
    known,       \* the connections epoll knows, in their loop
    users,       \* those the user has a pointer to (usersMap of main.cpp)
    revived,     \* those sent to after their connectDestory() (history)
    heart,       \* heartTime_; it is compared with HEART_TIME only, so capped
    quiet,       \* ticks since the connection was made or had a heartbeat (history)
    wronged      \* heartTime_ holds more than its silence: the first check added to it, or
                 \* its last heartbeat was overwritten (history)

kernel == <<backlog, listenReady, elapsed>>
check == <<scan, cur, sum, dt, checked>>
base == <<bpc, next, map, check>>
io == <<ipc, queue, taken, pos, active>>
reach == <<known, users, revived>>
beat == <<heart, quiet, wronged>>
conn == <<life, loopOf, reach, beat>>
vars == <<kernel, base, io, conn>>

Lives == {"away", "waiting", "made", "established", "reaped", "freed"}

Functor == [op : {"establish", "destory"}, conn : Clients]

Init ==
    /\ backlog = <<>> /\ listenReady = FALSE /\ elapsed = 0
    /\ bpc = "poll" /\ next = 0 /\ map = {}
    /\ scan = {} /\ cur = None /\ sum = 0 /\ dt = 0 /\ checked = FALSE
    /\ ipc = [l \in Loops |-> "poll"]
    /\ queue = [l \in Loops |-> <<>>] /\ taken = [l \in Loops |-> <<>>]
    /\ pos = [l \in Loops |-> 0] /\ active = [l \in Loops |-> {}]
    /\ life = [c \in Clients |-> "away"]
    /\ loopOf = [c \in Clients |-> None]
    /\ known = {} /\ users = {} /\ revived = {}
    /\ heart = [c \in Clients |-> 0] /\ quiet = [c \in Clients |-> 0] /\ wronged = {}

Capped(n) == IF n < HeartTime THEN n ELSE HeartTime

Alive(c) == life[c] \in {"made", "established", "reaped"}

-----------------------------------------------------------------------------
(* The clients and the clock.                                              *)

\* A client completes its handshake with the listening socket.
Connect(c) ==
    /\ life[c] = "away"
    /\ life' = [life EXCEPT ![c] = "waiting"]
    /\ backlog' = Append(backlog, c)
    /\ listenReady' = TRUE
    /\ UNCHANGED <<elapsed, base, io, loopOf, reach, beat>>

Tick ==
    /\ elapsed < MaxTurn
    /\ elapsed' = elapsed + 1
    /\ quiet' = [c \in Clients |-> IF Alive(c) THEN Capped(quiet[c] + 1) ELSE quiet[c]]
    /\ UNCHANGED <<backlog, listenReady, base, io, life, loopOf, reach, heart, wronged>>

-----------------------------------------------------------------------------
(* Ownership.                                                              *)

\* A functor of one of these sequences holds the connection.
HeldIn(qs, c) == \E l \in Loops : \E i \in DOMAIN qs[l] : qs[l][i].conn = c

\* Whoever drops the last shared_ptr, which makes the map m, the queues q and the
\* batches t, runs the destructor; nothing is left of the object, and as its descriptor is
\* closed, epoll forgets it.
Free(m, q, t) ==
    LET gone == {c \in Clients : Alive(c) /\ c \notin m /\ ~HeldIn(q, c) /\ ~HeldIn(t, c)}
        Cleared(f, v) == [c \in Clients |-> IF c \in gone THEN v ELSE f[c]]
    IN  /\ life' = Cleared(life, "freed")
        /\ loopOf' = Cleared(loopOf, None)
        /\ heart' = Cleared(heart, 0) /\ quiet' = Cleared(quiet, 0)
        /\ known' = known \ gone /\ wronged' = wronged \ gone

\* runInLoop() from the base thread: the functor is queued in the I/O loop.
HandOver(l, op, c) == queue' = [queue EXCEPT ![l] = Append(@, [op |-> op, conn |-> c])]

-----------------------------------------------------------------------------
(* The base loop.                                                          *)

Goto(from, to) == bpc = from /\ bpc' = to

\* Slip: the poll is taken for timed out.
BasePollMisses ==
    /\ Goto("poll", "heart")
    /\ listenReady' = FALSE
    /\ UNCHANGED <<backlog, elapsed, next, map, check, io, conn>>

\* epoll_wait returns: for the listening socket, which is registered
\* edge-triggered, or else for the timerfd or by timeout.
BasePoll ==
    /\ Goto("poll", IF listenReady THEN "accept" ELSE "heart")
    /\ listenReady' = FALSE
    /\ UNCHANGED <<backlog, elapsed, next, map, check, io, conn>>

\* Slip: the listening socket is emptied at once.
AcceptAll ==
    /\ Goto("accept", "heart")
    /\ LET calls == [i \in DOMAIN backlog |-> [op |-> "establish", conn |-> backlog[i]]]
           come == Range(backlog)
       IN  /\ map' = map \union come
           /\ loopOf' = [c \in Clients |-> IF c \in come THEN next ELSE loopOf[c]]
           /\ queue' = [queue EXCEPT ![next] = @ \o calls]
           /\ life' = [c \in Clients |-> IF c \in come THEN "made" ELSE life[c]]
    /\ next' = (next + 1) % LoopsNum
    /\ backlog' = <<>>
    /\ UNCHANGED <<listenReady, elapsed, check, ipc, taken, pos, active, reach, beat>>

\* Socket::accept(): the client that has waited longest; no client, and the program
\* aborts (see AcceptFindsClient).
NextClient == Head(backlog)

\* handleRead() of the listening socket: one accept(), and onNewConnection().
Accept ==
    /\ Goto("accept", "heart")
    /\ LET c == NextClient
           l == next                  \* getNextLoop()
       IN  /\ map' = map \union {c}
           /\ loopOf' = [loopOf EXCEPT ![c] = l]
           /\ HandOver(l, "establish", c)
           /\ life' = [life EXCEPT ![c] = "made"]
    /\ next' = (next + 1) % LoopsNum
    /\ backlog' = Tail(backlog)
    /\ UNCHANGED <<listenReady, elapsed, check, ipc, taken, pos, active, reach, beat>>

\* Slip: oldTime_ is not set to the time of this check.
CheckBeginsAgain ==
    /\ Goto("heart", "scan")
    /\ dt' \in IF checked THEN {elapsed} ELSE FirstDt
    /\ scan' = map
    /\ UNCHANGED <<kernel, next, map, cur, sum, checked, io, conn>>

\* checkEveryClientAlive(): the time since the last check ...
CheckBegins ==
    /\ Goto("heart", "scan")
    /\ dt' \in IF checked THEN {elapsed} ELSE FirstDt
    /\ elapsed' = 0
    /\ scan' = map
    /\ UNCHANGED <<backlog, listenReady, next, map, cur, sum, checked, io, conn>>

\* ... then one connection after the other: checkHeart() reads heartTime_ ...
ReadHeart(c) ==
    /\ Goto("scan", "add")
    /\ c \in scan
    /\ scan' = scan \ {c}
    /\ cur' = c
    /\ sum' = heart[c]
    /\ UNCHANGED <<kernel, next, map, dt, checked, io, conn>>

\* ... and writes it back; the connection's thread may reset it in between.
AddToHeart ==
    /\ Goto("add", IF sum + dt >= HeartTime THEN "reap" ELSE "scan")
    /\ heart' = [heart EXCEPT ![cur] = Capped(sum + dt)]
    /\ sum' = 0
    /\ cur' = IF bpc' = "reap" THEN cur ELSE None
    /\ wronged' = IF checked THEN wronged ELSE wronged \union {cur}
    /\ UNCHANGED <<kernel, next, map, scan, dt, checked, io, life, loopOf, reach, quiet>>

\* Slip: the functor goes to the loop the next client will be given.
ReapOnNextLoop ==
    /\ Goto("reap", "erase")
    /\ HandOver(next, "destory", cur)
    /\ UNCHANGED <<kernel, next, map, check, ipc, taken, pos, active, conn>>

\* A connection that is taken for dead: its loop is told to destroy it ...
ReapHandOver ==
    /\ Goto("reap", "erase")
    /\ HandOver(loopOf[cur], "destory", cur)
    /\ UNCHANGED <<kernel, next, map, check, ipc, taken, pos, active, conn>>

\* Slip: the connection stays in the map.
ReapKeepsEntry ==
    /\ Goto("erase", "scan")
    /\ Free(map, queue, taken)
    /\ cur' = None
    /\ UNCHANGED <<kernel, next, map, scan, sum, dt, checked, io, users, revived>>

\* ... and it leaves the map.
ReapErase ==
    /\ Goto("erase", "scan")
    /\ map' = map \ {cur}
    /\ Free(map', queue, taken)
    /\ cur' = None
    /\ UNCHANGED <<kernel, next, scan, sum, dt, checked, io, users, revived>>

CheckEnds ==
    /\ Goto("scan", "poll")
    /\ scan = {}
    /\ dt' = 0
    /\ checked' = TRUE
    /\ UNCHANGED <<kernel, next, map, scan, cur, sum, io, conn>>

-----------------------------------------------------------------------------
(* The I/O loops.                                                          *)

IoGoto(l, from, to) == ipc[l] = from /\ ipc' = [ipc EXCEPT ![l] = to]

\* epoll_wait returns: for some connections, or because of a call handed over, by the
\* server or, for those who registered, by the user.
IoPoll(l, ready) ==
    /\ IoGoto(l, "poll", "dispatch")
    /\ ready \subseteq {c \in known : loopOf[c] = l}
    /\ ready # {} \/ queue[l] # <<>> \/ users # {}
    /\ active' = [active EXCEPT ![l] = ready]
    /\ UNCHANGED <<kernel, base, queue, taken, pos, conn>>

Dispatch(l, c) ==
    /\ ipc[l] = "dispatch" /\ c \in active[l]
    /\ active' = [active EXCEPT ![l] = @ \ {c}]

\* A message that is no heartbeat, or room to write; a client may register.
HandleMessage(l, c) ==
    /\ Dispatch(l, c)
    /\ users' \in {users, users \union ({c} \intersect Registering)}
    /\ UNCHANGED <<kernel, base, ipc, queue, taken, pos, life, loopOf, known, revived, beat>>

\* sendMessage() to connection d, one of those a chat message goes to: at once in the
\* callback of a connection of the same loop that is not through yet, or in a functor, at
\* any place of the batch, if the message came in another loop.  enableWriting() adds the
\* descriptor to epoll again if it is not there.
SendTo(l, d) ==
    /\ (ipc[l] = "dispatch" /\ active[l] # {}) \/ ipc[l] = "run"
    /\ d \in users /\ Alive(d) /\ loopOf[d] = l
    /\ known' = known \union {d}
    /\ revived' = IF life[d] = "reaped" THEN revived \union {d} ELSE revived
    /\ UNCHANGED <<kernel, base, io, life, loopOf, users, beat>>

\* A heartbeat, a CMD_HEART: resetHeartTime(), run at once in the connection's own thread.
\* Between ReadHeart and AddToHeart it is overwritten.
HandleHeartbeat(l, c) ==
    /\ Dispatch(l, c) /\ Alive(c)
    /\ heart' = [heart EXCEPT ![c] = 0]
    /\ quiet' = [quiet EXCEPT ![c] = 0]
    /\ wronged' = IF bpc = "add" /\ cur = c THEN wronged \union {c} ELSE wronged \ {c}
    /\ UNCHANGED <<kernel, base, ipc, queue, taken, pos, life, loopOf, reach>>

\* The end of the stream, an error or a logout: handleClose() or connectDestory().
\* The map keeps the object.  The write callback of the same event, if it is
\* made, registers the descriptor again.
HandleHangup(l, c) ==
    /\ Dispatch(l, c)
    /\ \/ known' = known \ {c}
       \/ UNCHANGED known
    /\ UNCHANGED <<kernel, base, ipc, queue, taken, pos, life, loopOf, users, revived, beat>>

\* Slip: of each batch only the last call is run.
TakeLastCall(l) ==
    /\ IoGoto(l, "dispatch", "run")
    /\ active[l] = {}
    /\ taken' = [taken EXCEPT ![l] = queue[l]]
    /\ queue' = [queue EXCEPT ![l] = <<>>]
    /\ pos' = [pos EXCEPT ![l] = IF queue[l] = <<>> THEN 0 ELSE Len(queue[l]) - 1]
    /\ UNCHANGED <<kernel, base, active, conn>>

\* processOthreThreadCalls(): the queue is taken as a whole ...
TakeCalls(l) ==
    /\ IoGoto(l, "dispatch", "run")
    /\ active[l] = {}
    /\ taken' = [taken EXCEPT ![l] = queue[l]]
    /\ queue' = [queue EXCEPT ![l] = <<>>]
    /\ pos' = [pos EXCEPT ![l] = 0]
    /\ UNCHANGED <<kernel, base, active, conn>>

\* ... and run, connectEstablished() or connectDestory() ...
RunCall(l) ==
    /\ ipc[l] = "run" /\ pos[l] < Len(taken[l])
    /\ pos' = [pos EXCEPT ![l] = @ + 1]
    /\ LET f == taken[l][pos[l] + 1]
       IN  \/ /\ f.op = "establish"
              /\ known' = known \union {f.conn}
              /\ life' = [life EXCEPT ![f.conn] = "established"]
           \/ /\ f.op = "destory"
              /\ known' = known \ {f.conn}
              /\ life' = [life EXCEPT ![f.conn] = "reaped"]
    /\ UNCHANGED <<kernel, base, ipc, queue, taken, active, loopOf, users, revived, beat>>

\* ... and the functors are destroyed together.
DropCalls(l) ==
    /\ IoGoto(l, "run", "poll")
    /\ pos[l] = Len(taken[l])
    /\ taken' = [taken EXCEPT ![l] = <<>>]
    /\ pos' = [pos EXCEPT ![l] = 0]
    /\ Free(map, queue, taken')
    /\ UNCHANGED <<kernel, base, queue, active, users, revived>>

-----------------------------------------------------------------------------
BaseStep == \/ BasePoll \/ Accept \/ CheckBegins \/ AddToHeart
            \/ ReapHandOver \/ ReapErase \/ CheckEnds
            \/ \E c \in Clients : ReadHeart(c)

\* What an I/O loop does of itself, once a call or a connection has woken it.
IoStep(l) == \/ queue[l] # <<>> /\ \E ready \in SUBSET Clients : IoPoll(l, ready)
             \/ TakeCalls(l) \/ RunCall(l) \/ DropCalls(l)
             \/ \E c \in Clients : \/ HandleMessage(l, c) \/ HandleHeartbeat(l, c)
                                   \/ HandleHangup(l, c)

ClientStep == \/ \E c \in Clients : Connect(c)
              \/ \E l \in Loops, ready \in SUBSET Clients : IoPoll(l, ready)
              \/ \E l \in Loops, d \in Registering : SendTo(l, d)

Next == BaseStep \/ Tick \/ ClientStep \/ \E l \in Loops : IoStep(l)

Spec == Init /\ [][Next]_vars

\* The loops' threads are scheduled, an I/O loop wakes up for calls (EventLoop
\* shows it does), the base loop turns (its timerfd or the timeout sees to it),
\* and time passes.  Nothing is assumed of the clients.
FairSpec == /\ Spec
            /\ WF_vars(BaseStep) /\ WF_vars(Tick)
            /\ \A l \in Loops : WF_vars(IoStep(l))

-----------------------------------------------------------------------------
\* Type invariant of the server.
TypeOK ==
    /\ backlog \in Seq(Clients) /\ listenReady \in BOOLEAN /\ elapsed \in 0 .. MaxTurn
    /\ bpc \in {"poll", "accept", "heart", "scan", "add", "reap", "erase"}
    /\ next \in Loops /\ map \subseteq Clients /\ scan \subseteq map
    /\ cur \in Clients \union {None} /\ sum \in Int /\ dt \in Int
    /\ checked \in BOOLEAN
    /\ ipc \in [Loops -> {"poll", "dispatch", "run"}]
    /\ queue \in [Loops -> Seq(Functor)] /\ taken \in [Loops -> Seq(Functor)]
    /\ pos \in [Loops -> Nat] /\ active \in [Loops -> SUBSET Clients]
    /\ life \in [Clients -> Lives]
    /\ loopOf \in [Clients -> Loops \union {None}]
    /\ known \subseteq Clients /\ users \subseteq Clients /\ revived \subseteq Clients
    /\ heart \in [Clients -> Int] /\ quiet \in [Clients -> 0 .. HeartTime]
    /\ wronged \subseteq Clients

\* What remains to be run of the calls of loop l.
Pending(l) == SubSeq(taken[l], pos[l] + 1, Len(taken[l])) \o queue[l]

\* Safety: no loop can reach a destroyed connection, unless the user sent to it after its
\* connectDestory().  epoll holds raw Channel pointers; the object behind them is gone only
\* after its loop has taken the channel out, whichever of the base loop's erase and the
\* I/O loop's batch lets go of the object last, and whatever the user sends meanwhile: a
\* connection that has left the map but is still known to epoll has a connectDestory()
\* coming in its own loop.
NoDanglingChannel ==
    /\ \A c \in Clients : c \in known \/ (\E l \in Loops : c \in active[l])
                            => life[c] = "established" \/ c \in revived
    /\ \A c \in known \ (map \union revived) :
            [op |-> "destory", conn |-> c] \in Range(Pending(loopOf[c]))

\* Safety: accept() finds a client whenever the listening socket is reported, however
\* many come for one report and however many are left over from earlier ones; if it did
\* not, Socket::accept() would end the program.
AcceptFindsClient == TypeOK /\ (listenReady \/ bpc = "accept" => backlog # <<>>)

\* The step in which the heartbeat check takes the connection cur for dead.
Condemns == bpc = "add" /\ bpc' = "reap"

\* Safety: a client is not taken for dead before HEART_TIME without a heartbeat is over,
\* except for two turns of the base loop: the one it was accepted in, or its heartbeat
\* came in, all of which it is charged for, and the one the running check began with.
\* Whose heartTime_ holds an unknown interval of the first check, or had its reset
\* overwritten by a check in another thread, is beyond help until its next heartbeat;
\* nobody else is.
NotReapedEarly ==
    [][Condemns => cur \in wronged' \/ quiet[cur] + 2 * MaxTurn >= HeartTime]_vars

\* Liveness: a connection that is accepted is established.
MadeIsEstablished == \A c \in Clients : life[c] = "made" ~> life[c] = "established"

\* Liveness: each client that comes gets one accepted, the one that has waited longest:
\* nobody waits who came alone, and no more wait than came together.
EdgeAccepts ==
    \A c \in Clients : listenReady /\ Head(backlog) = c ~> life[c] \notin {"away", "waiting"}

\* Liveness: a client that stops sending heartbeats is found out, and what it held
\* is given back, whether it hung up, never did, or was registered again.  Only CMD_HEART
\* is a heartbeat: whoever sends other messages, for ever, is freed as well, though a
\* comment of main.cpp:105 says that every packet counts as one.
SilentIsFreed ==
    \A c \in Clients : []<>(quiet[c] = 0) \/ (Alive(c) ~> life[c] = "freed")

-----------------------------------------------------------------------------
(* What comments of the source say, and the code does not do: no run checks  *)
(* these, and the README says which steps break them.                        *)

\* Safety: no loop reaches a destroyed connection, whatever the user sends.
NoChannelDangles == \A l \in Loops : \A c \in active[l] : Alive(c)

\* Safety: a connection is destroyed, its descriptor closed, in its own loop.
FreedInOwnLoop ==
    [][\A c \in Clients : Alive(c) /\ life'[c] = "freed" => ipc' # ipc]_vars

\* Liveness: a client waiting at the listening socket is accepted.
WaitingIsAccepted == \A c \in Clients : life[c] = "waiting" ~> Alive(c)
=============================================================================
