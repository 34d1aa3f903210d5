------------------------------ MODULE ServerEnd ------------------------------
(***************************************************************************)
(* The end of a server: ~LightServer() tells the loop of every connection  *)
(* to destroy it, and then the members go, with the threads of the pool    *)
(* (common/src/LightServer.cpp, EventLoopThreadPool.cpp, and of            *)
(* EventLoop.cpp the queue of calls and its destruction).                  *)
(*                                                                         *)
(* The threads and their loops are those of EventLoopThreads; here they    *)
(* also run the calls handed to them.  A connection is held by the map of  *)
(* the server, by the functors of the queues and batches, and for a moment *)
(* by the destructor; the last to let go destroys it.  What a connection   *)
(* does in between is in LightServer and ClientConnection.                 *)
(***************************************************************************)
EXTENDS EventLoopThreads, FiniteSets

CONSTANTS Conns, None

ASSUME EndAssumption == None \notin Conns

VARIABLES
    map,       \* ClientConnectionMap_: the entries that are not null
    conn,      \* the local variable of the destructor
    home,      \* the loop of each connection that was made
    queue,     \* otherThreadCalls of each loop
    batch,     \* the calls it runs
    known,     \* the connections the epoll of their loop knows
    freed      \* the connections that have been destroyed

server == <<map, conn, home, queue, batch, known, freed>>
endVars == <<vars, server>>

Functor == [op : {"establish", "destory"}, conn : Conns]

EndInit ==
    /\ Init
    /\ map = {} /\ conn = None
    /\ home = [c \in {} |-> 1]
    /\ queue = [t \in Threads |-> <<>>] /\ batch = [t \in Threads |-> <<>>]
    /\ known = {} /\ freed = {}

Made == DOMAIN home

Of(calls, op) == {c \in Conns : \E k \in DOMAIN calls : calls[k] = [op |-> op, conn |-> c]}

HeldIn(qs) == UNION {Of(qs[t], "establish") \union Of(qs[t], "destory") : t \in Threads}

\* The connections nobody holds any more are destroyed.
Free(m, l, q, b) == freed' = Made \ (m \union {l} \union HeldIn(q) \union HeldIn(b))

HandOver(t, op, c) == queue' = [queue EXCEPT ![t] = Append(@, [op |-> op, conn |-> c])]

-----------------------------------------------------------------------------
(* The base thread.                                                        *)

\* onNewConnection(): the loops take turns.
Accept(c) ==
    /\ base = "serve" /\ c \notin Made
    /\ LET t == loops[(Cardinality(Made) % ThreadsNum) + 1]
       IN  /\ home' = [d \in Made \union {c} |-> IF d = c THEN t ELSE home[d]]
           /\ HandOver(t, "establish", c)
    /\ map' = map \union {c}
    /\ UNCHANGED <<vars, conn, batch, known, freed>>

BaseGoes(from, to) ==
    /\ Goto(from, to)
    /\ UNCHANGED <<i, loops, loopPtr, existing, early, joined, tpc, alive, quit>>

\* Slip: the connections are left to the destructor of the map.
EndServerWithMap ==
    /\ BaseGoes("serve", "mark")
    /\ map' = {}
    /\ Free(map', conn, queue, batch)
    /\ UNCHANGED <<conn, home, queue, batch, known>>

\* ~LightServer() is called, at any time or never.
EndServer == BaseGoes("serve", "hand") /\ UNCHANGED server

\* One connection after the other: the map lets go of it, and connectDestory() is
\* handed to its loop ...
HandOverDestory(c) ==
    /\ BaseGoes("hand", "drop")
    /\ c \in map
    /\ conn' = c
    /\ map' = map \ {c}
    /\ HandOver(home[c], "destory", c)
    /\ UNCHANGED <<home, batch, known, freed>>

\* ... and the local variable goes.
DropConn ==
    /\ BaseGoes("drop", "hand")
    /\ conn' = None
    /\ Free(map, conn', queue, batch)
    /\ UNCHANGED <<map, home, queue, batch, known>>

\* Then the members: ClientConnectionMap_, which is empty of connections, and
\* threadPool_ with its threads.
EndMembers == map = {} /\ BaseGoes("hand", "mark") /\ UNCHANGED server

-----------------------------------------------------------------------------
(* The threads.                                                            *)

\* The events of the connections are dispatched; the queue is taken as a whole ...
TakeCalls(t) ==
    /\ Poll(t)
    /\ batch' = [batch EXCEPT ![t] = queue[t]]
    /\ queue' = [queue EXCEPT ![t] = <<>>]
    /\ UNCHANGED <<map, conn, home, known, freed>>

\* ... and run: connectEstablished(), connectDestory(); then the functors go.
RunBatch(t) ==
    /\ RunCalls(t)
    /\ known' = (known \union Of(batch[t], "establish")) \ Of(batch[t], "destory")
    /\ batch' = [batch EXCEPT ![t] = <<>>]
    /\ Free(map, conn, queue, batch')
    /\ UNCHANGED <<map, conn, home, queue>>

\* ~EventLoop() drops the calls that have not been run, and its epoll.
EndLoop(t) ==
    /\ End(t)
    /\ queue' = [queue EXCEPT ![t] = <<>>]
    /\ Free(map, conn, queue', batch)
    /\ UNCHANGED <<map, conn, home, batch, known>>

-----------------------------------------------------------------------------
BaseStep == StartStep \/ DestroyStep
EndStep == (\E c \in Conns : HandOverDestory(c)) \/ DropConn \/ EndMembers
LoopStep(t) == \/ TakeCalls(t) \/ RunBatch(t) \/ EndLoop(t)
               \/ (Lock(t) \/ Publish(t) \/ Begin(t) \/ Check(t) \/ Reset(t)) /\ UNCHANGED server

Next == \/ BaseStep /\ UNCHANGED server
        \/ (\E c \in Conns : Accept(c)) \/ EndServer \/ EndStep
        \/ \E t \in Threads : LoopStep(t)

Spec == EndInit /\ [][Next]_endVars

\* Every thread is scheduled, and epoll_wait has a timeout.  No client need come, and
\* the server need not be destroyed at all.
FairSpec == /\ Spec
            /\ WF_endVars(BaseStep /\ UNCHANGED server) /\ WF_endVars(EndStep)
            /\ \A t \in Threads : WF_endVars(LoopStep(t))

-----------------------------------------------------------------------------
\* Type invariant of the server's end.
EndTypeOK ==
    /\ TypeOK
    /\ map \subseteq Made /\ conn \in Made \union {None}
    /\ Made \subseteq Conns /\ home \in [Made -> Threads]
    /\ queue \in [Threads -> Seq(Functor)] /\ batch \in [Threads -> Seq(Functor)]
    /\ known \subseteq Made /\ freed \subseteq Made

\* Safety: who is handed a call can still be handed one: as long as the server or the
\* pool uses a loop, be it for a new client or for the last call to an old one, its
\* thread has published it and has not been ended.
CallsMeetLoops ==
    /\ EndTypeOK
    /\ LoopsExist
    /\ base \in {"serve", "hand", "drop"} => \A t \in Threads : alive[t]

\* Safety: the server ends cleanly however far each loop is with its calls when its
\* thread is told to quit: the assertions hold, no thread is destroyed unjoined, no
\* loop's epoll knows a connection that is destroyed, and at the end none is left.
EndsCleanly ==
    /\ AssertionsHold
    /\ \A c \in known \intersect freed : ~alive[home[c]]
    /\ base = "gone" => freed = Made

-----------------------------------------------------------------------------
(* What comments of the source say, and the code does not do: no run checks  *)
(* this, and the README says which steps break it.                           *)

\* Safety: each connection is destroyed by the thread of its own loop ("let each tcp client's
\* thread close it itself", says the comment in the destructor).
ClosedAtHome == [][freed' # freed => tpc' # tpc]_endVars

\* Liveness: connectDestory() is run for each connection.
DestoryIsRun == \A c \in Conns : c \in known /\ base = "hand" ~> c \notin known
=============================================================================
