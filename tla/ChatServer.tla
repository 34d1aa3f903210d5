------------------------------ MODULE ChatServer ------------------------------
(***************************************************************************)
(* The chat program on top of the server (main/src/main.cpp, UserMap of    *)
(* common/inc/UserInfo.h): what onMessage() does with a message, in the    *)
(* thread of the loop that read it, beside the other loops' threads.       *)
(*                                                                         *)
(* A broadcast sends at once to the connections of its own loop and hands  *)
(* the others' loops a call, in which it binds two bare pointers: to the   *)
(* connection and to the message, which onMessage() deletes at its end.    *)
(* UserMap locks its mutex to insert a name and not to look through the    *)
(* names, which is a race with an insertion: such a scan may find anything *)
(* or end the process.  Passwords are stored and never looked at.          *)
(*                                                                         *)
(* The loops are those of EventLoop: the calls handed to one are run in    *)
(* order.  Of a connection only what the chat depends on is kept; the rest *)
(* is ClientConnection and LightServer.                                    *)
(***************************************************************************)
EXTENDS Naturals, Sequences, SequencesExt

CONSTANTS
    Names,    \* user names
    Conns,    \* connections
    LoopOf,   \* the loop of each connection
    MaxMsgs   \* bound: messages, of all kinds, that are read

Loops == {LoopOf[c] : c \in Conns}
Nobody == "nobody"   \* users.find(name) == users.end()

ASSUME ChatAssumption ==
    /\ LoopOf \in [Conns -> Loops]
    /\ Nobody \notin Conns
    /\ MaxMsgs \in Nat

VARIABLES
    owner,    \* pClient of each name, or Nobody
    online,   \* the names whose isOnline is set
    life,     \* "heard": its messages are read; "silent": logged out and torn down;
              \* "closed": torn down for good; "gone": freed
    thread,   \* what onMessage() of each loop is at, see Tasks
    queue,    \* the calls other loops have handed to each loop
    said,     \* how many chat messages each connection has sent (history)
    freed,    \* the chat messages that are deleted
    got,      \* what each connection was sent of the chat, in order (history)
    logins,   \* the connections told that their login succeeded (history)
    read,     \* how many messages have been read so far
    faulted   \* the process has used what is freed, or been ended by a race

vars == <<owner, online, life, thread, queue, said, freed, got, logins, read, faulted>>

Message == [from : Conns, no : 1 .. MaxMsgs]
Idle == [at |-> "idle"]

\* A scan of the names, on behalf of a message of conn, and a broadcast.
Tasks ==
    {Idle}
    \union [at : {"login", "logout"}, conn : Conns, name : Names, raced : BOOLEAN]
    \union [at : {"chat"}, conn : Conns, raced : BOOLEAN]
    \union [at : {"send"}, msg : Message, left : SUBSET Names]

Init ==
    /\ owner = [n \in Names |-> Nobody] /\ online = {}
    /\ life = [c \in Conns |-> "heard"]
    /\ thread = [l \in Loops |-> Idle]
    /\ queue = [l \in Loops |-> <<>>]
    /\ said = [c \in Conns |-> 0] /\ freed = {}
    /\ got = [c \in Conns |-> <<>>]
    /\ logins = {} /\ read = 0 /\ faulted = FALSE

-----------------------------------------------------------------------------
Running(l) == thread[l].at # "idle"

\* The loop of c reads a message of c and calls onMessage().
Reads(c) ==
    /\ ~faulted /\ life[c] = "heard" /\ ~Running(LoopOf[c])
    /\ read < MaxMsgs /\ read' = read + 1

\* The scans that an insertion meets half-way.
Disturbed == [l \in Loops |-> IF thread[l].at \in {"login", "logout", "chat"}
                              THEN [thread[l] EXCEPT !.raced = TRUE]
                              ELSE thread[l]]

\* processRegister(): UserMap::insert of a new user who is online, unless the name
\* is there already; the answer is always success.
Register(c, n) ==
    /\ Reads(c)
    /\ IF owner[n] = Nobody
       THEN /\ owner' = [owner EXCEPT ![n] = c]
            /\ online' = online \union {n}
            /\ thread' = Disturbed
       ELSE UNCHANGED <<owner, online, thread>>
    /\ UNCHANGED <<life, queue, said, freed, got, logins, faulted>>

Begin(c, task) ==
    /\ Reads(c)
    /\ thread' = [thread EXCEPT ![LoopOf[c]] = task]
    /\ UNCHANGED <<owner, online, life, queue, freed, got, logins, faulted>>

\* The other messages begin with a scan of the names.
BeginLogin(c, n) ==
    Begin(c, [at |-> "login", conn |-> c, name |-> n, raced |-> FALSE]) /\ UNCHANGED said

BeginLogout(c, n) ==
    Begin(c, [at |-> "logout", conn |-> c, name |-> n, raced |-> FALSE]) /\ UNCHANGED said

BeginChat(c) ==
    /\ Begin(c, [at |-> "chat", conn |-> c, raced |-> FALSE])
    /\ said' = [said EXCEPT ![c] = @ + 1]

Done(l) == thread' = [thread EXCEPT ![l] = Idle]

\* processLogin(): the name is found or not; nothing is set.
EndLogin(l) ==
    /\ ~faulted /\ thread[l].at = "login"
    /\ \E found \in IF thread[l].raced THEN BOOLEAN ELSE {owner[thread[l].name] # Nobody} :
           logins' = IF found THEN logins \union {thread[l].conn} ELSE logins
    /\ Done(l)
    /\ UNCHANGED <<owner, online, life, queue, said, freed, got, read, faulted>>

\* processLoginOut(): UserMap::exit of the name in the message, whoever's it is,
\* and connectDestory() of the connection.
EndLogout(l) ==
    /\ ~faulted /\ thread[l].at = "logout"
    /\ \/ online' = online \ {thread[l].name}
       \/ thread[l].raced /\ UNCHANGED online
    /\ life' = [life EXCEPT ![thread[l].conn] = "silent"]
    /\ logins' = logins \ {thread[l].conn}
    /\ Done(l)
    /\ UNCHANGED <<owner, queue, said, freed, got, read, faulted>>

\* Slip: the message is deleted as soon as its receivers are known.
EndScanFrees(l) ==
    /\ ~faulted /\ thread[l].at = "chat"
    /\ \E left \in IF thread[l].raced THEN SUBSET online ELSE {online} :
           LET m == [from |-> thread[l].conn, no |-> said[thread[l].conn]]
           IN  /\ thread' = [thread EXCEPT ![l] = [at |-> "send", msg |-> m, left |-> left]]
               /\ freed' = freed \union {m}
    /\ UNCHANGED <<owner, online, life, queue, said, got, logins, read, faulted>>

\* processChatMessage(): getOnlineClients().
EndScan(l) ==
    /\ ~faulted /\ thread[l].at = "chat"
    /\ \E left \in IF thread[l].raced THEN SUBSET online ELSE {online} :
           LET m == [from |-> thread[l].conn, no |-> said[thread[l].conn]]
           IN  thread' = [thread EXCEPT ![l] = [at |-> "send", msg |-> m, left |-> left]]
    /\ UNCHANGED <<owner, online, life, queue, said, freed, got, logins, read, faulted>>

\* A scan that meets an insertion may follow a link that is no more.
ScanFaults(l) ==
    /\ ~faulted /\ thread[l].at \in {"login", "logout", "chat"} /\ thread[l].raced
    /\ faulted' = TRUE
    /\ UNCHANGED <<owner, online, life, thread, queue, said, freed, got, logins, read>>

\* sendMessage() on a connection, of what is at the pointer now.  If c was torn down
\* it is registered with epoll again, and a peer that is still there is heard again
\* once all is written.
Send(c, m) ==
    /\ \E intact \in IF m \in freed THEN BOOLEAN ELSE {TRUE} :
           got' = [got EXCEPT ![c] = Append(@, [msg |-> m, intact |-> intact])]
    /\ life' = [life EXCEPT ![c] = IF @ = "silent" THEN "heard" ELSE @]
    /\ UNCHANGED faulted

UseAfterFree == faulted' = TRUE /\ UNCHANGED <<got, life>>

\* Slip: the calls are put before those that wait already.
HandOverFirst(c, m) == queue' = [queue EXCEPT ![LoopOf[c]] = <<[to |-> c, msg |-> m]>> \o @]

\* queueInLoop() on the loop of c.
HandOver(c, m) == queue' = [queue EXCEPT ![LoopOf[c]] = Append(@, [to |-> c, msg |-> m])]

\* Slip: only the connections of its own loop are sent the message.
SendNextAtHome(l, n) ==
    /\ ~faulted /\ thread[l].at = "send" /\ n \in thread[l].left
    /\ LET c == owner[n]
       IN  \/ life[c] = "gone" /\ UseAfterFree /\ UNCHANGED queue
           \/ life[c] # "gone" /\ LoopOf[c] = l /\ Send(c, thread[l].msg) /\ UNCHANGED queue
           \/ life[c] # "gone" /\ LoopOf[c] # l /\ UNCHANGED <<queue, got, life, faulted>>
    /\ thread' = [thread EXCEPT ![l].left = @ \ {n}]
    /\ UNCHANGED <<owner, online, said, freed, logins, read>>

\* runInLoop() for the next of the clients; getLoop() reads the connection.
SendNext(l, n) ==
    /\ ~faulted /\ thread[l].at = "send" /\ n \in thread[l].left
    /\ LET c == owner[n]
       IN  \/ life[c] = "gone" /\ UseAfterFree /\ UNCHANGED queue
           \/ life[c] # "gone" /\ LoopOf[c] = l /\ Send(c, thread[l].msg) /\ UNCHANGED queue
           \/ life[c] # "gone" /\ LoopOf[c] # l /\ HandOver(c, thread[l].msg)
              /\ UNCHANGED <<got, life, faulted>>
    /\ thread' = [thread EXCEPT ![l].left = @ \ {n}]
    /\ UNCHANGED <<owner, online, said, freed, logins, read>>

\* The end of onMessage(): delete result.
EndChat(l) ==
    /\ ~faulted /\ thread[l].at = "send" /\ thread[l].left = {}
    /\ freed' = freed \union {thread[l].msg}
    /\ Done(l)
    /\ UNCHANGED <<owner, online, life, queue, said, got, logins, read, faulted>>

\* The loop runs the next call it was handed.
RunCall(l) ==
    /\ ~faulted /\ ~Running(l) /\ queue[l] # <<>>
    /\ queue' = [queue EXCEPT ![l] = Tail(@)]
    /\ LET call == Head(queue[l])
       IN  IF life[call.to] = "gone" THEN UseAfterFree ELSE Send(call.to, call.msg)
    /\ UNCHANGED <<owner, online, thread, said, freed, logins, read>>

\* handleClose(): nothing of the user is changed, onClose() is empty.
PeerCloses(c) ==
    /\ ~faulted /\ life[c] = "heard" /\ ~Running(LoopOf[c])
    /\ life' = [life EXCEPT ![c] = "closed"]
    /\ logins' = logins \ {c}
    /\ UNCHANGED <<owner, online, thread, queue, said, freed, got, read, faulted>>

\* The heartbeat check of LightServer drops a connection that has been quiet for
\* too long, and its loop runs connectDestory(): the object is freed.
Reap(c) ==
    /\ ~faulted /\ life[c] # "gone" /\ ~Running(LoopOf[c])
    /\ life' = [life EXCEPT ![c] = "gone"]
    /\ logins' = logins \ {c}
    /\ UNCHANGED <<owner, online, thread, queue, said, freed, got, read, faulted>>

Proceed(l) == \/ EndLogin(l) \/ EndLogout(l) \/ EndScan(l) \/ EndChat(l) \/ RunCall(l)
              \/ \E n \in Names : SendNext(l, n)

Next == \/ \E c \in Conns : BeginChat(c) \/ PeerCloses(c) \/ Reap(c)
        \/ \E c \in Conns, n \in Names : Register(c, n) \/ BeginLogin(c, n) \/ BeginLogout(c, n)
        \/ \E l \in Loops : Proceed(l) \/ ScanFaults(l)

Spec == Init /\ [][Next]_vars

\* Every loop's thread goes on; nobody has to send, close or be quiet.
FairSpec == Spec /\ \A l \in Loops : WF_vars(Proceed(l))

-----------------------------------------------------------------------------
\* Type invariant; a name that is online is somebody's.
TypeOK ==
    /\ owner \in [Names -> Conns \union {Nobody}]
    /\ online \subseteq {n \in Names : owner[n] # Nobody}
    /\ life \in [Conns -> {"heard", "silent", "closed", "gone"}]
    /\ thread \in [Loops -> Tasks]
    /\ \A l \in Loops : queue[l] \in Seq([to : {c \in Conns : LoopOf[c] = l}, msg : Message])
    /\ said \in [Conns -> 0 .. MaxMsgs] /\ freed \subseteq Message
    /\ got \in [Conns -> Seq([msg : Message, intact : BOOLEAN])]
    /\ logins \subseteq Conns /\ read \in 0 .. MaxMsgs /\ faulted \in BOOLEAN

\* Safety: every client sees what any one client said in the order in which it was
\* said, whichever loops the two belong to and whoever else is talking.
SenderOrder ==
    /\ TypeOK
    /\ \A c \in Conns : \A i, j \in DOMAIN got[c] :
           i < j /\ got[c][i].msg.from = got[c][j].msg.from => got[c][i].msg.no <= got[c][j].msg.no

\* Safety: a message that is sent on within its own loop is sent before onMessage()
\* deletes it.
IntactAtHome ==
    \A c \in Conns : \A i \in DOMAIN got[c] :
        LoopOf[got[c][i].msg.from] = LoopOf[c] => got[c][i].intact

Sending(l, m, n) == thread[l].at = "send" /\ thread[l].msg = m /\ n \in thread[l].left

Received(c, m) == c \in Conns /\ \E i \in DOMAIN got[c] : got[c][i].msg = m

\* Connection c is on the list of the broadcast of m, or its loop has been handed the call.
Owed(c, m) == \/ \E l \in Loops, n \in Names : Sending(l, m, n) /\ owner[n] = c
              \/ [to |-> c, msg |-> m] \in ToSet(queue[LoopOf[c]])

\* Action property: a connection that is owed a message is owed it until it is sent to it,
\* whoever registers, logs out, closes or is freed meanwhile, unless the process ends.
OwedUntilSent ==
    [][\A c \in Conns, m \in Message :
           Owed(c, m) => Owed(c, m)' \/ Received(c, m)' \/ faulted']_vars

\* Liveness: whoever is on the list of a broadcast is sent the message, across
\* loops too, unless the process ends.
ListedIsSent ==
    \A l \in Loops, n \in Names, c \in Conns, k \in 1 .. MaxMsgs :
        LET m == [from |-> c, no |-> k]
        IN  Sending(l, m, n) ~> faulted \/ Received(owner[n], m)

-----------------------------------------------------------------------------
(* What comments of the source say, and the code does not do: no run checks  *)
(* these, and the README says which steps break them.                        *)

\* "Send to every client that is online" (main.cpp, processChatMessage): what is sent
\* is the message, not what is left where it was.
MessageIsIntact == \A c \in Conns : \A i \in DOMAIN got[c] : got[c][i].intact

\* "All the objects of clients that are online" (UserInfo.h, getOnlineClients()):
\* whoever is on the list is a connection that exists.
OnlineExists == \A n \in online : life[owner[n]] # "gone"

\* "Send to every client that is online": a client whose login was answered with
\* success is one of those, under some name.
LoggedInIsOnline == \A c \in logins : \E n \in online : owner[n] = c
=============================================================================
