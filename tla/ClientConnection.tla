--------------------------- MODULE ClientConnection ---------------------------
(***************************************************************************)
(* One ClientConnection with its Channel, its entry in the Epoll of its    *)
(* loop, its two Buffers and its socket (common/src/ClientConnection.cpp,  *)
(* Channel.cpp, Epoll.cpp, Buffer::readFd and Buffer::writeFd), as the     *)
(* loop's thread runs it, against a peer that sends, reads, closes and     *)
(* resets at any moment.                                                   *)
(*                                                                         *)
(* Data is counted, not looked at: a unit is one message of the protocol.  *)
(* What the user's messageCallback_ may do with one is chosen once, from   *)
(* the parameter Manners.  Every action runs one callback of the Channel,  *)
(* or one functor of the loop, to its end; the peer may act between any    *)
(* two, and so may the callbacks of the loop's other connections, which    *)
(* broadcast to this one.                                                  *)
(***************************************************************************)
EXTENDS Integers

CONSTANTS
    ReadMax,     \* what one readv() can take: the buffer's free part and 64 KB
    MaxRx,       \* the receive queue of the socket holds this much
    MaxSpace,    \* the send queue of the socket holds this much
    MaxSends,    \* bound: how many functors and broadcasts call sendMessage()
    Manners      \* the users there are, each the set of Outcomes of its callback

\* What messageCallback_ may do with a message.
Outcomes == {"reply", "ignore", "logout"}

ASSUME BoundsAssumption ==
    /\ ReadMax \in Nat \ {0} /\ MaxRx \in Nat \ {0}
    /\ MaxSpace \in Nat \ {0} /\ MaxSends \in Nat
    /\ Manners \subseteq SUBSET Outcomes

VARIABLES
    manner,  \* what the user's messageCallback_ may do; it stays
    chan,    \* the Channel and its entry in epoll, see ChannelType
    sock,    \* the socket as the kernel keeps it, see SocketType
    out,     \* messages in outputBuffer_
    sends,   \* how often functors and broadcasts have called sendMessage() so far
    todo,    \* the callbacks handleHappendEvents() has still to make
    waits,   \* in activeChannels, behind others: none of todo has been made
    life,    \* how far the connection is, see Lives
    faulted  \* the process has met undefined behaviour or a fatal signal

vars == <<manner, chan, sock, out, sends, todo, waits, life, faulted>>

\* readEvent is EPOLLIN | EPOLLPRI | EPOLLET and writeEvent EPOLLOUT: an entry
\* is edge-triggered exactly when it monitors "IN".
Interests == {"IN", "PRI", "OUT"}

ReadEvent == {"IN", "PRI"}

ChannelType == [monitor : SUBSET Interests,   \* monitorEvents_
                index   : {-1, 1},            \* index_
                known   : BOOLEAN,            \* epoll has an entry for the fd
                mask    : SUBSET Interests,   \* the events of that entry
                ready   : BOOLEAN]            \* it is in epoll's ready list

\* An urgent byte is kept out of the stream; the mark says where it was.
SocketType == [rx    : 0 .. MaxRx,      \* received and not read
               mark  : -1 .. MaxRx,     \* how much of it precedes the mark; -1: no mark
               fin   : BOOLEAN,         \* the peer has closed its side
               rst   : BOOLEAN,         \* the peer has reset the connection
               err   : BOOLEAN,         \* SO_ERROR is pending
               space : 0 .. MaxSpace]   \* free room to send

Lives == {"new", "established", "closed", "reaped"}

Init ==
    /\ manner \in Manners
    /\ chan = [monitor |-> {}, index |-> -1, known |-> FALSE, mask |-> {}, ready |-> FALSE]
    /\ sock = [rx |-> 0, mark |-> -1, fin |-> FALSE, rst |-> FALSE, err |-> FALSE,
               space |-> MaxSpace]
    /\ out = 0 /\ sends = 0
    /\ todo = {} /\ waits = FALSE
    /\ life = "new"
    /\ faulted = FALSE

Least(a, b) == IF a <= b THEN a ELSE b

-----------------------------------------------------------------------------
(* epoll, and the Channel's way to it.  ch is a channel, sk a socket.      *)

\* What poll would say of the socket.
Events(sk) == {e \in {"IN", "PRI", "OUT", "ERR", "HUP"} :
                  \/ e = "IN"  /\ (sk.rx > 0 \/ sk.fin \/ sk.rst)
                  \/ e = "PRI" /\ sk.mark >= 0
                  \/ e = "OUT" /\ (sk.space > 0 \/ sk.rst)
                  \/ e = "ERR" /\ sk.err
                  \/ e = "HUP" /\ sk.rst}

\* Errors and hang-ups are reported whether asked for or not.
Seen(sk, mask) == Events(sk) \intersect (mask \union {"ERR", "HUP"})

\* EPOLL_CTL_ADD; it fails, and changes nothing, if the entry exists.
EpollAdd(ch, sk) ==
    IF ch.known THEN ch
    ELSE [ch EXCEPT !.known = TRUE, !.mask = ch.monitor,
                    !.ready = Seen(sk, ch.monitor) # {}]

\* EPOLL_CTL_MOD; it fails if there is no entry.
EpollMod(ch, sk) ==
    IF ~ch.known THEN ch
    ELSE [ch EXCEPT !.mask = ch.monitor,
                    !.ready = ch.ready \/ Seen(sk, ch.monitor) # {}]

\* Epoll::updateChannel: index_ decides between the two.
UpdateChannel(ch, sk) ==
    IF ch.index < 0 THEN [EpollAdd(ch, sk) EXCEPT !.index = 1]
                    ELSE EpollMod(ch, sk)

\* Slip: index_ is left as it was.
RemoveChannelKeepsIndex(ch) ==
    [ch EXCEPT !.known = FALSE, !.mask = {}, !.ready = FALSE]

\* Epoll::removeChannel
RemoveChannel(ch) ==
    [ch EXCEPT !.known = FALSE, !.mask = {}, !.ready = FALSE, !.index = -1]

Monitor(ch, sk, events) == UpdateChannel([ch EXCEPT !.monitor = events], sk)

EnableReading(ch, sk) == Monitor(ch, sk, ch.monitor \union ReadEvent)
EnableWriting(ch, sk) == Monitor(ch, sk, ch.monitor \union {"OUT"})
DisableWriting(ch, sk) == Monitor(ch, sk, ch.monitor \ {"OUT"})
DisableAll(ch, sk) == Monitor(ch, sk, {})

\* ClientConnection::connectDestory
Destory(ch, sk) == RemoveChannel(DisableAll(ch, sk))

\* Slip: when all is written only the write event is taken out.
RearmQuiet(ch, sk, written) ==
    IF written THEN DisableWriting(ch, sk) ELSE EnableWriting(ch, sk)

\* Slip: the read event is registered again, whatever is left to write.
RearmReadOnly(ch, sk, written) == EnableReading(DisableWriting(ch, sk), sk)

\* The two ends of handleWrite: all is written, or something is left.
Rearm(ch, sk, written) ==
    IF written THEN EnableReading(DisableWriting(ch, sk), sk) ELSE EnableWriting(ch, sk)

-----------------------------------------------------------------------------
(* The loop's thread.                                                      *)

AtRest == todo = {} /\ ~faulted

\* In the order handleHappendEvents() makes them.
Rank == [close |-> 1, error |-> 2, read |-> 3, write |-> 4]

\* Slip: the read callback is made for any event.
CallbacksAlwaysRead(happened) ==
    {"read"} \union (IF "ERR" \in happened THEN {"close"} ELSE {})
    \union (IF "HUP" \in happened /\ "IN" \notin happened THEN {"error"} ELSE {})
    \union (IF "OUT" \in happened THEN {"write"} ELSE {})

\* handleHappendEvents(): which callbacks.  The constructor of ClientConnection
\* gives handleClose as the error callback and handleError as the close callback.
Callbacks(happened) ==
    {c \in DOMAIN Rank : \/ c = "close" /\ "ERR" \in happened
                         \/ c = "error" /\ "HUP" \in happened /\ "IN" \notin happened
                         \/ c = "read"  /\ happened \intersect ReadEvent # {}
                         \/ c = "write" /\ "OUT" \in happened}

\* epoll_wait reports the socket and getActiveEvents() clears monitorEvents_,
\* though not the entry in epoll.  An edge-triggered entry leaves the ready
\* list, a level-triggered one stays.  The callbacks wait for those of the channels
\* that stand before this one in activeChannels.
Report ==
    /\ AtRest
    /\ chan.known /\ chan.ready
    /\ Seen(sock, chan.mask) # {}
    /\ chan' = [chan EXCEPT !.monitor = {}, !.ready = "IN" \notin chan.mask]
    /\ todo' = Callbacks(Seen(sock, chan.mask)) /\ waits' = TRUE
    /\ UNCHANGED <<manner, sock, out, sends, life, faulted>>

\* handleHappendEvents() makes its next callback.
Makes(callback) == /\ ~faulted
                   /\ callback \in todo /\ \A other \in todo : Rank[other] >= Rank[callback]
                   /\ todo' = todo \ {callback} /\ waits' = FALSE

Fault == faulted' = TRUE /\ UNCHANGED <<manner, chan, sock, out, sends, life>>

\* handleClose(): closeCallback_, which is the user's, and connectDestory().
CloseFrom(sk) ==
    /\ chan' = Destory(chan, sk)
    /\ life' = IF life = "reaped" THEN life ELSE "closed"
    /\ UNCHANGED <<manner, out, sends, faulted>>

HandleClose == /\ Makes("close")
               /\ CloseFrom(sock)
               /\ UNCHANGED sock

\* handleError(): SO_ERROR is fetched, which clears it, and nothing is
\* monitored any more.
HandleError ==
    /\ Makes("error")
    /\ LET sk == [sock EXCEPT !.err = FALSE]
       IN  sock' = sk /\ chan' = DisableAll(chan, sk)
    /\ UNCHANGED <<manner, out, sends, life, faulted>>

\* What messageCallback_ does with the message it takes from inputBuffer_.
UserCallback(sk) ==
    \/ /\ "reply" \in manner
       /\ out' = out + 1
       /\ chan' = EnableWriting(chan, sk)
       /\ UNCHANGED life
    \/ /\ "ignore" \in manner
       /\ UNCHANGED <<chan, out, life>>
    \/ /\ "logout" \in manner
       /\ chan' = Destory(chan, sk)
       /\ UNCHANGED <<out, life>>

\* readv() stops before the mark; one that starts at the mark leaves the urgent byte out.
Readable(sk) == Least(IF sk.mark > 0 THEN sk.mark ELSE sk.rx, ReadMax)

\* The socket after a readv() of n.
Read(sk, n) == [sk EXCEPT !.rx = sk.rx - n, !.mark = IF sk.mark > 0 THEN sk.mark - n ELSE -1]

\* handleRead() with data in the socket: one readv(), one messageCallback_.  What
\* the callback leaves in inputBuffer_ is not followed.
ReadData ==
    /\ Makes("read")
    /\ sock.rx > 0
    /\ LET sk == Read(sock, Readable(sock))
       IN  /\ sock' = sk
           /\ UserCallback(sk)
    /\ UNCHANGED <<manner, sends, faulted>>

\* handleRead() at the end of the stream: readv() returns 0.
ReadEof ==
    /\ Makes("read")
    /\ sock.rx = 0 /\ ~sock.err /\ (sock.fin \/ sock.rst)
    /\ sock' = Read(sock, 0)
    /\ CloseFrom(sock')

\* handleRead() when readv() fails: readFd() keeps the result in a size_t, takes
\* -1 for a length and appends that much.  It fails after a reset, and with EAGAIN when
\* all that has come is an urgent byte.
ReadFails ==
    /\ Makes("read")
    /\ sock.rx = 0 /\ (sock.err \/ ~(sock.fin \/ sock.rst))
    /\ Fault

\* handleWrite() on a sound connection: one write().
WriteData ==
    /\ Makes("write")
    /\ ~sock.rst
    /\ LET n == Least(out, sock.space)
           sk == [sock EXCEPT !.space = sock.space - n]
       IN  /\ sock' = sk
           /\ out' = out - n
           /\ chan' = Rearm(chan, sk, n = out)
    /\ UNCHANGED <<manner, sends, life, faulted>>

\* handleWrite() after a reset: the pending error is returned once ...
WriteError ==
    /\ Makes("write")
    /\ sock.rst /\ sock.err
    /\ LET sk == [sock EXCEPT !.err = FALSE]
       IN  sock' = sk /\ chan' = Rearm(chan, sk, FALSE)
    /\ UNCHANGED <<manner, out, sends, life, faulted>>

\* ... and the next write() raises SIGPIPE, which nobody handles.
WriteKills == Makes("write") /\ sock.rst /\ ~sock.err /\ Fault

HandleRead == ReadData \/ ReadEof \/ ReadFails
HandleWrite == WriteData \/ WriteError \/ WriteKills

\* connectEstablished(), the first functor the loop runs for the connection.
Establish ==
    /\ AtRest /\ life = "new"
    /\ chan' = EnableReading(chan, sock)
    /\ life' = "established"
    /\ UNCHANGED <<manner, sock, out, sends, todo, waits, faulted>>

\* Slip: a functor that overtakes connectEstablished().
SendMessageEarly ==
    /\ ~faulted /\ (todo = {} \/ waits)
    /\ sends < MaxSends
    /\ sends' = sends + 1
    /\ out' = out + 1
    /\ chan' = EnableWriting(chan, sock)
    /\ UNCHANGED <<manner, sock, todo, waits, life, faulted>>

\* sendMessage() for a broadcast or a late answer: in a functor of the loop; or at once,
\* from the callback of another connection of the loop (runInLoop), which comes after
\* those of this one or, with monitorEvents_ cleared already, before them.  The users'
\* table names a connection that was closed or reaped as well.
SendMessage ==
    /\ ~faulted /\ (todo = {} \/ waits)
    /\ life # "new"
    /\ sends < MaxSends
    /\ sends' = sends + 1
    /\ out' = out + 1
    /\ chan' = EnableWriting(chan, sock)
    /\ UNCHANGED <<manner, sock, todo, waits, life, faulted>>

\* connectDestory() in the functor the heartbeat check hands to the loop.
Reap ==
    /\ AtRest /\ life \in {"established", "closed"}
    /\ chan' = Destory(chan, sock)
    /\ life' = "reaped"
    /\ UNCHANGED <<manner, sock, out, sends, todo, waits, faulted>>

-----------------------------------------------------------------------------
(* The peer.  The kernel puts the entry in the ready list when something    *)
(* new happens to the socket that the entry asks for.                      *)

Signal(event) == chan' = [chan EXCEPT !.ready = chan.ready \/ (chan.known /\ event \in chan.mask)]

PeerSends ==
    /\ ~faulted /\ ~sock.fin /\ ~sock.rst /\ sock.rx < MaxRx
    /\ sock' = [sock EXCEPT !.rx = sock.rx + 1]
    /\ Signal("IN")
    /\ UNCHANGED <<manner, out, sends, todo, waits, life, faulted>>

\* One urgent byte at a time.
PeerUrges ==
    /\ ~faulted /\ ~sock.fin /\ ~sock.rst /\ sock.mark = -1
    /\ sock' = [sock EXCEPT !.mark = sock.rx]
    /\ Signal("PRI")
    /\ UNCHANGED <<manner, out, sends, todo, waits, life, faulted>>

PeerCloses ==
    /\ ~faulted /\ ~sock.fin /\ ~sock.rst
    /\ sock' = [sock EXCEPT !.fin = TRUE]
    /\ Signal("IN")
    /\ UNCHANGED <<manner, out, sends, todo, waits, life, faulted>>

\* Room to send is signalled to whoever found none.
PeerReads ==
    /\ ~faulted /\ ~sock.rst /\ sock.space < MaxSpace
    /\ sock' = [sock EXCEPT !.space = sock.space + 1]
    /\ IF sock.space = 0 THEN Signal("OUT") ELSE UNCHANGED chan
    /\ UNCHANGED <<manner, out, sends, todo, waits, life, faulted>>

PeerResets ==
    /\ ~faulted /\ ~sock.rst
    /\ sock' = [sock EXCEPT !.rst = TRUE, !.err = TRUE]
    /\ chan' = [chan EXCEPT !.ready = chan.known]
    /\ UNCHANGED <<manner, out, sends, todo, waits, life, faulted>>

-----------------------------------------------------------------------------
LoopStep == Report \/ HandleClose \/ HandleError \/ HandleRead \/ HandleWrite \/ Establish

PeerStep == PeerSends \/ PeerUrges \/ PeerCloses \/ PeerReads \/ PeerResets

Next == LoopStep \/ SendMessage \/ Reap \/ PeerStep

Spec == Init /\ [][Next]_vars

\* The loop runs, and the peer takes what is sent to it.
FairSpec == Spec /\ WF_vars(LoopStep) /\ WF_vars(PeerReads)

-----------------------------------------------------------------------------
\* Type invariant of the connection.
TypeOK ==
    /\ manner \in Manners
    /\ chan \in ChannelType /\ sock \in SocketType
    /\ sends \in 0 .. MaxSends /\ out \in 0 .. sends + 1
    /\ todo \subseteq DOMAIN Rank /\ waits \in BOOLEAN
    /\ life \in Lives /\ faulted \in BOOLEAN
    /\ life = "new" => ~chan.known /\ todo = {}

\* index_ is the state machine the comment in Epoll.cpp calls it: -1 means that
\* epoll does not know the descriptor, 1 that it does, however often the
\* connection is torn down and registered again.
IndexTracksEpoll == TypeOK /\ ((chan.index = 1) <=> chan.known)

\* Between two turns of the loop output left in the buffer is still monitored for
\* writing, so that no reply is forgotten, and a connection with nothing left to
\* write listens again: whichever way the read and the write callback of one event,
\* a functor's sendMessage and the clearing of monitorEvents_ followed one another.
Armed ==
    AtRest /\ ~sock.rst /\ chan.known =>
        (IF out > 0 THEN "OUT" ELSE "IN") \in chan.mask

\* handleRead() and handleWrite() have no way to cope with EAGAIN, with an error or with
\* SIGPIPE, and meet none but after a reset or at an urgent byte that is all there is to
\* read: whatever clears monitorEvents_, sends or registers the descriptor again in
\* between, no event is handled that an earlier callback has used up.
FaultsComeFromPeer == faulted => sock.rst \/ (sock.mark = 0 /\ sock.rx = 0)

\* Liveness, for a user who answers every message: the end of the stream is noticed, even
\* if it arrives together with data or behind output that the peer has yet to take.
EofIsNoticed ==
    manner = {"reply"} /\ sock.fin /\ life = "established"
        ~> life \in {"closed", "reaped"} \/ sock.rst
=============================================================================
