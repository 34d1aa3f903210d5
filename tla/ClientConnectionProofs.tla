------------------------ MODULE ClientConnectionProofs ------------------------
(***************************************************************************)
(* Proofs about ClientConnection, for any sizes of the buffers and any     *)
(* number of messages: index_ says whether epoll knows the descriptor      *)
(* (IndexIsTrue), nothing that is to be written is forgotten (StaysArmed), *)
(* and what fails, fails by the peer (FaultsNeedPeer).                     *)
(*                                                                         *)
(* The inductive invariant says what the entry in epoll asks for while     *)
(* the callbacks of one event are being made: getActiveEvents() has        *)
(* cleared monitorEvents_, the entry still has the old mask, and each      *)
(* callback that is left may put either right, or take the entry away;     *)
(* a broadcast that comes first leaves the entry asking for room only.     *)
(***************************************************************************)
EXTENDS ClientConnection, TLAPS

\* index_ and the entry go together; an entry that is not there asks for nothing.
InStep(ch) == (ch.index = 1 <=> ch.known) /\ (~ch.known => ch.mask = {})

\* Before it is established a connection has nothing to write.
NewInv == life = "new" => out = 0 /\ todo = {}

\* More is to be written than functors have sent only while nobody asks to read: a reply
\* drops the read event until it is written.
OutInv == /\ ReadEvent \intersect (chan.mask \union chan.monitor) # {} \/ "read" \in todo
                => out <= sends
          /\ "read" \in todo => chan.monitor \subseteq {"OUT"}

\* Until the peer resets the connection, a read callback has something to read, if not
\* only the urgent byte it was called for, ...
ReadInv == /\ sock.err => sock.rst
           /\ sock.mark <= sock.rx
           /\ ~sock.rst => /\ todo \subseteq {"read", "write"}
                           /\ "read" \in todo => sock.rx > 0 \/ sock.fin \/ sock.mark = 0

\* ... and the entry asks for what is needed, or the write callback to come sees to it.
ArmedInv ==
    ~sock.rst /\ chan.known /\ ~faulted /\ "write" \notin todo =>
        (IF out > 0 THEN "OUT" ELSE "IN") \in chan.mask

ConnInv == /\ TypeOK /\ InStep(chan) /\ NewInv /\ OutInv /\ ReadInv /\ ArmedInv
           /\ FaultsComeFromPeer

-----------------------------------------------------------------------------
(* The Channel's way to epoll.                                             *)

\* As long as index_ is right, updateChannel() reaches epoll, whichever call it chooses.
LEMMA MonitorReaches ==
  ASSUME NEW ch \in ChannelType, InStep(ch), NEW sk, NEW events \in SUBSET Interests
  PROVE  LET r == Monitor(ch, sk, events)
         IN  /\ r \in ChannelType /\ r.index = 1 /\ r.known
             /\ r.monitor = events /\ r.mask = events
<1> DEFINE m == [ch EXCEPT !.monitor = events]
<1>1. /\ m \in ChannelType /\ m.monitor = events /\ m.index = ch.index /\ m.known = ch.known
  BY DEF ChannelType
<1>2. (Seen(sk, events) # {}) \in BOOLEAN OBVIOUS
<1>3. ch.index \in {-1, 1} /\ ch.known \in BOOLEAN BY DEF ChannelType
<1>4. CASE ch.index = 1
  <2>1. m.known /\ UpdateChannel(m, sk) = EpollMod(m, sk)
    BY <1>1, <1>4 DEF UpdateChannel, InStep
  <2>2. EpollMod(m, sk) = [m EXCEPT !.mask = events, !.ready = m.ready \/ Seen(sk, events) # {}]
    BY <1>1, <2>1 DEF EpollMod
  <2>3. (m.ready \/ Seen(sk, events) # {}) \in BOOLEAN OBVIOUS
  <2> HIDE DEF m
  <2>4. LET r == EpollMod(m, sk)
        IN  /\ r \in ChannelType /\ r.index = 1 /\ r.known
            /\ r.monitor = events /\ r.mask = events
    BY <1>1, <1>4, <2>1, <2>2, <2>3 DEF ChannelType
  <2> QED BY <2>1, <2>4 DEF Monitor, m
<1>5. CASE ch.index = -1
  <2>1. ~m.known BY <1>1, <1>3, <1>5 DEF InStep
  <2>2. UpdateChannel(m, sk) = [EpollAdd(m, sk) EXCEPT !.index = 1]
    BY <1>1, <1>5 DEF UpdateChannel
  <2>3. EpollAdd(m, sk) = [m EXCEPT !.known = TRUE, !.mask = events,
                                    !.ready = Seen(sk, events) # {}]
    BY <1>1, <2>1 DEF EpollAdd
  <2> HIDE DEF m
  <2>4. LET r == [EpollAdd(m, sk) EXCEPT !.index = 1]
        IN  /\ r \in ChannelType /\ r.index = 1 /\ r.known
            /\ r.monitor = events /\ r.mask = events
    BY <1>1, <1>2, <2>3 DEF ChannelType
  <2> QED BY <2>2, <2>4 DEF Monitor, m
<1> QED BY <1>3, <1>4, <1>5

\* connectDestory() leaves no trace in epoll.
LEMMA DestoryRemoves ==
  ASSUME NEW ch \in ChannelType, InStep(ch), NEW sk
  PROVE  LET r == Destory(ch, sk)
         IN  /\ r \in ChannelType /\ r.index = -1 /\ ~r.known
             /\ r.monitor = {} /\ r.mask = {}
<1> DEFINE m == Monitor(ch, sk, {})
<1>1. m \in ChannelType /\ m.monitor = {} BY MonitorReaches
<1>2. Destory(ch, sk) = RemoveChannel(m) BY DEF Destory, DisableAll
<1> HIDE DEF m
<1> QED BY <1>1, <1>2 DEF RemoveChannel, ChannelType

\* At the end of handleWrite() a connection listens, or goes on writing.
LEMMA RearmReaches ==
  ASSUME NEW ch \in ChannelType, InStep(ch), NEW sk, NEW written \in BOOLEAN
  PROVE  LET r == Rearm(ch, sk, written)
         IN  /\ r \in ChannelType /\ r.index = 1 /\ r.known /\ r.mask = r.monitor
             /\ written => "IN" \in r.mask
             /\ ~written => r.mask = ch.monitor \union {"OUT"}
<1> DEFINE m == DisableWriting(ch, sk)
<1>1. ch.monitor \in SUBSET Interests BY DEF ChannelType
<1>2. m \in ChannelType /\ m.index = 1 /\ m.known /\ m.monitor \in SUBSET Interests
  BY <1>1, MonitorReaches DEF DisableWriting, ChannelType
<1>3. InStep(m) BY <1>2 DEF InStep
<1> HIDE DEF m
<1>4. CASE written
  <2>1. Rearm(ch, sk, written) = Monitor(m, sk, m.monitor \union ReadEvent)
    BY <1>4 DEF Rearm, EnableReading, m
  <2>2. m.monitor \union ReadEvent \in SUBSET Interests BY <1>2 DEF Interests, ReadEvent
  <2> DEFINE w == m.monitor \union ReadEvent
             r == Monitor(m, sk, w)
  <2>3. w \in SUBSET Interests /\ "IN" \in w BY <2>2 DEF ReadEvent
  <2> HIDE DEF w
  <2>4. r \in ChannelType /\ r.index = 1 /\ r.known /\ r.monitor = w /\ r.mask = w
    BY <1>2, <1>3, <2>3, MonitorReaches
  <2> HIDE DEF r
  <2>5. Rearm(ch, sk, written) = r BY <2>1 DEF r, w
  <2> QED BY <1>4, <2>3, <2>4, <2>5
<1>5. CASE ~written
  <2>1. Rearm(ch, sk, written) = Monitor(ch, sk, ch.monitor \union {"OUT"})
    BY <1>5 DEF Rearm, EnableWriting
  <2>2. ch.monitor \union {"OUT"} \in SUBSET Interests BY <1>1 DEF Interests
  <2> QED BY <1>5, <2>1, <2>2, MonitorReaches
<1> QED BY <1>4, <1>5

-----------------------------------------------------------------------------
\* What changes nothing but the receive queue, the room to send and the ready list keeps
\* what is said of the entry.
LEMMA PeerKeeps == ASSUME ConnInv, PeerStep PROVE ConnInv'
<1> USE BoundsAssumption DEF ConnInv
<1>1. ASSUME NEW b \in BOOLEAN, chan' = [chan EXCEPT !.ready = b], sock' \in SocketType,
             sock'.err => sock'.rst, sock.rst => sock'.rst, sock'.mark <= sock'.rx,
             ~sock'.rst => /\ sock.rx > 0 => sock'.rx > 0
                           /\ sock.fin => sock'.fin
                           /\ sock.mark = 0 => sock'.mark = 0,
             ~faulted,
             UNCHANGED <<manner, out, sends, todo, waits, life, faulted>>
      PROVE  ConnInv'
  <2>1. /\ chan' \in ChannelType /\ chan'.monitor = chan.monitor /\ chan'.index = chan.index
        /\ chan'.known = chan.known /\ chan'.mask = chan.mask
    BY <1>1 DEF TypeOK, ChannelType
  <2>2. TypeOK' BY <1>1, <2>1 DEF TypeOK
  <2>3. InStep(chan)' /\ NewInv' /\ OutInv' BY <1>1, <2>1 DEF InStep, NewInv, OutInv
  <2>4. ReadInv' /\ ArmedInv' /\ FaultsComeFromPeer'
    BY <1>1, <2>1 DEF ReadInv, ArmedInv, FaultsComeFromPeer
  <2> QED BY <1>1, <2>2, <2>3, <2>4
<1>2. chan = [chan EXCEPT !.ready = chan.ready] /\ chan.ready \in BOOLEAN /\ chan.known \in BOOLEAN
  BY DEF TypeOK, ChannelType
<1>3. CASE PeerSends
  <2>1. sock' \in SocketType /\ sock'.err = sock.err /\ sock'.rst = sock.rst
        /\ sock'.fin = sock.fin /\ (sock.rx > 0 => sock'.rx > 0) /\ ~faulted
        /\ sock'.mark = sock.mark /\ sock'.mark <= sock'.rx
    BY <1>3 DEF PeerSends, TypeOK, SocketType, ReadInv
  <2>2. PICK b \in BOOLEAN : chan' = [chan EXCEPT !.ready = b]
    <3>1. (chan.ready \/ (chan.known /\ "IN" \in chan.mask)) \in BOOLEAN OBVIOUS
    <3> QED BY <1>3, <3>1 DEF PeerSends, Signal
  <2> QED BY <1>1, <1>3, <2>1, <2>2 DEF PeerSends, Signal, ReadInv
<1>4. CASE PeerCloses
  <2>1. sock' \in SocketType /\ sock'.err = sock.err /\ sock'.rst = sock.rst
        /\ sock'.fin /\ sock'.rx = sock.rx /\ sock'.mark = sock.mark /\ ~faulted
    BY <1>4 DEF PeerCloses, TypeOK, SocketType
  <2>2. PICK b \in BOOLEAN : chan' = [chan EXCEPT !.ready = b]
    <3>1. (chan.ready \/ (chan.known /\ "IN" \in chan.mask)) \in BOOLEAN OBVIOUS
    <3> QED BY <1>4, <3>1 DEF PeerCloses, Signal
  <2> QED BY <1>1, <1>4, <2>1, <2>2 DEF PeerCloses, Signal, ReadInv
<1>5. CASE PeerReads
  <2>1. sock' \in SocketType /\ sock'.err = sock.err /\ sock'.rst = sock.rst
        /\ sock'.fin = sock.fin /\ sock'.rx = sock.rx /\ sock'.mark = sock.mark /\ ~faulted
    BY <1>5 DEF PeerReads, TypeOK, SocketType
  <2>2. PICK b \in BOOLEAN : chan' = [chan EXCEPT !.ready = b]
    <3>1. (chan.ready \/ (chan.known /\ "OUT" \in chan.mask)) \in BOOLEAN OBVIOUS
    <3> QED BY <1>2, <1>5, <3>1 DEF PeerReads, Signal
  <2> QED BY <1>1, <1>5, <2>1, <2>2 DEF PeerReads, ReadInv
<1>6. CASE PeerResets
  <2>1. /\ sock' \in SocketType /\ sock'.rst /\ sock'.mark = sock.mark /\ sock'.rx = sock.rx
        /\ ~faulted
    BY <1>6 DEF PeerResets, TypeOK, SocketType
  <2> QED BY <1>1, <1>2, <1>6, <2>1 DEF PeerResets, ReadInv
<1>7. CASE PeerUrges
  <2>1. /\ sock' \in SocketType /\ sock'.err = sock.err /\ sock'.rst = sock.rst
        /\ sock'.fin = sock.fin /\ sock'.rx = sock.rx /\ sock'.mark = sock.rx /\ ~faulted
        /\ sock.mark = -1 /\ sock.rx \in Nat
    BY <1>7 DEF PeerUrges, TypeOK, SocketType
  <2>2. PICK b \in BOOLEAN : chan' = [chan EXCEPT !.ready = b]
    <3>1. (chan.ready \/ (chan.known /\ "PRI" \in chan.mask)) \in BOOLEAN OBVIOUS
    <3> QED BY <1>7, <3>1 DEF PeerUrges, Signal
  <2> QED BY <1>1, <1>7, <2>1, <2>2 DEF PeerUrges, ReadInv
<1> QED BY <1>3, <1>4, <1>5, <1>6, <1>7 DEF PeerStep

-----------------------------------------------------------------------------
(* The loop's thread, at rest and through the callbacks of one event.      *)

\* Nothing is pending, nothing is monitored, nothing is to be written.
LEMMA InitConnection == Init => ConnInv
<1> SUFFICES ASSUME Init PROVE ConnInv OBVIOUS
<1> USE BoundsAssumption DEF Init
<1>1. chan \in ChannelType /\ chan.index = -1 /\ ~chan.known /\ chan.mask = {}
      /\ chan.monitor = {}
  BY DEF ChannelType
<1>2. sock \in SocketType /\ ~sock.err /\ ~sock.rst /\ sock.mark = -1 /\ sock.rx = 0
  BY DEF SocketType
<1>3. TypeOK
  <2>1. manner \in Manners /\ sends \in 0 .. MaxSends /\ out \in 0 .. sends + 1 OBVIOUS
  <2>2. /\ todo \subseteq DOMAIN Rank /\ waits \in BOOLEAN
        /\ life \in Lives /\ faulted \in BOOLEAN
    BY DEF Lives
  <2> QED BY <1>1, <1>2, <2>1, <2>2 DEF TypeOK
<1>4. InStep(chan) /\ NewInv /\ OutInv BY <1>1 DEF InStep, NewInv, OutInv
<1>5. ReadInv /\ ArmedInv /\ FaultsComeFromPeer
  BY <1>1, <1>2 DEF ReadInv, ArmedInv, FaultsComeFromPeer
<1> QED BY <1>3, <1>4, <1>5 DEF ConnInv

\* What handleHappendEvents() has still to do after a callback, which is the earliest.
LEMMA MakesFacts ==
  ASSUME TypeOK, NEW cb \in DOMAIN Rank, Makes(cb)
  PROVE  /\ waits' \in BOOLEAN
         /\ ~faulted /\ cb \in todo /\ todo' = todo \ {cb} /\ todo' \subseteq DOMAIN Rank
         /\ cb = "error" => "close" \notin todo'
         /\ cb = "read" => todo' \subseteq {"write"}
         /\ cb = "write" => todo' = {}
<1>1. /\ ~faulted /\ cb \in todo /\ todo' = todo \ {cb} /\ todo \subseteq DOMAIN Rank
      /\ waits' = FALSE
      /\ \A other \in todo : Rank[other] >= Rank[cb]
  BY DEF Makes, TypeOK
<1>2. /\ Rank["close"] = 1 /\ Rank["error"] = 2 /\ Rank["read"] = 3 /\ Rank["write"] = 4
      /\ DOMAIN Rank = {"close", "error", "read", "write"}
  BY DEF Rank
<1>3. todo \subseteq {"close", "error", "read", "write"} BY <1>1, <1>2
<1>4. cb = "error" => "close" \notin todo BY <1>1, <1>2
<1>5. cb = "read" => "close" \notin todo /\ "error" \notin todo BY <1>1, <1>2
<1>6. cb = "write" => "close" \notin todo /\ "error" \notin todo /\ "read" \notin todo
  BY <1>1, <1>2
<1> HIDE DEF Rank
<1> QED BY <1>1, <1>3, <1>4, <1>5, <1>6

\* The events of an entry are turned into callbacks; those of a sound connection find
\* what they are made for.
LEMMA ReportKeeps == ASSUME ConnInv, Report PROVE ConnInv'
<1> USE DEF ConnInv
<1> DEFINE seen == Seen(sock, chan.mask)
<1>1. /\ todo = {} /\ ~faulted /\ chan.known
      /\ chan' = [chan EXCEPT !.monitor = {}, !.ready = "IN" \notin chan.mask]
      /\ todo' = Callbacks(seen) /\ waits' = TRUE
      /\ UNCHANGED <<manner, sock, out, sends, life, faulted>>
  BY DEF Report, AtRest
<1>2. ("IN" \notin chan.mask) \in BOOLEAN OBVIOUS
<1>3. /\ chan' \in ChannelType /\ chan'.monitor = {} /\ chan'.index = chan.index
      /\ chan'.known = chan.known /\ chan'.mask = chan.mask
  BY <1>1, <1>2 DEF TypeOK, ChannelType
<1>4. /\ todo' \subseteq DOMAIN Rank
      /\ "read" \in todo' <=> seen \intersect ReadEvent # {}
      /\ "write" \in todo' <=> "OUT" \in seen
      /\ "close" \in todo' => "ERR" \in seen
      /\ "error" \in todo' => "HUP" \in seen
  <2>1. DOMAIN Rank = {"close", "error", "read", "write"} BY DEF Rank
  <2> QED BY <1>1, <2>1 DEF Callbacks
<1>5. /\ seen \intersect ReadEvent # {} => chan.mask \intersect ReadEvent # {}
      /\ "OUT" \in seen => "OUT" \in chan.mask
      /\ ~sock.rst => /\ "ERR" \notin seen /\ "HUP" \notin seen
                      /\ seen \intersect ReadEvent # {}
                            => sock.rx > 0 \/ sock.fin \/ sock.mark = 0
  BY DEF Seen, Events, ReadInv, ReadEvent, TypeOK, SocketType
<1>6. life # "new" BY <1>1 DEF TypeOK
<1>7. TypeOK' BY <1>1, <1>3, <1>4, <1>6 DEF TypeOK
<1>8. InStep(chan)' /\ NewInv' /\ OutInv'
  BY <1>1, <1>3, <1>4, <1>5, <1>6 DEF InStep, NewInv, OutInv
<1>9. ReadInv'
  <2>1. ~sock.rst => todo' \subseteq {"read", "write"}
    BY <1>4, <1>5 DEF Rank
  <2> QED BY <1>1, <1>4, <1>5, <2>1 DEF ReadInv
<1>10. ArmedInv' /\ FaultsComeFromPeer'
  BY <1>1, <1>3, <1>4, <1>5 DEF ArmedInv, TypeOK, FaultsComeFromPeer
<1> QED BY <1>1, <1>7, <1>8, <1>9, <1>10

\* A connection that is taken out of epoll has nothing left to keep up.
LEMMA RemovalKeeps ==
  ASSUME ConnInv, chan' = Destory(chan, sock'),
         sock' \in SocketType, UNCHANGED <<manner, out, sends, faulted>>, ~faulted,
         sock'.err = sock.err, sock'.rst = sock.rst, sock'.fin = sock.fin,
         sock'.mark <= sock'.rx, waits' \in BOOLEAN,
         life' \in Lives \ {"new"}, todo' \subseteq todo,
         "read" \in todo' => sock' = sock
  PROVE  ConnInv'
<1> USE DEF ConnInv
<1>1. /\ chan' \in ChannelType /\ chan'.index = -1 /\ ~chan'.known
      /\ chan'.monitor = {} /\ chan'.mask = {}
  BY DestoryRemoves DEF TypeOK
<1>2. TypeOK' BY <1>1 DEF TypeOK
<1>3. InStep(chan)' /\ NewInv' /\ OutInv' /\ ArmedInv'
  BY <1>1 DEF InStep, NewInv, OutInv, ArmedInv
<1>4. ReadInv' /\ FaultsComeFromPeer' BY DEF ReadInv, FaultsComeFromPeer
<1> QED BY <1>2, <1>3, <1>4

\* A fault changes nothing else.
LEMMA FaultKeeps ==
  ASSUME ConnInv, Fault, sock.rst \/ (sock.mark = 0 /\ sock.rx = 0), todo' \subseteq todo,
         waits' \in BOOLEAN, life # "new"
  PROVE  ConnInv'
<1> USE DEF ConnInv, Fault
<1>1. TypeOK' BY DEF TypeOK
<1>2. InStep(chan)' /\ NewInv' /\ OutInv' BY DEF InStep, NewInv, OutInv
<1>3. ReadInv' /\ ArmedInv' /\ FaultsComeFromPeer' BY DEF ReadInv, ArmedInv, FaultsComeFromPeer
<1> QED BY <1>1, <1>2, <1>3

\* The callbacks for closing and for errors.
LEMMA CloseErrorKeeps == ASSUME ConnInv, HandleClose \/ HandleError PROVE ConnInv'
<1> USE DEF ConnInv
<1>1. todo # {} => life # "new" BY DEF NewInv
<1>2. CASE HandleClose
  <2>1. "close" \in DOMAIN Rank BY DEF Rank
  <2>2. todo' \subseteq todo /\ todo # {} /\ waits' \in BOOLEAN /\ ~faulted
    BY <1>2, <2>1, MakesFacts DEF HandleClose
  <2>3. life' \in Lives \ {"new"} BY <1>1, <1>2, <2>2 DEF HandleClose, CloseFrom, Lives
  <2>4. sock' = sock /\ sock \in SocketType /\ sock.mark <= sock.rx
    BY <1>2 DEF HandleClose, TypeOK, ReadInv
  <2> QED BY <1>2, <2>2, <2>3, <2>4, RemovalKeeps DEF HandleClose, CloseFrom
<1>3. CASE HandleError
  <2> DEFINE sk == [sock EXCEPT !.err = FALSE]
  <2>1. "error" \in DOMAIN Rank BY DEF Rank
  <2>2. /\ "error" \in todo /\ todo' \subseteq todo /\ todo # {} /\ waits' \in BOOLEAN /\ ~faulted
        /\ UNCHANGED <<manner, out, sends, life, faulted>>
        /\ sock' = sk /\ chan' = DisableAll(chan, sk)
    BY <1>3, <2>1, MakesFacts DEF HandleError
  <2>3. sk \in SocketType /\ ~sk.err /\ sk.rst = sock.rst /\ sk.mark <= sk.rx
    BY DEF TypeOK, SocketType, ReadInv
  <2>4. sock.rst BY <2>2 DEF ReadInv
  <2> HIDE DEF sk
  <2>5. /\ chan' \in ChannelType /\ chan'.index = 1 /\ chan'.known
        /\ chan'.monitor = {} /\ chan'.mask = {}
    BY <2>2, MonitorReaches DEF DisableAll, TypeOK
  <2>6. TypeOK' BY <1>1, <2>2, <2>3, <2>5 DEF TypeOK
  <2>7. InStep(chan)' /\ NewInv' /\ OutInv' BY <1>1, <2>2, <2>5 DEF InStep, NewInv, OutInv
  <2>8. ReadInv' /\ ArmedInv' /\ FaultsComeFromPeer'
    BY <2>2, <2>3, <2>4 DEF ReadInv, ArmedInv, FaultsComeFromPeer
  <2> QED BY <2>2, <2>3, <2>4, <2>6, <2>7, <2>8
<1> QED BY <1>2, <1>3

\* A readv() that stops at the mark keeps the mark within what is left to read.
LEMMA ReadIsSound ==
  ASSUME NEW sk \in SocketType, sk.mark <= sk.rx, NEW n \in Nat, n <= sk.rx,
         sk.mark > 0 => n <= sk.mark
  PROVE  LET r == Read(sk, n)
         IN  /\ r \in SocketType /\ r.mark <= r.rx
             /\ r.err = sk.err /\ r.rst = sk.rst /\ r.fin = sk.fin
<1> USE BoundsAssumption
<1> DEFINE m == IF sk.mark > 0 THEN sk.mark - n ELSE -1
<1>1. m \in -1 .. MaxRx /\ m <= sk.rx - n /\ sk.rx - n \in 0 .. MaxRx BY DEF SocketType
<1>2. Read(sk, n) = [sk EXCEPT !.rx = sk.rx - n, !.mark = m] BY DEF Read
<1> HIDE DEF m
<1> QED BY <1>1, <1>2 DEF SocketType

\* The read callback: a reply asks for room to write and for nothing else, as
\* monitorEvents_ was cleared; what is ignored leaves the entry as it is.
LEMMA ReadKeeps == ASSUME ConnInv, HandleRead PROVE ConnInv'
<1> USE BoundsAssumption DEF ConnInv
<1>1. Makes("read") BY DEF HandleRead, ReadData, ReadEof, ReadFails
<1>2. /\ "read" \in todo /\ todo' = todo \ {"read"} /\ todo' \subseteq {"write"}
      /\ ~faulted /\ life # "new" /\ waits' \in BOOLEAN
  <2>1. "read" \in DOMAIN Rank BY DEF Rank
  <2> QED BY <1>1, <2>1, MakesFacts DEF NewInv
<1>3. out <= sends /\ chan.monitor \subseteq {"OUT"} BY <1>2 DEF OutInv
<1>4. CASE ReadData
  <2> DEFINE n == Readable(sock)
             sk == Read(sock, n)
  <2>1. sock' = sk /\ UserCallback(sk) /\ UNCHANGED <<manner, sends, faulted>>
    BY <1>4 DEF ReadData
  <2>2. n \in Nat /\ n <= sock.rx /\ (sock.mark > 0 => n <= sock.mark)
    BY DEF Least, Readable, TypeOK, SocketType, ReadInv
  <2> HIDE DEF n
  <2>3. sk \in SocketType /\ sk.err = sock.err /\ sk.rst = sock.rst /\ sk.fin = sock.fin
        /\ sk.mark <= sk.rx
    BY <2>2, ReadIsSound DEF ReadInv, TypeOK
  <2> HIDE DEF sk
  <2>4. ReadInv' BY <1>2, <2>1, <2>3 DEF ReadInv
  <2>5. CASE out' = out + 1 /\ chan' = EnableWriting(chan, sk) /\ UNCHANGED life
    <3>1. chan.monitor \union {"OUT"} \in SUBSET Interests BY <1>3 DEF Interests
    <3>0. chan.monitor \union {"OUT"} = {"OUT"} BY <1>3
    <3>2. /\ chan' \in ChannelType /\ chan'.index = 1 /\ chan'.known
          /\ chan'.monitor = {"OUT"} /\ chan'.mask = {"OUT"}
      BY <2>5, <3>0, <3>1, MonitorReaches DEF EnableWriting, TypeOK
    <3>3. TypeOK' BY <1>2, <1>3, <2>1, <2>3, <2>5, <3>2 DEF TypeOK, Rank
    <3>4. InStep(chan)' /\ NewInv' /\ OutInv' /\ ArmedInv'
      BY <1>2, <2>5, <3>2 DEF InStep, NewInv, OutInv, ArmedInv, TypeOK, ReadEvent
    <3>5. FaultsComeFromPeer' BY <1>2, <2>1 DEF FaultsComeFromPeer
    <3> QED BY <2>4, <3>3, <3>4, <3>5
  <2>6. CASE UNCHANGED <<chan, out, life>>
    <3>1. TypeOK' BY <1>2, <2>1, <2>3, <2>6 DEF TypeOK, Rank
    <3>2. InStep(chan)' /\ NewInv' /\ OutInv'
      BY <1>2, <2>1, <2>6 DEF InStep, NewInv, OutInv
    <3>3. ArmedInv' BY <1>2, <2>1, <2>3, <2>6 DEF ArmedInv
    <3>4. FaultsComeFromPeer' BY <1>2, <2>1 DEF FaultsComeFromPeer
    <3> QED BY <2>4, <3>1, <3>2, <3>3, <3>4
  <2>7. CASE chan' = Destory(chan, sk) /\ UNCHANGED <<out, life>>
    <3>1. life' \in Lives \ {"new"} BY <1>2, <2>7 DEF TypeOK
    <3> QED BY <1>2, <2>1, <2>3, <2>7, <3>1, RemovalKeeps
  <2> QED BY <2>1, <2>5, <2>6, <2>7 DEF UserCallback
<1>5. CASE ReadEof
  <2>1. life' \in Lives \ {"new"} BY <1>2, <1>5 DEF ReadEof, CloseFrom, Lives
  <2> DEFINE sk == Read(sock, 0)
  <2>2. sk \in SocketType /\ sk.err = sock.err /\ sk.rst = sock.rst /\ sk.fin = sock.fin
        /\ sk.mark <= sk.rx
    <3>1. /\ sock \in SocketType /\ sock.mark <= sock.rx
          /\ 0 \in Nat /\ 0 <= sock.rx /\ (sock.mark > 0 => 0 <= sock.mark)
      BY DEF TypeOK, SocketType, ReadInv
    <3> HIDE DEF ConnInv
    <3> QED BY <3>1, ReadIsSound
  <2> HIDE DEF sk
  <2>3. sock' = sk /\ chan' = Destory(chan, sock') /\ UNCHANGED <<manner, out, sends, faulted>>
    BY <1>5 DEF ReadEof, CloseFrom, sk
  <2> QED BY <1>2, <2>1, <2>2, <2>3, RemovalKeeps
<1>6. CASE ReadFails
  <2>1. sock.rst \/ (sock.mark = 0 /\ sock.rx = 0) BY <1>2, <1>6 DEF ReadFails, ReadInv
  <2> QED BY <1>2, <1>6, <2>1, FaultKeeps DEF ReadFails
<1> QED BY <1>4, <1>5, <1>6 DEF HandleRead

\* The write callback is the last; it leaves the entry as it has to be.
LEMMA WriteKeeps == ASSUME ConnInv, HandleWrite PROVE ConnInv'
<1> USE BoundsAssumption DEF ConnInv
<1>1. Makes("write") BY DEF HandleWrite, WriteData, WriteError, WriteKills
<1>2. /\ "write" \in todo /\ todo' = {} /\ ~faulted /\ life # "new" /\ waits' \in BOOLEAN
  <2>1. "write" \in DOMAIN Rank BY DEF Rank
  <2> QED BY <1>1, <2>1, MakesFacts DEF NewInv
<1>3. ASSUME NEW written \in BOOLEAN, chan' = Rearm(chan, sock', written),
             UNCHANGED <<manner, sends, life, faulted>>,
             sock' \in SocketType, sock'.err => sock'.rst, sock'.mark <= sock'.rx,
             out' \in Nat, out' <= out, written <=> out' = 0
      PROVE  ConnInv'
  <2>1. /\ chan' \in ChannelType /\ chan'.index = 1 /\ chan'.known /\ chan'.mask = chan'.monitor
        /\ written => "IN" \in chan'.mask
        /\ ~written => chan'.mask = chan.monitor \union {"OUT"}
    BY <1>3, RearmReaches DEF TypeOK
  <2>2. TypeOK' BY <1>2, <1>3, <2>1 DEF TypeOK
  <2>3. InStep(chan)' /\ NewInv' BY <1>2, <1>3, <2>1 DEF InStep, NewInv
  <2>4. OutInv' BY <1>2, <1>3, <2>1 DEF OutInv, TypeOK, ReadEvent
  <2>5. ReadInv' BY <1>2, <1>3 DEF ReadInv
  <2>6. ArmedInv' /\ FaultsComeFromPeer'
    BY <1>2, <1>3, <2>1 DEF ArmedInv, FaultsComeFromPeer
  <2> QED BY <1>2, <1>3, <2>2, <2>3, <2>4, <2>5, <2>6
<1>4. CASE WriteData
  <2> DEFINE n == Least(out, sock.space)
             sk == [sock EXCEPT !.space = sock.space - n]
  <2>1. /\ sock' = sk /\ out' = out - n /\ chan' = Rearm(chan, sk, n = out)
        /\ UNCHANGED <<manner, sends, life, faulted>>
    BY <1>4 DEF WriteData
  <2>2. n \in Nat /\ n <= out /\ n <= sock.space /\ out \in Nat
    BY DEF Least, TypeOK, SocketType
  <2> HIDE DEF n
  <2>3. sk \in SocketType /\ sk.err = sock.err /\ sk.rst = sock.rst /\ sk.mark <= sk.rx
    BY <2>2 DEF TypeOK, SocketType, ReadInv
  <2> HIDE DEF sk
  <2>4. PICK written \in BOOLEAN : written <=> n = out OBVIOUS
  <2>5. chan' = Rearm(chan, sk, written) BY <2>1, <2>4
  <2>6. out' \in Nat /\ out' <= out /\ (written <=> out' = 0) BY <2>1, <2>2, <2>4
  <2> QED BY <1>3, <2>1, <2>3, <2>5, <2>6 DEF ReadInv
<1>5. CASE WriteError
  <2> DEFINE sk == [sock EXCEPT !.err = FALSE]
  <2>1. /\ sock' = sk /\ chan' = Rearm(chan, sk, FALSE) /\ sock.rst
        /\ UNCHANGED <<manner, out, sends, life, faulted>>
    BY <1>5 DEF WriteError
  <2>2. sk \in SocketType /\ ~sk.err /\ sk.rst = sock.rst /\ sk.mark <= sk.rx
    BY DEF TypeOK, SocketType, ReadInv
  <2> HIDE DEF sk
  <2>3. /\ chan' \in ChannelType /\ chan'.index = 1 /\ chan'.known /\ chan'.mask = chan'.monitor
        /\ chan'.mask = chan.monitor \union {"OUT"}
    BY <2>1, RearmReaches DEF TypeOK
  <2>4. TypeOK' BY <1>2, <2>1, <2>2, <2>3 DEF TypeOK
  <2>5. InStep(chan)' /\ NewInv' BY <1>2, <2>1, <2>3 DEF InStep, NewInv
  <2>6. OutInv'
    <3>1. ReadEvent \intersect (chan'.mask \union chan'.monitor) # {}
            => ReadEvent \intersect chan.monitor # {}
      BY <2>3 DEF ReadEvent
    <3> QED BY <1>2, <2>1, <3>1 DEF OutInv
  <2>7. ReadInv' /\ ArmedInv' /\ FaultsComeFromPeer'
    BY <1>2, <2>1, <2>2 DEF ReadInv, ArmedInv, FaultsComeFromPeer
  <2> QED BY <1>2, <2>1, <2>4, <2>5, <2>6, <2>7
<1>6. CASE WriteKills
  <2>1. sock.rst /\ Fault BY <1>6 DEF WriteKills
  <2> QED BY <1>2, <2>1, FaultKeeps
<1> QED BY <1>4, <1>5, <1>6 DEF HandleWrite

\* The functors of the loop run between two events, and so do the broadcasts of its other
\* connections, or before the first callback of one.
LEMMA FunctorsKeep == ASSUME ConnInv, Establish \/ SendMessage \/ Reap PROVE ConnInv'
<1> USE BoundsAssumption DEF ConnInv
<1>1. ~faulted BY DEF Establish, SendMessage, Reap, AtRest
<1>5. FaultsComeFromPeer' BY <1>1 DEF Establish, SendMessage, Reap, FaultsComeFromPeer
<1>2. CASE Establish
  <2>1. /\ life = "new" /\ life' = "established" /\ out = 0 /\ todo = {}
        /\ chan' = Monitor(chan, sock, chan.monitor \union ReadEvent)
        /\ UNCHANGED <<manner, sock, out, sends, todo, waits, faulted>>
    BY <1>2 DEF Establish, EnableReading, NewInv
  <2>2. chan.monitor \union ReadEvent \in SUBSET Interests
    BY DEF TypeOK, ChannelType, Interests, ReadEvent
  <2>3. /\ chan' \in ChannelType /\ chan'.index = 1 /\ chan'.known
        /\ chan'.monitor = chan.monitor \union ReadEvent
        /\ chan'.mask = chan.monitor \union ReadEvent
    BY <2>1, <2>2, MonitorReaches DEF TypeOK
  <2>4. TypeOK' BY <1>1, <2>1, <2>3 DEF TypeOK, Lives
  <2>5. InStep(chan)' /\ NewInv' BY <1>1, <2>1, <2>3 DEF InStep, NewInv
  <2>6. OutInv' BY <1>1, <2>1, <2>3 DEF OutInv, TypeOK
  <2>7. ReadInv' BY <1>1, <2>1 DEF ReadInv
  <2>8. ArmedInv'
    <3>1. "IN" \in chan'.mask /\ out' = 0 BY <2>1, <2>3 DEF ReadEvent
    <3> QED BY <3>1 DEF ArmedInv
  <2> QED BY <1>5, <2>4, <2>5, <2>6, <2>7, <2>8
<1>3. CASE SendMessage
  <2>1. /\ life # "new" /\ sends < MaxSends /\ sends' = sends + 1 /\ out' = out + 1
        /\ chan' = Monitor(chan, sock, chan.monitor \union {"OUT"})
        /\ UNCHANGED <<manner, sock, todo, waits, life, faulted>>
    BY <1>3 DEF SendMessage, EnableWriting
  <2>2. chan.monitor \union {"OUT"} \in SUBSET Interests BY DEF TypeOK, ChannelType, Interests
  <2>3. /\ chan' \in ChannelType /\ chan'.index = 1 /\ chan'.known
        /\ chan'.monitor = chan.monitor \union {"OUT"}
        /\ chan'.mask = chan.monitor \union {"OUT"}
    BY <2>1, <2>2, MonitorReaches DEF TypeOK
  <2>4. TypeOK' BY <1>1, <2>1, <2>3 DEF TypeOK
  <2>5. InStep(chan)' /\ NewInv' BY <1>1, <2>1, <2>3 DEF InStep, NewInv
  <2>6. OutInv'
    <3>1. ReadEvent \intersect (chan'.mask \union chan'.monitor) # {}
            => ReadEvent \intersect chan.monitor # {}
      BY <2>3 DEF ReadEvent
    <3>2. out <= sends => out' <= sends' BY <2>1 DEF TypeOK
    <3>3. chan.monitor \subseteq {"OUT"} => chan'.monitor \subseteq {"OUT"} BY <2>3
    <3> QED BY <2>1, <3>1, <3>2, <3>3 DEF OutInv
  <2>7. ReadInv' BY <1>1, <2>1 DEF ReadInv
  <2>8. ArmedInv'
    <3>1. "OUT" \in chan'.mask BY <2>3
    <3>2. out' > 0 BY <2>1 DEF TypeOK
    <3> QED BY <3>1, <3>2 DEF ArmedInv
  <2> QED BY <1>5, <2>4, <2>5, <2>6, <2>7, <2>8
<1>4. CASE Reap
  <2>1. sock' = sock /\ sock \in SocketType /\ sock.mark <= sock.rx /\ waits' \in BOOLEAN
    BY <1>4 DEF Reap, TypeOK, ReadInv
  <2> QED BY <1>1, <1>4, <2>1, RemovalKeeps DEF Reap, Lives
<1> QED BY <1>2, <1>3, <1>4

\* The inductive invariant of the connection.
THEOREM ConnInvHolds == Spec => []ConnInv
<1>1. ConnInv /\ [Next]_vars => ConnInv'
  <2> SUFFICES ASSUME ConnInv, [Next]_vars PROVE ConnInv' OBVIOUS
  <2>1. CASE Next
    BY <2>1, ReportKeeps, CloseErrorKeeps, ReadKeeps, WriteKeeps, FunctorsKeep, PeerKeeps
       DEF Next, LoopStep
  <2>2. CASE UNCHANGED vars
    BY <2>2 DEF vars, ConnInv, TypeOK, InStep, NewInv, OutInv, ReadInv, ArmedInv,
                    FaultsComeFromPeer
  <2> QED BY <2>1, <2>2
<1> QED BY <1>1, InitConnection, PTL DEF Spec

\* index_ is -1 exactly when epoll does not know the descriptor, however often the
\* connection is torn down and registered again.
THEOREM IndexIsTrue == Spec => []IndexTracksEpoll
<1>1. ConnInv => IndexTracksEpoll BY DEF ConnInv, InStep, IndexTracksEpoll
<1> QED BY <1>1, ConnInvHolds, PTL

\* Between two events what is to be written is monitored for, and with nothing to write
\* the connection listens, whichever broadcasts came before or after the callbacks of an
\* event.
THEOREM StaysArmed == Spec => []Armed
<1>1. ConnInv => Armed BY DEF ConnInv, ArmedInv, Armed, AtRest
<1> QED BY <1>1, ConnInvHolds, PTL

\* handleRead() and handleWrite() meet no failure they cannot cope with but after a reset
\* or at an urgent byte with nothing behind it.
THEOREM FaultsNeedPeer == Spec => []FaultsComeFromPeer
<1>1. ConnInv => FaultsComeFromPeer BY DEF ConnInv
<1> QED BY <1>1, ConnInvHolds, PTL
=============================================================================
