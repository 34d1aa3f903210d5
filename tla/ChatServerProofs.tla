--------------------------- MODULE ChatServerProofs ---------------------------
(***************************************************************************)
(* Proofs about ChatServer, for any names, connections and loops: every    *)
(* client is sent what any one client said in the order in which it was    *)
(* said (SendersAreInOrder), within a loop a message is sent on before it  *)
(* is deleted (HomeIsIntact), and whoever is on the list of a broadcast is *)
(* owed the message until it is sent to it (NobodyIsPassedOver).           *)
(*                                                                         *)
(* The inductive invariant follows a message from the onMessage() that     *)
(* broadcasts it, during which it is the last its client has said and is   *)
(* not deleted, through the queue of the receiver's loop, which holds what *)
(* other loops' clients said and nothing of its own, to the receiver.      *)
(***************************************************************************)
EXTENDS ChatServer, SequenceTheorems, TLAPS

Call == [to : Conns, msg : Message]
Receipt == [msg : Message, intact : BOOLEAN]

\* The message that a client has said last.
Latest(c) == [from |-> c, no |-> said[c]]

QueueType == queue \in [Loops -> Seq(Call)]

\* onMessage() runs in the loop of the client whose message it handles, and until its end
\* the message is the client's last and is not deleted.
TaskOk(l) ==
    LET t == thread[l]
    IN  /\ t.at \in {"login", "logout", "chat"} => LoopOf[t.conn] = l
        /\ t.at = "chat" => said[t.conn] >= 1 /\ Latest(t.conn) \notin freed
        /\ t.at = "send" => /\ LoopOf[t.msg.from] = l
                            /\ t.msg = Latest(t.msg.from) /\ t.msg \notin freed
                            /\ \A n \in t.left : owner[n] \in Conns

TaskInv == \A l \in Loops : TaskOk(l)

\* No message is there before it is said.
SaidInv ==
    /\ \A c \in Conns : said[c] <= read
    /\ \A m \in freed : m.no <= said[m.from]
    /\ \A c \in Conns : \A i \in DOMAIN got[c] : got[c][i].msg.no <= said[got[c][i].msg.from]
    /\ \A l \in Loops : \A i \in DOMAIN queue[l] :
           queue[l][i].msg.no <= said[queue[l][i].msg.from]

\* A call comes from another loop.
HomeInv == \A l \in Loops : \A i \in DOMAIN queue[l] : LoopOf[queue[l][i].msg.from] # l

\* Of two messages one client said, the first is not the later one.
InOrder(m1, m2) == m1.from = m2.from => m1.no <= m2.no

\* What a connection got is in order, and so is what waits for its loop, all of which is
\* behind what it got.
OrderInv ==
    /\ \A c \in Conns : \A i, j \in DOMAIN got[c] : i < j => InOrder(got[c][i].msg, got[c][j].msg)
    /\ \A l \in Loops : \A i, j \in DOMAIN queue[l] :
           i < j => InOrder(queue[l][i].msg, queue[l][j].msg)
    /\ \A c \in Conns : \A i \in DOMAIN got[c], j \in DOMAIN queue[LoopOf[c]] :
           queue[LoopOf[c]][j].to = c => InOrder(got[c][i].msg, queue[LoopOf[c]][j].msg)

ChatInv == TypeOK /\ QueueType /\ TaskInv /\ SaidInv /\ HomeInv /\ OrderInv /\ IntactAtHome

-----------------------------------------------------------------------------
(* Tasks.                                                                  *)

\* What a loop is at says which fields its task has.
LEMMA TaskFacts ==
  ASSUME NEW t \in Tasks
  PROVE  /\ t.at \in {"idle", "login", "logout", "chat", "send"}
         /\ t.at \in {"login", "logout"} =>
                t \in [at : {"login", "logout"}, conn : Conns, name : Names, raced : BOOLEAN]
         /\ t.at = "chat" => t \in [at : {"chat"}, conn : Conns, raced : BOOLEAN]
         /\ t.at = "send" => t \in [at : {"send"}, msg : Message, left : SUBSET Names]
         /\ t.at \in {"login", "logout", "chat"} => t.conn \in Conns
         /\ t.at = "send" => t.msg \in Message /\ t.msg.from \in Conns /\ t.left \in SUBSET Names
BY DEF Tasks, Idle, Message

\* The tasks onMessage() begins, goes on with and ends in.
LEMMA TasksMade ==
  /\ Idle \in Tasks /\ Idle.at = "idle"
  /\ \A a \in {"login", "logout"} : \A c \in Conns, n \in Names :
         [at |-> a, conn |-> c, name |-> n, raced |-> FALSE] \in Tasks
  /\ \A c \in Conns : [at |-> "chat", conn |-> c, raced |-> FALSE] \in Tasks
  /\ \A m \in Message : \A left \in SUBSET Names :
         [at |-> "send", msg |-> m, left |-> left] \in Tasks
BY DEF Tasks, Idle

\* An insertion leaves the scans it meets what they were, but for the race.
LEMMA DisturbedFacts ==
  ASSUME thread \in [Loops -> Tasks]
  PROVE  /\ Disturbed \in [Loops -> Tasks]
         /\ \A l \in Loops :
                /\ Disturbed[l].at = thread[l].at
                /\ thread[l].at \in {"login", "logout", "chat"} =>
                       Disturbed[l].conn = thread[l].conn
                /\ thread[l].at = "send" => Disturbed[l] = thread[l]
<1>1. ASSUME NEW l \in Loops
      PROVE  /\ Disturbed[l] \in Tasks
             /\ Disturbed[l].at = thread[l].at
             /\ thread[l].at \in {"login", "logout", "chat"} =>
                    Disturbed[l].conn = thread[l].conn
             /\ thread[l].at = "send" => Disturbed[l] = thread[l]
  <2> DEFINE t == thread[l]
             d == Disturbed[l]
  <2>1. d = IF t.at \in {"login", "logout", "chat"} THEN [t EXCEPT !.raced = TRUE] ELSE t
    BY DEF Disturbed
  <2>2. t \in Tasks OBVIOUS
  <2> HIDE DEF t, d
  <2>3. CASE t.at \in {"login", "logout"}
    <3>1. t \in [at : {"login", "logout"}, conn : Conns, name : Names, raced : BOOLEAN]
      BY <2>2, <2>3, TaskFacts
    <3>2. /\ d \in [at : {"login", "logout"}, conn : Conns, name : Names, raced : BOOLEAN]
          /\ d.at = t.at /\ d.conn = t.conn
      BY <2>1, <2>3, <3>1
    <3>3. d \in Tasks BY <3>2 DEF Tasks
    <3> QED BY <2>3, <3>2, <3>3 DEF d, t
  <2>4. CASE t.at = "chat"
    <3>1. t \in [at : {"chat"}, conn : Conns, raced : BOOLEAN] BY <2>2, <2>4, TaskFacts
    <3>2. /\ d \in [at : {"chat"}, conn : Conns, raced : BOOLEAN]
          /\ d.at = t.at /\ d.conn = t.conn
      BY <2>1, <2>4, <3>1
    <3>3. d \in Tasks BY <3>2 DEF Tasks
    <3> QED BY <2>4, <3>2, <3>3 DEF d, t
  <2>5. CASE t.at \notin {"login", "logout", "chat"}
    <3>1. d = t BY <2>1, <2>5
    <3> QED BY <2>2, <2>5, <3>1 DEF d, t
  <2> QED BY <2>3, <2>4, <2>5
<1>2. Disturbed \in [Loops -> Tasks]
  <2>1. DOMAIN Disturbed = Loops /\ Disturbed = [l \in Loops |-> Disturbed[l]] BY DEF Disturbed
  <2> QED BY <1>1, <2>1
<1> QED BY <1>1, <1>2

\* Names that are online are of connections, and connections have loops.
LEMMA OwnersFacts ==
  ASSUME TypeOK
  PROVE  /\ \A n \in online : n \in Names /\ owner[n] \in Conns
         /\ \A c \in Conns : LoopOf[c] \in Loops
BY ChatAssumption DEF TypeOK

\* The entries of a sequence, of one that is one longer, and of one that is one shorter.
LEMMA Entries ==
  ASSUME NEW S, NEW s \in Seq(S)
  PROVE  DOMAIN s \subseteq Nat /\ \A i \in DOMAIN s : s[i] \in S
BY LenProperties, ElementOfSeq

LEMMA AppendEntries ==
  ASSUME NEW S, NEW s \in Seq(S), NEW e \in S
  PROVE  /\ Append(s, e) \in Seq(S) /\ Len(s) + 1 \in Nat
         /\ \A i \in DOMAIN s : i < Len(s) + 1
         /\ \A i \in DOMAIN Append(s, e) :
                \/ i = Len(s) + 1 /\ Append(s, e)[i] = e
                \/ i \in DOMAIN s /\ Append(s, e)[i] = s[i]
<1>1. Len(s) \in Nat /\ DOMAIN s = 1 .. Len(s) BY LenProperties
<1>2. /\ Append(s, e) \in Seq(S) /\ Len(Append(s, e)) = Len(s) + 1
      /\ \A i \in 1 .. Len(s) : Append(s, e)[i] = s[i]
      /\ Append(s, e)[Len(s) + 1] = e
  BY AppendProperties
<1>3. DOMAIN Append(s, e) = 1 .. (Len(s) + 1) BY <1>2, LenProperties
<1> QED BY <1>1, <1>2, <1>3

LEMMA TailEntries ==
  ASSUME NEW S, NEW s \in Seq(S), s # <<>>
  PROVE  /\ Tail(s) \in Seq(S) /\ 1 \in DOMAIN s /\ Head(s) = s[1]
         /\ DOMAIN Tail(s) \subseteq Nat
         /\ \A i \in DOMAIN Tail(s) : i + 1 \in DOMAIN s /\ 1 < i + 1 /\ Tail(s)[i] = s[i + 1]
<1>1. Len(s) \in Nat /\ DOMAIN s = 1 .. Len(s) BY LenProperties
<1>2. /\ Tail(s) \in Seq(S) /\ Len(Tail(s)) = Len(s) - 1
      /\ \A i \in 1 .. Len(Tail(s)) : Tail(s)[i] = s[i + 1]
  BY HeadTailProperties
<1>3. DOMAIN Tail(s) = 1 .. (Len(s) - 1) BY <1>2, LenProperties
<1>4. Len(s) >= 1 BY <1>1, EmptySeq
<1>5. Head(s) = s[1] OBVIOUS
<1> QED BY <1>1, <1>2, <1>3, <1>4, <1>5

\* What is queued and what was sent are messages.
LEMMA MessagesIn ==
  ASSUME TypeOK, QueueType
  PROVE  /\ \A c \in Conns : \A i \in DOMAIN got[c] :
                got[c][i].msg \in Message /\ got[c][i].msg.from \in Conns
         /\ \A l \in Loops : \A i \in DOMAIN queue[l] :
                /\ queue[l][i] \in Call /\ queue[l][i].to \in Conns
                /\ queue[l][i].msg \in Message /\ queue[l][i].msg.from \in Conns
                /\ LoopOf[queue[l][i].to] = l
<1>1. ASSUME NEW c \in Conns, NEW i \in DOMAIN got[c]
      PROVE  got[c][i].msg \in Message /\ got[c][i].msg.from \in Conns
  <2>1. got[c] \in Seq([msg : Message, intact : BOOLEAN]) BY DEF TypeOK
  <2>2. got[c][i] \in [msg : Message, intact : BOOLEAN] BY <2>1, Entries
  <2> QED BY <2>2 DEF Message
<1>2. ASSUME NEW l \in Loops, NEW i \in DOMAIN queue[l]
      PROVE  /\ queue[l][i] \in Call /\ queue[l][i].to \in Conns
             /\ queue[l][i].msg \in Message /\ queue[l][i].msg.from \in Conns
             /\ LoopOf[queue[l][i].to] = l
  <2>1. queue[l] \in Seq([to : {c \in Conns : LoopOf[c] = l}, msg : Message]) BY DEF TypeOK
  <2>2. queue[l][i] \in [to : {c \in Conns : LoopOf[c] = l}, msg : Message] BY <2>1, Entries
  <2> QED BY <2>2 DEF Message, Call
<1> QED BY <1>1, <1>2

-----------------------------------------------------------------------------
\* Nothing is said when the chat begins.
LEMMA InitChat == Init => ChatInv
<1> SUFFICES ASSUME Init PROVE ChatInv OBVIOUS
<1> USE ChatAssumption DEF Init
<1>1. thread \in [Loops -> Tasks] /\ \A l \in Loops : thread[l].at = "idle" BY TasksMade
<1>2. /\ queue \in [Loops -> Seq(Call)]
      /\ \A l \in Loops : queue[l] \in Seq([to : {c \in Conns : LoopOf[c] = l}, msg : Message])
  OBVIOUS
<1>3. got \in [Conns -> Seq([msg : Message, intact : BOOLEAN])] OBVIOUS
<1>4. TypeOK
  <2>1. owner \in [Names -> Conns \union {Nobody}] /\ online = {} /\ freed = {} /\ logins = {}
    OBVIOUS
  <2>2. life \in [Conns -> {"heard", "silent", "closed", "gone"}] OBVIOUS
  <2>3. said \in [Conns -> 0 .. MaxMsgs] /\ read \in 0 .. MaxMsgs /\ faulted \in BOOLEAN
    <3>1. 0 \in 0 .. MaxMsgs OBVIOUS
    <3> QED BY <3>1
  <2> HIDE DEF Init
  <2> QED BY <1>1, <1>2, <1>3, <2>1, <2>2, <2>3 DEF TypeOK
<1>5. QueueType BY <1>2 DEF QueueType
<1>6. TaskInv BY <1>1 DEF TaskInv, TaskOk
<1>7. SaidInv /\ HomeInv BY DEF SaidInv, HomeInv
<1>8. OrderInv /\ IntactAtHome
  <2>1. (\A c \in Conns : DOMAIN got[c] = {}) /\ \A l \in Loops : DOMAIN queue[l] = {} OBVIOUS
  <2> QED BY <2>1 DEF OrderInv, IntactAtHome
<1> QED BY <1>4, <1>5, <1>6, <1>7, <1>8 DEF ChatInv

\* Whoever says nothing and sends nothing keeps the order.
LEMMA QuietKeeps ==
  ASSUME ChatInv, UNCHANGED <<queue, got>>
  PROVE  QueueType' /\ HomeInv' /\ OrderInv' /\ IntactAtHome'
<1> USE DEF ChatInv
<1>1. QueueType' /\ HomeInv' BY DEF QueueType, HomeInv
<1>2. OrderInv' BY DEF OrderInv
<1>3. IntactAtHome' BY DEF IntactAtHome
<1> QED BY <1>1, <1>2, <1>3

\* Connections close and are reaped, and a race ends the process.
LEMMA LeavingKeeps ==
  ASSUME ChatInv,
         \/ \E c \in Conns : PeerCloses(c) \/ Reap(c)
         \/ \E l \in Loops : ScanFaults(l)
  PROVE  ChatInv'
<1> USE DEF ChatInv, PeerCloses, Reap, ScanFaults
<1>1. UNCHANGED <<owner, online, thread, queue, said, freed, got, read>> OBVIOUS
<1>2. TypeOK' BY DEF TypeOK
<1>3. TaskInv' /\ SaidInv' BY <1>1 DEF TaskInv, TaskOk, SaidInv, Latest
<1> QED BY <1>1, <1>2, <1>3, QuietKeeps

\* A name gets an owner and keeps it.
LEMMA RegisterKeeps ==
  ASSUME ChatInv, NEW c \in Conns, NEW n \in Names, Register(c, n)
  PROVE  ChatInv'
<1> USE ChatAssumption DEF ChatInv
<1>1. /\ read' = read + 1 /\ read' \in 0 .. MaxMsgs
      /\ \/ /\ owner[n] = Nobody /\ owner' = [owner EXCEPT ![n] = c]
            /\ online' = online \union {n} /\ thread' = Disturbed
         \/ UNCHANGED <<owner, online, thread>>
      /\ UNCHANGED <<life, queue, said, freed, got, logins, faulted>>
  BY DEF Register, Reads, TypeOK
<1>2. /\ thread' \in [Loops -> Tasks]
      /\ \A l \in Loops :
             /\ thread'[l].at = thread[l].at
             /\ thread[l].at \in {"login", "logout", "chat"} => thread'[l].conn = thread[l].conn
             /\ thread[l].at = "send" => thread'[l] = thread[l]
  BY <1>1, DisturbedFacts DEF TypeOK
<1>3. \A k \in Names : owner[k] \in Conns => owner'[k] \in Conns BY <1>1 DEF TypeOK
<1>4. TypeOK'
  <2>1. owner' \in [Names -> Conns \union {Nobody}] BY <1>1 DEF TypeOK
  <2>2. online' \subseteq {k \in Names : owner'[k] # Nobody} BY <1>1 DEF TypeOK
  <2> QED BY <1>1, <1>2, <2>1, <2>2 DEF TypeOK
<1>5. TaskInv'
  <2>1. ASSUME NEW l \in Loops, thread'[l].at = "send"
        PROVE  \A k \in thread'[l].left : owner'[k] \in Conns
    <3>1. thread[l] \in Tasks /\ thread[l].at = "send" /\ thread'[l] = thread[l]
      BY <1>2, <2>1 DEF TypeOK
    <3>2. thread[l].left \in SUBSET Names BY <3>1, TaskFacts
    <3> QED BY <1>3, <3>1, <3>2 DEF TaskInv, TaskOk
  <2>2. UNCHANGED <<said, freed>> BY <1>1
  <2>3. ASSUME NEW l \in Loops PROVE TaskOk(l)'
    <3>1. CASE thread[l].at = "send" BY <1>2, <2>1, <2>2, <3>1 DEF TaskInv, TaskOk, Latest
    <3>2. CASE thread[l].at \in {"login", "logout", "chat"}
      BY <1>2, <2>2, <3>2 DEF TaskInv, TaskOk, Latest
    <3>3. CASE thread[l].at \notin {"send", "login", "logout", "chat"} BY <1>2, <3>3 DEF TaskOk
    <3> QED BY <3>1, <3>2, <3>3
  <2> QED BY <2>3 DEF TaskInv
<1>6. SaidInv' BY <1>1 DEF SaidInv, TypeOK
<1> QED BY <1>1, <1>4, <1>5, <1>6, QuietKeeps

\* What a loop does touches no other loop's task: neither what their clients have said, nor
\* their messages.
LEMMA OthersTasks ==
  ASSUME TypeOK, TaskInv, NEW l \in Loops, NEW k \in Loops, k # l,
         thread'[k] = thread[k], owner' = owner,
         \A c \in Conns : LoopOf[c] # l => said'[c] = said[c],
         \A m \in freed' : m \in freed \/ LoopOf[m.from] = l
  PROVE  TaskOk(k)'
<1> DEFINE t == thread[k]
<1>1. t \in Tasks /\ TaskOk(k) BY DEF TypeOK, TaskInv
<1>2. CASE t.at \in {"login", "logout"} BY <1>2 DEF TaskOk, TaskInv
<1>3. CASE t.at = "chat"
  <2>1. t.conn \in Conns /\ LoopOf[t.conn] = k BY <1>1, <1>3, TaskFacts DEF TaskOk
  <2>2. said'[t.conn] = said[t.conn] BY <2>1
  <2>3. Latest(t.conn) \notin freed' BY <1>1, <1>3, <2>1 DEF TaskOk, Latest
  <2> QED BY <1>1, <1>3, <2>1, <2>2, <2>3 DEF TaskOk, Latest
<1>4. CASE t.at = "send"
  <2>1. t.msg.from \in Conns /\ LoopOf[t.msg.from] = k BY <1>1, <1>4, TaskFacts DEF TaskOk
  <2>2. said'[t.msg.from] = said[t.msg.from] BY <2>1
  <2>3. t.msg \notin freed' BY <1>1, <1>4, <2>1 DEF TaskOk
  <2> QED BY <1>1, <1>4, <2>1, <2>2, <2>3 DEF TaskOk, Latest
<1>5. CASE t.at = "idle" BY <1>5 DEF TaskOk
<1> QED BY <1>1, <1>2, <1>3, <1>4, <1>5, TaskFacts

\* A task begins; a chat message is said by then.
LEMMA BeginKeeps ==
  ASSUME ChatInv, NEW c \in Conns,
         BeginChat(c) \/ \E n \in Names : BeginLogin(c, n) \/ BeginLogout(c, n)
  PROVE  ChatInv'
<1> USE ChatAssumption DEF ChatInv
<1> DEFINE l == LoopOf[c]
<1>1. /\ read < MaxMsgs /\ read' = read + 1
      /\ UNCHANGED <<owner, online, life, queue, freed, got, logins, faulted>>
  BY DEF BeginChat, BeginLogin, BeginLogout, Begin, Reads
<1>2. l \in Loops BY OwnersFacts
<1>3. /\ said \in [Conns -> 0 .. MaxMsgs] /\ read \in 0 .. MaxMsgs
      /\ thread \in [Loops -> Tasks] /\ \A d \in Conns : said[d] <= read
  BY DEF TypeOK, SaidInv
<1>4. PICK t \in Tasks :
          /\ thread' = [thread EXCEPT ![l] = t]
          /\ \/ t.at \in {"login", "logout"} /\ t.conn = c /\ said' = said
             \/ t.at = "chat" /\ t.conn = c /\ said' = [said EXCEPT ![c] = @ + 1]
  <2>1. CASE BeginChat(c)
    <3> DEFINE t == [at |-> "chat", conn |-> c, raced |-> FALSE]
    <3>1. t \in Tasks /\ t.at = "chat" /\ t.conn = c BY TasksMade
    <3>2. thread' = [thread EXCEPT ![l] = t] /\ said' = [said EXCEPT ![c] = @ + 1]
      BY <2>1 DEF BeginChat, Begin
    <3> QED BY <3>1, <3>2
  <2>2. ASSUME NEW n \in Names, NEW a \in {"login", "logout"},
               Begin(c, [at |-> a, conn |-> c, name |-> n, raced |-> FALSE]), said' = said
        PROVE  \E t \in Tasks : /\ thread' = [thread EXCEPT ![l] = t]
                                /\ t.at \in {"login", "logout"} /\ t.conn = c /\ said' = said
    <3> DEFINE t == [at |-> a, conn |-> c, name |-> n, raced |-> FALSE]
    <3>1. t \in Tasks /\ t.at \in {"login", "logout"} /\ t.conn = c BY TasksMade
    <3>2. thread' = [thread EXCEPT ![l] = t] BY <2>2 DEF Begin
    <3> QED BY <2>2, <3>1, <3>2
  <2> QED BY <2>1, <2>2 DEF BeginLogin, BeginLogout
<1> HIDE DEF l
<1>5. /\ said' \in [Conns -> 0 .. MaxMsgs]
      /\ \A d \in Conns : /\ d # c => said'[d] = said[d]
                          /\ said'[d] >= said[d] /\ said'[d] <= read'
                          /\ t.at = "chat" => said'[c] = said[c] + 1
  <2>1. said[c] + 1 \in 0 .. MaxMsgs BY <1>1, <1>3
  <2> QED BY <1>1, <1>3, <1>4, <2>1
<1>6. TypeOK'
  <2>1. thread' \in [Loops -> Tasks] BY <1>2, <1>3, <1>4
  <2>2. read' \in 0 .. MaxMsgs BY <1>1, <1>3
  <2> QED BY <1>1, <1>5, <2>1, <2>2 DEF TypeOK
<1>7. TaskInv'
  <2>1. ASSUME NEW k \in Loops, k # l PROVE TaskOk(k)'
    BY <1>1, <1>2, <1>3, <1>4, <1>5, <2>1, OthersTasks DEF l
  <2>2. Latest(c)' \notin freed \/ t.at # "chat"
    <3>1. Latest(c)'.from = c /\ Latest(c)'.no = said'[c] BY DEF Latest
    <3>2. t.at = "chat" => ~(said'[c] <= said[c]) BY <1>3, <1>4, <1>5
    <3> QED BY <3>1, <3>2 DEF SaidInv
  <2>3. thread'[l] = t BY <1>2, <1>3, <1>4
  <2>4. t.at = "chat" => said'[c] >= 1 BY <1>3, <1>4, <1>5
  <2>5. TaskOk(l)' BY <1>1, <1>4, <2>2, <2>3, <2>4 DEF TaskOk, Latest, l
  <2> QED BY <2>1, <2>5 DEF TaskInv
<1>8. SaidInv'
  <2>1. ASSUME NEW m \in Message, m.no <= said[m.from] PROVE m.no <= said'[m.from]
    BY <1>3, <1>5, <2>1 DEF Message
  <2>2. freed \subseteq Message BY DEF TypeOK
  <2>3. \A d \in Conns : \A i \in DOMAIN got[d] : got[d][i].msg \in Message BY MessagesIn
  <2>4. \A k \in Loops : \A i \in DOMAIN queue[k] : queue[k][i].msg \in Message BY MessagesIn
  <2> QED BY <1>1, <1>5, <2>1, <2>2, <2>3, <2>4 DEF SaidInv
<1> QED BY <1>1, <1>6, <1>7, <1>8, QuietKeeps

\* A login or a logout ends, a broadcast begins or ends.
LEMMA EndKeeps ==
  ASSUME ChatInv, NEW l \in Loops,
         EndLogin(l) \/ EndLogout(l) \/ EndScan(l) \/ EndChat(l)
  PROVE  ChatInv'
<1> USE ChatAssumption DEF ChatInv
<1> DEFINE s == thread[l]
<1>1. UNCHANGED <<owner, queue, said, got, read, faulted>>
  BY DEF EndLogin, EndLogout, EndScan, EndChat
<1>2. s \in Tasks /\ TaskOk(l) /\ thread \in [Loops -> Tasks] BY DEF TypeOK, TaskInv
<1>3. /\ online' \subseteq online
      /\ life' \in [Conns -> {"heard", "silent", "closed", "gone"}]
      /\ logins' \subseteq Conns
  <2>1. /\ life \in [Conns -> {"heard", "silent", "closed", "gone"}]
        /\ logins \subseteq Conns
    BY DEF TypeOK
  <2>2. CASE EndLogin(l)
    <3>1. s.conn \in Conns BY <1>2, <2>2, TaskFacts DEF EndLogin
    <3>2. logins' = logins \union {s.conn} \/ logins' = logins BY <2>2 DEF EndLogin
    <3> QED BY <2>1, <2>2, <3>1, <3>2 DEF EndLogin
  <2>3. CASE EndLogout(l)
    <3>1. /\ online' \subseteq online /\ logins' \subseteq logins
          /\ life' = [life EXCEPT ![s.conn] = "silent"]
      BY <2>3 DEF EndLogout
    <3> HIDE DEF s
    <3> QED BY <2>1, <3>1
  <2>4. CASE EndScan(l) \/ EndChat(l) BY <2>1, <2>4 DEF EndScan, EndChat
  <2> QED BY <2>2, <2>3, <2>4
<1>4. /\ freed' \subseteq Message
      /\ \A m \in freed' : m \in freed \/ (LoopOf[m.from] = l /\ m.no <= said[m.from])
  <2>1. CASE EndChat(l)
    <3>1. /\ s.msg \in Message /\ s.msg.from \in Conns /\ LoopOf[s.msg.from] = l
          /\ s.msg = Latest(s.msg.from) /\ freed' = freed \union {s.msg}
      BY <1>2, <2>1, TaskFacts DEF EndChat, TaskOk
    <3>2. s.msg.no <= said[s.msg.from] BY <3>1 DEF Latest, TypeOK
    <3> QED BY <3>1, <3>2 DEF TypeOK
  <2>2. CASE ~EndChat(l) BY <2>2 DEF EndLogin, EndLogout, EndScan, TypeOK
  <2> QED BY <2>1, <2>2
<1>5. PICK t \in Tasks :
          /\ thread' = [thread EXCEPT ![l] = t]
          /\ t.at = "idle" \/ (/\ t.at = "send" /\ freed' = freed
                               /\ LoopOf[t.msg.from] = l /\ t.msg = Latest(t.msg.from)
                               /\ t.msg \notin freed /\ \A n \in t.left : owner[n] \in Conns)
  <2>1. CASE EndScan(l)
    <3> DEFINE m == Latest(s.conn)
    <3>1. /\ s.at = "chat" /\ s.conn \in Conns /\ LoopOf[s.conn] = l
          /\ said[s.conn] >= 1 /\ m \notin freed
      BY <1>2, <2>1, TaskFacts DEF EndScan, TaskOk
    <3>2. m \in Message /\ m.from = s.conn BY <3>1 DEF Latest, Message, TypeOK
    <3>3. PICK left \in SUBSET online :
              thread' = [thread EXCEPT ![l] = [at |-> "send", msg |-> m, left |-> left]]
      BY <2>1 DEF EndScan, Latest
    <3> DEFINE t == [at |-> "send", msg |-> m, left |-> left]
    <3>4. \A n \in left : owner[n] \in Conns /\ n \in Names BY OwnersFacts
    <3>5. t \in Tasks /\ t.at = "send" /\ t.msg = m /\ t.left = left
      BY <3>2, <3>4, TasksMade
    <3>6. freed' = freed BY <2>1 DEF EndScan
    <3> QED BY <3>1, <3>2, <3>3, <3>4, <3>5, <3>6
  <2>2. CASE ~EndScan(l) BY <2>2, TasksMade DEF EndLogin, EndLogout, EndChat, Done
  <2> QED BY <2>1, <2>2
<1> HIDE DEF s
<1>6. TypeOK'
  <2>1. thread' \in [Loops -> Tasks] BY <1>2, <1>5
  <2> QED BY <1>1, <1>3, <1>4, <2>1 DEF TypeOK
<1>7. TaskInv'
  <2>1. ASSUME NEW k \in Loops, k # l PROVE TaskOk(k)'
    BY <1>1, <1>2, <1>4, <1>5, <2>1, OthersTasks
  <2>2. thread'[l] = t BY <1>2, <1>5
  <2>3. TaskOk(l)' BY <1>1, <1>5, <2>2 DEF TaskOk, Latest
  <2> QED BY <2>1, <2>3 DEF TaskInv
<1>8. SaidInv' BY <1>1, <1>4 DEF SaidInv
<1> QED BY <1>1, <1>6, <1>7, <1>8, QuietKeeps

-----------------------------------------------------------------------------
\* A connection is sent one message more, which is behind all that it got.
LEMMA SendKeeps ==
  ASSUME ChatInv, NEW c \in Conns, NEW m \in Message, Send(c, m),
         m.no <= said[m.from], UNCHANGED <<said, freed>>,
         LoopOf[m.from] = LoopOf[c] => m \notin freed,
         \A i \in DOMAIN got[c] : InOrder(got[c][i].msg, m)
  PROVE  /\ got' \in [Conns -> Seq(Receipt)]
         /\ life' \in [Conns -> {"heard", "silent", "closed", "gone"}] /\ faulted' = faulted
         /\ \A d \in Conns : \A i \in DOMAIN got'[d] :
                \/ i \in DOMAIN got[d] /\ got'[d][i] = got[d][i]
                \/ d = c /\ got'[d][i].msg = m
         /\ \A d \in Conns : \A i \in DOMAIN got'[d] :
                got'[d][i].msg.no <= said[got'[d][i].msg.from]
         /\ \A d \in Conns : \A i, j \in DOMAIN got'[d] :
                i < j => InOrder(got'[d][i].msg, got'[d][j].msg)
         /\ IntactAtHome'
<1> USE DEF ChatInv
<1>1. PICK b \in BOOLEAN :
          /\ m \notin freed => b = TRUE
          /\ got' = [got EXCEPT ![c] = Append(got[c], [msg |-> m, intact |-> b])]
  BY DEF Send
<1> DEFINE r == [msg |-> m, intact |-> b]
<1>2. r \in Receipt /\ r.msg = m /\ r.intact = b BY DEF Receipt
<1>3. got \in [Conns -> Seq(Receipt)] BY DEF TypeOK, Receipt
<1>4. got' = [got EXCEPT ![c] = Append(got[c], r)] BY <1>1
<1> HIDE DEF r
<1>5. /\ \A d \in Conns : d # c => got'[d] = got[d]
      /\ got'[c] = Append(got[c], r)
  BY <1>3, <1>4
<1>6. /\ Append(got[c], r) \in Seq(Receipt) /\ Len(got[c]) + 1 \in Nat
      /\ \A i \in DOMAIN got[c] : i < Len(got[c]) + 1
      /\ \A i \in DOMAIN got'[c] : \/ i = Len(got[c]) + 1 /\ got'[c][i] = r
                                   \/ i \in DOMAIN got[c] /\ got'[c][i] = got[c][i]
  BY <1>2, <1>3, <1>5, AppendEntries
<1>7. got' \in [Conns -> Seq(Receipt)] BY <1>3, <1>4, <1>6
<1>8. life' \in [Conns -> {"heard", "silent", "closed", "gone"}] /\ faulted' = faulted
  BY DEF Send, TypeOK
<1>9. \A d \in Conns : \A i \in DOMAIN got'[d] :
          \/ i \in DOMAIN got[d] /\ got'[d][i] = got[d][i]
          \/ d = c /\ i = Len(got[c]) + 1 /\ got'[d][i] = r
  BY <1>5, <1>6
<1>10. \A d \in Conns : \A i \in DOMAIN got'[d] :
           got'[d][i].msg.no <= said[got'[d][i].msg.from]
  BY <1>2, <1>9 DEF SaidInv
<1>11. \A d \in Conns : \A i, j \in DOMAIN got'[d] :
           i < j => InOrder(got'[d][i].msg, got'[d][j].msg)
  <2>1. ASSUME NEW d \in Conns, NEW i \in DOMAIN got'[d], NEW j \in DOMAIN got'[d], i < j
        PROVE  InOrder(got'[d][i].msg, got'[d][j].msg)
    <3>1. CASE j \in DOMAIN got[d] /\ got'[d][j] = got[d][j]
      <4>1. i \in DOMAIN got[d] /\ got'[d][i] = got[d][i]
        <5>1. d = c => j < Len(got[c]) + 1 BY <1>6, <3>1
        <5>2. j \in Nat BY <3>1, <1>3, Entries
        <5>3. ~(d = c /\ i = Len(got[c]) + 1) BY <1>6, <5>1, <5>2, <2>1
        <5> QED BY <1>9, <5>3
      <4> QED BY <2>1, <3>1, <4>1 DEF OrderInv
    <3>2. CASE d = c /\ j = Len(got[c]) + 1 /\ got'[d][j] = r
      <4>1. i \in DOMAIN got[d] /\ got'[d][i] = got[d][i] BY <1>6, <1>9, <2>1, <3>2
      <4> QED BY <1>2, <3>2, <4>1
    <3> QED BY <1>9, <3>1, <3>2
  <2> QED BY <2>1
<1>12. IntactAtHome'
  <2>1. ASSUME NEW d \in Conns, NEW i \in DOMAIN got'[d], LoopOf[got'[d][i].msg.from] = LoopOf[d]
        PROVE  got'[d][i].intact
    <3>1. CASE i \in DOMAIN got[d] /\ got'[d][i] = got[d][i] BY <2>1, <3>1 DEF IntactAtHome
    <3>2. CASE d = c /\ got'[d][i] = r BY <1>1, <1>2, <2>1, <3>2
    <3> QED BY <1>9, <3>1, <3>2
  <2> QED BY <2>1 DEF IntactAtHome
<1>13. \A d \in Conns : \A i \in DOMAIN got'[d] :
           \/ i \in DOMAIN got[d] /\ got'[d][i] = got[d][i]
           \/ d = c /\ got'[d][i].msg = m
  BY <1>2, <1>9
<1> QED BY <1>7, <1>8, <1>10, <1>11, <1>12, <1>13

\* A loop is handed one call more, which is behind all that its queue holds and all that the
\* connection got.
LEMMA HandOverKeeps ==
  ASSUME ChatInv, NEW c \in Conns, NEW m \in Message, HandOver(c, m),
         m.no <= said[m.from], UNCHANGED <<said, got>>, LoopOf[m.from] # LoopOf[c],
         \A i \in DOMAIN got[c] : InOrder(got[c][i].msg, m),
         \A i \in DOMAIN queue[LoopOf[c]] : InOrder(queue[LoopOf[c]][i].msg, m)
  PROVE  /\ QueueType'
         /\ \A l \in Loops : queue'[l] \in Seq([to : {d \in Conns : LoopOf[d] = l}, msg : Message])
         /\ HomeInv' /\ OrderInv'
         /\ \A l \in Loops : \A i \in DOMAIN queue'[l] :
                queue'[l][i].msg.no <= said[queue'[l][i].msg.from]
<1> USE DEF ChatInv
<1> DEFINE k == LoopOf[c]
           e == [to |-> c, msg |-> m]
<1>1. k \in Loops BY OwnersFacts
<1>2. queue \in [Loops -> Seq(Call)] BY DEF QueueType
<1>3. e \in Call /\ e.to = c /\ e.msg = m BY DEF Call
<1>4. queue' = [queue EXCEPT ![k] = Append(queue[k], e)] BY DEF HandOver
<1>5. /\ queue[k] \in Seq([to : {d \in Conns : LoopOf[d] = k}, msg : Message])
      /\ e \in [to : {d \in Conns : LoopOf[d] = k}, msg : Message]
  BY <1>1 DEF TypeOK
<1> HIDE DEF k, e
<1>6. /\ \A l \in Loops : l # k => queue'[l] = queue[l]
      /\ queue'[k] = Append(queue[k], e)
  BY <1>1, <1>2, <1>4
<1>7. /\ Append(queue[k], e) \in Seq(Call) /\ Len(queue[k]) + 1 \in Nat
      /\ \A i \in DOMAIN queue[k] : i < Len(queue[k]) + 1
      /\ \A i \in DOMAIN queue'[k] : \/ i = Len(queue[k]) + 1 /\ queue'[k][i] = e
                                     \/ i \in DOMAIN queue[k] /\ queue'[k][i] = queue[k][i]
  BY <1>1, <1>2, <1>3, <1>6, AppendEntries
<1>8. QueueType' BY <1>2, <1>4, <1>7 DEF QueueType
<1>9. \A l \in Loops : queue'[l] \in Seq([to : {d \in Conns : LoopOf[d] = l}, msg : Message])
  <2>1. queue'[k] \in Seq([to : {d \in Conns : LoopOf[d] = k}, msg : Message])
    BY <1>5, <1>6, AppendEntries
  <2> QED BY <1>6, <2>1 DEF TypeOK
<1>10. \A l \in Loops : \A i \in DOMAIN queue'[l] :
           \/ i \in DOMAIN queue[l] /\ queue'[l][i] = queue[l][i]
           \/ l = k /\ i = Len(queue[k]) + 1 /\ queue'[l][i] = e
  BY <1>6, <1>7
<1>11. HomeInv' BY <1>3, <1>10 DEF HomeInv, k
<1>12. OrderInv'
  <2>1. \A d \in Conns : \A i, j \in DOMAIN got'[d] :
            i < j => InOrder(got'[d][i].msg, got'[d][j].msg)
    BY DEF OrderInv
  <2>2. ASSUME NEW l \in Loops, NEW i \in DOMAIN queue'[l], NEW j \in DOMAIN queue'[l], i < j
        PROVE  InOrder(queue'[l][i].msg, queue'[l][j].msg)
    <3>1. CASE j \in DOMAIN queue[l] /\ queue'[l][j] = queue[l][j]
      <4>1. i \in DOMAIN queue[l] /\ queue'[l][i] = queue[l][i]
        <5>1. l = k => j < Len(queue[k]) + 1 BY <1>7, <3>1
        <5>2. j \in Nat BY <3>1, <1>2, Entries
        <5>3. ~(l = k /\ i = Len(queue[k]) + 1) BY <1>7, <5>1, <5>2, <2>2
        <5> QED BY <1>10, <5>3
      <4> QED BY <2>2, <3>1, <4>1 DEF OrderInv
    <3>2. CASE l = k /\ j = Len(queue[k]) + 1 /\ queue'[l][j] = e
      <4>1. i \in DOMAIN queue[l] /\ queue'[l][i] = queue[l][i] BY <1>7, <1>10, <2>2, <3>2
      <4> QED BY <1>3, <3>2, <4>1 DEF k
    <3> QED BY <1>10, <3>1, <3>2
  <2>3. ASSUME NEW d \in Conns, NEW i \in DOMAIN got[d], NEW j \in DOMAIN queue'[LoopOf[d]],
               queue'[LoopOf[d]][j].to = d
        PROVE  InOrder(got[d][i].msg, queue'[LoopOf[d]][j].msg)
    <3>1. LoopOf[d] \in Loops BY OwnersFacts
    <3>2. CASE j \in DOMAIN queue[LoopOf[d]] /\ queue'[LoopOf[d]][j] = queue[LoopOf[d]][j]
      BY <2>3, <3>2 DEF OrderInv
    <3>3. CASE queue'[LoopOf[d]][j] = e BY <1>3, <2>3, <3>3
    <3> QED BY <1>10, <3>1, <3>2, <3>3
  <2> QED BY <2>1, <2>2, <2>3 DEF OrderInv
<1>13. \A l \in Loops : \A i \in DOMAIN queue'[l] :
           queue'[l][i].msg.no <= said[queue'[l][i].msg.from]
  BY <1>3, <1>10 DEF SaidInv
<1> QED BY <1>8, <1>9, <1>11, <1>12, <1>13

\* What a client says last is behind all that is queued or was sent.
LEMMA LatestIsLast ==
  ASSUME ChatInv, NEW m \in Message, m = Latest(m.from)
  PROVE  /\ \A c \in Conns : \A i \in DOMAIN got[c] : InOrder(got[c][i].msg, m)
         /\ \A l \in Loops : \A i \in DOMAIN queue[l] : InOrder(queue[l][i].msg, m)
<1>1. m.no = said[m.from] BY DEF Latest
<1> QED BY <1>1 DEF ChatInv, SaidInv, InOrder

\* A connection that is freed already is used: no message moves.
LEMMA UseAfterFreeKeeps ==
  ASSUME ChatInv, UseAfterFree, UNCHANGED <<owner, online, said, freed, logins, read>>
  PROVE  /\ life' \in [Conns -> {"heard", "silent", "closed", "gone"}] /\ faulted' \in BOOLEAN
         /\ got' = got
BY DEF ChatInv, UseAfterFree, TypeOK

\* A broadcast goes on to the next client on its list.
LEMMA SendNextKeeps ==
  ASSUME ChatInv, NEW l \in Loops, NEW n \in Names, SendNext(l, n)
  PROVE  ChatInv'
<1> USE ChatAssumption DEF ChatInv
<1> DEFINE s == thread[l]
           m == s.msg
           c == owner[n]
           t == [s EXCEPT !.left = @ \ {n}]
<1>1. /\ UNCHANGED <<owner, online, said, freed, logins, read>>
      /\ thread' = [thread EXCEPT ![l] = t]
      /\ s.at = "send" /\ n \in s.left
  BY DEF SendNext
<1>2. s \in Tasks /\ TaskOk(l) /\ thread \in [Loops -> Tasks] BY DEF TypeOK, TaskInv
<1>3. /\ s \in [at : {"send"}, msg : Message, left : SUBSET Names]
      /\ m \in Message /\ m.from \in Conns /\ LoopOf[m.from] = l
      /\ m = Latest(m.from) /\ m \notin freed /\ \A k \in s.left : owner[k] \in Conns
  BY <1>1, <1>2, TaskFacts DEF TaskOk
<1>4. c \in Conns /\ LoopOf[c] \in Loops BY <1>1, <1>3, OwnersFacts
<1>5. m.no <= said[m.from]
  <2>1. m.no = said[m.from] BY <1>3 DEF Latest
  <2>2. said[m.from] \in 0 .. MaxMsgs BY <1>3 DEF TypeOK
  <2> QED BY <2>1, <2>2
<1>6. /\ \A i \in DOMAIN got[c] : InOrder(got[c][i].msg, m)
      /\ \A i \in DOMAIN queue[LoopOf[c]] : InOrder(queue[LoopOf[c]][i].msg, m)
  BY <1>3, <1>4, LatestIsLast
<1>7. /\ t \in [at : {"send"}, msg : Message, left : SUBSET Names]
      /\ t.at = "send" /\ t.msg = m /\ t.left \subseteq s.left
  BY <1>3
<1>8. t \in Tasks BY <1>7 DEF Tasks
<1>9. \/ UseAfterFree /\ UNCHANGED queue
      \/ LoopOf[c] = l /\ Send(c, m) /\ UNCHANGED queue
      \/ LoopOf[c] # l /\ HandOver(c, m) /\ UNCHANGED <<got, life, faulted>>
  BY DEF SendNext
<1> HIDE DEF t, s, m, c
<1>10. TaskInv'
  <2>1. ASSUME NEW k \in Loops, k # l PROVE TaskOk(k)'
    BY <1>1, <1>2, <2>1, OthersTasks
  <2>2. thread'[l] = t BY <1>1, <1>2
  <2>3. TaskOk(l)' BY <1>1, <1>3, <1>7, <2>2 DEF TaskOk, Latest
  <2> QED BY <2>1, <2>3 DEF TaskInv
<1>11. thread' \in [Loops -> Tasks] BY <1>1, <1>2, <1>8
<1>12. CASE UseAfterFree /\ UNCHANGED queue
  <2>1. /\ life' \in [Conns -> {"heard", "silent", "closed", "gone"}] /\ faulted' \in BOOLEAN
        /\ got' = got
    BY <1>1, <1>12, UseAfterFreeKeeps
  <2>2. TypeOK' BY <1>1, <1>11, <1>12, <2>1 DEF TypeOK
  <2>3. SaidInv' BY <1>1, <1>12, <2>1 DEF SaidInv
  <2> QED BY <1>10, <1>12, <2>1, <2>2, <2>3, QuietKeeps
<1>13. CASE LoopOf[c] = l /\ Send(c, m) /\ UNCHANGED queue
  <2>1. /\ got' \in [Conns -> Seq(Receipt)]
        /\ life' \in [Conns -> {"heard", "silent", "closed", "gone"}] /\ faulted' = faulted
        /\ \A d \in Conns : \A i \in DOMAIN got'[d] :
               \/ i \in DOMAIN got[d] /\ got'[d][i] = got[d][i]
               \/ d = c /\ got'[d][i].msg = m
        /\ \A d \in Conns : \A i \in DOMAIN got'[d] :
               got'[d][i].msg.no <= said[got'[d][i].msg.from]
        /\ \A d \in Conns : \A i, j \in DOMAIN got'[d] :
               i < j => InOrder(got'[d][i].msg, got'[d][j].msg)
        /\ IntactAtHome'
    BY <1>1, <1>3, <1>4, <1>5, <1>6, <1>13, SendKeeps
  <2>2. TypeOK' BY <1>1, <1>11, <1>13, <2>1 DEF TypeOK, Receipt
  <2>3. SaidInv' BY <1>1, <1>13, <2>1 DEF SaidInv
  <2>4. QueueType' /\ HomeInv' BY <1>13 DEF QueueType, HomeInv
  <2>5. \A d \in Conns : \A i \in DOMAIN got'[d], j \in DOMAIN queue[LoopOf[d]] :
            queue[LoopOf[d]][j].to = d => InOrder(got'[d][i].msg, queue[LoopOf[d]][j].msg)
    <3>1. ASSUME NEW j \in DOMAIN queue[l] PROVE InOrder(m, queue[l][j].msg)
      BY <1>3, <3>1 DEF HomeInv, InOrder
    <3> QED BY <1>13, <2>1, <3>1 DEF OrderInv
  <2>6. OrderInv' BY <1>13, <2>1, <2>5 DEF OrderInv
  <2> QED BY <1>10, <2>1, <2>2, <2>3, <2>4, <2>6
<1>14. CASE LoopOf[c] # l /\ HandOver(c, m) /\ UNCHANGED <<got, life, faulted>>
  <2>1. /\ QueueType'
        /\ \A k \in Loops : queue'[k] \in Seq([to : {d \in Conns : LoopOf[d] = k}, msg : Message])
        /\ HomeInv' /\ OrderInv'
        /\ \A k \in Loops : \A i \in DOMAIN queue'[k] :
               queue'[k][i].msg.no <= said[queue'[k][i].msg.from]
    BY <1>1, <1>3, <1>4, <1>5, <1>6, <1>14, HandOverKeeps
  <2>2. TypeOK' BY <1>1, <1>11, <1>14, <2>1 DEF TypeOK
  <2>3. SaidInv' BY <1>1, <1>14, <2>1 DEF SaidInv
  <2>4. IntactAtHome' BY <1>14 DEF IntactAtHome
  <2> QED BY <1>10, <2>1, <2>2, <2>3, <2>4
<1> QED BY <1>9, <1>12, <1>13, <1>14

\* A loop runs the first call in its queue: what it sends is behind all that the connection got,
\* and before all that the queue still holds.
LEMMA RunCallKeeps ==
  ASSUME ChatInv, NEW l \in Loops, RunCall(l)
  PROVE  ChatInv'
<1> USE ChatAssumption DEF ChatInv
<1> DEFINE call == Head(queue[l])
           m == call.msg
           c == call.to
<1>1. /\ UNCHANGED <<owner, online, thread, said, freed, logins, read>>
      /\ queue[l] # <<>> /\ queue' = [queue EXCEPT ![l] = Tail(queue[l])]
      /\ UseAfterFree \/ Send(c, m)
  BY DEF RunCall
<1>2. queue \in [Loops -> Seq(Call)] BY DEF QueueType
<1>3. /\ Tail(queue[l]) \in Seq(Call) /\ 1 \in DOMAIN queue[l] /\ call = queue[l][1]
      /\ DOMAIN Tail(queue[l]) \subseteq Nat
      /\ \A i \in DOMAIN Tail(queue[l]) :
             i + 1 \in DOMAIN queue[l] /\ 1 < i + 1 /\ Tail(queue[l])[i] = queue[l][i + 1]
  BY <1>1, <1>2, TailEntries
<1>4. c \in Conns /\ m \in Message /\ m.from \in Conns /\ LoopOf[c] = l
  BY <1>3, MessagesIn
<1>5. m.no <= said[m.from] /\ LoopOf[m.from] # l BY <1>3 DEF SaidInv, HomeInv
<1>6. \A i \in DOMAIN got[c] : InOrder(got[c][i].msg, m) BY <1>3, <1>4 DEF OrderInv
<1>7. \A j \in DOMAIN queue[l] : 1 < j => InOrder(m, queue[l][j].msg) BY <1>3 DEF OrderInv
<1> HIDE DEF m, c, call
<1>8. /\ \A k \in Loops : k # l => queue'[k] = queue[k]
      /\ queue'[l] = Tail(queue[l])
  BY <1>1, <1>2
<1>9. QueueType' BY <1>1, <1>2, <1>3 DEF QueueType
<1>10. \A k \in Loops : \A i \in DOMAIN queue'[k] :
           \/ i \in DOMAIN queue[k] /\ queue'[k][i] = queue[k][i] /\ k # l
           \/ i + 1 \in DOMAIN queue[k] /\ queue'[k][i] = queue[k][i + 1] /\ k = l /\ 1 < i + 1
  BY <1>3, <1>8
<1>11. \A k \in Loops : queue'[k] \in Seq([to : {d \in Conns : LoopOf[d] = k}, msg : Message])
  <2>1. queue[l] \in Seq([to : {d \in Conns : LoopOf[d] = l}, msg : Message]) BY DEF TypeOK
  <2>2. queue'[l] \in Seq([to : {d \in Conns : LoopOf[d] = l}, msg : Message])
    BY <1>1, <1>8, <2>1, TailEntries
  <2> QED BY <1>8, <2>2 DEF TypeOK
<1>12. HomeInv' BY <1>10 DEF HomeInv
<1>13. \A k \in Loops : \A i \in DOMAIN queue'[k] :
           queue'[k][i].msg.no <= said[queue'[k][i].msg.from]
  BY <1>10 DEF SaidInv
<1>14. \A k \in Loops : \A i, j \in DOMAIN queue'[k] :
           i < j => InOrder(queue'[k][i].msg, queue'[k][j].msg)
  <2>1. ASSUME NEW i \in DOMAIN queue'[l], NEW j \in DOMAIN queue'[l], i < j
        PROVE  InOrder(queue'[l][i].msg, queue'[l][j].msg)
    <3>1. i \in Nat /\ j \in Nat BY <1>3, <1>8
    <3>2. i + 1 < j + 1 BY <2>1, <3>1
    <3> QED BY <1>10, <3>2 DEF OrderInv
  <2> QED BY <1>8, <2>1 DEF OrderInv
<1>15. TaskInv'
  <2> QED BY <1>1 DEF TaskInv, TaskOk, Latest
<1>16. CASE UseAfterFree
  <2>1. /\ life' \in [Conns -> {"heard", "silent", "closed", "gone"}] /\ faulted' \in BOOLEAN
        /\ got' = got
    BY <1>1, <1>16, UseAfterFreeKeeps
  <2>2. TypeOK' BY <1>1, <1>11, <2>1 DEF TypeOK
  <2>3. SaidInv' BY <1>1, <1>13, <2>1 DEF SaidInv
  <2>4. IntactAtHome' BY <2>1 DEF IntactAtHome
  <2>5. \A d \in Conns : \A i \in DOMAIN got[d], j \in DOMAIN queue'[LoopOf[d]] :
            queue'[LoopOf[d]][j].to = d => InOrder(got[d][i].msg, queue'[LoopOf[d]][j].msg)
    BY <1>10, OwnersFacts DEF OrderInv
  <2>6. OrderInv' BY <1>14, <2>1, <2>5 DEF OrderInv
  <2> QED BY <1>9, <1>12, <1>15, <2>2, <2>3, <2>4, <2>6
<1>17. CASE Send(c, m)
  <2>1. /\ got' \in [Conns -> Seq(Receipt)]
        /\ life' \in [Conns -> {"heard", "silent", "closed", "gone"}] /\ faulted' = faulted
        /\ \A d \in Conns : \A i \in DOMAIN got'[d] :
               \/ i \in DOMAIN got[d] /\ got'[d][i] = got[d][i]
               \/ d = c /\ got'[d][i].msg = m
        /\ \A d \in Conns : \A i \in DOMAIN got'[d] :
               got'[d][i].msg.no <= said[got'[d][i].msg.from]
        /\ \A d \in Conns : \A i, j \in DOMAIN got'[d] :
               i < j => InOrder(got'[d][i].msg, got'[d][j].msg)
        /\ IntactAtHome'
    BY <1>1, <1>4, <1>5, <1>6, <1>17, SendKeeps
  <2>2. TypeOK' BY <1>1, <1>11, <2>1 DEF TypeOK, Receipt
  <2>3. SaidInv' BY <1>1, <1>13, <2>1 DEF SaidInv
  <2>4. ASSUME NEW d \in Conns, NEW i \in DOMAIN got'[d], NEW j \in DOMAIN queue'[LoopOf[d]],
               queue'[LoopOf[d]][j].to = d
        PROVE  InOrder(got'[d][i].msg, queue'[LoopOf[d]][j].msg)
    <3>1. LoopOf[d] \in Loops BY OwnersFacts
    <3>2. CASE i \in DOMAIN got[d] /\ got'[d][i] = got[d][i]
      BY <1>10, <2>4, <3>1, <3>2 DEF OrderInv
    <3>3. CASE d = c /\ got'[d][i].msg = m
      <4>1. j + 1 \in DOMAIN queue[l] /\ 1 < j + 1 /\ queue'[l][j] = queue[l][j + 1]
        BY <1>4, <1>10, <3>3
      <4>2. InOrder(m, queue[l][j + 1].msg) BY <1>7, <4>1
      <4> QED BY <1>4, <3>3, <4>1, <4>2
    <3> QED BY <2>1, <3>2, <3>3
  <2>5. OrderInv' BY <1>14, <2>1, <2>4 DEF OrderInv
  <2> QED BY <1>9, <1>12, <1>15, <2>1, <2>2, <2>3, <2>5
<1> QED BY <1>1, <1>16, <1>17

\* Every step keeps the invariant.
LEMMA StepKeeps == ChatInv /\ [Next]_vars => ChatInv'
<1> SUFFICES ASSUME ChatInv, [Next]_vars PROVE ChatInv' OBVIOUS
<1>1. CASE UNCHANGED vars
  <2> USE DEF ChatInv, vars
  <2>1. UNCHANGED <<owner, online, life, thread, queue, said, freed, got, logins, read, faulted>>
    BY <1>1
  <2>2. TypeOK' BY <2>1 DEF TypeOK
  <2>3. TaskInv' /\ SaidInv' BY <2>1 DEF TaskInv, TaskOk, SaidInv, Latest
  <2> QED BY <2>1, <2>2, <2>3, QuietKeeps
<1>2. ASSUME NEW c \in Conns, BeginChat(c) \/ PeerCloses(c) \/ Reap(c) PROVE ChatInv'
  BY <1>2, BeginKeeps, LeavingKeeps
<1>3. ASSUME NEW c \in Conns, NEW n \in Names,
             Register(c, n) \/ BeginLogin(c, n) \/ BeginLogout(c, n)
      PROVE  ChatInv'
  BY <1>3, RegisterKeeps, BeginKeeps
<1>4. ASSUME NEW l \in Loops, Proceed(l) \/ ScanFaults(l) PROVE ChatInv'
  BY <1>4, EndKeeps, RunCallKeeps, SendNextKeeps, LeavingKeeps DEF Proceed
<1> QED BY <1>1, <1>2, <1>3, <1>4 DEF Next

\* What holds of every state of the chat.
THEOREM ChatInvHolds == Spec => []ChatInv
BY InitChat, StepKeeps, PTL DEF Spec

\* processChatMessage(), runInLoop(): every client sees what any one client said in the order
\* in which it was said, whichever loops the two belong to and whoever else is talking.
THEOREM SendersAreInOrder == Spec => []SenderOrder
<1>1. ChatInv => SenderOrder BY DEF ChatInv, OrderInv, InOrder, SenderOrder
<1> QED BY <1>1, ChatInvHolds, PTL

\* onMessage() deletes a message at its end, so what it has sent within its own loop was whole.
THEOREM HomeIsIntact == Spec => []IntactAtHome
<1>1. ChatInv => IntactAtHome BY DEF ChatInv
<1> QED BY <1>1, ChatInvHolds, PTL

-----------------------------------------------------------------------------
(* What is owed.                                                            *)

\* The connection is on the list of the broadcast that runs, or its call waits.
Listed(c, m) == \E l \in Loops, n \in Names : Sending(l, m, n) /\ owner[n] = c
Handed(c, m) == \E i \in DOMAIN queue[LoopOf[c]] : queue[LoopOf[c]][i] = [to |-> c, msg |-> m]

\* These are the two ways to be owed a message.
LEMMA OwedIs == \A c, m : Owed(c, m) <=> Listed(c, m) \/ Handed(c, m)
BY DEF Owed, Listed, Handed, ToSet

\* What is kept from one step to the next of a list: the tasks that broadcast, and the owners
\* of the names on their lists.
LEMMA ListKept ==
  ASSUME ChatInv, NEW c \in Conns, NEW m \in Message,
         \A l \in Loops : thread[l].at = "send" /\ thread[l].left # {} => thread'[l] = thread[l],
         \A n \in Names : owner[n] # Nobody => owner'[n] = owner[n]
  PROVE  Listed(c, m) => Listed(c, m)'
<1> SUFFICES ASSUME NEW l \in Loops, NEW n \in Names, Sending(l, m, n), owner[n] = c
             PROVE  Listed(c, m)'
  BY DEF Listed
<1>1. thread'[l] = thread[l] BY DEF Sending
<1>2. owner'[n] = c BY ChatAssumption
<1> QED BY <1>1, <1>2 DEF Listed, Sending

\* A queue that grows keeps its calls.
LEMMA HandedKept ==
  ASSUME ChatInv, NEW c \in Conns, NEW m \in Message,
         queue' = queue \/ \E d \in Conns, o \in Message : HandOver(d, o)
  PROVE  Handed(c, m) => Handed(c, m)'
<1> SUFFICES ASSUME NEW i \in DOMAIN queue[LoopOf[c]],
                    queue[LoopOf[c]][i] = [to |-> c, msg |-> m]
             PROVE  Handed(c, m)'
  BY DEF Handed
<1>1. CASE queue' = queue BY <1>1 DEF Handed
<1>2. ASSUME NEW d \in Conns, NEW o \in Message, HandOver(d, o) PROVE Handed(c, m)'
  <2> DEFINE k == LoopOf[c]
             e == [to |-> d, msg |-> o]
  <2>1. k \in Loops /\ LoopOf[d] \in Loops /\ e \in Call /\ queue \in [Loops -> Seq(Call)]
    BY OwnersFacts DEF ChatInv, QueueType, Call
  <2>2. queue'[k] = queue[k] \/ queue'[k] = Append(queue[k], e)
    BY <1>2, <2>1 DEF HandOver
  <2> HIDE DEF e
  <2>3. i \in DOMAIN Append(queue[k], e) /\ Append(queue[k], e)[i] = queue[k][i]
    <3>1. /\ queue[k] \in Seq(Call) /\ Len(queue[k]) \in Nat
          /\ DOMAIN queue[k] = 1 .. Len(queue[k])
      BY <2>1
    <3>2. /\ Len(Append(queue[k], e)) = Len(queue[k]) + 1
          /\ \A j \in 1 .. Len(queue[k]) : Append(queue[k], e)[j] = queue[k][j]
          /\ Append(queue[k], e) \in Seq(Call)
      BY <2>1, <3>1, AppendProperties
    <3>3. DOMAIN Append(queue[k], e) = 1 .. Len(queue[k]) + 1 BY <3>2, LenProperties
    <3> QED BY <3>1, <3>2, <3>3
  <2> QED BY <2>2, <2>3 DEF Handed
<1> QED BY <1>1, <1>2

\* sendMessage() gives the connection the message.
LEMMA SendGives ==
  ASSUME ChatInv, NEW c \in Conns, NEW m \in Message, Send(c, m)
  PROVE  Received(c, m)'
<1>1. PICK b \in BOOLEAN : got' = [got EXCEPT ![c] = Append(got[c], [msg |-> m, intact |-> b])]
  BY DEF Send
<1> DEFINE r == [msg |-> m, intact |-> b]
<1>2. r \in Receipt /\ r.msg = m BY DEF Receipt
<1>3. got \in [Conns -> Seq(Receipt)] BY DEF ChatInv, TypeOK, Receipt
<1> HIDE DEF r
<1>4. got'[c] = Append(got[c], r) BY <1>1, <1>3 DEF r
<1>5. Len(got[c]) + 1 \in DOMAIN Append(got[c], r) /\ Append(got[c], r)[Len(got[c]) + 1] = r
  <2>1. got[c] \in Seq(Receipt) /\ Len(got[c]) \in Nat BY <1>3
  <2>2. /\ Append(got[c], r) \in Seq(Receipt) /\ Len(Append(got[c], r)) = Len(got[c]) + 1
        /\ Append(got[c], r)[Len(got[c]) + 1] = r
    BY <1>2, <2>1, AppendProperties
  <2>3. DOMAIN Append(got[c], r) = 1 .. Len(got[c]) + 1 BY <2>2, LenProperties
  <2> QED BY <2>1, <2>2, <2>3
<1> QED BY <1>2, <1>4, <1>5 DEF Received

\* A broadcast owes its message to all on its list but the one it turns to now, who gets it
\* or whose loop is handed the call.
LEMMA SendNextOwes ==
  ASSUME ChatInv, NEW l \in Loops, NEW n \in Names, SendNext(l, n),
         NEW c \in Conns, NEW m \in Message, Owed(c, m)
  PROVE  Owed(c, m)' \/ Received(c, m)' \/ faulted'
<1> DEFINE s == thread[l]
           o == s.msg
           d == owner[n]
<1>1. /\ owner' = owner /\ thread' = [thread EXCEPT ![l].left = @ \ {n}]
      /\ s.at = "send" /\ n \in s.left
      /\ \/ UseAfterFree /\ UNCHANGED queue
         \/ LoopOf[d] = l /\ Send(d, o) /\ UNCHANGED queue
         \/ LoopOf[d] # l /\ HandOver(d, o)
  BY DEF SendNext
<1>2. s \in Tasks /\ thread \in [Loops -> Tasks] /\ TaskOk(l)
  BY DEF ChatInv, TypeOK, TaskInv
<1>3. /\ s \in [at : {"send"}, msg : Message, left : SUBSET Names]
      /\ o \in Message /\ d \in Conns
  BY <1>1, <1>2, TaskFacts DEF TaskOk
<1>4. /\ thread'[l].at = "send" /\ thread'[l].msg = o /\ thread'[l].left = s.left \ {n}
      /\ \A k \in Loops : k # l => thread'[k] = thread[k]
  BY <1>1, <1>2, <1>3
<1>5. CASE Handed(c, m)
  <2>1. Handed(c, m)' BY <1>1, <1>3, <1>5, HandedKept
  <2> QED BY <2>1 DEF Owed, Handed, ToSet
<1>6. ASSUME NEW k \in Loops, NEW a \in Names, Sending(k, m, a), owner[a] = c
      PROVE  Owed(c, m)' \/ Received(c, m)' \/ faulted'
  <2>1. CASE k # l \/ a # n
    <3>1. Sending(k, m, a)' BY <1>4, <1>6, <2>1 DEF Sending
    <3> QED BY <1>1, <1>6, <3>1 DEF Owed
  <2>2. CASE k = l /\ a = n
    <3>1. m = o /\ c = d BY <1>6, <2>2 DEF Sending
    <3> HIDE DEF o, d, s
    <3>2. CASE UseAfterFree BY <3>2 DEF UseAfterFree
    <3>3. CASE Send(d, o) BY <1>3, <3>1, <3>3, SendGives
    <3>4. CASE HandOver(d, o)
      <4> DEFINE e == [to |-> d, msg |-> o]
                 q == queue[LoopOf[d]]
      <4>1. /\ LoopOf[d] \in Loops /\ e \in Call /\ q \in Seq(Call)
            /\ queue'[LoopOf[d]] = Append(q, e)
        BY <1>3, <3>4, OwnersFacts DEF ChatInv, QueueType, Call, HandOver
      <4> HIDE DEF e, q
      <4>2. Len(q) + 1 \in DOMAIN Append(q, e) /\ Append(q, e)[Len(q) + 1] = e
        <5>1. Len(q) \in Nat BY <4>1
        <5>2. /\ Append(q, e) \in Seq(Call) /\ Len(Append(q, e)) = Len(q) + 1
              /\ Append(q, e)[Len(q) + 1] = e
          BY <4>1, AppendProperties
        <5>3. DOMAIN Append(q, e) = 1 .. Len(q) + 1 BY <5>2, LenProperties
        <5> QED BY <5>1, <5>2, <5>3
      <4> QED BY <3>1, <4>1, <4>2 DEF Owed, ToSet, e
    <3> QED BY <1>1, <3>2, <3>3, <3>4
  <2> QED BY <2>1, <2>2
<1> QED BY <1>5, <1>6, OwedIs DEF Listed

\* A call that is run gives its connection the message, and the others wait on.
LEMMA RunCallOwes ==
  ASSUME ChatInv, NEW l \in Loops, RunCall(l),
         NEW c \in Conns, NEW m \in Message, Owed(c, m)
  PROVE  Owed(c, m)' \/ Received(c, m)' \/ faulted'
<1> DEFINE call == Head(queue[l])
           k == LoopOf[c]
<1>1. /\ UNCHANGED <<owner, thread>> /\ queue[l] # <<>>
      /\ queue' = [queue EXCEPT ![l] = Tail(queue[l])]
      /\ UseAfterFree \/ Send(call.to, call.msg)
  BY DEF RunCall
<1>2. queue \in [Loops -> Seq(Call)] /\ k \in Loops BY OwnersFacts DEF ChatInv, QueueType
<1>3. CASE Listed(c, m)
  <2>1. Listed(c, m)' BY <1>1, <1>3 DEF Listed, Sending
  <2> QED BY <2>1 DEF Owed, Listed
<1>4. ASSUME NEW i \in DOMAIN queue[k], queue[k][i] = [to |-> c, msg |-> m]
      PROVE  Owed(c, m)' \/ Received(c, m)' \/ faulted'
  <2>1. CASE k # l
    <3>1. queue'[k] = queue[k] BY <1>1, <1>2, <2>1
    <3> QED BY <1>4, <3>1 DEF Owed, ToSet
  <2>2. CASE k = l /\ i = 1
    <3>1. call = [to |-> c, msg |-> m] BY <1>1, <1>2, <1>4, <2>2, TailEntries
    <3>2. call.to = c /\ call.msg = m BY <3>1
    <3> QED BY <1>1, <3>2, SendGives DEF UseAfterFree
  <2>3. CASE k = l /\ i # 1
    <3> DEFINE q == queue[l]
    <3>1. q \in Seq(Call) /\ q # <<>> /\ queue'[l] = Tail(q) BY <1>1, <1>2
    <3>2. i \in DOMAIN q /\ q[i] = [to |-> c, msg |-> m] BY <1>4, <2>3
    <3> HIDE DEF q
    <3>3. /\ Len(q) \in Nat /\ DOMAIN q = 1 .. Len(q) /\ Tail(q) \in Seq(Call)
          /\ Len(Tail(q)) = Len(q) - 1 /\ \A j \in 1 .. Len(Tail(q)) : Tail(q)[j] = q[j + 1]
      BY <3>1, LenProperties, HeadTailProperties
    <3>4. DOMAIN Tail(q) = 1 .. Len(q) - 1 BY <3>3, LenProperties
    <3>5. i - 1 \in DOMAIN Tail(q) /\ Tail(q)[i - 1] = q[i]
      BY <2>3, <3>2, <3>3, <3>4
    <3> QED BY <2>3, <3>1, <3>2, <3>5 DEF Owed, ToSet
  <2> QED BY <2>1, <2>2, <2>3
<1> QED BY <1>3, <1>4, OwedIs DEF Handed

\* getOnlineClients(), runInLoop(): whoever is on the list of a broadcast is owed the message
\* until it is sent to it, whatever the other loops do, unless the process ends.
THEOREM NobodyIsPassedOver == Spec => OwedUntilSent
<1>1. ASSUME ChatInv, [Next]_vars, NEW c \in Conns, NEW m \in Message, Owed(c, m)
      PROVE  Owed(c, m)' \/ Received(c, m)' \/ faulted'
  <2> USE DEF ChatInv
  <2>1. ASSUME \A l \in Loops : thread[l].at = "send" /\ thread[l].left # {}
                                    => thread'[l] = thread[l],
               \A n \in Names : owner[n] # Nobody => owner'[n] = owner[n],
               queue' = queue
        PROVE  Owed(c, m)'
    <3>1. Listed(c, m)' \/ Handed(c, m)' BY <1>1, <2>1, ListKept, HandedKept, OwedIs
    <3> QED BY <3>1 DEF Owed, Listed, Handed, ToSet
  <2>2. CASE UNCHANGED vars BY <2>1, <2>2 DEF vars
  <2>3. ASSUME NEW d \in Conns, PeerCloses(d) \/ Reap(d) PROVE Owed(c, m)'
    BY <2>1, <2>3 DEF PeerCloses, Reap
  <2>4. ASSUME NEW l \in Loops, ScanFaults(l) PROVE Owed(c, m)' BY <2>1, <2>4 DEF ScanFaults
  <2>5. ASSUME NEW d \in Conns, NEW t, Begin(d, t) PROVE Owed(c, m)'
    <3>1. /\ thread[LoopOf[d]].at = "idle" /\ thread' = [thread EXCEPT ![LoopOf[d]] = t]
          /\ UNCHANGED <<owner, queue>>
      BY <2>5 DEF Begin, Reads, Running
    <3>2. \A l \in Loops : thread[l].at = "send" => thread'[l] = thread[l]
      BY <3>1 DEF TypeOK
    <3> QED BY <2>1, <3>1, <3>2
  <2>6. ASSUME NEW d \in Conns, NEW n \in Names, Register(d, n) PROVE Owed(c, m)'
    <3>1. CASE owner[n] = Nobody
      <4>1. /\ owner' = [owner EXCEPT ![n] = d] /\ thread' = Disturbed /\ queue' = queue
        BY <2>6, <3>1 DEF Register
      <4>2. \A l \in Loops : thread[l].at = "send" => thread'[l] = thread[l]
        <5>1. thread \in [Loops -> Tasks] BY <1>1 DEF TypeOK
        <5>2. \A l \in Loops : thread[l].at = "send" => Disturbed[l] = thread[l]
          BY ONLY <5>1, DisturbedFacts
        <5> QED BY ONLY <4>1, <5>2
      <4>3. \A a \in Names : owner[a] # Nobody => owner'[a] = owner[a]
        BY <3>1, <4>1 DEF TypeOK
      <4> QED BY <2>1, <4>1, <4>2, <4>3
    <3>2. CASE owner[n] # Nobody BY <2>1, <2>6, <3>2 DEF Register
    <3> QED BY <3>1, <3>2
  <2>7. ASSUME NEW l \in Loops, EndLogin(l) \/ EndLogout(l) \/ EndScan(l) \/ EndChat(l)
        PROVE  Owed(c, m)'
    <3>1. thread \in [Loops -> Tasks] BY <1>1 DEF TypeOK
    <3>2. /\ thread[l].at # "send" \/ thread[l].left = {}
          /\ \E t : thread' = [thread EXCEPT ![l] = t]
          /\ owner' = owner /\ queue' = queue
      BY ONLY <2>7 DEF EndLogin, EndLogout, EndScan, EndChat, Done
    <3>3. \A k \in Loops : k # l => thread'[k] = thread[k] BY ONLY <3>1, <3>2
    <3>4. \A k \in Loops : thread[k].at = "send" /\ thread[k].left # {}
                                => thread'[k] = thread[k]
      BY ONLY <3>2, <3>3
    <3>5. \A n \in Names : owner[n] # Nobody => owner'[n] = owner[n] BY ONLY <3>2
    <3> QED BY <2>1, <3>2, <3>4, <3>5
  <2>8. ASSUME NEW l \in Loops, RunCall(l) \/ \E n \in Names : SendNext(l, n)
        PROVE  Owed(c, m)' \/ Received(c, m)' \/ faulted'
    BY <1>1, <2>8, RunCallOwes, SendNextOwes
  <2> QED BY <1>1, <2>2, <2>3, <2>4, <2>5, <2>6, <2>7, <2>8
          DEF Next, Proceed, BeginChat, BeginLogin, BeginLogout
<1>2. ChatInv /\ [Next]_vars
        => [\A c \in Conns, m \in Message :
                Owed(c, m) => Owed(c, m)' \/ Received(c, m)' \/ faulted']_vars
  BY <1>1
<1> QED BY <1>2, ChatInvHolds, PTL DEF Spec, OwedUntilSent
=============================================================================
