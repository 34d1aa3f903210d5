----------------------------- MODULE MessageParser -----------------------------
(***************************************************************************)
(* From the bytes in a connection's inputBuffer_ to the messages that are  *)
(* handled: onMessage() of main/src/main.cpp and the BufferParser it makes *)
(* for every read event (common/inc/BufferParser.h), for one client that   *)
(* sends well-formed messages (common/inc/MessageFormat.h).                *)
(*                                                                         *)
(* A unit is an int of a header or a text field of a body.  TCP brings the *)
(* units in order and in pieces of its own; the variable segments says     *)
(* which.  While onMessage() runs its loop reads nothing from any socket.  *)
(***************************************************************************)
EXTENDS Naturals, Sequences, SequencesExt, FiniteSetsExt

CONSTANT
    MaxMessages \* bound: messages sent by the client

ASSUME ParserAssumption == MaxMessages \in Nat

\* What a read event may bring: one message, whole messages, any units.
Segments == {"one", "whole", "any"}

\* The commands a client sends, and the text fields of each: dataLength.
Fields == [CMD_REGISTER |-> 2, CMD_LOGIN |-> 2, CMD_LOGOUT |-> 1, CMD_CHATMESSAGE |-> 2,
           CMD_HEART |-> 0]
Cmds == DOMAIN Fields
Header == 2          \* sizeof(DataHeader): dataLength and cmd
None == "nullptr"

VARIABLES
    segments, \* what the read events of this client bring; it stays
    sent,     \* the messages the client has sent
    arrived,  \* how many units have been read into the buffer in all
    taken,    \* how many of them have been retrieved from it
    header,   \* cmd of currentHeader, or None
    busy,     \* onMessage() is running
    handled   \* the messages it has acted on

parserVars == <<segments, sent, arrived, taken, header, busy, handled>>

Size(cmd) == Header + Fields[cmd]

\* The units of the messages in msgs.
TotalSize(msgs) == FoldLeft(LAMBDA n, cmd : n + Size(cmd), 0, msgs)

\* Where messages end.
Ends == {TotalSize(SubSeq(sent, 1, k)) : k \in 0 .. Len(sent)}

\* What a header at offset at says: a command if a message begins there.
HeaderAt(at) ==
    IF \E k \in DOMAIN sent : TotalSize(SubSeq(sent, 1, k - 1)) = at
    THEN sent[CHOOSE k \in DOMAIN sent : TotalSize(SubSeq(sent, 1, k - 1)) = at]
    ELSE "junk"

Unread == arrived - taken

ParserInit ==
    /\ segments \in Segments
    /\ sent = <<>> /\ arrived = 0 /\ taken = 0
    /\ header = None /\ busy = FALSE /\ handled = <<>>

-----------------------------------------------------------------------------
\* The client sends a message.
ClientSends(cmd) ==
    /\ Len(sent) < MaxMessages
    /\ sent' = Append(sent, cmd)
    /\ UNCHANGED <<segments, arrived, taken, header, busy, handled>>

\* A read event brings the stream up to the unit end; messageCallback_ is onMessage(),
\* whose BufferParser has no header yet.
ReadEvent(end) ==
    /\ ~busy
    /\ end > arrived
    /\ segments = "one" => \A e \in Ends : e > arrived => end <= e
    /\ segments # "any" => end \in Ends
    /\ arrived' = end
    /\ busy' = TRUE /\ header' = None
    /\ UNCHANGED <<segments, sent, taken, handled>>

\* Slip: of a chat message only the name is retrieved.
RetrievedFieldsOnce(cmd) == IF cmd = "CMD_CHATMESSAGE" THEN 1 ELSE Fields[cmd]

\* The fields that parserRegisterData() and its like retrieve.
RetrievedFields(cmd) == Fields[cmd]

\* Slip: the body must not be all there is.
HasBodyAndMore(cmd, readable) == cmd \in Cmds /\ readable > Fields[cmd]

\* parserRegisterData(), parserLoginData(), parserLoginOutData(), parserChatMessage(),
\* parserHeartMessage(): the body is there as a whole or nothing is retrieved.
HasBody(cmd, readable) == cmd \in Cmds /\ readable >= Fields[cmd]

\* sizeof(DataHeader) is there, or has been taken before.
HasHeader == header = None => Unread >= Header

\* A result ends the loop of onMessage(), which acts on it and returns.
Result(cmd, after) ==
    /\ HasBody(cmd, arrived - after)
    /\ taken' = after + RetrievedFields(cmd)
    /\ handled' = Append(handled, cmd)
    /\ header' = None /\ busy' = FALSE

\* nullptr sends it round again, with the header in hand.
NoResult(cmd, after) ==
    /\ ~HasBody(cmd, arrived - after)
    /\ taken' = after /\ header' = cmd
    /\ UNCHANGED <<busy, handled>>

\* One call of getParserResult(), in the loop "while(result == nullptr)".
GetParserResult ==
    /\ busy
    /\ \/ ~HasHeader /\ UNCHANGED <<taken, header, busy, handled>>
       \/ /\ HasHeader
          /\ LET cmd == IF header = None THEN HeaderAt(taken) ELSE header
                 after == IF header = None THEN taken + Header ELSE taken
             IN  Result(cmd, after) \/ NoResult(cmd, after)
    /\ UNCHANGED <<segments, sent, arrived>>

Arrives == \E end \in arrived + 1 .. TotalSize(sent) : ReadEvent(end)

ParserNext == (\E cmd \in Cmds : ClientSends(cmd)) \/ Arrives \/ GetParserResult

ParserSpec == ParserInit /\ [][ParserNext]_parserVars

\* What is sent arrives, and the loop's thread goes on.
FairParserSpec == ParserSpec /\ WF_parserVars(Arrives) /\ WF_parserVars(GetParserResult)

-----------------------------------------------------------------------------
\* Type invariant of the parser.
ParserTypeOK ==
    /\ segments \in Segments
    /\ sent \in Seq(Cmds) /\ Len(sent) <= MaxMessages
    /\ arrived \in 0 .. TotalSize(sent)
    /\ taken \in 0 .. arrived
    /\ header \in Cmds \union {None, "junk"}
    /\ busy \in BOOLEAN
    /\ handled \in Seq(Cmds)

\* Safety: the messages acted on are those that were sent, each once and in order: with
\* bodies of different lengths, and none, in one buffer, however the units came in
\* and however many messages wait in it, no field is taken for a header.
HandledInOrder == ParserTypeOK /\ IsPrefix(handled, sent) /\ header # "junk"

\* onMessage() returns, and the loop can serve its other connections, when no read event
\* ends within a message.  (When one does, the loop of onMessage() waits for bytes that only
\* its own thread could read.)
OnMessageReturns == segments # "any" /\ busy ~> ~busy

\* Liveness: onMessage() returns where no read event ends within a message, and when each
\* brings one message, every message is acted on.  (Of several that come together one is,
\* and the others wait for the next event.)
EveryMessageHandled ==
    /\ OnMessageReturns
    /\ \A k \in 1 .. MaxMessages :
           segments = "one" /\ Len(sent) >= k ~> Len(handled) >= k
=============================================================================
