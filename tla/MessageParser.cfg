\* One client that sends up to four messages, in every way of cutting up the stream.
\* It may send nothing more.
CONSTANT MaxMessages = 4
CHECK_DEADLOCK FALSE
SPECIFICATION FairParserSpec
INVARIANTS HandledInOrder
PROPERTY EveryMessageHandled
