------------------------------ MODULE MCLogging ------------------------------
(* Small buffers, few lines, and messages that fill a stream to every brim;  *)
(* the log of a program that starts in every way.                            *)
EXTENDS Startup

MCHead == <<Text(1)>>
MCTail == <<Number(1)>>

\* A short line; one with a text too long, that numbers fill.
MCMessages == {<<>>, <<Text(2), Text(9), Number(2), Number(2), Number(2), Number(2)>>}

\* No file; a daemon, said twice, or with blanks to spare; no daemon for want of a blank on
\* either side; a value left empty.
MCConfigFiles ==
    {<<>>, <<Comment, Entry("Daemon", 1, <<" ", "1">>), Entry("Daemon", 1, <<" ", "0">>)>>,
     <<Entry("Daemon", 1, <<" ", " ", "1">>)>>, <<Entry("Daemon", 0, <<" ", "1">>)>>,
     <<Entry("Daemon", 1, <<"1">>)>>, <<Entry("Daemon", 1, <<>>)>>}
=============================================================================
