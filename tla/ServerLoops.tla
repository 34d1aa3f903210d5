------------------------------ MODULE ServerLoops ------------------------------
(***************************************************************************)
(* LightServer and the loops of its pool: what the server sees of a loop   *)
(* is what EventLoop promises, a line of calls (CallQueue) that are run    *)
(* once and in the order in which they were handed over.  The variable ran *)
(* records what each loop has run, as in EventLoop.                        *)
(***************************************************************************)
EXTENDS LightServer

VARIABLE ran   \* the functors each loop has run, in order (history)

loopVars == <<vars, ran>>

LoopsInit == Init /\ ran = [l \in Loops |-> <<>>]

\* The functor of loop l at the place of its batch the loop has come to.
RecordRuns == ran' = [l \in Loops |-> IF pos'[l] > pos[l] THEN Append(ran[l], taken[l][pos'[l]])
                                                     ELSE ran[l]]

LoopsSpec == LoopsInit /\ [][Next /\ RecordRuns]_loopVars

\* The line of loop l: what it has run, the rest of its batch, and its queue.
LoopLine(l) == ran[l] \o Pending(l)

Loop(l) == INSTANCE CallQueue WITH Calls <- Functor, posted <- LoopLine(l), done <- Len(ran[l])

\* Refinement: every loop of the pool works through a line of calls, whatever the base loop
\* and the other loops do meanwhile.  A call is not run twice nor passed over by the change
\* from queue to batch, and the server hands none over twice: a connection is told once to
\* be established, and once to be destroyed.
LoopsAreCallQueues ==
    /\ \A l \in Loops : Loop(l)!Init
    /\ [][\A l \in Loops : [Loop(l)!Next]_(Loop(l)!vars)]_loopVars
=============================================================================
