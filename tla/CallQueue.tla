------------------------------ MODULE CallQueue ------------------------------
(***************************************************************************)
(* What an event loop promises to a thread that hands it a call            *)
(* (EventLoop::queueInLoop): the calls form one line, in the order in      *)
(* which they were handed over, and the loop works through the line from   *)
(* its head, every call once.  Nothing is said of how the loop is woken,   *)
(* of the batch it takes the calls in, or of when it stops.                *)
(***************************************************************************)
EXTENDS Naturals, Sequences, Functions

CONSTANT Calls   \* the calls that may be handed to the loop, each at most once

VARIABLES
    posted,   \* the calls handed over so far, in order
    done      \* how many of them the loop has run

vars == <<posted, done>>

Init == posted = <<>> /\ done = 0

\* Some thread hands over a call.
Post(c) == /\ c \notin Range(posted)
           /\ posted' = Append(posted, c)
           /\ UNCHANGED done

\* The loop runs the next call of the line.
RunNext == /\ done < Len(posted)
           /\ done' = done + 1
           /\ UNCHANGED posted

Next == (\E c \in Calls : Post(c)) \/ RunNext

Spec == Init /\ [][Next]_vars
=============================================================================
