----------------------------- MODULE MCTimerQueue -----------------------------
(* Two timers, a clock with two ticks to the second. *)
EXTENDS TimerQueue
=============================================================================
