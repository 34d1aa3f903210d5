----------------------------- MODULE MCEventLoop -----------------------------
(* A small instance of EventLoop: the cfg file chooses the threads and calls. *)
EXTENDS EventLoop
=============================================================================
