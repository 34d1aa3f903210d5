---------------------------- MODULE MCLightServer ----------------------------
(* A small instance of LightServer.                                          *)
EXTENDS LightServer

\* oldTime_ not initialised: the first check finds less time gone than none, none, or
\* more than any client is allowed.
AnyFirstDt == {-1, 0, 3}
=============================================================================
