----------------------------- MODULE MCEventLoop -----------------------------
(* EventLoop on a small instance for TLC.                                   *)
EXTENDS EventLoop
=============================================================================
