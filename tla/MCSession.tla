----------------------------- MODULE MCSession -----------------------------
(* Two sessions, four calls, two of them in progress at a time: a turn that  *)
(* pauses or fails, a resume of it and a turn after that all fit.            *)
EXTENDS Session
=============================================================================
