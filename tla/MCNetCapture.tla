---------------------------- MODULE MCNetCapture ----------------------------
(* NetCapture for TLC: two ticks of quiet video, four of a quiet session.  *)
EXTENDS NetCapture
=============================================================================
