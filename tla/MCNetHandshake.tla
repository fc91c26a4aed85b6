--------------------------- MODULE MCNetHandshake ---------------------------
(* NetHandshake for TLC: a deadline that falls inside the third attempt.   *)
EXTENDS NetHandshake
=============================================================================
