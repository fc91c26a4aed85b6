--------------------------- MODULE MCAoaCapture ---------------------------
(* AoaCapture for TLC. Two failures stand for the five of the code: one    *)
(* that is forgiven or followed by a second, and the one that gives up.    *)
EXTENDS AoaCapture
=============================================================================
