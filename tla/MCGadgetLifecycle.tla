------------------------- MODULE MCGadgetLifecycle -------------------------
(* GadgetLifecycle for TLC: the vendor gadget, one that may have no        *)
(* controller, and the FunctionFS gadget that attach mode is pointed at.   *)
EXTENDS GadgetLifecycle
=============================================================================
