------------------------------ MODULE ModeRun ------------------------------
(***************************************************************************)
(* What the run of a mode promises main(), which waits for the renderer    *)
(* next and then exits with its code (main.rs:358-377, mod.rs:66-70): by   *)
(* the time it returns it has dropped the sink, so that the renderer sees  *)
(* the end of its input; until it has made up its mind it keeps the sink;  *)
(* and an output found lost stays lost and makes the code an error.        *)
(***************************************************************************)
EXTENDS Naturals

CONSTANT NoCode    \* the run has not decided on its exit code; neither 0 nor 1

VARIABLES
    code,      \* the exit code
    lost,      \* the output was found closed
    sink,      \* the sink is open
    returned   \* the run has returned

vars == <<code, lost, sink, returned>>

Init == code = NoCode /\ lost = FALSE /\ sink = TRUE /\ returned = FALSE

LoseOutput ==
    /\ sink /\ code = NoCode
    /\ lost' = TRUE
    /\ UNCHANGED <<code, sink, returned>>

Decide ==
    /\ code = NoCode
    /\ code' \in {0, 1} /\ (lost => code' = 1)
    /\ UNCHANGED <<lost, sink, returned>>

Return ==
    /\ code # NoCode /\ ~returned
    /\ sink' = FALSE /\ returned' = TRUE
    /\ UNCHANGED <<code, lost>>

Next == LoseOutput \/ Decide \/ Return

Spec == Init /\ [][Next]_vars
=============================================================================
