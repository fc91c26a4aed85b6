----------------------------- MODULE GogglesNet -----------------------------
(***************************************************************************)
(* goggles_net::run() of src/goggles_net/mod.rs with iface.rs: find the    *)
(* goggles' network interface, give it our address, open a session and     *)
(* receive -- against goggles that are plugged in and out at any point and *)
(* a NetworkManager that takes the interface for its own.  The handshake   *)
(* and the receive loop are in NetHandshake and NetCapture; here they are  *)
(* one step each.  The actions are composed in Supervisor.                 *)
(***************************************************************************)
EXTENDS Naturals

VARIABLES
    pc,      \* where orbit-rs stands; "none" without a process
    dev,     \* the goggles' interface: is it there, known to NetworkManager,
             \* managed by it, has it our address
    taken    \* history: sessions on this interface that lost their address so

netVars == <<pc, dev, taken>>

\* The steps of goggles_net::run(), in their order.
NetPc == {"wait", "nm", "link", "addr", "open", "loop"}

Away == [here |-> FALSE, known |-> FALSE, managed |-> TRUE, addr |-> FALSE]
NetInit == pc = "none" /\ dev = Away /\ taken = 0

Reachable == dev.here /\ dev.addr

-----------------------------------------------------------------------------
\* The goggles enumerate, as a new interface each time; or go.
Plug ==
    /\ dev' = [Away EXCEPT !.here = ~dev.here]
    /\ taken' = 0 /\ UNCHANGED pc

\* NetworkManager learns of a new interface some time after it appeared.
NmNotices ==
    /\ dev.here /\ ~dev.known
    /\ dev' = [dev EXCEPT !.known = TRUE]
    /\ UNCHANGED <<pc, taken>>

\* Its reconciliation wipes an address it did not assign.
NmTakesAddress ==
    /\ dev.known /\ dev.managed /\ dev.addr
    /\ dev' = [dev EXCEPT !.addr = FALSE]
    /\ taken' = IF pc \in {"open", "loop"} /\ taken < 2 THEN taken + 1 ELSE taken
    /\ UNCHANGED pc

-----------------------------------------------------------------------------
\* wait_for(): a poll that finds it, or the first one past the deadline.
InterfaceFound ==
    /\ pc = "wait" /\ dev.here
    /\ pc' = "nm" /\ UNCHANGED <<dev, taken>>

InterfaceMissing ==
    /\ pc = "wait" /\ ~dev.here
    /\ pc' = "done" /\ UNCHANGED <<dev, taken>>

\* A bug: no word to NetworkManager.
DisableNmBug == pc = "nm" /\ pc' = "link" /\ UNCHANGED <<dev, taken>>

\* `nmcli device set managed no', which fails while NetworkManager does not
\* know the interface; best effort, like the autosuspend after it.
DisableNm ==
    /\ pc = "nm" /\ pc' = "link"
    /\ dev' = IF dev.known THEN [dev EXCEPT !.managed = FALSE] ELSE dev
    /\ UNCHANGED taken

\* `ip link set up' must succeed.
LinkUp ==
    /\ pc = "link"
    /\ pc' = IF dev.here THEN "addr" ELSE "done"
    /\ UNCHANGED <<dev, taken>>

\* Bugs: the interface is not looked at; an address that is there already is an error.
AddAddressAnywayBug ==
    /\ pc = "addr" /\ pc' = "open"
    /\ dev' = [dev EXCEPT !.addr = TRUE]
    /\ UNCHANGED taken

AddAddressBug ==
    /\ pc = "addr"
    /\ pc' = IF dev.here /\ ~dev.addr THEN "open" ELSE "done"
    /\ dev' = [dev EXCEPT !.addr = dev.here]
    /\ UNCHANGED taken

\* `ip addr add' may fail: it may be there already, as it is after a restart.
AddAddress ==
    /\ pc = "addr" /\ pc' = "open"
    /\ dev' = [dev EXCEPT !.addr = dev.here]
    /\ UNCHANGED taken

\* connect() and the handshake: goggles we can reach answer in time.
OpenSession ==
    /\ pc = "open"
    /\ pc' = IF Reachable THEN "loop" ELSE "done"
    /\ UNCHANGED <<dev, taken>>

\* The receive loop ends after SESSION_QUIET_TIMEOUT of silence.
LinkDies ==
    /\ pc = "loop" /\ ~Reachable
    /\ pc' = "done" /\ UNCHANGED <<dev, taken>>

NetStep ==
    \/ InterfaceFound \/ InterfaceMissing \/ DisableNm \/ LinkUp
    \/ AddAddress \/ OpenSession \/ LinkDies
=============================================================================
