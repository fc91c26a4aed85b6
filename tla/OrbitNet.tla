------------------------------ MODULE OrbitNet ------------------------------
(***************************************************************************)
(* The network script src/scripts/orbit-net against NetworkManager, with   *)
(* orbit-net.service and orbit-net.path that run it.  Each nmcli command   *)
(* is a step: NetworkManager acts on its own between any two, and the      *)
(* script may be killed there (TimeoutStartSec=60, a power cut).           *)
(*                                                                         *)
(* A configuration is abstracted to its mode, to what can be wrong with    *)
(* its AP and client parts, and to `v', which stands for all its values.   *)
(***************************************************************************)
EXTENDS Naturals, Sequences

CONSTANTS
    Confs,       \* records [mode, ap, client, v] the file may hold
    MaxFaults,   \* bound on kills, reboots, refused commands
    MaxOps       \* bound on edits and runs by hand

ASSUME OrbitNetAssumption ==
    /\ \A c \in Confs : /\ c = [mode |-> c.mode, ap |-> c.ap, client |-> c.client, v |-> c.v]
                        /\ c.v \in Nat
    /\ {MaxFaults, MaxOps} \subseteq Nat

AP_CON == "orbit-ap"
CL_CON == "orbit-client"
NoConn == [name |-> "", v |-> 0, set |-> {}]
Home == [name |-> "home", v |-> 0, set |-> {}]   \* any other Wi-Fi profile

VARIABLES
    pc,        \* the command that comes next
    by,        \* who runs the script: "unit", "reload" or "hand"
    conf,      \* the file
    src,       \* the values the run has sourced
    profiles,  \* NetworkManager's profiles, by name
    active,    \* a copy of the one that is up, as it was when it came up
    blocked,   \* profiles taken down by hand: no autoconnect
    inRange,   \* the networks that can be joined are there
    unit,      \* orbit-net.service
    watched,   \* orbit-net.path has seen a change and not yet acted
    skipped,   \* history: a command that is not checked failed in this run
    faults, ops

nm == <<profiles, active, blocked>>
bounds == <<faults, ops>>
board == <<conf, inRange, unit, watched>>
vars == <<pc, by, src, skipped, nm, board, bounds>>

Init ==
    /\ pc = "idle" /\ by = "unit"
    /\ conf \in Confs /\ src = conf
    /\ profiles = [n \in {AP_CON, CL_CON} |-> <<>>]
    /\ active \in {NoConn, Home} /\ blocked = {}
    /\ inRange = FALSE
    /\ unit = "inactive" /\ watched = FALSE /\ skipped = FALSE
    /\ faults = 0 /\ ops = 0

-----------------------------------------------------------------------------
(* nmcli: `con down', `delete', `add', `modify' and `up'.                  *)

Down(name) ==
    /\ active' = IF active.name = name THEN NoConn ELSE active
    /\ blocked' = IF active.name = name THEN blocked \cup {name} ELSE blocked
    /\ UNCHANGED profiles

\* It fails where there is nothing to delete, which is ignored; where nmcli
\* cannot delete what is there it cannot add either, and that is Refused.
Delete(name) ==
    /\ profiles' = [profiles EXCEPT ![name] = <<>>]
    /\ active' = IF active.name = name THEN NoConn ELSE active
    /\ blocked' = blocked \ {name}

\* A name may be given twice; the first profile is the one commands find.
Add(name) ==
    /\ profiles' = [profiles EXCEPT ![name] = Append(@, [v |-> src.v, set |-> {}])]
    /\ UNCHANGED <<active, blocked>>

Modify(name, what) ==
    /\ profiles' = [profiles EXCEPT ![name][1].set = @ \cup {what}]
    /\ UNCHANGED <<active, blocked>>

Up(name) ==
    /\ active' = [name |-> name, v |-> profiles[name][1].v, set |-> profiles[name][1].set]
    /\ blocked' = blocked \ {name} /\ UNCHANGED profiles

-----------------------------------------------------------------------------
(* The script.  It ends "ok", "died" of its configuration, or "cut" short:  *)
(* killed, or by a command that NetworkManager refuses.                    *)

Go(to) == pc' = to /\ UNCHANGED <<by, src, board, ops>>
Step(from, to) == pc = from /\ Go(to) /\ UNCHANGED <<skipped, faults>>
Fault == faults < MaxFaults /\ faults' = faults + 1

\* A command that is checked fails: die.
Refused(from) == pc = from /\ Go("cut") /\ Fault /\ UNCHANGED <<skipped, nm>>

\* One that is not: the run goes on without it.
Ignored(from, to) == pc = from /\ Go(to) /\ Fault /\ skipped' = TRUE /\ UNCHANGED nm

\* `orbit-net ap' and `orbit-net client' force the mode for this run.
Source ==
    /\ pc = "source" /\ pc' = "release" /\ skipped' = FALSE
    /\ src' \in {conf} \cup (IF by = "hand" THEN {[conf EXCEPT !.mode = m] : m \in {"ap", "client"}}
                                           ELSE {})
    /\ UNCHANGED <<by, nm, board, bounds>>

\* The interface is released from any connection that is not ours.
Release ==
    /\ Step("release", IF src.mode = "ap" THEN "ap"
                       ELSE IF src.mode = "client" THEN "client" ELSE "died")
    /\ Down(Home.name)

ApDown ==
    \/ Step("ap", "ap_delete") /\ src.ap # "no ssid" /\ Down(CL_CON)
    \/ Step("ap", "died") /\ src.ap = "no ssid" /\ UNCHANGED nm

\* A bug: the profile of an earlier run stays.
ApDeleteBug == Step("ap_delete", "ap_add") /\ UNCHANGED nm

ApDelete == Step("ap_delete", "ap_add") /\ Delete(AP_CON)
ApAdd ==
    \/ Step("ap_add", "ap_mode") /\ Add(AP_CON)
    \/ Refused("ap_add")
ApMode ==
    \/ Step("ap_mode", "ap_channel") /\ Modify(AP_CON, "mode")
    \/ Ignored("ap_mode", "ap_channel")
ApChannel ==
    \/ Step("ap_channel", "ap_password") /\ src.ap # "bad channel" /\ UNCHANGED nm
    \/ Step("ap_channel", "died") /\ src.ap = "bad channel" /\ UNCHANGED nm
ApPassword ==
    \/ Step("ap_password", "ap_up") /\ src.ap # "short password" /\ Modify(AP_CON, "password")
    \/ Step("ap_password", "died") /\ src.ap = "short password" /\ UNCHANGED nm
    \/ Ignored("ap_password", "ap_up") /\ src.ap # "short password"

\* A bug: an access point that NetworkManager brought up itself is left alone.
ApUpBug ==
    \/ Step("ap_up", "ok") /\ active.name = AP_CON /\ UNCHANGED nm
    \/ Step("ap_up", "ok") /\ active.name # AP_CON /\ Up(AP_CON)

ApUp ==
    \/ Step("ap_up", "ok") /\ "mode" \in profiles[AP_CON][1].set /\ Up(AP_CON)
    \/ Step("ap_up", "cut") /\ "mode" \notin profiles[AP_CON][1].set /\ UNCHANGED nm
    \/ Refused("ap_up")

ClientDown ==
    \/ Step("client", "client_delete") /\ src.client # "no ssid" /\ Down(AP_CON)
    \/ Step("client", "died") /\ src.client = "no ssid" /\ UNCHANGED nm
ClientDelete == Step("client_delete", "client_add") /\ Delete(CL_CON)
ClientAdd ==
    \/ Step("client_add", "client_password") /\ Add(CL_CON)
    \/ Refused("client_add")
ClientPassword ==
    \/ Step("client_password", "client_up") /\ Modify(CL_CON, "password")
    \/ Ignored("client_password", "client_up")

CanJoin(c) == inRange /\ c.client = "good"

\* A bug: a join that fails is an error.
JoinFailsBug == Step("client_up", "died") /\ ~CanJoin(src) /\ UNCHANGED nm

\* A join that fails falls back to the access point.
JoinFails == Step("client_up", "client_undo") /\ ~CanJoin(src) /\ UNCHANGED nm
Join == Step("client_up", "ok") /\ CanJoin(src) /\ Up(CL_CON)
ClientUndo == Step("client_undo", "ap") /\ Delete(CL_CON)

Script ==
    \/ Source \/ Release
    \/ ApDown \/ ApDelete \/ ApAdd \/ ApMode \/ ApChannel \/ ApPassword \/ ApUp
    \/ ClientDown \/ ClientDelete \/ ClientAdd \/ ClientPassword
    \/ JoinFails \/ Join \/ ClientUndo

Resting == {"idle", "ok", "died", "cut"}

-----------------------------------------------------------------------------
(* systemd: Type=oneshot with RemainAfterExit=yes.                         *)

Run(who) == pc \in Resting /\ pc' = "source" /\ by' = who /\ UNCHANGED <<src, skipped, nm>>

\* At boot the unit is started, and with it the path unit.
StartUnit ==
    /\ unit = "inactive" /\ Run("unit") /\ unit' = "activating"
    /\ UNCHANGED <<conf, inRange, watched, bounds>>

UnitEnds ==
    /\ unit = "activating" /\ by = "unit" /\ pc \in Resting
    /\ unit' = IF pc = "ok" THEN "active" ELSE "failed"
    /\ UNCHANGED <<pc, by, src, skipped, nm, conf, inRange, watched, bounds>>

\* A change starts the unit, which does nothing to one that is active.
PathTriggers ==
    /\ watched /\ watched' = FALSE
    /\ IF unit = "failed" /\ pc \in Resting THEN Run("unit") /\ unit' = "activating"
                         ELSE UNCHANGED <<pc, by, src, skipped, nm, unit>>
    /\ UNCHANGED <<conf, inRange, bounds>>

\* `systemctl reload orbit-net', or the script run by hand.
RunByHand ==
    /\ unit # "activating" /\ unit # "inactive"
    /\ Run("hand") \/ (unit = "active" /\ Run("reload"))
    /\ ops < MaxOps /\ ops' = ops + 1
    /\ UNCHANGED <<board, faults>>

\* `orbit-net down'.
DownByHand ==
    /\ pc \in Resting /\ active.name \in {AP_CON, CL_CON} /\ Down(active.name)
    /\ ops < MaxOps /\ ops' = ops + 1
    /\ UNCHANGED <<pc, by, src, skipped, board, faults>>

-----------------------------------------------------------------------------
(* The surroundings.                                                       *)

EditConf ==
    /\ conf' \in Confs \ {conf} /\ watched' = (unit # "inactive")
    /\ ops < MaxOps /\ ops' = ops + 1
    /\ UNCHANGED <<pc, by, src, skipped, nm, inRange, unit, faults>>

RangeChanges ==
    /\ inRange' = ~inRange /\ Fault
    /\ active' = IF inRange /\ active.name \in {CL_CON, Home.name} THEN NoConn ELSE active
    /\ UNCHANGED <<pc, by, src, skipped, profiles, blocked, conf, unit, watched, ops>>

\* NetworkManager brings up a profile with autoconnect on an idle interface.
Autoconnect ==
    /\ active = NoConn
    /\ \E n \in {AP_CON, CL_CON} \ blocked :
          /\ profiles[n] # <<>>
          /\ IF n = AP_CON THEN "mode" \in profiles[n][1].set
             ELSE \E c \in Confs : c.v = profiles[n][1].v /\ CanJoin(c)
          /\ active' = [name |-> n, v |-> profiles[n][1].v, set |-> profiles[n][1].set]
    /\ UNCHANGED <<pc, by, src, skipped, profiles, blocked, board, bounds>>

Kill ==
    /\ pc \notin Resting /\ pc' = "cut" /\ Fault
    /\ UNCHANGED <<by, src, skipped, nm, board, ops>>

Reboot ==
    /\ unit # "inactive" /\ Fault
    /\ pc' = "idle" /\ unit' = "inactive" /\ watched' = FALSE
    /\ active' = NoConn /\ blocked' = {}
    /\ UNCHANGED <<by, src, skipped, profiles, conf, inRange, ops>>

Next ==
    \/ Script \/ StartUnit \/ UnitEnds \/ PathTriggers \/ RunByHand \/ DownByHand
    \/ EditConf \/ RangeChanges \/ Autoconnect \/ Kill \/ Reboot

\* The script runs, systemd does its work, NetworkManager autoconnects.
Fairness ==
    /\ WF_vars(Script) /\ WF_vars(StartUnit) /\ WF_vars(UnitEnds)
    /\ WF_vars(PathTriggers) /\ WF_vars(Autoconnect)

Spec == Init /\ [][Next]_vars /\ Fairness

-----------------------------------------------------------------------------
\* No name has two profiles, and no profile is modified before it is added.
TypeOK ==
    /\ pc \in Resting \cup {"source", "release", "ap", "ap_delete", "ap_add", "ap_mode",
                 "ap_channel", "ap_password", "ap_up", "client", "client_delete",
                 "client_add", "client_password", "client_up", "client_undo"}
    /\ by \in {"unit", "reload", "hand"} /\ conf \in Confs /\ src.v \in {c.v : c \in Confs}
    /\ \A n \in {AP_CON, CL_CON} : Len(profiles[n]) <= 1
    /\ active.name \in {"", "home", AP_CON, CL_CON} /\ blocked \subseteq {"home", AP_CON, CL_CON}
    /\ unit \in {"inactive", "activating", "active", "failed"}
    /\ {inRange, watched, skipped} \subseteq BOOLEAN
    /\ faults \in 0 .. MaxFaults /\ ops \in 0 .. MaxOps

\* A run that succeeds leaves the appliance with the settings it has sourced,
\* all of them, whatever NetworkManager brought up meanwhile: its access point,
\* or the network it joined (scripts/orbit-net:98-166).  A `con modify' that
\* fails is not noticed, and excluded here.
AppliedAsSourced == [][
    pc # "ok" /\ pc' = "ok" /\ ~skipped =>
        /\ active'.v = src.v /\ "password" \in active'.set
        /\ active'.name = AP_CON => "mode" \in active'.set
        /\ active'.name # AP_CON => active'.name = CL_CON /\ src.mode = "client"]_vars

\* A configuration that is good for an access point.
GoodConf == conf.ap = "good" /\ (conf.mode = "ap" \/ (conf.mode = "client" /\ conf.client # "no ssid"))

Reachable == active # NoConn

\* After a boot the appliance comes to be reachable, whatever an earlier run
\* left half done, and whether or not its network can be joined -- unless this
\* run is cut short in its turn (config/network.conf:29-30).
BootsReachable == []GoodConf => (unit = "inactive" ~> Reachable \/ pc = "cut")

\* What orbit-net.path:6-8 says of a change: it "Re-runs orbit-net.service,
\* which rebuilds the NetworkManager profile from the new values".
ChangeIsApplied ==
    watched /\ unit = "active" /\ pc = "ok" ~> active.v = conf.v \/ pc \in {"died", "cut"}
=============================================================================
