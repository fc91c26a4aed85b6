----------------------------- MODULE Supervisor -----------------------------
(***************************************************************************)
(* real_main() of src/main.rs from process start to exit, with the         *)
(* renderer it spawns, the file it reads its settings from, and systemd as *)
(* src/systemd/orbit-rs.service has it: Restart=always, RestartSec=1,      *)
(* KillMode=control-group, and the default start limit.  goggles-net mode  *)
(* is GogglesNet; a run of aoa mode is one state, AoaCapture has the rest. *)
(***************************************************************************)
EXTENDS GogglesNet, EnvFile

CONSTANTS
    Environments,  \* environments the unit may be given
    Files,         \* functions from paths to the lines of the files there
    Installed,     \* renderer commands that can be executed
    Burst,         \* starts within ten seconds that systemd allows
    MaxFaults,     \* bound on crashes, unplugs and runs that give up
    MaxOps         \* bound on what the operator does

ASSUME BurstAssumption == {Burst, MaxFaults, MaxOps} \subseteq Nat /\ MaxFaults + MaxOps < Burst
ASSUME FilesAssumption == \A fs \in Files : \A path \in DOMAIN fs : fs[path] \in Seq(Lines)

VARIABLES
    unit,       \* systemd's view of orbit-rs.service
    again,      \* it is being stopped in order to be started
    quick,      \* starts in a row that ended within the start-limit window
    stop,       \* G_STOP
    renderer,   \* "none", "running", "gone"
    env0,       \* the environment systemd starts orbit-rs with
    files,
    conf,       \* the environment of the process, once load() has run
    readFrom,   \* history: the files as they were then
    stale,      \* a killed run left its gadget behind
    faults, ops

mainVars == <<stop, renderer, conf, readFrom>>
unitVars == <<unit, again, quick>>
boardVars == <<env0, files, stale, faults, ops>>
vars == <<netVars, mainVars, unitVars, boardVars>>

Running == NetPc \cup {"aoa"}

Init ==
    /\ NetInit
    /\ unit = "wait" /\ again = FALSE /\ quick = 0
    /\ stop = FALSE /\ renderer = "none"
    /\ env0 \in Environments /\ files \in Files
    /\ conf = env0 /\ readFrom = files
    /\ stale = FALSE /\ faults = 0 /\ ops = 0

-----------------------------------------------------------------------------
(* real_main()                                                             *)

\* A run that ends soon after it started may count towards the start limit.
Ends(soon) == quick' \in {0} \cup (IF soon /\ quick < Burst THEN {quick + 1} ELSE {})

LoadSettings ==
    /\ pc = "load"
    /\ conf' = Load(env0, files) /\ readFrom' = files
    /\ IF ModeOf(conf') = "bad" THEN pc' = "none" /\ quick' = quick + 1
                                ELSE pc' = "sink" /\ UNCHANGED quick
    /\ UNCHANGED <<dev, taken, stop, renderer, unit, again, boardVars>>

\* The sink: the renderer's stdin, or the default file.  A file that cannot be
\* opened ends the run as a Crash does at this point.
OpenSink ==
    LET argv == RendererArgv(conf, TRUE)
    IN  /\ pc = "sink"
        /\ \/ argv # <<>> /\ argv[1] \notin Installed
              /\ pc' = "none" /\ quick' = quick + 1 /\ UNCHANGED renderer
           \/ argv = <<>> /\ pc' = "signals" /\ UNCHANGED <<quick, renderer>>
           \/ argv # <<>> /\ argv[1] \in Installed
              /\ pc' = "signals" /\ renderer' = "running" /\ UNCHANGED quick
        /\ UNCHANGED <<dev, taken, stop, conf, readFrom, unit, again, boardVars>>

\* The handlers are installed, and the mode's run begins.  A gadget that was
\* left behind is refused by setup().
CatchSignals ==
    /\ pc = "signals"
    /\ pc' = CASE ModeOf(conf) = "goggles-net" -> IF IfaceGiven(conf) THEN "nm" ELSE "wait"
               [] ModeOf(conf) = "aoa" -> IF stale THEN "done" ELSE "aoa"
    /\ IF pc' = "done" THEN Ends(TRUE) ELSE UNCHANGED quick
    /\ UNCHANGED <<dev, taken, mainVars, unit, again, boardVars>>

\* goggles_net::run() takes a step.
RunNet ==
    /\ NetStep
    /\ IF pc' = "done" THEN Ends(pc \in {"link", "open"})
                       ELSE UNCHANGED quick
    /\ UNCHANGED <<mainVars, unit, again, boardVars>>

\* run_capture() notices G_STOP.
AoaStops ==
    /\ pc = "aoa" /\ stop /\ pc' = "done" /\ Ends(FALSE)
    /\ UNCHANGED <<dev, taken, mainVars, unit, again, boardVars>>

\* A write to a renderer that is gone fails, in both modes: nothing else does.
OutputClosed ==
    /\ pc \in {"aoa", "loop"} /\ dev.here /\ (pc = "loop" => dev.addr)
    /\ renderer = "gone"
    /\ pc' = "done" /\ Ends(TRUE)
    /\ UNCHANGED <<dev, taken, mainVars, unit, again, boardVars>>

\* Bug: the sink outlives the run.
SinkOpenBug == pc \in Running \cup {"signals", "done"}

\* The run owns the sink and drops it when it returns.
SinkOpen == pc \in Running \cup {"signals"}

\* c.wait(), without a timeout.
Reap ==
    /\ pc = "done" /\ renderer # "running"
    /\ pc' = "none"
    /\ UNCHANGED <<dev, taken, mainVars, unitVars, boardVars>>

MainStep ==
    LoadSettings \/ OpenSink \/ CatchSignals \/ RunNet \/ AoaStops \/ Reap

-----------------------------------------------------------------------------
(* The renderer: it ends at the end of its input, or when it is told to.   *)

RendererEnds ==
    /\ renderer = "running" /\ (~SinkOpen \/ unit = "stopping")
    /\ renderer' = "gone"
    /\ UNCHANGED <<netVars, stop, conf, readFrom, unitVars, boardVars>>

-----------------------------------------------------------------------------
(* systemd                                                                 *)

\* The start limit counts starts; the rest of the restart is one second.
Start ==
    /\ unit = "wait"
    /\ IF quick = Burst THEN unit' = "failed" /\ UNCHANGED <<pc, stop>>
                        ELSE unit' = "active" /\ pc' = "load" /\ stop' = FALSE
    /\ UNCHANGED <<dev, taken, renderer, conf, readFrom, again, quick, boardVars>>

\* The main process is gone: what is left of the control group is ended, and
\* the unit restarted, or stopped for good.
UnitEnded ==
    /\ unit \in {"active", "stopping"} /\ pc = "none"
    /\ unit' = IF unit = "active" \/ again THEN "wait" ELSE "dead"
    /\ renderer' = "none" /\ again' = FALSE
    /\ UNCHANGED <<netVars, stop, conf, readFrom, quick, boardVars>>

\* SIGTERM to the group.  Before its handler is there it kills orbit-rs; in
\* goggles-net mode it ends a command or a recv() that it interrupts.
StopUnit(restart) ==
    /\ unit = "active" /\ unit' = "stopping" /\ again' = restart
    /\ ops < MaxOps /\ ops' = ops + 1
    /\ stop' = (stop \/ pc \in Running \cup {"done"})
    /\ pc' \in CASE pc \in {"load", "sink", "signals", "none"} -> {"none"}
                 [] pc \in {"link", "open", "loop"} -> {pc, "done"}
                 [] OTHER -> {pc}
    /\ UNCHANGED <<dev, taken, renderer, conf, readFrom, quick>>
    /\ UNCHANGED <<env0, files, stale, faults>>

\* ... and SIGKILL after TimeoutStopSec, longer than anything lasts but a
\* receive loop that did not see the signal.
KillUnit ==
    /\ unit = "stopping" /\ pc = "loop"
    /\ pc' = "none" /\ renderer' = "none"
    /\ UNCHANGED <<dev, taken, stop, conf, readFrom, unitVars, boardVars>>

StartUnit ==
    /\ unit \in {"dead", "failed"} /\ unit' = "wait" /\ quick' = 0
    /\ ops < MaxOps /\ ops' = ops + 1
    /\ UNCHANGED <<netVars, mainVars, again, env0, files, stale, faults>>

-----------------------------------------------------------------------------
(* The board: faults, the goggles, NetworkManager and the operator.        *)

Fault == faults < MaxFaults /\ faults' = faults + 1

Plugging ==
    /\ Plug /\ Fault
    /\ UNCHANGED <<mainVars, unitVars, env0, files, stale, ops>>

Nm ==
    /\ NmNotices \/ NmTakesAddress
    /\ UNCHANGED <<mainVars, unitVars, boardVars>>

RendererCrash ==
    /\ renderer = "running" /\ renderer' = "gone" /\ Fault
    /\ UNCHANGED <<netVars, stop, conf, readFrom, unitVars, env0, files, stale, ops>>

\* MAX_CONSECUTIVE_FAILURES, or setup() failed.
AoaGivesUp ==
    /\ pc = "aoa" /\ pc' = "done" /\ Ends(TRUE) /\ Fault
    /\ UNCHANGED <<dev, taken, mainVars, unit, again, env0, files, stale, ops>>

\* orbit-rs is killed: the gadget of an aoa run stays.
Crash ==
    /\ pc # "none" /\ pc' = "none" /\ Ends(TRUE) /\ Fault
    /\ stale' = (stale \/ pc = "aoa")
    /\ UNCHANGED <<dev, taken, mainVars, unit, again, env0, files, ops>>

\* The settings panel saves; --cleanup is run by hand.
SaveSettings ==
    /\ files' \in Files \ {files}
    /\ ops < MaxOps /\ ops' = ops + 1
    /\ UNCHANGED <<netVars, mainVars, unitVars, env0, stale, faults>>

Cleanup ==
    /\ stale /\ unit \in {"dead", "failed"} /\ stale' = FALSE
    /\ ops < MaxOps /\ ops' = ops + 1
    /\ UNCHANGED <<netVars, mainVars, unitVars, env0, files, faults>>

Next ==
    \/ MainStep \/ OutputClosed \/ RendererEnds
    \/ Start \/ UnitEnded \/ KillUnit \/ StartUnit
    \/ \E restart \in BOOLEAN : StopUnit(restart)
    \/ Plugging \/ Nm \/ RendererCrash \/ AoaGivesUp \/ Crash
    \/ SaveSettings \/ Cleanup

\* Processes run, systemd does its work, NetworkManager looks at a new
\* interface.  Video, and so OutputClosed, may never come; nothing that
\* breaks, and no operator, has to act.
Fairness ==
    /\ WF_vars(MainStep) /\ WF_vars(RendererEnds)
    /\ WF_vars(Start) /\ WF_vars(UnitEnded) /\ WF_vars(KillUnit)
    /\ WF_vars(NmNotices /\ UNCHANGED <<mainVars, unitVars, boardVars>>)

Spec == Init /\ [][Next]_vars /\ Fairness

-----------------------------------------------------------------------------
TypeOK ==
    /\ pc \in Running \cup {"none", "load", "sink", "signals", "done"}
    /\ dev \in [here : BOOLEAN, known : BOOLEAN, managed : BOOLEAN, addr : BOOLEAN]
    /\ (dev.known \/ dev.addr) => dev.here
    /\ unit \in {"wait", "active", "stopping", "dead", "failed"}
    /\ again \in BOOLEAN /\ stop \in BOOLEAN /\ stale \in BOOLEAN
    /\ quick \in 0 .. Burst /\ faults \in 0 .. MaxFaults /\ ops \in 0 .. MaxOps
    /\ renderer \in {"none", "running", "gone"}
    /\ env0 \in Environments /\ files \in Files /\ readFrom \in Files

\* What was written for a key: by whoever started orbit-rs, or else in the
\* first line of the file that names it.
FirstOf(key, lines) ==
    {i \in DOMAIN lines :
        lines[i].key = key /\ \A j \in DOMAIN lines : lines[j].key = key => i <= j}

Written(key) ==
    IF key \in DOMAIN env0 THEN {env0[key]}
    ELSE UNION {{readFrom[f][i].text : i \in FirstOf(key, readFrom[f])} :
                f \in FileInForce(env0, readFrom)}

\* The settings a run goes by are those written: no line of the file undoes
\* the environment, or a line before it (envcfg.rs:4-5).
SettingsAreWritten ==
    pc \notin {"none", "load"} =>
        \A key \in {"ORBIT_MODE", "ORBIT_RENDERER", "GOGGLES_NET_IFACE"} :
            {conf[k] : k \in {key} \cap DOMAIN conf} = Written(key)

\* A run that returned, for whatever reason, is followed by the next: the
\* renderer cannot keep orbit-rs from exiting (main.rs:358-376).
EndIsRespawned ==
    pc = "done" ~> pc = "load" \/ unit \in {"dead", "failed"}

\* Settings that are good for goggles-net mode.
Good ==
    LET env == Load(env0, files)
        argv == RendererArgv(env, TRUE)
    IN  /\ ModeOf(env) = "goggles-net" /\ ~IfaceGiven(env)
        /\ argv = <<>> \/ argv[1] \in Installed

\* Goggles that stay plugged in are received from, and go on being received
\* from, whatever was plugged, crashed or taken by NetworkManager before, as
\* long as there are fewer such events than starts (iface.rs:118-121,
\* 168-173).
PluggedIsServed ==
    []Good /\ <>[](dev.here /\ unit # "dead") => <>[](pc = "loop" /\ Reachable)

\* NetworkManager costs at most one session of an interface its address: at
\* the next start it is told to leave that alone (iface.rs:144-182).
TakenOnce == taken <= 1

\* What orbit-rs.service:19-20 says: "orbit-rs also exits on its own when the
\* renderer exits, and Restart=always respawns the pair".
RendererExitRespawnsPair ==
    renderer = "gone" ~> renderer = "running" \/ unit \in {"stopping", "dead"}
=============================================================================
