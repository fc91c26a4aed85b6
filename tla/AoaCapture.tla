----------------------------- MODULE AoaCapture -----------------------------
(***************************************************************************)
(* The aoa-mode capture runtime: run_capture() of src/capture.rs, the      *)
(* three Worker threads it starts (src/common.rs) and what they share.     *)
(*                                                                         *)
(*   main      run_capture(): composes the gadget, opens one session per   *)
(*             plug-in, watches the flags, stops the workers, decides.     *)
(*   events    event_loop(): turns FunctionFS events on ep0 into `enabled'.*)
(*   sender    send_commands(): the DUML keep-alive on the IN endpoint.    *)
(*   receiver  receive_video(): OUT endpoint -> frames -> the sink.        *)
(*                                                                         *)
(* Outside the program, and modelled from how it is used: the host (plug,  *)
(* unplug), the FunctionFS event queue and endpoints, the consumer that    *)
(* reads the sink, and the operator who sends SIGINT or SIGTERM.           *)
(*                                                                         *)
(* Payload bytes are abstracted to the number of payloads a read yields    *)
(* that have to be written; sleeps take no step of their own.              *)
(***************************************************************************)
EXTENDS Naturals, Sequences

CONSTANTS
    MaxFailures,  \* MAX_CONSECUTIVE_FAILURES
    MaxQueue,     \* bound: ep0 events waiting to be read (one read takes 8)
    MaxFrames     \* bound: payloads to write found in one endpoint read

ASSUME CaptureAssumption ==
    /\ MaxFailures \in Nat \ {0}
    /\ MaxQueue \in 1 .. 8
    /\ MaxFrames \in Nat \ {0}

VARIABLES
    pc,          \* where run_capture() is
    rc,          \* its exit code, NoCode until it is decided
    failures,    \* sessions that failed back to back
    gstop,       \* G_STOP
    enabled,     \* the flag event_loop() keeps for the main thread
    batch,       \* events read from ep0 and not handled yet
    wpc,         \* where each worker is
    quit,        \* each worker's quit flag
    todo,        \* payloads of the last read that receive_video() must write
    over,        \* Session::over
    failed,      \* Session::failed
    sinkClosed,  \* Session::sink_closed
    epOpen,      \* a session's endpoint descriptors are open
    ep0Open,     \* the gadget's ep0 descriptor is open
    sinkOpen,    \* our descriptor of the sink is open
    host,        \* TRUE while the goggles keep the interface enabled
    queue,       \* ep0 events the kernel holds for us
    cut,         \* the interface was disabled after the endpoints were opened
    consumer     \* TRUE while somebody reads the other end of the sink

mainVars    == <<pc, rc, failures>>
workVars    == <<wpc, quit, todo>>
sessionVars == <<over, failed, sinkClosed>>
fdVars      == <<epOpen, ep0Open, sinkOpen>>
usbVars     == <<host, queue, cut>>
vars == <<mainVars, gstop, enabled, batch, workVars, sessionVars, fdVars,
          usbVars, consumer>>

-----------------------------------------------------------------------------
NoCode == 2

Data    == {"sender", "receiver"}
Workers == Data \cup {"events"}

Events == {"ENABLE", "DISABLE", "UNBIND", "SETUP"}

\* "none": not started or joined; "check": about to load quit; "ready": saw
\* quit unset, not in the kernel yet; "blocked": inside the blocking call;
\* "handle" and "write": working on what it returned; "done": f returned.
WorkerPc == {"none", "check", "ready", "blocked", "handle", "write", "done"}

\* The points of run_capture() where a session's endpoints are open.
SessionPc == {"spawnSender", "spawnReceiver", "watch", "stopReceiver",
              "stopSender", "closeEndpoints"}

LoopPc == {"idle", "settle", "verdict"} \cup SessionPc
ExitPc == {"stopEvents", "teardown", "dropSink", "exited"}

\* Where Worker::stop() of each worker is called from, and what follows it:
\* values drop in reverse order of their declaration.
StopPc == [receiver |-> "stopReceiver", sender |-> "stopSender",
           events |-> "stopEvents"]

\* A bug: the endpoints, declared after the sender, are closed before it.
AfterStopBug == [receiver |-> "closeEndpoints", sender |-> "closeEndpoints",
                 events |-> "teardown"]
AfterStop == [receiver |-> "stopSender", sender |-> "closeEndpoints",
              events |-> "teardown"]

Running(w) == wpc[w] \notin {"none", "done"}

Init ==
    /\ pc = "start" /\ rc = NoCode /\ failures = 0
    /\ gstop = FALSE /\ enabled = FALSE /\ batch = <<>>
    /\ wpc = [w \in Workers |-> "none"]
    /\ quit = [w \in Workers |-> FALSE]
    /\ todo = 0
    /\ over = FALSE /\ failed = FALSE /\ sinkClosed = FALSE
    /\ epOpen = FALSE /\ ep0Open = FALSE /\ sinkOpen = TRUE
    /\ host = FALSE /\ queue = <<>> /\ cut = FALSE
    /\ consumer = TRUE

-----------------------------------------------------------------------------
(* The main thread.                                                        *)

Goto(from, to) == pc = from /\ pc' = to

\* Worker::new(): a fresh quit flag and a running thread.
Spawn(w) ==
    /\ wpc' = [wpc EXCEPT ![w] = "check"]
    /\ quit' = [quit EXCEPT ![w] = FALSE]
    /\ UNCHANGED todo

\* setup() or attach() succeeded: start event_loop().
GadgetUp ==
    /\ Goto("start", "idle")
    /\ ep0Open' = TRUE
    /\ Spawn("events")
    /\ UNCHANGED <<rc, failures, gstop, enabled, batch, sessionVars, epOpen,
                   sinkOpen, usbVars, consumer>>

\* No controller, or setup()/attach() failed, ep0 open or not: return 1.
GadgetFails ==
    /\ Goto("start", "teardown")
    /\ rc' = 1
    /\ ep0Open' \in BOOLEAN
    /\ UNCHANGED <<failures, gstop, enabled, batch, workVars, sessionVars,
                   epOpen, sinkOpen, usbVars, consumer>>

\* The loop head: G_STOP first, then `enabled', then the 200 ms pause.
LeaveLoop ==
    /\ Goto("idle", "stopEvents")
    /\ gstop
    /\ rc' = 0
    /\ UNCHANGED <<failures, gstop, enabled, batch, workVars, sessionVars,
                   fdVars, usbVars, consumer>>

SeeEnabled ==
    /\ Goto("idle", "settle")
    /\ ~gstop /\ enabled
    /\ UNCHANGED <<rc, failures, gstop, enabled, batch, workVars, sessionVars,
                   fdVars, usbVars, consumer>>

\* A new Session and both endpoints. `enabled' and G_STOP are not looked at
\* again after the pause, so the host may be gone by now.
OpenEndpoints ==
    /\ Goto("settle", "spawnSender")
    /\ over' = FALSE /\ failed' = FALSE /\ sinkClosed' = FALSE
    /\ epOpen' = TRUE /\ cut' = FALSE
    /\ UNCHANGED <<rc, failures, gstop, enabled, batch, workVars, ep0Open,
                   sinkOpen, host, queue, consumer>>

\* One of the two could not be opened: s.fail(), and the other is closed.
OpenFails ==
    /\ Goto("settle", "closeEndpoints")
    /\ over' = TRUE /\ failed' = TRUE /\ sinkClosed' = FALSE
    /\ epOpen' = TRUE /\ cut' = FALSE
    /\ UNCHANGED <<rc, failures, gstop, enabled, batch, workVars, ep0Open,
                   sinkOpen, host, queue, consumer>>

SpawnSender ==
    /\ Goto("spawnSender", "spawnReceiver")
    /\ Spawn("sender")
    /\ UNCHANGED <<rc, failures, gstop, enabled, batch, sessionVars, fdVars,
                   usbVars, consumer>>

SpawnReceiver ==
    /\ Goto("spawnReceiver", "watch")
    /\ Spawn("receiver")
    /\ UNCHANGED <<rc, failures, gstop, enabled, batch, sessionVars, fdVars,
                   usbVars, consumer>>

\* A bug: the watch loop trusts `enabled' alone.
EndWatchBug ==
    /\ Goto("watch", "stopReceiver")
    /\ gstop \/ ~enabled
    /\ UNCHANGED <<rc, failures, gstop, enabled, batch, workVars, sessionVars,
                   fdVars, usbVars, consumer>>

\* The watch loop ends on a stop signal, on `enabled' or on a worker's word.
EndWatch ==
    /\ Goto("watch", "stopReceiver")
    /\ gstop \/ ~enabled \/ over
    /\ UNCHANGED <<rc, failures, gstop, enabled, batch, workVars, sessionVars,
                   fdVars, usbVars, consumer>>

\* Worker::stop(): raise quit, poke with SIGUSR1 until the thread has left,
\* join.
RaiseQuit(w) ==
    /\ pc = StopPc[w]
    /\ quit' = [quit EXCEPT ![w] = TRUE]
    /\ UNCHANGED <<mainVars, gstop, enabled, batch, wpc, todo, sessionVars,
                   fdVars, usbVars, consumer>>

\* A bug: SA_RESTART, so the kernel restarts the call and nothing changes.
KickBug(w) == pc = StopPc[w] /\ quit[w] /\ wpc[w] = "blocked" /\ UNCHANGED vars

\* The handler does nothing and there is no SA_RESTART, so the blocking call
\* returns EINTR and the worker goes back to its quit check. Anywhere else
\* the signal is consumed; inside write_all() the write is simply retried.
Kick(w) ==
    /\ pc = StopPc[w] /\ quit[w]
    /\ wpc[w] = "blocked"
    /\ wpc' = [wpc EXCEPT ![w] = "check"]
    /\ UNCHANGED <<mainVars, gstop, enabled, batch, quit, todo, sessionVars,
                   fdVars, usbVars, consumer>>

Join(w) ==
    /\ Goto(StopPc[w], AfterStop[w])
    /\ quit[w] /\ wpc[w] = "done"
    /\ wpc' = [wpc EXCEPT ![w] = "none"]
    /\ UNCHANGED <<rc, failures, gstop, enabled, batch, quit, todo,
                   sessionVars, fdVars, usbVars, consumer>>

CloseEndpoints ==
    /\ Goto("closeEndpoints", "verdict")
    /\ epOpen' = FALSE
    /\ UNCHANGED <<rc, failures, gstop, enabled, batch, workVars, sessionVars,
                   ep0Open, sinkOpen, usbVars, consumer>>

\* Bugs: the order of the two checks swapped with the loop's own G_STOP test;
\* a closed output taken for the end of a plug-in; one failure too many.
VerdictStopFirstBug ==
    /\ pc = "verdict"
    /\ \/ /\ gstop /\ pc' = "stopEvents" /\ rc' = 0
       \/ /\ ~gstop /\ sinkClosed /\ pc' = "stopEvents" /\ rc' = 1
       \/ /\ ~gstop /\ ~sinkClosed /\ pc' = "idle" /\ UNCHANGED rc
    /\ UNCHANGED <<failures, gstop, enabled, batch, workVars, sessionVars,
                   fdVars, usbVars, consumer>>

VerdictForgetsOutputBug ==
    /\ Goto("verdict", "idle")
    /\ UNCHANGED <<rc, failures, gstop, enabled, batch, workVars, sessionVars,
                   fdVars, usbVars, consumer>>

VerdictOffByOneBug ==
    /\ pc = "verdict"
    /\ failures' = IF failed THEN failures + 1 ELSE 0
    /\ \/ /\ sinkClosed \/ failures' > MaxFailures
          /\ pc' = "stopEvents" /\ rc' = 1
       \/ /\ ~sinkClosed /\ failures' <= MaxFailures
          /\ pc' = "idle" /\ UNCHANGED rc
    /\ UNCHANGED <<gstop, enabled, batch, workVars, sessionVars, fdVars,
                   usbVars, consumer>>

\* What the ended session means: nobody reads the video, one failure too
\* many, or another pass.
Verdict ==
    /\ pc = "verdict"
    /\ failures' = IF sinkClosed THEN failures
                   ELSE IF failed THEN failures + 1 ELSE 0
    /\ \/ /\ sinkClosed \/ failures' >= MaxFailures
          /\ pc' = "stopEvents" /\ rc' = 1
       \/ /\ ~sinkClosed /\ failures' < MaxFailures
          /\ pc' = "idle" /\ UNCHANGED rc
    /\ UNCHANGED <<gstop, enabled, batch, workVars, sessionVars, fdVars,
                   usbVars, consumer>>

\* The gadget drops: unbind, close ep0.
Teardown ==
    /\ Goto("teardown", "dropSink")
    /\ ep0Open' = FALSE
    /\ host' = FALSE /\ queue' = <<>>
    /\ UNCHANGED <<rc, failures, gstop, enabled, batch, workVars, sessionVars,
                   epOpen, sinkOpen, cut, consumer>>

\* A bug: the workers got the raw descriptor, and nobody closes it.
DropSinkBug ==
    /\ Goto("dropSink", "exited")
    /\ UNCHANGED <<rc, failures, gstop, enabled, batch, workVars, sessionVars,
                   fdVars, usbVars, consumer>>

\* The sink was an argument of run_capture(), so it drops last.
DropSink ==
    /\ Goto("dropSink", "exited")
    /\ sinkOpen' = FALSE
    /\ UNCHANGED <<rc, failures, gstop, enabled, batch, workVars, sessionVars,
                   epOpen, ep0Open, usbVars, consumer>>

Main ==
    \/ GadgetUp \/ GadgetFails \/ LeaveLoop \/ SeeEnabled
    \/ OpenEndpoints \/ OpenFails \/ SpawnSender \/ SpawnReceiver
    \/ EndWatch \/ \E w \in Workers : RaiseQuit(w) \/ Join(w)
    \/ CloseEndpoints \/ Verdict \/ Teardown \/ DropSink

-----------------------------------------------------------------------------
(* The workers.                                                            *)

Step(w, from, to) ==
    /\ wpc[w] = from
    /\ wpc' = [wpc EXCEPT ![w] = to]

\* The quit check every worker makes between transfers.
CheckQuit(w) ==
    /\ Step(w, "check", IF quit[w] THEN "done" ELSE "ready")
    /\ UNCHANGED <<mainVars, gstop, enabled, batch, quit, todo, sessionVars,
                   fdVars, usbVars, consumer>>

EnterCall(w) ==
    /\ Step(w, "ready", "blocked")
    /\ UNCHANGED <<mainVars, gstop, enabled, batch, quit, todo, sessionVars,
                   fdVars, usbVars, consumer>>

\* The host moved data over the endpoint.
CommandSent ==
    /\ host /\ ~cut
    /\ Step("sender", "blocked", "check")
    /\ UNCHANGED <<mainVars, gstop, enabled, batch, quit, todo, sessionVars,
                   fdVars, usbVars, consumer>>

VideoRead ==
    /\ host /\ ~cut
    /\ \E n \in 0 .. MaxFrames :
          /\ Step("receiver", "blocked", IF n = 0 THEN "check" ELSE "write")
          /\ todo' = n
    /\ UNCHANGED <<mainVars, gstop, enabled, batch, quit, sessionVars, fdVars,
                   usbVars, consumer>>

\* Session::endpoint_error(): the endpoint went away, a normal end ...
EndpointGone(w) ==
    /\ w \in Data /\ cut
    /\ Step(w, "blocked", "done")
    /\ over' = TRUE
    /\ UNCHANGED <<mainVars, gstop, enabled, batch, quit, todo, failed,
                   sinkClosed, fdVars, usbVars, consumer>>

\* ... or any other error, which counts against the session.
EndpointFails(w) ==
    /\ w \in Data
    /\ Step(w, "blocked", "done")
    /\ over' = TRUE /\ failed' = TRUE
    /\ UNCHANGED <<mainVars, gstop, enabled, batch, quit, todo, sinkClosed,
                   fdVars, usbVars, consumer>>

\* write_all() of one payload went through.
PayloadWritten ==
    /\ consumer
    /\ Step("receiver", "write", IF todo = 1 THEN "check" ELSE "write")
    /\ todo' = todo - 1
    /\ UNCHANGED <<mainVars, gstop, enabled, batch, quit, sessionVars,
                   fdVars, usbVars, consumer>>

\* write_all() failed: SIGPIPE is ignored, so a vanished consumer is EPIPE.
OutputClosed ==
    /\ ~consumer
    /\ Step("receiver", "write", "done")
    /\ sinkClosed' = TRUE /\ over' = TRUE
    /\ UNCHANGED <<mainVars, gstop, enabled, batch, quit, todo, failed,
                   fdVars, usbVars, consumer>>

\* poll() gave up after its 200 ms with nothing to read.
PollTimeout ==
    /\ queue = <<>>
    /\ Step("events", "blocked", "check")
    /\ UNCHANGED <<mainVars, gstop, enabled, batch, quit, todo, sessionVars,
                   fdVars, usbVars, consumer>>

EventsRead ==
    /\ queue # <<>>
    /\ Step("events", "blocked", "handle")
    /\ batch' = queue /\ queue' = <<>>
    /\ UNCHANGED <<mainVars, gstop, enabled, quit, todo, sessionVars, fdVars,
                   host, cut, consumer>>

\* "ep0 read failed": event_loop() returns and `enabled' stays as it is.
EventsLost ==
    /\ Step("events", "blocked", "done")
    /\ UNCHANGED <<mainVars, gstop, enabled, batch, quit, todo, sessionVars,
                   fdVars, usbVars, consumer>>

\* A bug: only UNBIND, and not DISABLE, clears the flag.
HandleEventBug ==
    /\ batch # <<>>
    /\ Step("events", "handle", IF Len(batch) = 1 THEN "check" ELSE "handle")
    /\ batch' = Tail(batch)
    /\ enabled' = CASE Head(batch) = "ENABLE" -> TRUE
                    [] Head(batch) = "UNBIND" -> FALSE
                    [] OTHER -> enabled
    /\ UNCHANGED <<mainVars, gstop, quit, todo, sessionVars, fdVars, usbVars,
                   consumer>>

\* One event of the batch; a SETUP request is stalled and changes nothing.
HandleEvent ==
    /\ batch # <<>>
    /\ Step("events", "handle", IF Len(batch) = 1 THEN "check" ELSE "handle")
    /\ batch' = Tail(batch)
    /\ enabled' = CASE Head(batch) = "ENABLE" -> TRUE
                    [] Head(batch) \in {"DISABLE", "UNBIND"} -> FALSE
                    [] OTHER -> enabled
    /\ UNCHANGED <<mainVars, gstop, quit, todo, sessionVars, fdVars, usbVars,
                   consumer>>

WorkerStep ==
    \/ \E w \in Workers : CheckQuit(w) \/ EnterCall(w)
    \/ \E w \in Data : EndpointGone(w) \/ EndpointFails(w)
    \/ CommandSent \/ VideoRead \/ PayloadWritten \/ OutputClosed
    \/ PollTimeout \/ EventsRead \/ EventsLost \/ HandleEvent

-----------------------------------------------------------------------------
(* The environment.                                                        *)

StopSignal ==
    /\ ~gstop /\ pc # "exited"
    /\ gstop' = TRUE
    /\ UNCHANGED <<mainVars, enabled, batch, workVars, sessionVars, fdVars,
                   usbVars, consumer>>

\* The kernel queues the event, or lets it supersede those not read yet.
Post(e) ==
    \/ queue' = <<e>>
    \/ Len(queue) < MaxQueue /\ queue' = Append(queue, e)

HostEnables ==
    /\ pc \in LoopPc \cup {"stopEvents"} /\ ~host
    /\ host' = TRUE
    /\ Post("ENABLE")
    /\ UNCHANGED <<mainVars, gstop, enabled, batch, workVars, sessionVars,
                   fdVars, cut, consumer>>

HostDisables ==
    /\ pc \in LoopPc \cup {"stopEvents"} /\ host
    /\ host' = FALSE
    /\ \E e \in {"DISABLE", "UNBIND"} : Post(e)
    /\ cut' = (cut \/ epOpen)
    /\ UNCHANGED <<mainVars, gstop, enabled, batch, workVars, sessionVars,
                   fdVars, consumer>>

VendorRequest ==
    /\ pc \in LoopPc \cup {"stopEvents"} /\ host
    /\ Len(queue) < MaxQueue
    /\ queue' = Append(queue, "SETUP")
    /\ UNCHANGED <<mainVars, gstop, enabled, batch, workVars, sessionVars,
                   fdVars, host, cut, consumer>>

\* The renderer exits or crashes, or the pipe's reader goes away.
ConsumerLeaves ==
    /\ consumer /\ pc # "exited"
    /\ consumer' = FALSE
    /\ UNCHANGED <<mainVars, gstop, enabled, batch, workVars, sessionVars,
                   fdVars, usbVars>>

Environment ==
    \/ StopSignal \/ HostEnables \/ HostDisables \/ VendorRequest
    \/ ConsumerLeaves

Next == Main \/ (\E w \in Workers : Kick(w)) \/ WorkerStep \/ Environment

-----------------------------------------------------------------------------
(* Fairness. Every thread keeps running, Worker::stop() keeps poking, and  *)
(* the kernel ends a transfer on an endpoint that was taken away, a write  *)
(* nobody can read and a poll. Nothing is assumed of the host, of the      *)
(* operator, or of data moving over an endpoint.                           *)
ProgramFairness ==
    /\ WF_vars(Main)
    /\ \A w \in Workers :
          WF_vars(Kick(w)) /\ WF_vars(CheckQuit(w) \/ EnterCall(w))
    /\ \A w \in Data : WF_vars(EndpointGone(w))
    /\ WF_vars(OutputClosed)
    /\ WF_vars(PollTimeout \/ EventsRead)
    /\ WF_vars(HandleEvent)

\* The consumer goes on draining the sink for as long as it is there.
ConsumerDrains == WF_vars(PayloadWritten)

SafeSpec == Init /\ [][Next]_vars

Spec == SafeSpec /\ ProgramFairness /\ ConsumerDrains

-----------------------------------------------------------------------------
TypeOK ==
    /\ pc \in {"start"} \cup LoopPc \cup ExitPc
    /\ rc \in {0, 1, NoCode}
    /\ failures \in 0 .. MaxFailures
    /\ gstop \in BOOLEAN /\ enabled \in BOOLEAN
    /\ batch \in Seq(Events)
    /\ wpc \in [Workers -> WorkerPc]
    /\ quit \in [Workers -> BOOLEAN]
    /\ todo \in 0 .. MaxFrames
    /\ over \in BOOLEAN /\ failed \in BOOLEAN /\ sinkClosed \in BOOLEAN
    /\ epOpen \in BOOLEAN /\ ep0Open \in BOOLEAN /\ sinkOpen \in BOOLEAN
    /\ host \in BOOLEAN /\ cut \in BOOLEAN /\ consumer \in BOOLEAN
    /\ queue \in Seq(Events) /\ Len(queue) <= MaxQueue

\* The workers hold raw descriptor numbers, not the Fd values that own them
\* (capture.rs:478-487): while a worker can still use a number, the
\* descriptor behind it is open, so a transfer never lands on a reused one.
DescriptorsOutliveWorkers ==
    /\ \A w \in Data : Running(w) => epOpen
    /\ Running("receiver") => sinkOpen
    /\ Running("events") => ep0Open

\* Once the receiver has found the output closed, no later session takes its
\* place: the report survives a stop signal, an unplug or an endpoint error
\* that ends the same session first (capture.rs:500-502).
ClosedOutputIsFinal == [][sinkClosed => sinkClosed']_vars

\* ... and the run that saw it ends with exit code 1, so that the supervisor
\* does not mistake a lost renderer for a requested stop.
ClosedOutputIsAnError == sinkClosed /\ rc # NoCode => rc = 1

\* run_capture() keeps the contract of a mode's run (goggles_net/mod.rs:66-70).
Contract == INSTANCE ModeRun
            WITH NoCode <- NoCode, code <- rc, lost <- sinkClosed,
                 sink <- sinkOpen, returned <- pc = "exited"
KeepsContract == Contract!Spec

\* SIGINT or SIGTERM ends the run, whatever the workers are blocked in,
\* as long as the sink is drained (common.rs:45-52, capture.rs:458-461).
StopIsHonoured == gstop ~> (pc = "exited")

EventLoopGone == wpc["events"] \in {"none", "done"}

\* Goggles that stay plugged in end up with a session on endpoints opened
\* after their last disable, however fast they were replugged and whichever
\* events the main thread missed -- unless the run ends or ep0 fails.
PlugInIsServed ==
    <>[]host => <>[](\/ pc = "watch" /\ ~cut
                     \/ pc \in ExitPc
                     \/ EventLoopGone)

\* Goggles that stay unplugged leave no session behind.
UnplugEndsSession ==
    <>[](~host) => <>[](pc \notin SessionPc \/ EventLoopGone)

=============================================================================
