----------------------------- MODULE NetCapture -----------------------------
(***************************************************************************)
(* The receive loop of goggles-net mode once the session is open:          *)
(* capture::run() of src/goggles_net/capture.rs from line 104 on, with its *)
(* two liveness clocks, the sink it writes to and the stop signal.         *)
(*                                                                         *)
(* Time is counted in ticks of POLL_INTERVAL.  Every Instant of the code   *)
(* is its age, which stops growing at Cap, above all thresholds.  Time     *)
(* passes while recv() waits for a datagram and while write_all() waits    *)
(* for the sink; the rest is instantaneous.                                *)
(*                                                                         *)
(* A datagram is what the loop tells apart: "control" (an upstream control *)
(* packet that gets its ACK), "part" (video that completes no unit),       *)
(* "unit" (the fragment that completes one) and "other" (anything else,    *)
(* a control packet too short for an ACK among it).  Reassembly itself is  *)
(* in VideoAssembler.                                                      *)
(***************************************************************************)
EXTENDS Naturals, Sequences

CONSTANTS
    VideoQuiet,    \* VIDEO_QUIET_TIMEOUT, 2.5 s
    SessionQuiet,  \* SESSION_QUIET_TIMEOUT, 10 s
    MaxWrite,      \* the sink takes a unit within this many ticks
    MaxInbox       \* bound: datagrams waiting in the socket

ASSUME NetCaptureAssumption ==
    /\ VideoQuiet \in Nat \ {0} /\ SessionQuiet \in Nat
    /\ VideoQuiet < SessionQuiet
    /\ MaxWrite \in Nat /\ MaxInbox \in Nat \ {0}

VARIABLES
    pc,            \* "recv", "write", "check", or how run() returned:
                   \* "dead" (quiet), "lost" (sink or socket error)
    waited,        \* ticks the recv() or write_all() has been waiting
    inbox,         \* datagrams in the socket
    anyAge,        \* last_any_at
    controlAge,    \* last_control_at, an Option: {} is None
    videoAge,      \* last_video_at, an Option
    seen_video,
    video_stalled,
    wireAge,       \* history: since a datagram last came in over the wire
    gstop,         \* a stop signal was delivered
    consumer       \* TRUE while somebody reads the other end of the sink

clocks == <<anyAge, controlAge, videoAge>>
flags  == <<seen_video, video_stalled>>
vars == <<pc, waited, inbox, clocks, flags, wireAge, gstop, consumer>>

Returned == {"dead", "lost"}
Datagrams == {"control", "part", "unit", "other"}

Cap == SessionQuiet + MaxWrite * MaxInbox + 2
Ages == 0 .. Cap
Older(a) == IF a < Cap THEN a + 1 ELSE a

Init ==
    /\ pc = "recv" /\ waited = 0 /\ inbox = <<>>
    /\ anyAge = 0 /\ controlAge = {} /\ videoAge = {}
    /\ seen_video = FALSE /\ video_stalled = FALSE
    /\ wireAge = 0
    /\ gstop = FALSE /\ consumer = TRUE

-----------------------------------------------------------------------------
\* A bug: only traffic that is no video refreshes last_any_at.
ReceiveBug ==
    /\ pc = "recv" /\ inbox # <<>>
    /\ inbox' = Tail(inbox)
    /\ waited' = 0
    /\ LET d == Head(inbox)
       IN  /\ pc' = IF d = "unit" THEN "write" ELSE "check"
           /\ anyAge' = IF d \in {"part", "unit"} THEN anyAge ELSE 0
           /\ controlAge' = IF d = "control" THEN {0} ELSE controlAge
           /\ videoAge' = IF d = "unit" THEN {0} ELSE videoAge
           /\ seen_video' = (seen_video \/ d \in {"part", "unit"})
           /\ video_stalled' = (video_stalled /\ d # "unit")
    /\ UNCHANGED <<wireAge, gstop, consumer>>

\* Another: the hint is not withdrawn when video comes back.
ReceiveKeepsHintBug ==
    /\ pc = "recv" /\ inbox # <<>>
    /\ inbox' = Tail(inbox)
    /\ waited' = 0
    /\ anyAge' = 0
    /\ LET d == Head(inbox)
       IN  /\ pc' = IF d = "unit" THEN "write" ELSE "check"
           /\ controlAge' = IF d = "control" THEN {0} ELSE controlAge
           /\ videoAge' = IF d = "unit" THEN {0} ELSE videoAge
           /\ seen_video' = (seen_video \/ d \in {"part", "unit"})
    /\ UNCHANGED <<video_stalled, wireAge, gstop, consumer>>

\* recv() returned a datagram.
Receive ==
    /\ pc = "recv" /\ inbox # <<>>
    /\ inbox' = Tail(inbox)
    /\ waited' = 0
    /\ anyAge' = 0
    /\ LET d == Head(inbox)
       IN  /\ pc' = IF d = "unit" THEN "write" ELSE "check"
           /\ controlAge' = IF d = "control" THEN {0} ELSE controlAge
           /\ videoAge' = IF d = "unit" THEN {0} ELSE videoAge
           /\ seen_video' = (seen_video \/ d \in {"part", "unit"})
           /\ video_stalled' = (video_stalled /\ d # "unit")
    /\ UNCHANGED <<wireAge, gstop, consumer>>

\* A bug: a wake-up with nothing to read goes straight back to recv().
PollElapsedBug ==
    /\ pc = "recv" /\ inbox = <<>> /\ waited = 1
    /\ waited' = 0
    /\ UNCHANGED <<pc, inbox, clocks, flags, wireAge, gstop, consumer>>

\* recv() timed out after POLL_INTERVAL.
PollElapsed ==
    /\ pc = "recv" /\ inbox = <<>> /\ waited = 1
    /\ pc' = "check" /\ waited' = 0
    /\ UNCHANGED <<inbox, clocks, flags, wireAge, gstop, consumer>>

\* recv(), the ACK's send() or the dump file failed.
SocketError ==
    /\ pc = "recv"
    /\ pc' = "lost"
    /\ UNCHANGED <<waited, inbox, clocks, flags, wireAge, gstop,
                   consumer>>

\* write_all() of the unit: done, or EPIPE because the consumer is gone.
UnitWritten ==
    /\ pc = "write" /\ consumer
    /\ pc' = "check" /\ waited' = 0
    /\ UNCHANGED <<inbox, clocks, flags, wireAge, gstop, consumer>>

OutputClosed ==
    /\ pc = "write" /\ ~consumer
    /\ pc' = "lost"
    /\ UNCHANGED <<waited, inbox, clocks, flags, wireAge, gstop,
                   consumer>>

VideoIsQuiet == \A a \in videoAge : a >= VideoQuiet
ControlIsAlive == \E a \in controlAge : a < VideoQuiet

\* A bug: the threshold of a quiet session is never looked at.
CheckForeverBug ==
    /\ pc = "check"
    /\ pc' = "recv"
    /\ video_stalled' = (\/ video_stalled
                         \/ seen_video /\ VideoIsQuiet /\ ControlIsAlive)
    /\ UNCHANGED <<waited, inbox, clocks, seen_video, wireAge, gstop,
                   consumer>>

\* A bug: the clock of video, and not of any traffic, decides over the link.
CheckBug ==
    /\ pc = "check"
    /\ pc' = IF \E a \in videoAge : a >= SessionQuiet THEN "dead" ELSE "recv"
    /\ UNCHANGED <<waited, inbox, clocks, flags, wireAge, gstop,
                   consumer>>

\* The staleness checks at the foot of the loop.
Check ==
    /\ pc = "check"
    /\ \/ /\ anyAge >= SessionQuiet
          /\ pc' = "dead" /\ UNCHANGED video_stalled
       \/ /\ anyAge < SessionQuiet
          /\ pc' = "recv"
          /\ video_stalled' = (\/ video_stalled
                               \/ seen_video /\ VideoIsQuiet /\ ControlIsAlive)
    /\ UNCHANGED <<waited, inbox, clocks, seen_video, wireAge, gstop,
                   consumer>>

Loop == Receive \/ PollElapsed \/ UnitWritten \/ OutputClosed \/ Check

-----------------------------------------------------------------------------
(* The environment.                                                        *)

\* What comes in during the instant of the checks counts as coming after it.
Arrive ==
    /\ pc \in {"recv", "write"} /\ Len(inbox) < MaxInbox
    /\ \E d \in Datagrams : inbox' = Append(inbox, d)
    /\ wireAge' = 0
    /\ UNCHANGED <<pc, waited, clocks, flags, gstop, consumer>>

Tick ==
    /\ \/ pc = "recv" /\ inbox = <<>> /\ waited < 1
       \/ pc = "write" /\ consumer /\ waited < MaxWrite
    /\ waited' = waited + 1
    /\ anyAge' = Older(anyAge)
    /\ controlAge' = {Older(a) : a \in controlAge}
    /\ videoAge' = {Older(a) : a \in videoAge}
    /\ wireAge' = Older(wireAge)
    /\ UNCHANGED <<pc, inbox, flags, gstop, consumer>>

\* SIGINT or SIGTERM.  on_stop() sets G_STOP, which nothing here reads.  A
\* recv() that waits returns EINTR, an error like any other; write_all()
\* retries; between two calls nothing happens.
StopSignal ==
    /\ ~gstop /\ pc \notin Returned
    /\ gstop' = TRUE
    /\ pc' = IF pc = "recv" /\ inbox = <<>> THEN "lost" ELSE pc
    /\ UNCHANGED <<waited, inbox, clocks, flags, wireAge, consumer>>

ConsumerLeaves ==
    /\ consumer /\ pc \notin Returned
    /\ consumer' = FALSE
    /\ UNCHANGED <<pc, waited, inbox, clocks, flags, wireAge, gstop>>

Next ==
    \/ Loop \/ SocketError
    \/ Arrive \/ Tick \/ StopSignal \/ ConsumerLeaves

SafeSpec == Init /\ [][Next]_vars

\* The program runs, and time passes however busy the link is (hence the
\* strong fairness).  Nothing is assumed of the goggles.
Spec == SafeSpec /\ WF_vars(Loop) /\ SF_vars(Tick)

-----------------------------------------------------------------------------
\* Types, and: the time any datagram was read is never older than the time
\* a control packet or a unit was.
TypeOK ==
    /\ pc \in {"recv", "write", "check"} \cup Returned
    /\ waited \in 0 .. MaxWrite + 1
    /\ inbox \in Seq(Datagrams) /\ Len(inbox) <= MaxInbox
    /\ anyAge \in Ages /\ wireAge \in Ages
    /\ controlAge \in SUBSET (anyAge .. Cap) /\ videoAge \in SUBSET (anyAge .. Cap)
    /\ seen_video \in BOOLEAN /\ video_stalled \in BOOLEAN
    /\ gstop \in BOOLEAN /\ consumer \in BOOLEAN

\* goggles_net/capture.rs:68-71: the link is given up for dead only when "nothing at all
\* -- not even a control packet" has come in for SESSION_QUIET_TIMEOUT.
DeadMeansSilence == pc = "dead" => wireAge >= SessionQuiet

\* A dead link never goes unnoticed: the loop is back in recv() only while
\* the silence is younger than the threshold, give or take one poll and the
\* time the datagrams read last spent in the queue.
SilenceIsNoticed ==
    pc = "recv" /\ inbox = <<>> => wireAge <= SessionQuiet + MaxWrite * MaxInbox

\* "Diagnostic only: logged once on each transition, never ends the session
\* by itself" (goggles_net/capture.rs:62-64): as long as control packets keep coming in
\* at least every VIDEO_QUIET_TIMEOUT, no silence of the video ends it.
QuietVideoIsNotFatal ==
    [][pc' = "dead" => ~ControlIsAlive]_vars

\* Back at the head of the loop, the hint says what the clocks say: it never
\* outlives the next unit, and once there has been video, quiet video beside
\* live control traffic never goes without it (goggles_net/capture.rs:201-213).
HintFollowsVideo ==
    pc = "recv" /\ waited = 0 =>
        /\ video_stalled => VideoIsQuiet
        /\ videoAge # {} /\ VideoIsQuiet /\ ControlIsAlive => video_stalled

\* A link on which nothing comes in any more ends the run.
DeadLinkEndsRun == <>[](wireAge >= SessionQuiet) => <>(pc \in Returned)

-----------------------------------------------------------------------------
(* What the repository says of the program and the code does not keep.     *)

\* systemd/orbit-rs.service:18-19: "on stop, both orbit-rs and its renderer
\* child get SIGTERM and shut down cleanly".
StopEndsRun == (gstop /\ ~consumer) ~> (pc \in Returned)
=============================================================================
