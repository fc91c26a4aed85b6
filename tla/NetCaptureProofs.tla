-------------------------- MODULE NetCaptureProofs --------------------------
(***************************************************************************)
(* Proofs about NetCapture, for all thresholds, write times and sockets.   *)
(*                                                                         *)
(* The loop decides by the ages of what it has read, the properties speak  *)
(* of what came in.  The two differ by the time datagrams lie in the       *)
(* socket, which is time spent in write_all(): ReadAfterWire says in which *)
(* direction, QueueIsShort by how much.                                    *)
(***************************************************************************)
EXTENDS NetCapture, SequenceTheorems, TLAPS

-----------------------------------------------------------------------------
\* The sink takes a unit in less than the session's threshold.
WritesAreShort == MaxWrite < SessionQuiet

\* How long recv() and write_all() may have been waiting.
WaitIsBounded ==
    /\ pc = "recv" => waited <= 1
    /\ pc = "write" => waited <= MaxWrite
    /\ pc = "check" => waited = 0

\* With nothing left in the socket, the last datagram was read no earlier
\* than it came; with something left, the last was read at most one write ago.
ReadAfterWire ==
    /\ inbox = <<>> => anyAge <= wireAge
    /\ pc = "write" => anyAge <= waited
    /\ pc = "check" /\ inbox # <<>> => anyAge <= MaxWrite

\* The time the datagrams read since the last arrival took to write.
Slack(n) == MaxWrite * (MaxInbox - n)

QueueIsShort ==
    /\ inbox = <<>> => wireAge <= anyAge + Slack(0)
    /\ inbox # <<>> /\ pc \in {"recv", "check"} =>
          wireAge <= Slack(Len(inbox)) + MaxWrite
    /\ inbox # <<>> /\ pc = "write" => wireAge <= Slack(Len(inbox)) + waited
    /\ pc = "recv" => anyAge < SessionQuiet + waited

\* The hint says what the clocks said at the last check.
HintIsKept ==
    /\ video_stalled => VideoIsQuiet
    /\ videoAge # {} => seen_video
    /\ HintFollowsVideo

Inv == TypeOK /\ WaitIsBounded /\ ReadAfterWire /\ QueueIsShort /\ HintIsKept

-----------------------------------------------------------------------------
LEMMA Constants ==
    /\ VideoQuiet \in Nat /\ SessionQuiet \in Nat \ {0} /\ VideoQuiet < SessionQuiet
    /\ MaxWrite \in Nat /\ MaxInbox \in Nat \ {0} /\ Slack(0) \in Nat
    /\ Cap \in Nat /\ Cap > SessionQuiet + Slack(0)
<1>1. MaxWrite * MaxInbox \in Nat
  BY NetCaptureAssumption
<1>2. Slack(0) = MaxWrite * MaxInbox
  BY NetCaptureAssumption DEF Slack
<1> QED
  BY <1>1, <1>2, NetCaptureAssumption DEF Cap

LEMMA SlackSteps ==
    ASSUME NEW n \in Nat, n < MaxInbox
    PROVE  /\ Slack(n) \in Nat /\ Slack(n + 1) \in Nat
           /\ Slack(n) = Slack(n + 1) + MaxWrite
<1>1. MaxWrite \in Nat /\ MaxInbox - n \in Nat /\ MaxInbox - (n + 1) \in Nat
  BY NetCaptureAssumption
<1>2. ASSUME NEW b \in Nat
      PROVE  MaxWrite * (b + 1) = MaxWrite * b + MaxWrite /\ MaxWrite * b \in Nat
  BY <1>1
<1> DEFINE b == MaxInbox - (n + 1)
<1>3. MaxInbox - n = b + 1 /\ b \in Nat
  BY <1>1, NetCaptureAssumption
<1>4. Slack(n) = MaxWrite * (b + 1) /\ Slack(n + 1) = MaxWrite * b
  BY <1>3 DEF Slack
<1>5. MaxWrite * (b + 1) = MaxWrite * b + MaxWrite /\ MaxWrite * b \in Nat
  BY <1>2, <1>3
<1> QED
  BY <1>1, <1>4, <1>5

LEMMA OlderAge ==
    ASSUME NEW a \in Ages
    PROVE  /\ Older(a) \in Ages /\ Older(a) \in Nat /\ a \in Nat
           /\ Older(a) >= a /\ Older(a) <= a + 1
           /\ \A b \in Ages : a <= b => Older(a) <= Older(b)
  BY Constants DEF Older, Ages

LEMMA InboxTail ==
    ASSUME TypeOK, inbox # <<>>
    PROVE  /\ Tail(inbox) \in Seq(Datagrams)
           /\ Len(inbox) \in Nat \ {0} /\ Len(Tail(inbox)) = Len(inbox) - 1
           /\ Tail(inbox) = <<>> => Len(inbox) = 1
           /\ Tail(inbox) # <<>> => Len(inbox) > 1
           /\ Head(inbox) \in Datagrams
<1>1. inbox \in Seq(Datagrams)
  BY DEF TypeOK
<1>2. Len(inbox) \in Nat \ {0} /\ Tail(inbox) \in Seq(Datagrams)
      /\ Len(Tail(inbox)) = Len(inbox) - 1 /\ Head(inbox) \in Datagrams
  BY <1>1, EmptySeq
<1>3. Tail(inbox) # <<>> => Len(Tail(inbox)) \in Nat \ {0}
  BY <1>2, EmptySeq
<1>4. Tail(inbox) = <<>> => Len(Tail(inbox)) = 0
  BY EmptySeq
<1> QED
  BY <1>2, <1>3, <1>4

LEMMA InvInit == Init => Inv
<1> SUFFICES ASSUME Init PROVE Inv
  OBVIOUS
<1> USE Constants DEF Init
<1>1. TypeOK
  <2>1. inbox \in Seq(Datagrams) /\ Len(inbox) <= MaxInbox
    OBVIOUS
  <2>2. 0 \in Ages /\ 0 \in 0..MaxWrite + 1
    BY DEF Ages, Cap
  <2> QED
    BY <2>1, <2>2 DEF TypeOK
<1>2. WaitIsBounded /\ ReadAfterWire /\ QueueIsShort
  BY DEF WaitIsBounded, ReadAfterWire, QueueIsShort
<1>3. HintIsKept
  BY DEF HintIsKept, HintFollowsVideo
<1> QED
  BY <1>1, <1>2, <1>3 DEF Inv

LEMMA ReceiveStep ==
    ASSUME Inv, Receive
    PROVE  Inv'
<1> USE Constants
<1>1. /\ TypeOK /\ QueueIsShort /\ HintIsKept /\ inbox # <<>>
  BY DEF Inv, Receive
<1> DEFINE d == Head(inbox)
<1>2. /\ pc = "recv" /\ inbox' = Tail(inbox) /\ waited' = 0 /\ anyAge' = 0
      /\ pc' = IF d = "unit" THEN "write" ELSE "check"
      /\ controlAge' = IF d = "control" THEN {0} ELSE controlAge
      /\ videoAge' = IF d = "unit" THEN {0} ELSE videoAge
      /\ seen_video' = (seen_video \/ d \in {"part", "unit"})
      /\ video_stalled' = (video_stalled /\ d # "unit")
      /\ UNCHANGED <<wireAge, gstop, consumer>>
  BY DEF Receive
<1> HIDE DEF d
<1>3. TypeOK'
  <2>1. inbox' \in Seq(Datagrams) /\ Len(inbox') <= MaxInbox
    BY <1>1, <1>2, InboxTail DEF TypeOK
  <2>2. controlAge' \in SUBSET (0 .. Cap) /\ videoAge' \in SUBSET (0 .. Cap)
    BY <1>1, <1>2 DEF TypeOK, Ages
  <2>3. seen_video' \in BOOLEAN /\ video_stalled' \in BOOLEAN
    BY <1>1, <1>2 DEF TypeOK
  <2> QED
    BY <1>1, <1>2, <2>1, <2>2, <2>3 DEF TypeOK, Ages
<1>4. wireAge \in Nat
  BY <1>1 DEF TypeOK, Ages
<1>5. WaitIsBounded' /\ ReadAfterWire'
  BY <1>2, <1>4 DEF WaitIsBounded, ReadAfterWire
<1>6. QueueIsShort'
  <2> DEFINE n == Len(inbox)
  <2>1. n \in Nat \ {0} /\ n <= MaxInbox /\ wireAge <= Slack(n) + MaxWrite
    BY <1>1, <1>2, InboxTail DEF TypeOK, QueueIsShort
  <2>2. n - 1 \in Nat /\ n - 1 < MaxInbox /\ (n - 1) + 1 = n
    BY <2>1
  <2>3. Slack(n - 1) = Slack(n) + MaxWrite /\ Slack(n - 1) \in Nat
    BY <2>2, SlackSteps
  <2>4. wireAge <= Slack(n - 1)
    BY <1>4, <2>1, <2>3
  <2>5. Len(inbox') = n - 1 /\ (inbox' = <<>> => n - 1 = 0)
    BY <1>1, <1>2, InboxTail
  <2>6. pc' # "recv"
    BY <1>2
  <2> HIDE DEF n, Slack
  <2> QED
    BY <1>2, <1>4, <2>3, <2>4, <2>5, <2>6 DEF QueueIsShort
<1>7. HintIsKept'
  <2>1. video_stalled' => VideoIsQuiet'
    BY <1>1, <1>2 DEF HintIsKept, VideoIsQuiet
  <2>2. videoAge' # {} => seen_video'
    BY <1>1, <1>2 DEF HintIsKept
  <2> QED
    BY <1>2, <2>1, <2>2 DEF HintIsKept, HintFollowsVideo
<1> QED
  BY <1>3, <1>5, <1>6, <1>7 DEF Inv

LEMMA CheckStep ==
    ASSUME Inv, Check
    PROVE  Inv'
<1> USE Constants
<1>1. /\ TypeOK /\ WaitIsBounded /\ ReadAfterWire /\ QueueIsShort /\ HintIsKept
      /\ pc = "check" /\ UNCHANGED <<waited, inbox, clocks, seen_video, wireAge, gstop, consumer>>
      /\ pc' \in {"dead", "recv"} /\ video_stalled' \in BOOLEAN
      /\ pc' = "recv" => /\ anyAge < SessionQuiet
                         /\ video_stalled' =
                               (video_stalled \/ (seen_video /\ VideoIsQuiet /\ ControlIsAlive))
      /\ pc' = "dead" => video_stalled' = video_stalled
  BY DEF Inv, Check, TypeOK
<1>2. TypeOK'
  BY <1>1 DEF TypeOK, clocks, Returned
<1>3. WaitIsBounded' /\ ReadAfterWire'
  BY <1>1 DEF WaitIsBounded, ReadAfterWire, clocks
<1>4. QueueIsShort'
  <2>1. anyAge \in Nat /\ waited = 0
    BY <1>1 DEF TypeOK, Ages, WaitIsBounded
  <2> QED
    BY <1>1, <2>1 DEF QueueIsShort, clocks
<1>5. VideoIsQuiet' = VideoIsQuiet /\ ControlIsAlive' = ControlIsAlive
  BY <1>1 DEF VideoIsQuiet, ControlIsAlive, clocks
<1>6. HintIsKept'
  BY <1>1, <1>5 DEF HintIsKept, HintFollowsVideo, clocks
<1> QED
  BY <1>2, <1>3, <1>4, <1>6 DEF Inv

LEMMA TickStep ==
    ASSUME Inv, Tick
    PROVE  Inv'
<1> USE Constants
<1>1. /\ TypeOK /\ WaitIsBounded /\ ReadAfterWire /\ QueueIsShort /\ HintIsKept
      /\ UNCHANGED <<pc, inbox, flags, gstop, consumer>>
      /\ \/ pc = "recv" /\ inbox = <<>> /\ waited < 1
         \/ pc = "write" /\ waited < MaxWrite
      /\ waited' = waited + 1 /\ anyAge' = Older(anyAge) /\ wireAge' = Older(wireAge)
      /\ controlAge' = {Older(a) : a \in controlAge}
      /\ videoAge' = {Older(a) : a \in videoAge}
  BY DEF Inv, Tick
<1>2. /\ anyAge \in Ages /\ wireAge \in Ages
      /\ waited \in Nat
      /\ controlAge \subseteq Ages /\ videoAge \subseteq Ages
      /\ \A a \in controlAge \cup videoAge : anyAge <= a
  BY <1>1 DEF TypeOK, Ages
<1>3. TypeOK'
  <2>1. controlAge' \in SUBSET (anyAge' .. Cap) /\ videoAge' \in SUBSET (anyAge' .. Cap)
    <3>1. \A a \in controlAge \cup videoAge : Older(a) \in Older(anyAge) .. Cap
      BY <1>2, OlderAge DEF Ages
    <3> QED
      BY <1>1, <3>1
  <2>2. anyAge' \in Ages /\ wireAge' \in Ages
    BY <1>1, <1>2, OlderAge
  <2>3. waited' \in 0 .. MaxWrite + 1
    BY <1>1, <1>2
  <2> QED
    BY <1>1, <2>1, <2>2, <2>3 DEF TypeOK, flags
<1>4. WaitIsBounded'
  BY <1>1, <1>2 DEF WaitIsBounded
<1>5. /\ anyAge' <= anyAge + 1 /\ wireAge' <= wireAge + 1 /\ anyAge' \in Nat /\ wireAge' \in Nat
      /\ anyAge \in Nat /\ wireAge \in Nat
      /\ anyAge <= wireAge => anyAge' <= wireAge'
  BY <1>1, <1>2, OlderAge
<1>6. ReadAfterWire'
  BY <1>1, <1>2, <1>5 DEF ReadAfterWire
<1>7. QueueIsShort'
  <2>1. inbox = <<>> => wireAge' <= anyAge' + Slack(0)
    <3>1. inbox = <<>> => wireAge <= anyAge + Slack(0)
      BY <1>1 DEF QueueIsShort
    <3>2. anyAge' = IF anyAge < Cap THEN anyAge + 1 ELSE anyAge
      BY <1>1 DEF Older
    <3>3. wireAge' <= Cap /\ anyAge <= Cap
      BY <1>1, <1>2, OlderAge DEF Ages
    <3> QED
      BY <1>5, <3>1, <3>2, <3>3
  <2>2. inbox # <<>> => pc = "write" /\ wireAge' <= Slack(Len(inbox)) + waited'
    <3>1. Len(inbox) \in Nat /\ Len(inbox) <= MaxInbox
      BY <1>1 DEF TypeOK
    <3>2. inbox # <<>> => Len(inbox) \in Nat \ {0}
      BY <1>1, EmptySeq DEF TypeOK
    <3>3. inbox # <<>> => Slack(Len(inbox)) \in Nat
      <4> SUFFICES ASSUME inbox # <<>> PROVE Slack(Len(inbox)) \in Nat
        OBVIOUS
      <4>1. Len(inbox) - 1 \in Nat /\ Len(inbox) - 1 < MaxInbox /\ (Len(inbox) - 1) + 1 = Len(inbox)
        BY <3>1, <3>2
      <4> QED
        BY <4>1, SlackSteps
    <3>4. inbox # <<>> => pc = "write" /\ wireAge <= Slack(Len(inbox)) + waited
      BY <1>1 DEF QueueIsShort
    <3> QED
      BY <1>1, <1>2, <1>5, <3>3, <3>4
  <2>3. pc = "recv" => anyAge' < SessionQuiet + waited'
    BY <1>1, <1>2, <1>5 DEF QueueIsShort
  <2> QED
    BY <1>1, <2>1, <2>2, <2>3 DEF QueueIsShort
<1>8. HintIsKept'
  <2>1. VideoIsQuiet => VideoIsQuiet'
    BY <1>1, <1>2, OlderAge DEF VideoIsQuiet
  <2>2. videoAge' # {} => videoAge # {}
    BY <1>1
  <2>3. waited' # 0
    BY <1>1, <1>2
  <2> QED
    BY <1>1, <2>1, <2>2, <2>3 DEF HintIsKept, HintFollowsVideo, flags
<1> QED
  BY <1>3, <1>4, <1>6, <1>7, <1>8 DEF Inv

LEMMA ArriveStep ==
    ASSUME Inv, Arrive
    PROVE  Inv'
<1> USE Constants
<1>1. /\ TypeOK /\ WaitIsBounded /\ ReadAfterWire /\ QueueIsShort /\ HintIsKept
      /\ pc \in {"recv", "write"} /\ Len(inbox) < MaxInbox /\ wireAge' = 0
      /\ UNCHANGED <<pc, waited, clocks, flags, gstop, consumer>>
  BY DEF Inv, Arrive
<1>2. PICK d \in Datagrams : inbox' = Append(inbox, d)
  BY DEF Arrive
<1>3. /\ inbox' \in Seq(Datagrams) /\ Len(inbox') = Len(inbox) + 1
      /\ Len(inbox) \in Nat /\ inbox' # <<>>
  <2>1. inbox \in Seq(Datagrams)
    BY <1>1 DEF TypeOK
  <2> QED
    BY <1>2, <2>1
<1>4. TypeOK'
  BY <1>1, <1>3 DEF TypeOK, clocks, flags, Ages
<1>5. WaitIsBounded' /\ ReadAfterWire'
  BY <1>1, <1>3 DEF WaitIsBounded, ReadAfterWire, clocks
<1>6. QueueIsShort'
  <2>1. Slack(Len(inbox) + 1) \in Nat /\ waited \in Nat
    BY <1>1, <1>3, SlackSteps DEF TypeOK
  <2> QED
    BY <1>1, <1>3, <2>1 DEF QueueIsShort, clocks
<1>7. HintIsKept'
  BY <1>1 DEF HintIsKept, HintFollowsVideo, VideoIsQuiet, ControlIsAlive, clocks, flags
<1> QED
  BY <1>4, <1>5, <1>6, <1>7 DEF Inv

LEMMA OtherStep ==
    ASSUME Inv,
           \/ PollElapsed \/ UnitWritten \/ OutputClosed \/ SocketError
           \/ StopSignal \/ ConsumerLeaves \/ UNCHANGED vars
    PROVE  Inv'
<1> USE Constants
<1>1. /\ TypeOK /\ WaitIsBounded /\ ReadAfterWire /\ QueueIsShort /\ HintIsKept
      /\ UNCHANGED <<inbox, clocks, flags, wireAge>>
      /\ gstop' \in BOOLEAN /\ consumer' \in BOOLEAN
  BY DEF Inv, TypeOK, PollElapsed, UnitWritten, OutputClosed, SocketError,
         StopSignal, ConsumerLeaves, vars
<1>2. \/ pc = "recv" /\ inbox = <<>> /\ pc' = "check" /\ waited' = 0
      \/ pc = "write" /\ pc' = "check" /\ waited' = 0
      \/ pc' = "lost" /\ waited' = waited
      \/ UNCHANGED <<pc, waited>>
  BY DEF PollElapsed, UnitWritten, OutputClosed, SocketError, StopSignal,
         ConsumerLeaves, vars
<1>3. TypeOK'
  BY <1>1, <1>2 DEF TypeOK, clocks, flags, Returned
<1>4. WaitIsBounded'
  BY <1>1, <1>2 DEF WaitIsBounded
<1>5. anyAge \in Nat /\ wireAge \in Nat /\ waited \in Nat
  BY <1>1 DEF TypeOK, Ages
<1>6. ReadAfterWire'
  BY <1>1, <1>2, <1>5 DEF WaitIsBounded, ReadAfterWire, clocks
<1>7. QueueIsShort'
  <2>1. inbox # <<>> => Slack(Len(inbox)) \in Nat
    <3> SUFFICES ASSUME inbox # <<>> PROVE Slack(Len(inbox)) \in Nat
      OBVIOUS
    <3>1. Len(inbox) \in Nat \ {0} /\ Len(inbox) <= MaxInbox
      BY <1>1, EmptySeq DEF TypeOK
    <3>2. Len(inbox) - 1 \in Nat /\ Len(inbox) - 1 < MaxInbox /\ (Len(inbox) - 1) + 1 = Len(inbox)
      BY <3>1
    <3> QED
      BY <3>2, SlackSteps
  <2> QED
    BY <1>1, <1>2, <1>5, <2>1 DEF WaitIsBounded, QueueIsShort, clocks
<1>8. VideoIsQuiet' = VideoIsQuiet /\ ControlIsAlive' = ControlIsAlive
  BY <1>1 DEF VideoIsQuiet, ControlIsAlive, clocks
<1>9. HintIsKept'
  BY <1>1, <1>2, <1>8 DEF HintIsKept, HintFollowsVideo, flags, clocks
<1> QED
  BY <1>3, <1>4, <1>6, <1>7, <1>9 DEF Inv

LEMMA InvStep ==
    ASSUME Inv, [Next]_vars
    PROVE  Inv'
  BY ReceiveStep, CheckStep, TickStep, ArriveStep, OtherStep DEF Next, Loop

-----------------------------------------------------------------------------
\* The receive loop keeps the invariant.
THEOREM Invariance == SafeSpec => []Inv
  BY InvInit, InvStep, PTL DEF SafeSpec

\* The clocks keep their types, and none is younger than the one that counts
\* from any datagram.
THEOREM TypeCorrect == SafeSpec => []TypeOK
<1>1. Inv => TypeOK
  BY DEF Inv
<1> QED
  BY <1>1, Invariance, PTL

\* A dead link is back in recv() at most a poll and the writes of a full
\* socket after its time was up.
THEOREM SilenceNoticed == SafeSpec => []SilenceIsNoticed
<1>1. Inv => SilenceIsNoticed
  <2> SUFFICES ASSUME Inv, pc = "recv", inbox = <<>>
               PROVE  wireAge <= SessionQuiet + MaxWrite * MaxInbox
    BY DEF SilenceIsNoticed
  <2>1. wireAge <= anyAge + Slack(0) /\ anyAge < SessionQuiet + waited /\ waited <= 1
    BY DEF Inv, QueueIsShort, WaitIsBounded
  <2>2. anyAge \in Nat /\ wireAge \in Nat /\ waited \in Nat
    BY Constants DEF Inv, TypeOK, Ages
  <2>3. Slack(0) = MaxWrite * MaxInbox
    BY Constants DEF Slack
  <2> QED
    BY <2>1, <2>2, <2>3, Constants
<1> QED
  BY <1>1, Invariance, PTL

\* Whatever the thresholds, the hint about quiet video says what the clocks
\* say each time the loop comes round.
THEOREM HintIsTrue == SafeSpec => []HintFollowsVideo
<1>1. Inv => HintFollowsVideo
  BY DEF Inv, HintIsKept
<1> QED
  BY <1>1, Invariance, PTL

\* Control packets at least every VIDEO_QUIET_TIMEOUT keep the session up.
THEOREM ControlKeepsAlive == SafeSpec => QuietVideoIsNotFatal
<1>1. ASSUME Inv, Next, pc' = "dead" PROVE ~ControlIsAlive
  <2>1. Check
    BY <1>1
    DEF Next, Loop, Receive, PollElapsed, UnitWritten, OutputClosed, SocketError,
        Arrive, Tick, StopSignal, ConsumerLeaves, Returned
  <2>2. anyAge >= SessionQuiet
    BY <1>1, <2>1 DEF Check
  <2>3. controlAge \subseteq anyAge .. Cap /\ anyAge \in Nat
    BY <1>1, Constants DEF Inv, TypeOK, Ages
  <2> QED
    BY <2>2, <2>3, Constants DEF ControlIsAlive
<1>2. Inv /\ [Next]_vars => [pc' = "dead" => ~ControlIsAlive]_vars
  BY <1>1
<1> QED
  BY <1>2, Invariance, PTL DEF SafeSpec, QuietVideoIsNotFatal

\* As long as the sink takes a unit in less than SESSION_QUIET_TIMEOUT, a
\* session is given up for dead only when nothing came in for that long.
THEOREM DeadIsSilent ==
    ASSUME WritesAreShort
    PROVE  SafeSpec => []DeadMeansSilence
<1>1. Init => DeadMeansSilence
  BY DEF Init, DeadMeansSilence
<1>2. Inv /\ DeadMeansSilence /\ [Next]_vars => DeadMeansSilence'
  <2> SUFFICES ASSUME Inv, DeadMeansSilence, [Next]_vars, pc' = "dead"
               PROVE  wireAge' >= SessionQuiet
    BY DEF DeadMeansSilence
  <2>1. CASE Check
    <3>1. /\ anyAge >= SessionQuiet /\ wireAge' = wireAge /\ pc = "check"
      BY <2>1 DEF Check
    <3>2. anyAge \in Nat /\ wireAge \in Nat
      BY Constants DEF Inv, TypeOK, Ages
    <3>3. inbox = <<>>
      BY <3>1, <3>2, Constants DEF Inv, ReadAfterWire, WritesAreShort
    <3> QED
      BY <3>1, <3>2, <3>3, Constants DEF Inv, ReadAfterWire
  <2>2. CASE ~Check
    <3>1. UNCHANGED <<pc, wireAge>>
      BY <2>2
      DEF Next, Loop, Receive, PollElapsed, UnitWritten, OutputClosed, SocketError,
          Arrive, Tick, StopSignal, ConsumerLeaves, Returned, vars
    <3> QED
      BY <3>1 DEF DeadMeansSilence
  <2> QED
    BY <2>1, <2>2
<1> QED
  BY <1>1, <1>2, Invariance, PTL DEF SafeSpec
=============================================================================
